\* Three messages in a text channel and a thread, one with a mention.
SPECIFICATION ConnFairSpec
CONSTANTS
  general = general
  thread = thread
  Channels = {general, thread}
  MaxMessages = 3
  ChannelOf <- MCChannelOf
  KindOf <- MCKindOf
  Ignored = {}
  Mentioning = {3}
  StaleAge = 1
INVARIANT OnceInOrder
PROPERTIES
  MessagesArrive
  CancelEndsRun
\* Run may have returned.
CHECK_DEADLOCK FALSE
