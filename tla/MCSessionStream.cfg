\* Late timers, overlapping flushes, the flush at the end of a turn, and a
\* client that reconnects, asks for one envelope or for all, and reloads.
SPECIFICATION StreamFairSpec
CONSTANTS
  token = token
  tool = tool
  k1 = k1
  k2 = k2
  k3 = k3
  Types = {token}
  Direct = {tool}
  Timers = {k1, k2, k3}
  MaxAdds = 4
  Turn = Turn
  NoTimer = NoTimer
  ReplayDepth = 2
  Events = {token, tool}
  Limits = {0, 2}
  MaxPushes = 4
INVARIANTS
  RingIsLogSuffix
  CaughtUpKnowsAll
PROPERTIES
  EverythingIsPublished
  ImplementsEventFeed
