\* Three updates, one of them ignored, with and without DropPending; two waits
\* on the conflict ladder; the process goes down once and is started again.
SPECIFICATION FairSpec
CONSTANTS
  MaxUpdates = 3
  Ignored = {2}
  Rungs = 2
  MaxEnds = 1
INVARIANT ConfirmedWasDispatched
PROPERTIES
  OncePerProcess
  UpdatesAreDispatched
  InterruptEndsRunner
\* The process may end for good.
CHECK_DEADLOCK FALSE
