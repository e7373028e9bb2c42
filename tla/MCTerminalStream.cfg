\* Channels and pipes of one, and commands that fill them.
SPECIFICATION TermFairSpec
CONSTANTS
  stdout = stdout
  stderr = stderr
  Streams = {stdout, stderr}
  Scripts <- MCScripts
  LineCap = 3
  OutCap = 3
  PipeCap = 1
  ChanCap = 1
  NoChunk = NoChunk
INVARIANTS
  ClosedHasNoSender
  ScannedIsInTransit
PROPERTY TimeoutEndsCall
\* A call ends.
CHECK_DEADLOCK FALSE
