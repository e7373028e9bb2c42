\* Three calls, one answer given twice, a server that wedges or exits.
SPECIFICATION FairSpec
CONSTANTS
  c1 = c1
  c2 = c2
  Callers = {c1, c2}
  PipeCap = 1
  MaxCalls = 3
  MaxTwice = 1
INVARIANTS
  OwnAnswer
  ReaderNeverWaits
PROPERTY CallsReturn
\* No calls are left when MaxCalls have been made.
CHECK_DEADLOCK FALSE
