\* Two processes; the calls of a round race for the lock of the memory file,
\* and the turns of both for the write lock of the database.
CONSTANTS
  p1 = p1
  p2 = p2
  r1 = r1
  r2 = r2
  w1 = w1
  w2 = w2
  Rounds <- MCRounds
  PoolOf <- MCPoolOf
  CallsOf <- MCCallsOf
  Workers = 2
  Writers <- MCWriters
  ProcessOf <- MCProcessOf
  OpOf <- MCOpOf
  RowsOf <- MCRowsOf
  Attempts = 2
  Nobody = Nobody
  Savers <- MCSavers
  HomeOf <- MCHomeOf
  Threats = {}
  Misread <- MCMisread
  Lines = 2
  Cut = Cut
  Free = Free
  Before <- MCBefore
  MayCrash = {p2}
  MayCancel = {r1}
SPECIFICATION FairSpec
INVARIANTS
  ResultsInOrder
  SavedIsKept
  BatchesAreWhole
  ReplyTellsTruth
PROPERTY TurnsEnd
\* the rounds and the writes come to an end
CHECK_DEADLOCK FALSE
