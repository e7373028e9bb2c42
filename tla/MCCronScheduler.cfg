\* Two jobs on one slot, so that one waits while the other runs; five minutes.
SPECIFICATION CronFairSpec
CONSTANTS
  Schedules <- MCSchedules
  Minutes = 2
  Hours = 2
  Horizon = 4
  Slots = 1
  MaxJobs = 2
  MaxTime = 4
INVARIANTS
  NoOverlap
  DeletedRunsOnceMore
PROPERTIES
  RunsAreSpaced
  DueIsRun
\* The clock and its ticks go on for ever, so that nothing could deadlock.
