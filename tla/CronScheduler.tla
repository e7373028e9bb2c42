--------------------------- MODULE CronScheduler ----------------------------
(***************************************************************************)
(* The job table and the scheduler of internal/cron/cron.go.  The clock      *)
(* counts minutes; a ticker that nobody reads keeps one tick.  A job is a    *)
(* record that the table points to, and so does a tick that has collected    *)
(* it: deleting a job takes it out of the table and leaves the record.  Two  *)
(* of the five fields of a cron schedule are kept.  MaxJobs bounds the jobs  *)
(* that are created; at MaxTime the clock stands still and goes on ticking.  *)
(***************************************************************************)
EXTENDS Integers, FiniteSets

CONSTANTS
  Schedules,      \* the schedules that are asked for
  Minutes,        \* in an hour
  Hours,          \* in a day
  Horizon,        \* how far nextCron looks (a year)
  Slots,          \* jobs of a tick that run at a time (4)
  MaxJobs,
  MaxTime

(* A field is "*", "x/n" for any x, a number, or something else.             *)
Fields == [is : {"any", "step", "at", "other"}, n : Nat]

(* "30m" and "every 30m"; five fields; "every" and five fields; a time;      *)
(* anything else.                                                            *)
Kinds == {"duration", "cron", "everyCron", "once", "other"}

ASSUME CronAssumption ==
  /\ \A s \in Schedules :
       s \in [kind : Kinds, n : Int, minute : Fields, hour : Fields]
  /\ {Minutes, Hours, Horizon, Slots} \subseteq Nat \ {0}
  /\ MaxJobs \in Nat /\ MaxTime \in Nat

VARIABLES
  now,
  ticked,     \* the ticker's channel holds a tick
  table,      \* Store.jobs: the ids that are in it
  seq,        \* Store.seq
  job,        \* the records, by id
  sched,      \* Run: "waiting", in a "tick", or "returned"
  tickAt,     \* Tick's now
  due,        \* what Tick has collected and not started
  running,    \* started, and not rescheduled
  stop,       \* the scheduler's context is cancelled
  lastTick,   \* history: the tick that collected each job last
  runs,       \* history: how often each job has been started
  lateRuns    \* history: and how often after it was deleted

clockVars == <<now, ticked>>
tableVars == <<table, seq, job>>
tickVars  == <<sched, tickAt, due, running, stop>>
histVars  == <<lastTick, runs, lateRuns>>
cronVars == <<clockVars, tableVars, tickVars, histVars>>

Ids == 1 .. MaxJobs
Never == -1

NoJob == [schedule |-> [kind |-> "other", n |-> 0,
                        minute |-> [is |-> "any", n |-> 0],
                        hour |-> [is |-> "any", n |-> 0]],
          next |-> 0, interval |-> 0, enabled |-> FALSE]

CronInit ==
  /\ now = 0 /\ ticked = FALSE
  /\ table = {} /\ seq = 0
  /\ job = [i \in Ids |-> NoJob]
  /\ sched = "waiting" /\ tickAt = 0
  /\ due = {} /\ running = {}
  /\ stop = FALSE
  /\ lastTick = [i \in Ids |-> Never]
  /\ runs = [i \in Ids |-> 0]
  /\ lateRuns = [i \in Ids |-> 0]

-----------------------------------------------------------------------------
(* cronMatch: whatever stands before the slash of a step is not looked at,   *)
(* and a list or a range is not a number.                                    *)
FieldMatches(f, v) ==
  \/ f.is = "any"
  \/ f.is = "step" /\ f.n > 0 /\ v % f.n = 0
  \/ f.is = "at" /\ f.n = v

CronMatch(s, t) ==
  /\ FieldMatches(s.minute, t % Minutes)
  /\ FieldMatches(s.hour, (t \div Minutes) % Hours)

(* ParseSchedule: the next fire and the interval, or nothing.                *)
Matching(s, t) == {u \in t + 1 .. t + Horizon : CronMatch(s, u)}

Parsable(s, t) ==
  \/ s.kind = "duration" /\ s.n > 0
  \/ s.kind \in {"cron", "everyCron"} /\ Matching(s, t) # {}
  \/ s.kind = "once" /\ s.n >= t

Earliest(S) == CHOOSE u \in S : \A v \in S : u <= v

NextFire(s, t) ==
  CASE s.kind = "duration" -> t + s.n
    [] s.kind = "once"     -> s.n
    [] OTHER               -> Earliest(Matching(s, t))

Interval(s) == IF s.kind = "duration" THEN s.n ELSE 0

-----------------------------------------------------------------------------
(* What the cron tools do to the table, each under its lock.  A schedule     *)
(* that cannot be parsed is answered with an error.                          *)
Create(s) ==
  /\ seq < MaxJobs
  /\ Parsable(s, now)
  /\ seq' = seq + 1
  /\ table' = table \cup {seq + 1}
  /\ job' = [job EXCEPT ![seq + 1] =
               [schedule |-> s, next |-> NextFire(s, now),
                interval |-> Interval(s), enabled |-> TRUE]]
  /\ UNCHANGED <<clockVars, tickVars, histVars>>

Delete(i) ==
  /\ i \in table
  /\ table' = table \ {i}
  /\ UNCHANGED <<clockVars, seq, job, tickVars, histVars>>

-----------------------------------------------------------------------------
Clock ==
  /\ now' = IF now < MaxTime THEN now + 1 ELSE now
  /\ ticked' = TRUE
  /\ UNCHANGED <<tableVars, tickVars, histVars>>

IsDue(i) == job[i].enabled /\ job[i].next <= now

(* Tick collects what is due, under the lock. *)
Collect ==
  /\ sched = "waiting"
  /\ ticked
  /\ ticked' = FALSE
  /\ sched' = "tick"
  /\ tickAt' = now
  /\ due' = {i \in table : IsDue(i)}
  /\ lastTick' = [i \in Ids |-> IF i \in due' THEN now ELSE lastTick[i]]
  /\ UNCHANGED <<now, tableVars, running, stop, runs, lateRuns>>

(* One goroutine for each, four at a time.  It is not asked again whether    *)
(* the job is still in the table.                                            *)
StartJob(i) ==
  /\ i \in due
  /\ Cardinality(running) < Slots
  /\ due' = due \ {i}
  /\ running' = running \cup {i}
  /\ runs' = [runs EXCEPT ![i] = @ + 1]
  /\ lateRuns' = [lateRuns EXCEPT ![i] = IF i \in table THEN @ ELSE @ + 1]
  /\ UNCHANGED <<clockVars, tableVars, sched, tickAt, stop, lastTick>>

(* The run returns, with an error or without, and the job is rescheduled     *)
(* from the beginning of the tick.  Of the schedules without an interval     *)
(* only those of exactly five fields fire again.                             *)
Rescheduled_FromDue(i) ==
  IF job[i].interval > 0 THEN [job[i] EXCEPT !.next = @ + job[i].interval]
  ELSE [job[i] EXCEPT !.enabled = FALSE]
Rescheduled(i) ==
  IF job[i].interval > 0
    THEN [job[i] EXCEPT !.next = tickAt + job[i].interval]
  ELSE IF job[i].schedule.kind = "cron" /\ Parsable(job[i].schedule, tickAt)
    THEN [job[i] EXCEPT !.next = NextFire(job[i].schedule, tickAt)]
  ELSE [job[i] EXCEPT !.enabled = FALSE]

TableAfter_Restored(i) == table \cup {i}
TableAfter(i) == table

FreedBy_Nobody(i) == {}
FreedBy(i) == {i}

FinishJob(i) ==
  /\ i \in running
  /\ job' = [job EXCEPT ![i] = Rescheduled(i)]
  /\ table' = TableAfter(i)
  /\ running' = running \ FreedBy(i)
  /\ UNCHANGED <<clockVars, seq, sched, tickAt, due, stop, histVars>>

(* g.Wait *)
TickIsOver_Unawaited == due = {}
TickIsOver == due = {} /\ running = {}

EndTick ==
  /\ sched = "tick"
  /\ TickIsOver
  /\ sched' = "waiting"
  /\ UNCHANGED <<clockVars, tableVars, tickAt, due, running, stop, histVars>>

Stop ==
  /\ ~stop
  /\ stop' = TRUE
  /\ UNCHANGED <<clockVars, tableVars, sched, tickAt, due, running, histVars>>

RunReturns ==
  /\ sched = "waiting" /\ stop
  /\ sched' = "returned"
  /\ UNCHANGED <<clockVars, tableVars, tickAt, due, running, stop, histVars>>

-----------------------------------------------------------------------------
TickStep ==
  \/ EndTick
  \/ \E i \in Ids : StartJob(i) \/ FinishJob(i)

CronNext ==
  \/ \E s \in Schedules : Create(s)
  \/ \E i \in Ids : Delete(i)
  \/ Clock
  \/ Collect
  \/ TickStep
  \/ Stop
  \/ RunReturns

CronSpec == CronInit /\ [][CronNext]_cronVars

(* Goroutines run, what the jobs run returns, and the clock goes on.  A      *)
(* select takes a case that stays ready some time, though it may take the    *)
(* other one many times first.                                               *)
CronFairSpec ==
  /\ CronSpec
  /\ WF_cronVars(Clock) /\ WF_cronVars(TickStep)
  /\ SF_cronVars(Collect) /\ SF_cronVars(RunReturns)

-----------------------------------------------------------------------------
(* However late ticks are and however long runs take, a job is collected no  *)
(* sooner after it was collected last than its interval says, and a cron job *)
(* at most once a minute: missed fires are not made up for in a row.         *)
RunsAreSpaced ==
  [][\A i \in due' \ due :
       lastTick[i] # Never =>
         /\ tickAt' >= lastTick[i] + job[i].interval
         /\ tickAt' > lastTick[i]]_cronVars

(* A job does not run, or wait for a slot, twice at a time, whatever ticks   *)
(* come due while it runs.                                                   *)
NoOverlap == \A i \in Ids : i \in running => ~(i \in due)

(* A job that is deleted is started at most once more, by the tick that had  *)
(* collected it, and rescheduling does not bring it back.                    *)
DeletedRunsOnceMore == \A i \in Ids : lateRuns[i] <= 1

(* A job whose time has come runs, unless it is deleted first or the         *)
(* scheduler is told to stop.                                                *)
DueIsRun ==
  \A i \in Ids :
    i \in table /\ IsDue(i) ~> i \in running \/ i \notin table \/ stop
=============================================================================
