---------------------------- MODULE ServerProofs -----------------------------
(***************************************************************************)
(* What a daemon does for all its sessions: the jobs of its scheduler, for   *)
(* any schedules, jobs, slots and clocks; the fan-out to its sockets, for    *)
(* any publishers, sockets and sessions.                                     *)
(***************************************************************************)
EXTENDS CronScheduler, Hub, FiniteSetTheorems, WellFoundedInduction, TLAPS

-----------------------------------------------------------------------------
(* Cron jobs *)

Jobs == [schedule : Schedules \cup {NoJob.schedule}, next : Int, interval : Int,
         enabled : BOOLEAN]

CronTyped ==
  /\ now \in Nat /\ tickAt \in Nat
  /\ seq \in 0 .. MaxJobs /\ table \subseteq 1 .. seq
  /\ job \in [Ids -> Jobs]
  /\ sched \in {"waiting", "tick", "returned"}
  /\ due \subseteq 1 .. seq /\ running \subseteq 1 .. seq
  /\ lastTick \in [Ids -> Int]
  /\ lateRuns \in [Ids -> Nat]

(* A tick waits for its jobs.                                                *)
TickOwnsRuns == sched # "tick" => due = {} /\ running = {}

(* An id whose job is deleted does not come back, and neither does what a    *)
(* tick had collected once it is started.                                    *)
LateOnce ==
  \A i \in Ids :
    /\ lateRuns[i] <= 1
    /\ i \in table \/ i \in due \/ i > seq =>
         lateRuns[i] = 0

(* Between the ticks a job is not due again before its time has passed.      *)
Spaced ==
  \A i \in Ids :
    /\ i > seq => lastTick[i] = Never
    /\ i \in due \cup running => lastTick[i] = tickAt
    /\ i \notin due \cup running /\ lastTick[i] # Never /\ job[i].enabled =>
         job[i].next >= lastTick[i] + job[i].interval /\ job[i].next > lastTick[i]

(* Jobs that fire at minutes of the clock have no interval.                  *)
CronHasNoInterval ==
  \A i \in Ids : job[i].interval > 0 => job[i].schedule.kind = "duration"

CronInv ==
  CronTyped /\ TickOwnsRuns /\ NoOverlap /\ LateOnce /\ Spaced /\ CronHasNoInterval

(* nextCron looks from the next minute on, and finds the earliest one.       *)
LEMMA EarliestIsLater ==
  ASSUME NEW s, NEW t \in Nat, Matching(s, t) # {}
  PROVE  Earliest(Matching(s, t)) \in Nat /\ Earliest(Matching(s, t)) > t
<1> DEFINE S == Matching(s, t)
<1>1. S \in SUBSET Nat /\ \A u \in S : u > t
  BY CronAssumption DEF Matching
<1> HIDE DEF S
<1>2. PICK m \in S : \A u \in S : ~(<<u, m>> \in OpToRel(<, Nat))
  BY <1>1, NatLessThanWellFounded, WFMin DEF S
<1>3. \A u \in S : m <= u
  <2>1. \A u \in S : ~(u < m)
    BY <1>1, <1>2 DEF OpToRel
  <2> QED BY <1>1, <2>1
<1>4. Earliest(S) \in S
  BY <1>3 DEF Earliest
<1> QED BY <1>1, <1>4 DEF S

(* What Create and Finish give a job. *)
LEMMA NextFireTyped ==
  ASSUME NEW s \in Schedules, NEW t \in Nat, Parsable(s, t)
  PROVE  /\ NextFire(s, t) \in Int
         /\ s.kind = "cron" => NextFire(s, t) > t
         /\ Interval(s) \in Int
         /\ Interval(s) > 0 => s.kind = "duration"
<1>1. s.n \in Int /\ s.kind \in Kinds
  BY CronAssumption
<1>2. CASE s.kind = "duration"
  <2>1. NextFire(s, t) = t + s.n
    BY <1>2 DEF NextFire
  <2> QED BY <1>1, <1>2, <2>1 DEF Interval
<1>3. CASE s.kind = "once"
  <2>1. NextFire(s, t) = s.n
    BY <1>3 DEF NextFire
  <2> QED BY <1>1, <1>3, <2>1 DEF Interval
<1>4. CASE s.kind \in {"cron", "everyCron"}
  <2>1. NextFire(s, t) = Earliest(Matching(s, t)) /\ Matching(s, t) # {}
    BY <1>4 DEF NextFire, Parsable
  <2> QED BY <1>4, <2>1, EarliestIsLater DEF Interval
<1> QED BY <1>1, <1>2, <1>3, <1>4 DEF Parsable, Kinds

LEMMA CronInitInv == CronInit => CronInv
<1> SUFFICES ASSUME CronInit PROVE CronInv
  OBVIOUS
<1>1. NoJob \in Jobs /\ NoJob.interval = 0
  BY DEF NoJob, Jobs
<1>2. CronTyped
  BY <1>1, CronAssumption DEF CronInit, CronTyped, Never
<1>3. TickOwnsRuns /\ NoOverlap
  BY DEF CronInit, TickOwnsRuns, NoOverlap
<1>4. LateOnce /\ Spaced
  BY DEF CronInit, LateOnce, Spaced, Ids
<1>5. CronHasNoInterval
  BY <1>1 DEF CronInit, CronHasNoInterval
<1> QED BY <1>2, <1>3, <1>4, <1>5 DEF CronInv

LEMMA CreateKeeps ==
  ASSUME CronInv, NEW s \in Schedules, Create(s)
  PROVE  CronInv'
<1> DEFINE i == seq + 1
<1> DEFINE new == [schedule |-> s, next |-> NextFire(s, now),
                   interval |-> Interval(s), enabled |-> TRUE]
<1>1. /\ seq \in 0 .. MaxJobs /\ seq < MaxJobs /\ MaxJobs \in Nat
      /\ Parsable(s, now) /\ now \in Nat
      /\ seq' = i /\ table' = table \cup {i}
      /\ job' = [job EXCEPT ![i] = new]
      /\ UNCHANGED <<now, tickAt, sched, due, running, lastTick, runs, lateRuns>>
  BY CronAssumption DEF Create, CronInv, CronTyped, clockVars, tickVars, histVars
<1>2. i \in Ids /\ 1 .. seq \subseteq 1 .. i /\ i \in 1 .. i /\ i > seq /\ i \in 0 .. MaxJobs
  BY <1>1 DEF Ids
<1>3. new \in Jobs /\ (new.interval > 0 => new.schedule.kind = "duration")
  BY <1>1, NextFireTyped DEF Jobs
<1>4. \A k \in Ids : k > i => k > seq
  BY <1>1 DEF Ids
<1> HIDE DEF i, new
<1>5. CronTyped'
  <2>1. table' \subseteq 1 .. i /\ due' \subseteq 1 .. i /\ running' \subseteq 1 .. i
    BY <1>1, <1>2 DEF CronInv, CronTyped
  <2>2. job' \in [Ids -> Jobs]
    BY <1>1, <1>2, <1>3 DEF CronInv, CronTyped
  <2> QED BY <1>1, <1>2, <2>1, <2>2 DEF CronInv, CronTyped
<1>6. TickOwnsRuns' /\ NoOverlap'
  BY <1>1 DEF CronInv, TickOwnsRuns, NoOverlap
<1>7. LateOnce'
  BY <1>1, <1>2, <1>4 DEF CronInv, LateOnce
<1>8. \A k \in Ids : k # i => job'[k] = job[k]
  BY <1>1 DEF CronInv, CronTyped
<1>9. Spaced'
  <2>1. lastTick[i] = Never
    BY <1>2 DEF CronInv, Spaced
  <2> QED BY <1>1, <1>4, <1>8, <2>1 DEF CronInv, Spaced
<1>10. CronHasNoInterval'
  BY <1>1, <1>2, <1>3, <1>8 DEF CronInv, CronTyped, CronHasNoInterval
<1> QED BY <1>5, <1>6, <1>7, <1>9, <1>10 DEF CronInv

(* Tick collects a job when its time has come, no sooner than it is allowed. *)
LEMMA CollectIsSpaced ==
  ASSUME CronInv, Collect, NEW i \in due', lastTick[i] # Never
  PROVE  tickAt' >= lastTick[i] + job[i].interval /\ tickAt' > lastTick[i]
<1>1. /\ i \in table /\ job[i].enabled /\ job[i].next <= now
      /\ tickAt' = now /\ due = {} /\ running = {}
  BY DEF Collect, IsDue, CronInv, TickOwnsRuns
<1>2. i \in Ids
  BY <1>1, CronAssumption DEF CronInv, CronTyped, Ids
<1>3. job[i].next >= lastTick[i] + job[i].interval /\ job[i].next > lastTick[i]
  BY <1>1, <1>2 DEF CronInv, Spaced
<1>4. job[i].next \in Int /\ job[i].interval \in Int /\ lastTick[i] \in Int /\ now \in Int
  BY <1>2 DEF CronInv, CronTyped, Jobs
<1> QED BY <1>1, <1>3, <1>4

LEMMA CollectKeeps ==
  ASSUME CronInv, Collect
  PROVE  CronInv'
<1>1. /\ sched = "waiting" /\ sched' = "tick" /\ tickAt' = now
      /\ due' \subseteq table /\ due = {} /\ running = {}
      /\ lastTick' = [i \in Ids |-> IF i \in due' THEN now ELSE lastTick[i]]
      /\ UNCHANGED <<now, seq, table, job, running, lateRuns>>
  BY DEF Collect, CronInv, TickOwnsRuns, tableVars
<1>2. CronTyped'
  BY <1>1 DEF CronInv, CronTyped
<1>3. TickOwnsRuns' /\ NoOverlap'
  BY <1>1 DEF TickOwnsRuns, NoOverlap
<1>4. LateOnce'
  BY <1>1 DEF CronInv, LateOnce
<1>5. Spaced'
  <2>1. \A i \in Ids : i > seq => i \notin due'
    <3>1. due' \subseteq 1 .. seq
      BY <1>1 DEF CronInv, CronTyped
    <3> QED BY <3>1, CronAssumption DEF Ids, CronInv, CronTyped
  <2> QED BY <1>1, <2>1 DEF CronInv, Spaced
<1>6. CronHasNoInterval'
  BY <1>1 DEF CronInv, CronHasNoInterval
<1> QED BY <1>2, <1>3, <1>4, <1>5, <1>6 DEF CronInv

LEMMA StartJobKeeps ==
  ASSUME CronInv, NEW i \in Ids, StartJob(i)
  PROVE  CronInv'
<1>1. /\ i \in due /\ due' = due \ {i} /\ running' = running \cup {i}
      /\ lateRuns' = [lateRuns EXCEPT ![i] = IF i \in table THEN @ ELSE @ + 1]
      /\ UNCHANGED <<now, seq, table, job, sched, tickAt, lastTick>>
  BY DEF StartJob, clockVars, tableVars
<1>2. CronTyped'
  BY <1>1 DEF CronInv, CronTyped
<1>3. TickOwnsRuns' /\ NoOverlap'
  BY <1>1 DEF CronInv, TickOwnsRuns, NoOverlap
<1>4. LateOnce'
  <2>1. lateRuns[i] = 0 /\ ~(i > seq)
    BY <1>1 DEF CronInv, CronTyped, LateOnce
  <2>2. \A k \in Ids : lateRuns'[k] = IF k = i /\ i \notin table THEN 1 ELSE lateRuns[k]
    BY <1>1, <2>1 DEF CronInv, CronTyped
  <2> QED BY <1>1, <2>1, <2>2 DEF CronInv, LateOnce
<1>5. Spaced'
  BY <1>1 DEF CronInv, Spaced
<1>6. CronHasNoInterval'
  BY <1>1 DEF CronInv, CronHasNoInterval
<1> QED BY <1>2, <1>3, <1>4, <1>5, <1>6 DEF CronInv

(* The job is rescheduled from its own tick. *)
LEMMA FinishJobKeeps ==
  ASSUME CronInv, NEW i \in Ids, FinishJob(i)
  PROVE  CronInv'
<1>1. /\ i \in running /\ running' = running \ {i}
      /\ job' = [job EXCEPT ![i] = Rescheduled(i)]
      /\ UNCHANGED <<now, seq, table, sched, tickAt, due, lastTick, lateRuns>>
  BY DEF FinishJob, TableAfter, FreedBy, clockVars, histVars
<1>2. job[i] \in Jobs /\ tickAt \in Nat /\ lastTick[i] = tickAt /\ i \notin due
  BY <1>1 DEF CronInv, CronTyped, Spaced, NoOverlap
<1>3. /\ Rescheduled(i) \in Jobs
      /\ Rescheduled(i).schedule = job[i].schedule
      /\ Rescheduled(i).interval = job[i].interval
      /\ Rescheduled(i).enabled => /\ Rescheduled(i).next >= tickAt + job[i].interval
                                   /\ Rescheduled(i).next > tickAt
  <2>1. CASE job[i].interval > 0
    BY <1>2, <2>1 DEF Rescheduled, Jobs
  <2>2. CASE /\ ~(job[i].interval > 0)
             /\ job[i].schedule.kind = "cron" /\ Parsable(job[i].schedule, tickAt)
    <3>1. job[i].schedule \in Schedules
      BY <1>2, <2>2 DEF Jobs, NoJob
    <3>2. /\ NextFire(job[i].schedule, tickAt) \in Int
          /\ NextFire(job[i].schedule, tickAt) > tickAt
      BY <1>2, <2>2, <3>1, NextFireTyped
    <3>3. Rescheduled(i) = [job[i] EXCEPT !.next = NextFire(job[i].schedule, tickAt)]
      BY <2>2 DEF Rescheduled
    <3> QED BY <1>2, <2>2, <3>2, <3>3 DEF Jobs
  <2>3. CASE /\ ~(job[i].interval > 0)
             /\ ~(job[i].schedule.kind = "cron" /\ Parsable(job[i].schedule, tickAt))
    <3>1. Rescheduled(i) = [job[i] EXCEPT !.enabled = FALSE]
      BY <2>3 DEF Rescheduled
    <3> QED BY <1>2, <3>1 DEF Jobs
  <2> QED BY <2>1, <2>2, <2>3
<1>4. /\ \A k \in Ids : k # i => job'[k] = job[k]
      /\ job'[i] = Rescheduled(i) /\ job' \in [Ids -> Jobs]
  BY <1>1, <1>3 DEF CronInv, CronTyped
<1>5. CronTyped'
  BY <1>1, <1>4 DEF CronInv, CronTyped
<1>6. TickOwnsRuns' /\ NoOverlap' /\ LateOnce'
  BY <1>1 DEF CronInv, TickOwnsRuns, NoOverlap, LateOnce
<1>7. Spaced'
  <2>1. ASSUME NEW k \in Ids, k # i
        PROVE  /\ k > seq => lastTick[k] = Never
               /\ k \in due' \cup running' => lastTick[k] = tickAt
               /\ k \notin due' \cup running' /\ lastTick[k] # Never /\ job'[k].enabled =>
                    job'[k].next >= lastTick[k] + job'[k].interval /\ job'[k].next > lastTick[k]
    BY <1>1, <1>4, <2>1 DEF CronInv, Spaced
  <2>2. /\ i > seq => lastTick[i] = Never
        /\ i \notin due' \cup running'
        /\ job'[i].enabled =>
             job'[i].next >= lastTick[i] + job'[i].interval /\ job'[i].next > lastTick[i]
    BY <1>1, <1>2, <1>3, <1>4 DEF CronInv, Spaced
  <2> QED BY <1>1, <2>1, <2>2 DEF Spaced
<1>8. CronHasNoInterval'
  BY <1>3, <1>4 DEF CronInv, CronHasNoInterval
<1> QED BY <1>5, <1>6, <1>7, <1>8 DEF CronInv

LEMMA CronNextInv == CronInv /\ [CronNext]_cronVars => CronInv'
<1> SUFFICES ASSUME CronInv, [CronNext]_cronVars PROVE CronInv'
  OBVIOUS
<1>1. ASSUME NEW s \in Schedules, Create(s) PROVE CronInv'
  BY <1>1, CreateKeeps
<1>2. ASSUME NEW i \in Ids, Delete(i) PROVE CronInv'
  <2>1. table' \subseteq table
        /\ UNCHANGED <<now, tickAt, seq, job, sched, due, running, lastTick, lateRuns>>
    BY <1>2 DEF Delete, clockVars, tickVars, histVars
  <2> QED BY <2>1 DEF CronInv, CronTyped, TickOwnsRuns, NoOverlap, LateOnce, Spaced,
                      CronHasNoInterval
<1>3. CASE Clock
  <2>1. now' \in Nat
        /\ UNCHANGED <<table, tickAt, seq, job, sched, due, running, lastTick, lateRuns>>
    BY <1>3 DEF Clock, CronInv, CronTyped, tableVars, tickVars, histVars
  <2> QED BY <2>1 DEF CronInv, CronTyped, TickOwnsRuns, NoOverlap, LateOnce, Spaced,
                      CronHasNoInterval
<1>4. CASE Collect
  BY <1>4, CollectKeeps
<1>5. ASSUME NEW i \in Ids, StartJob(i) PROVE CronInv'
  BY <1>5, StartJobKeeps
<1>6. ASSUME NEW i \in Ids, FinishJob(i) PROVE CronInv'
  BY <1>6, FinishJobKeeps
<1>7. CASE EndTick \/ Stop \/ RunReturns \/ UNCHANGED cronVars
  <2>1. /\ UNCHANGED <<now, table, tickAt, seq, job, due, running, lastTick, lateRuns>>
        /\ sched' \in {"waiting", "tick", "returned"}
        /\ sched' # "tick" => due = {} /\ running = {}
    BY <1>7 DEF EndTick, TickIsOver, Stop, RunReturns, CronInv, CronTyped, TickOwnsRuns,
                cronVars, clockVars, tableVars, tickVars, histVars
  <2> QED BY <2>1 DEF CronInv, CronTyped, TickOwnsRuns, NoOverlap, LateOnce, Spaced,
                      CronHasNoInterval
<1> QED BY <1>1, <1>2, <1>3, <1>4, <1>5, <1>6, <1>7 DEF CronNext, TickStep

(* The invariant of the job table and of the ticks. *)
THEOREM CronInvariant == CronSpec => []CronInv
BY CronInitInv, CronNextInv, PTL DEF CronSpec

(* Tick, runJob: no job overlaps itself, since a tick waits for its jobs.     *)
THEOREM JobsDoNotOverlap == CronSpec => []NoOverlap
<1>1. CronInv => NoOverlap
  BY DEF CronInv
<1> QED BY <1>1, CronInvariant, PTL

(* Delete: a job that was deleted is started once more at most.               *)
THEOREM DeletedJobsStop == CronSpec => []DeletedRunsOnceMore
<1>1. CronInv => DeletedRunsOnceMore
  BY DEF CronInv, LateOnce, DeletedRunsOnceMore
<1> QED BY <1>1, CronInvariant, PTL

(* Tick, nextCron: runs of a job keep the distance of its schedule, whatever  *)
(* the schedule is and however late a tick comes.                             *)
THEOREM JobsAreSpaced == CronSpec => RunsAreSpaced
<1> DEFINE A == \A i \in due' \ due :
                  lastTick[i] # Never =>
                    /\ tickAt' >= lastTick[i] + job[i].interval
                    /\ tickAt' > lastTick[i]
<1>1. CronInv /\ [CronNext]_cronVars => [A]_cronVars
  <2> SUFFICES ASSUME CronInv, CronNext, NEW i \in due' \ due, lastTick[i] # Never
               PROVE  tickAt' >= lastTick[i] + job[i].interval /\ tickAt' > lastTick[i]
    OBVIOUS
  <2>1. CASE Collect
    BY <2>1, CollectIsSpaced
  <2>2. CASE ~Collect
    BY <2>2 DEF CronNext, Create, Delete, Clock, TickStep, EndTick, StartJob, FinishJob,
                Stop, RunReturns, tickVars
  <2> QED BY <2>1, <2>2
<1> QED BY <1>1, CronInvariant, PTL DEF CronSpec, RunsAreSpaced

-----------------------------------------------------------------------------
(* What Publish has under way. *)
PubStates ==
  [pc : {"idle", "subs", "all"}, env : [sess : Keys, seq : Nat],
   subsRef : BOOLEAN, allRef : BOOLEAN, seen : SUBSET Conns, owed : SUBSET Conns]

ConnStates == {"off", "joining", "on", "leaving", "gone"}

HubTyped ==
  /\ rings = [s \in Sessions |-> rings[s]] /\ \A s \in Sessions : rings[s].next \in Nat
  /\ subs \in [Keys -> SUBSET Conns] /\ made \subseteq Keys
  /\ pub \in [Publishers -> PubStates]
  /\ cpc \in [Conns -> ConnStates]
  /\ offers \in [Conns -> [Envelopes -> Nat]]

(* A socket that has not hung up. *)
Live(c) == cpc[c] \in {"off", "joining", "on"}

Serving(c) == cpc[c] \in {"joining", "on"}

(* Who stands in which map: a socket that is being served in that of its      *)
(* session, and none in a map of another session; only the one whose          *)
(* Unsubscribe holds the lock is taken out.                                   *)
Registered ==
  /\ \A k \in Keys : k \notin made => subs[k] = {}
  /\ \A c \in Conns :
       /\ lock = c => cpc[c] = "leaving"
       /\ \A k \in Keys : c \in subs[k] => k \in {SessOf[c], Star} /\ cpc[c] # "off"
       /\ Serving(c) => c \in subs[SessOf[c]]

(* Publishers that are under way have numbers of their own, and nobody has    *)
(* been offered what is not numbered yet.                                     *)
Numbered ==
  /\ \A p \in Publishers : pub[p].pc # "idle" =>
       /\ pub[p].env \in Envelopes
       /\ pub[p].env.seq <= rings[pub[p].env.sess].next
       /\ \A q \in Publishers \ {p} : pub[q].pc # "idle" => pub[q].env # pub[p].env
  /\ \A c \in Conns, e \in Envelopes : e.seq > rings[e.sess].next => offers[c][e] = 0

(* What a live socket has been offered by a publisher that is under way: the  *)
(* range over subs has seen the socket and it is still in that map.           *)
OfferIsKnown(p, c) ==
  offers[c][pub[p].env] # 0 =>
    /\ pub[p].pc = "subs" => c \in pub[p].seen
    /\ \/ pub[p].pc = "all" /\ c \in pub[p].seen
       \/ pub[p].subsRef /\ c \in subs[pub[p].env.sess]

AtMostOnce ==
  \A c \in Conns : Live(c) =>
    /\ \A e \in Envelopes : offers[c][e] <= 1
    /\ \A p \in Publishers : pub[p].pc # "idle" => OfferIsKnown(p, c)

(* A socket to which an envelope is owed has it, or will be met by the range  *)
(* that is under way or by the next.                                          *)
OwedBySubs(p, c) ==
  IF pub[p].env.sess = SessOf[c]
  THEN pub[p].subsRef /\ (c \in pub[p].seen => offers[c][pub[p].env] >= 1)
  ELSE pub[p].allRef /\ c \in subs[Star]

OwedByAll(p, c) ==
  \/ offers[c][pub[p].env] >= 1
  \/ /\ pub[p].env.sess # SessOf[c]
     /\ pub[p].allRef /\ c \in subs[Star] /\ c \notin pub[p].seen

OwedComes ==
  \A p \in Publishers : pub[p].pc # "idle" =>
    \A c \in pub[p].owed :
      /\ cpc[c] # "off"
      /\ Serving(c) /\ pub[p].pc = "subs" => OwedBySubs(p, c)
      /\ Serving(c) /\ pub[p].pc = "all" => OwedByAll(p, c)

HubInv == HubTyped /\ Registered /\ Numbered /\ AtMostOnce /\ OwedComes

-----------------------------------------------------------------------------
(* What the guard of Publish's bound says of the ring.                        *)
LEMMA RoomForOne ==
  ASSUME HubTyped, Cardinality(Published) < MaxPublished, NEW s \in Sessions
  PROVE  rings[s].next + 1 \in 1 .. MaxPublished
  <1> DEFINE n == rings[s].next
  <1>1. n \in Nat /\ MaxPublished \in Nat
    BY HubAssumption DEF HubTyped
  <1>2. SUFFICES ASSUME n >= MaxPublished
                 PROVE  FALSE
    BY <1>1
  <1> DEFINE own == 1 .. MaxPublished
             f == [x \in own |-> [sess |-> s, seq |-> x]]
  <1>3. IsFiniteSet(own) /\ Cardinality(own) = MaxPublished
    BY <1>1, FS_Interval
  <1>4. IsFiniteSet(Published)
    <2> DEFINE g == [x \in Sessions \X (1 .. MaxPublished) |-> [sess |-> x[1], seq |-> x[2]]]
    <2>1. IsFiniteSet(Sessions \X (1 .. MaxPublished))
      <3>1. IsFiniteSet(1 .. MaxPublished)
        BY <1>1, FS_Interval
      <3> QED
        BY <3>1, HubAssumption, FS_Product
    <2>2. \A e \in Envelopes : \E x \in Sessions \X (1 .. MaxPublished) : g[x] = e
      <3> TAKE e \in Envelopes
      <3>1. <<e.sess, e.seq>> \in Sessions \X (1 .. MaxPublished)
        BY DEF Envelopes
      <3>2. g[<<e.sess, e.seq>>] = e
        BY <3>1 DEF Envelopes
      <3> QED
        BY <3>1, <3>2
    <2>3. g \in Surjection(Sessions \X (1 .. MaxPublished), Envelopes)
      <3>1. g \in [Sessions \X (1 .. MaxPublished) -> Envelopes]
        BY DEF Envelopes
      <3> HIDE DEF g
      <3> QED
        BY <2>2, <3>1 DEF Surjection
    <2> HIDE DEF g
    <2>4. IsFiniteSet(Envelopes)
      BY <2>1, <2>3, FS_Surjection
    <2> QED
      BY <2>4, FS_Subset DEF Published
  <1>5. f \in Injection(own, Published)
    <2>1. f \in [own -> Published]
      <3> SUFFICES ASSUME NEW x \in own
                   PROVE  [sess |-> s, seq |-> x] \in Published
        OBVIOUS
      <3> QED
        BY <1>1, <1>2 DEF Published, Envelopes
    <2>2. \A x, y \in own : f[x] = f[y] => x = y
      OBVIOUS
    <2> HIDE DEF own, f
    <2> QED
      BY <2>1, <2>2 DEF Injection, IsInjective
  <1> HIDE DEF own, f, n
  <1>6. Cardinality(own) <= Cardinality(Published)
    BY <1>4, <1>5, FS_Injection
  <1>7. Cardinality(Published) \in Nat
    BY <1>4, FS_CardinalityType
  <1> QED
    BY <1>1, <1>3, <1>6, <1>7

-----------------------------------------------------------------------------
(* What a range that has come to a socket writes down.                        *)
LEMMA SeenIsKept ==
  ASSUME HubTyped, NEW p \in Publishers, NEW c \in Conns, See(p, c)
  PROVE  /\ pub'[p].pc = pub[p].pc /\ pub'[p].env = pub[p].env
         /\ pub'[p].subsRef = pub[p].subsRef /\ pub'[p].allRef = pub[p].allRef
         /\ pub'[p].owed = pub[p].owed /\ pub'[p].seen = pub[p].seen \cup {c}
         /\ \A q \in Publishers \ {p} : pub'[q] = pub[q]
         /\ pub' \in [Publishers -> PubStates]
  <1> DEFINE r == [pub[p] EXCEPT !.seen = @ \cup {c}]
  <1>1. pub \in [Publishers -> PubStates]
    BY DEF HubTyped
  <1>2. pub' = [pub EXCEPT ![p] = r]
    BY DEF See
  <1>3. r \in PubStates
    BY <1>1 DEF PubStates
  <1>4. /\ r.pc = pub[p].pc /\ r.env = pub[p].env
        /\ r.subsRef = pub[p].subsRef /\ r.allRef = pub[p].allRef
        /\ r.owed = pub[p].owed /\ r.seen = pub[p].seen \cup {c}
    BY <1>1 DEF PubStates
  <1> HIDE DEF r
  <1>5. pub'[p] = r /\ \A q \in Publishers \ {p} : pub'[q] = pub[q]
    BY <1>1, <1>2
  <1>6. pub' \in [Publishers -> PubStates]
    BY <1>1, <1>2, <1>3
  <1> QED
    BY <1>4, <1>5, <1>6

(* The locked part of Publish: an envelope with a number of its own.          *)
LEMMA NumberKeeps ==
  ASSUME HubInv, NEW p \in Publishers, NEW s \in Sessions, Number(p, s)
  PROVE  HubInv'
  <1> DEFINE e == [sess |-> s, seq |-> rings[s].next + 1]
  <1>1. /\ HubTyped /\ Registered /\ Numbered /\ AtMostOnce /\ OwedComes
        /\ s \in Keys /\ Star \in Keys
    BY DEF HubInv, Keys
  <1>2. /\ rings[s].next + 1 \in 1 .. MaxPublished /\ rings[s].next \in Nat
    BY <1>1, RoomForOne DEF Number, HubTyped
  <1>3. e \in Envelopes
    BY <1>2 DEF Envelopes
  <1>4. /\ rings' = [rings EXCEPT ![s] = Push(rings[s], s)]
        /\ Push(rings[s], s).next = rings[s].next + 1
        /\ pub[p].pc = "idle"
        /\ UNCHANGED <<subs, made, lock, cpc, offers>>
        /\ pub' = [pub EXCEPT ![p] =
             [pc |-> "subs", env |-> e, subsRef |-> s \in made, allRef |-> Star \in made,
              seen |-> {}, owed |-> subs[s] \cup subs[Star]]]
    BY DEF Number, Push, Last, connVars, feedVars
  <1>5. /\ \A t \in Sessions : rings'[t].next = IF t = s THEN rings[s].next + 1 ELSE rings[t].next
        /\ rings' = [t \in Sessions |-> rings'[t]]
    BY <1>1, <1>4 DEF HubTyped
  <1>6. /\ pub'[p].pc = "subs" /\ pub'[p].env = e /\ pub'[p].seen = {}
        /\ pub'[p].subsRef = (s \in made) /\ pub'[p].allRef = (Star \in made)
        /\ pub'[p].owed = subs[s] \cup subs[Star]
        /\ \A q \in Publishers \ {p} : pub'[q] = pub[q]
    BY <1>1, <1>4 DEF HubTyped
  <1>7. \A c \in Conns : offers[c][e] = 0
    <2>1. e.seq > rings[e.sess].next
      BY <1>2
    <2> QED
      BY <1>1, <1>3, <2>1 DEF Numbered
  <1> HIDE DEF e
  <1>8. HubTyped'
    <2>1. pub' \in [Publishers -> PubStates]
      <3>1. subs[s] \cup subs[Star] \in SUBSET Conns
        BY <1>1 DEF HubTyped
      <3>2. e \in [sess : Keys, seq : Nat]
        BY <1>1, <1>2 DEF e
      <3> QED
        BY <1>1, <1>4, <3>1, <3>2 DEF HubTyped, PubStates
    <2> QED
      BY <1>1, <1>2, <1>4, <1>5, <2>1 DEF HubTyped
  <1>9. Registered'
    BY <1>1, <1>4 DEF Registered, Serving
  <1>10. Numbered'
    <2>1. \A f \in Envelopes : f.sess \in Sessions /\ f.seq \in Nat
      BY DEF Envelopes
    <2>2. e.sess = s /\ e.seq = rings[s].next + 1
      BY DEF e
    <2>3. \A q \in Publishers \ {p} : pub[q].pc # "idle" => pub[q].env # e
      BY <1>1, <1>2, <2>2 DEF Numbered
    <2>4. \A t \in Sessions : rings[t].next \in Nat
      BY <1>1 DEF HubTyped
    <2>5. ASSUME NEW c \in Conns, NEW f \in Envelopes, f.seq > rings'[f.sess].next
          PROVE  offers[c][f] = 0
      BY <1>1, <1>2, <1>5, <2>1, <2>4, <2>5 DEF Numbered
    <2>6. ASSUME NEW q \in Publishers, pub'[q].pc # "idle"
          PROVE  /\ pub'[q].env \in Envelopes
                 /\ pub'[q].env.seq <= rings'[pub'[q].env.sess].next
      <3>1. CASE q = p
        BY <1>2, <1>3, <1>5, <1>6, <2>2, <3>1
      <3>2. CASE q # p
        BY <1>1, <1>2, <1>5, <1>6, <2>1, <2>4, <2>6, <3>2 DEF Numbered
      <3> QED
        BY <3>1, <3>2
    <2>7. ASSUME NEW q \in Publishers, NEW r \in Publishers \ {q},
                 pub'[q].pc # "idle", pub'[r].pc # "idle"
          PROVE  pub'[r].env # pub'[q].env
      BY <1>1, <1>6, <2>3, <2>7 DEF Numbered
    <2> QED
      BY <1>4, <2>5, <2>6, <2>7 DEF Numbered
  <1>11. AtMostOnce'
    <2>1. ASSUME NEW c \in Conns, Live(c), NEW q \in Publishers, pub'[q].pc # "idle"
          PROVE  OfferIsKnown(q, c)'
      BY <1>1, <1>4, <1>6, <1>7, <2>1 DEF AtMostOnce, OfferIsKnown
    <2> QED
      BY <1>1, <1>4, <2>1 DEF AtMostOnce, Live
  <1>12. OwedComes'
    <2>1. ASSUME NEW q \in Publishers, q # p, pub[q].pc # "idle", NEW c \in pub[q].owed
          PROVE  /\ cpc[c] # "off"
                 /\ Serving(c) /\ pub[q].pc = "subs" => OwedBySubs(q, c)'
                 /\ Serving(c) /\ pub[q].pc = "all" => OwedByAll(q, c)'
      BY <1>1, <1>4, <1>6, <2>1 DEF OwedComes, OwedBySubs, OwedByAll
    <2>2. ASSUME NEW c \in subs[s] \cup subs[Star]
          PROVE  cpc[c] # "off" /\ (Serving(c) => OwedBySubs(p, c)')
      <3>1. c \in Conns
        BY <1>1 DEF HubTyped
      <3>2. cpc[c] # "off"
        BY <1>1, <2>2, <3>1 DEF Registered
      <3>3. ASSUME Serving(c)
            PROVE  OwedBySubs(p, c)'
        <4>1. c \in subs[SessOf[c]]
          BY <1>1, <3>1, <3>3 DEF Registered
        <4>2. e.sess = s
          BY DEF e
        <4>3. CASE s = SessOf[c]
          <5>1. s \in made
            BY <1>1, <4>1, <4>3 DEF Registered
          <5> QED
            BY <1>4, <1>6, <4>2, <4>3, <5>1 DEF OwedBySubs
        <4>4. CASE s # SessOf[c]
          <5>1. c \notin subs[s]
            BY <1>1, <3>1, <4>4, HubAssumption DEF Registered
          <5>2. c \in subs[Star] /\ Star \in made
            BY <1>1, <2>2, <5>1 DEF Registered
          <5> QED
            BY <1>4, <1>6, <4>2, <4>4, <5>2 DEF OwedBySubs
        <4> QED
          BY <4>3, <4>4
      <3> QED
        BY <3>2, <3>3
    <2> QED
      BY <1>4, <1>6, <2>1, <2>2 DEF OwedComes, Serving
  <1> QED
    BY <1>8, <1>9, <1>10, <1>11, <1>12 DEF HubInv

(* An envelope is offered to a socket that the range has not seen, and that   *)
(* the range before it has not either.                                        *)
LEMMA OfferKeeps ==
  ASSUME HubInv, NEW p \in Publishers, NEW c \in Conns,
         pub[p].pc # "idle", c \notin pub[p].seen,
         IF pub[p].pc = "subs" THEN pub[p].subsRef /\ c \in subs[pub[p].env.sess]
                               ELSE ~IsDup(p, c),
         See(p, c), offers' = [offers EXCEPT ![c][pub[p].env] = @ + 1],
         UNCHANGED <<rings, subs, made, lock, cpc>>
  PROVE  HubInv'
  <1> DEFINE e == pub[p].env
  <1>1. HubTyped /\ Registered /\ Numbered /\ AtMostOnce /\ OwedComes
    BY DEF HubInv
  <1>2. /\ e \in Envelopes /\ pub[p].pc \in {"subs", "all"}
        /\ \A q \in Publishers \ {p} : pub[q].pc # "idle" => pub[q].env # e
        /\ e.seq <= rings[e.sess].next /\ e.seq \in Nat /\ rings[e.sess].next \in Nat
    BY <1>1 DEF HubTyped, Numbered, PubStates, Envelopes
  <1>3. /\ pub'[p].pc = pub[p].pc /\ pub'[p].env = e
        /\ pub'[p].subsRef = pub[p].subsRef /\ pub'[p].allRef = pub[p].allRef
        /\ pub'[p].owed = pub[p].owed /\ pub'[p].seen = pub[p].seen \cup {c}
        /\ \A q \in Publishers \ {p} : pub'[q] = pub[q]
        /\ pub' \in [Publishers -> PubStates]
    BY <1>1, SeenIsKept
  <1>4. /\ offers'[c][e] = offers[c][e] + 1 /\ offers[c][e] \in Nat
        /\ \A f \in Envelopes \ {e} : offers'[c][f] = offers[c][f]
        /\ \A d \in Conns \ {c} : offers'[d] = offers[d]
        /\ offers' \in [Conns -> [Envelopes -> Nat]]
    BY <1>1, <1>2 DEF HubTyped
  <1>5. Live(c) => offers[c][e] = 0
    BY <1>1, <1>2 DEF AtMostOnce, OfferIsKnown, IsDup
  <1> HIDE DEF e
  <1>6. HubTyped'
    BY <1>1, <1>3, <1>4 DEF HubTyped
  <1>7. Registered'
    BY <1>1 DEF Registered, Serving
  <1>8. Numbered'
    <2>1. ASSUME NEW d \in Conns, NEW f \in Envelopes, f.seq > rings[f.sess].next
          PROVE  offers'[d][f] = 0
      <3>1. f # e
        BY <1>2, <2>1
      <3> QED
        BY <1>1, <1>4, <2>1, <3>1 DEF Numbered
    <2>2. \A q \in Publishers : pub'[q].pc = pub[q].pc /\ pub'[q].env = pub[q].env
      BY <1>3 DEF e
    <2> QED
      BY <1>1, <2>1, <2>2 DEF Numbered
  <1>9. AtMostOnce'
    <2>1. ASSUME NEW d \in Conns, Live(d), NEW f \in Envelopes
          PROVE  offers'[d][f] <= 1
      BY <1>1, <1>4, <1>5, <2>1 DEF AtMostOnce
    <2>2. ASSUME NEW d \in Conns, Live(d), NEW q \in Publishers, pub[q].pc # "idle"
          PROVE  OfferIsKnown(q, d)'
      <3>1. OfferIsKnown(q, d)
        BY <1>1, <2>2 DEF AtMostOnce
      <3>2. CASE q # p
        <4>1. pub[q].env \in Envelopes \ {e}
          BY <1>1, <1>2, <2>2, <3>2 DEF Numbered
        <4>2. offers'[d][pub[q].env] = offers[d][pub[q].env]
          BY <1>4, <4>1
        <4> QED
          BY <1>3, <3>1, <3>2, <4>2 DEF OfferIsKnown
      <3>3. CASE q = p /\ d # c
        <4>1. offers'[d][e] = offers[d][e]
          BY <1>4, <3>3
        <4> QED
          BY <1>3, <3>1, <3>3, <4>1 DEF OfferIsKnown, e
      <3>4. CASE q = p /\ d = c
        BY <1>2, <1>3, <3>4 DEF OfferIsKnown, e
      <3> QED
        BY <3>2, <3>3, <3>4
    <2>3. \A q \in Publishers : pub'[q].pc = pub[q].pc
      BY <1>3
    <2> QED
      BY <2>1, <2>2, <2>3 DEF AtMostOnce, Live
  <1>10. OwedComes'
    <2>1. ASSUME NEW q \in Publishers, pub[q].pc # "idle", NEW d \in pub[q].owed
          PROVE  /\ cpc[d] # "off"
                 /\ Serving(d) /\ pub[q].pc = "subs" => OwedBySubs(q, d)'
                 /\ Serving(d) /\ pub[q].pc = "all" => OwedByAll(q, d)'
      <3>1. d \in Conns
        BY <1>1, <2>1 DEF HubTyped, PubStates
      <3>2. /\ cpc[d] # "off"
            /\ Serving(d) /\ pub[q].pc = "subs" => OwedBySubs(q, d)
            /\ Serving(d) /\ pub[q].pc = "all" => OwedByAll(q, d)
        BY <1>1, <2>1 DEF OwedComes
      <3>3. CASE q # p
        <4>1. pub[q].env \in Envelopes \ {e}
          BY <1>1, <1>2, <2>1, <3>3 DEF Numbered
        <4>2. offers'[d][pub[q].env] = offers[d][pub[q].env]
          BY <1>4, <3>1, <4>1
        <4> QED
          BY <1>3, <3>2, <3>3, <4>2 DEF OwedBySubs, OwedByAll
      <3>4. CASE q = p /\ d # c
        <4>1. offers'[d][e] = offers[d][e]
          BY <1>4, <3>1, <3>4
        <4> QED
          BY <1>3, <3>2, <3>4, <4>1 DEF OwedBySubs, OwedByAll, e
      <3>5. CASE q = p /\ d = c
        <4>1. offers'[d][e] >= 1
          BY <1>4, <3>5
        <4> QED
          BY <1>3, <3>2, <3>5, <4>1 DEF OwedBySubs, OwedByAll, e
      <3> QED
        BY <3>3, <3>4, <3>5
    <2>2. \A q \in Publishers : pub'[q].pc = pub[q].pc /\ pub'[q].owed = pub[q].owed
      BY <1>3
    <2> QED
      BY <2>1, <2>2 DEF OwedComes, Serving
  <1> QED
    BY <1>6, <1>7, <1>8, <1>9, <1>10 DEF HubInv

(* The range over all passes over a socket that the map of the session has:   *)
(* what is owed to it was offered in the range before.                        *)
LEMMA PassedOverKeeps ==
  ASSUME HubInv, NEW p \in Publishers, NEW c \in Conns,
         pub[p].pc = "all", IsDup(p, c), See(p, c),
         UNCHANGED <<rings, subs, made, lock, cpc, offers>>
  PROVE  HubInv'
  <1>1. HubTyped /\ Registered /\ Numbered /\ AtMostOnce /\ OwedComes
    BY DEF HubInv
  <1>2. /\ pub'[p].pc = pub[p].pc /\ pub'[p].env = pub[p].env
        /\ pub'[p].subsRef = pub[p].subsRef /\ pub'[p].allRef = pub[p].allRef
        /\ pub'[p].owed = pub[p].owed /\ pub'[p].seen = pub[p].seen \cup {c}
        /\ \A q \in Publishers \ {p} : pub'[q] = pub[q]
        /\ pub' \in [Publishers -> PubStates]
    BY <1>1, SeenIsKept
  <1>3. \A q \in Publishers : pub'[q].pc = pub[q].pc /\ pub'[q].env = pub[q].env
                              /\ pub'[q].owed = pub[q].owed
    BY <1>2
  <1>4. HubTyped' /\ Registered' /\ Numbered'
    <2>1. HubTyped'
      BY <1>1, <1>2 DEF HubTyped
    <2>2. Registered'
      BY <1>1 DEF Registered, Serving
    <2>3. Numbered'
      BY <1>1, <1>3 DEF Numbered
    <2> QED
      BY <2>1, <2>2, <2>3
  <1>5. AtMostOnce'
    <2>1. ASSUME NEW d \in Conns, Live(d), NEW q \in Publishers, pub[q].pc # "idle"
          PROVE  OfferIsKnown(q, d)'
      <3>1. OfferIsKnown(q, d)
        BY <1>1, <2>1 DEF AtMostOnce
      <3> QED
        BY <1>2, <3>1 DEF OfferIsKnown
    <2> QED
      BY <1>1, <1>3, <2>1 DEF AtMostOnce, Live
  <1>6. OwedComes'
    <2>1. ASSUME NEW q \in Publishers, pub[q].pc # "idle", NEW d \in pub[q].owed
          PROVE  /\ cpc[d] # "off"
                 /\ Serving(d) /\ pub[q].pc = "subs" => OwedBySubs(q, d)'
                 /\ Serving(d) /\ pub[q].pc = "all" => OwedByAll(q, d)'
      <3>1. d \in Conns
        BY <1>1, <2>1 DEF HubTyped, PubStates
      <3>2. /\ cpc[d] # "off"
            /\ Serving(d) /\ pub[q].pc = "subs" => OwedBySubs(q, d)
            /\ Serving(d) /\ pub[q].pc = "all" => OwedByAll(q, d)
        BY <1>1, <2>1 DEF OwedComes
      <3>3. CASE q # p \/ d # c
        BY <1>2, <3>2, <3>3 DEF OwedBySubs, OwedByAll
      <3>4. CASE q = p /\ d = c
        <4>1. pub[p].env.sess \in Sessions
          BY <1>1 DEF Numbered, Envelopes
        <4>2. pub[p].env.sess = SessOf[c]
          BY <1>1, <4>1, HubAssumption DEF Registered, IsDup, Keys
        <4> QED
          BY <1>2, <3>2, <3>4, <4>2 DEF OwedByAll
      <3> QED
        BY <3>3, <3>4
    <2> QED
      BY <1>3, <2>1 DEF OwedComes, Serving
  <1> QED
    BY <1>4, <1>5, <1>6 DEF HubInv

(* The first range is over: all that were owed the envelope, and that the map *)
(* of the session still has, have been seen.                                  *)
LEMMA SubsDoneKeeps ==
  ASSUME HubInv, NEW p \in Publishers, SubsDone(p)
  PROVE  HubInv'
  <1>1. HubTyped /\ Registered /\ Numbered /\ AtMostOnce /\ OwedComes
    BY DEF HubInv
  <1>2. /\ pub[p].pc = "subs" /\ UNCHANGED <<rings, subs, made, lock, cpc, offers>>
        /\ pub[p].subsRef => subs[pub[p].env.sess] \cap pub[p].owed \subseteq pub[p].seen
    BY DEF SubsDone, Due, LeftInSubs, LeftIn, hubVars, connVars, feedVars
  <1>3. /\ pub'[p].pc = "all" /\ pub'[p].env = pub[p].env
        /\ pub'[p].subsRef = pub[p].subsRef /\ pub'[p].allRef = pub[p].allRef
        /\ pub'[p].owed = pub[p].owed /\ pub'[p].seen = {}
        /\ \A q \in Publishers \ {p} : pub'[q] = pub[q]
        /\ pub' \in [Publishers -> PubStates]
    <2> DEFINE state == [pub[p] EXCEPT !.pc = "all", !.seen = {}]
    <2>1. pub' = [pub EXCEPT ![p] = state]
      BY DEF SubsDone
    <2>2. pub[p] \in PubStates
      BY <1>1 DEF HubTyped
    <2>3. /\ state.pc = "all" /\ state.env = pub[p].env
          /\ state.subsRef = pub[p].subsRef /\ state.allRef = pub[p].allRef
          /\ state.owed = pub[p].owed /\ state.seen = {}
          /\ state \in PubStates
      BY <2>2 DEF PubStates
    <2> HIDE DEF state
    <2> QED
      BY <1>1, <2>1, <2>3 DEF HubTyped
  <1>4. \A q \in Publishers : (pub'[q].pc = "idle" <=> pub[q].pc = "idle")
                              /\ pub'[q].env = pub[q].env /\ pub'[q].owed = pub[q].owed
    BY <1>2, <1>3
  <1>5. HubTyped' /\ Registered' /\ Numbered'
    <2>1. HubTyped'
      BY <1>1, <1>2, <1>3 DEF HubTyped
    <2>2. Registered'
      BY <1>1, <1>2 DEF Registered, Serving
    <2>3. Numbered'
      BY <1>1, <1>2, <1>4 DEF Numbered
    <2> QED
      BY <2>1, <2>2, <2>3
  <1>6. AtMostOnce'
    <2>1. ASSUME NEW d \in Conns, Live(d), NEW q \in Publishers, pub[q].pc # "idle"
          PROVE  OfferIsKnown(q, d)'
      <3>1. OfferIsKnown(q, d)
        BY <1>1, <2>1 DEF AtMostOnce
      <3> QED
        BY <1>2, <1>3, <3>1 DEF OfferIsKnown
    <2> QED
      BY <1>1, <1>2, <1>4, <2>1 DEF AtMostOnce, Live
  <1>7. OwedComes'
    <2>1. ASSUME NEW q \in Publishers, pub[q].pc # "idle", NEW d \in pub[q].owed
          PROVE  /\ cpc[d] # "off"
                 /\ Serving(d) /\ pub'[q].pc = "subs" => OwedBySubs(q, d)'
                 /\ Serving(d) /\ pub'[q].pc = "all" => OwedByAll(q, d)'
      <3>1. d \in Conns
        BY <1>1, <2>1 DEF HubTyped, PubStates
      <3>2. /\ cpc[d] # "off"
            /\ Serving(d) /\ pub[q].pc = "subs" => OwedBySubs(q, d)
            /\ Serving(d) /\ pub[q].pc = "all" => OwedByAll(q, d)
        BY <1>1, <2>1 DEF OwedComes
      <3>3. CASE q # p
        BY <1>2, <1>3, <3>2, <3>3 DEF OwedBySubs, OwedByAll
      <3>4. CASE q = p
        <4>1. Serving(d) => d \in subs[SessOf[d]]
          BY <1>1, <3>1 DEF Registered
        <4> QED
          BY <1>2, <1>3, <3>2, <3>4, <4>1 DEF OwedBySubs, OwedByAll
      <3> QED
        BY <3>3, <3>4
    <2> QED
      BY <1>2, <1>4, <2>1 DEF OwedComes, Serving
  <1> QED
    BY <1>5, <1>6, <1>7 DEF HubInv

(* Publish returns. *)
LEMMA AllDoneKeeps ==
  ASSUME HubInv, NEW p \in Publishers, AllDone(p)
  PROVE  HubInv'
  <1>1. HubTyped /\ Registered /\ Numbered /\ AtMostOnce /\ OwedComes
    BY DEF HubInv
  <1>2. UNCHANGED <<rings, subs, made, lock, cpc, offers>>
    BY DEF AllDone, hubVars, connVars, feedVars
  <1>3. Idle \in PubStates
    BY DEF Idle, PubStates, NoEnvelope, Keys
  <1>4. /\ pub'[p].pc = "idle" /\ \A q \in Publishers \ {p} : pub'[q] = pub[q]
        /\ pub' \in [Publishers -> PubStates]
    BY <1>1, <1>3 DEF HubTyped, AllDone, Idle
  <1>5. HubTyped'
    BY <1>1, <1>2, <1>4 DEF HubTyped
  <1>6. Registered'
    BY <1>1, <1>2 DEF Registered, Serving
  <1>7. Numbered'
    BY <1>1, <1>2, <1>4 DEF Numbered
  <1>8. AtMostOnce'
    BY <1>1, <1>2, <1>4 DEF AtMostOnce, Live, OfferIsKnown
  <1>9. OwedComes'
    BY <1>1, <1>2, <1>4 DEF OwedComes, Serving, OwedBySubs, OwedByAll
  <1> QED
    BY <1>5, <1>6, <1>7, <1>8, <1>9 DEF HubInv

(* A socket moves on: it is not taken out of a map while it is live, and no   *)
(* other socket is touched.                                                   *)
LEMMA SocketKeeps ==
  ASSUME HubInv, NEW c \in Conns, UNCHANGED <<rings, pub, offers>>,
         subs' \in [Keys -> SUBSET Conns], made' \subseteq Keys, Registered',
         cpc' \in [Conns -> ConnStates], cpc'[c] # "off",
         \A d \in Conns \ {c} : cpc'[d] = cpc[d] /\ \A k \in Keys : d \in subs'[k] <=> d \in subs[k],
         cpc'[c] \in {"joining", "on"} =>
            Live(c) /\ \A k \in Keys : c \in subs[k] => c \in subs'[k]
  PROVE  HubInv'
  <1>1. HubTyped /\ Registered /\ Numbered /\ AtMostOnce /\ OwedComes
    BY DEF HubInv
  <1>2. HubTyped' /\ Numbered'
    BY <1>1 DEF HubTyped, Numbered
  <1>3. \A d \in Conns : Live(d)' => Live(d) /\ \A k \in Keys : d \in subs[k] => d \in subs'[k]
    BY DEF Live, ConnStates
  <1>4. \A d \in Conns : Serving(d)' => Serving(d) \/ cpc[d] = "off"
    BY DEF Serving, Live
  <1>5. Star \in Keys /\ \A p \in Publishers : pub[p].env.sess \in Keys
    BY <1>1 DEF HubTyped, PubStates, Keys
  <1>6. AtMostOnce'
    <2> SUFFICES ASSUME NEW d \in Conns, Live(d)'
                 PROVE  /\ \A e \in Envelopes : offers[d][e] <= 1
                        /\ \A p \in Publishers : pub[p].pc # "idle" => OfferIsKnown(p, d)'
      BY DEF AtMostOnce
    <2>1. Live(d) /\ \A k \in Keys : d \in subs[k] => d \in subs'[k]
      BY <1>3
    <2>2. ASSUME NEW p \in Publishers, pub[p].pc # "idle"
          PROVE  OfferIsKnown(p, d)'
      <3>1. OfferIsKnown(p, d)
        BY <1>1, <2>1, <2>2 DEF AtMostOnce
      <3> QED
        BY <1>5, <2>1, <3>1 DEF OfferIsKnown
    <2> QED
      BY <1>1, <2>1, <2>2 DEF AtMostOnce
  <1>7. OwedComes'
    <2> SUFFICES ASSUME NEW p \in Publishers, pub[p].pc # "idle", NEW d \in pub[p].owed
                 PROVE  /\ cpc'[d] # "off"
                        /\ Serving(d)' /\ pub[p].pc = "subs" => OwedBySubs(p, d)'
                        /\ Serving(d)' /\ pub[p].pc = "all" => OwedByAll(p, d)'
      BY DEF OwedComes
    <2>1. d \in Conns
      BY <1>1 DEF HubTyped, PubStates
    <2>2. /\ cpc[d] # "off"
          /\ Serving(d) /\ pub[p].pc = "subs" => OwedBySubs(p, d)
          /\ Serving(d) /\ pub[p].pc = "all" => OwedByAll(p, d)
      BY <1>1 DEF OwedComes
    <2>3. cpc'[d] # "off"
      BY <2>1, <2>2
    <2>4. ASSUME Serving(d)'
          PROVE  Serving(d) /\ (d \in subs[Star] => d \in subs'[Star])
      BY <1>3, <1>4, <1>5, <2>1, <2>2, <2>4 DEF Live, Serving
    <2> QED
      BY <2>2, <2>3, <2>4 DEF OwedBySubs, OwedByAll
  <1> QED
    BY <1>2, <1>6, <1>7 DEF HubInv

LEMMA ConnStepKeeps ==
  ASSUME HubInv, NEW c \in Conns, ConnStep(c)
  PROVE  HubInv'
  <1>1. /\ HubTyped /\ Registered
        /\ subs \in [Keys -> SUBSET Conns] /\ made \subseteq Keys
        /\ cpc \in [Conns -> ConnStates]
    BY DEF HubInv, HubTyped
  <1>2. SessOf[c] \in Keys /\ Star \in Keys /\ NoConn # c
    BY HubAssumption DEF Keys
  <1>3. ASSUME NEW k \in {SessOf[c], Star}, cpc[c] \in {"off", "joining"},
               cpc[c] = "off" => k = SessOf[c],
               Subscribe(c, k), cpc' = [cpc EXCEPT ![c] = IF k = Star THEN "on" ELSE "joining"],
               UNCHANGED <<pub, offers>>
        PROVE  HubInv'
    <2>1. /\ subs' = [subs EXCEPT ![k] = subs[k] \cup {c}] /\ made' = made \cup {k}
          /\ UNCHANGED <<rings, lock>> /\ lock = NoConn
      BY <1>3 DEF Subscribe
    <2>2. /\ subs' \in [Keys -> SUBSET Conns] /\ made' \subseteq Keys
          /\ cpc' \in [Conns -> ConnStates] /\ cpc'[c] \in {"joining", "on"}
          /\ \A d \in Conns \ {c} : cpc'[d] = cpc[d]
          /\ \A d \in Conns \ {c} : \A j \in Keys : d \in subs'[j] <=> d \in subs[j]
          /\ \A j \in Keys : c \in subs'[j] <=> c \in subs[j] \/ j = k
      BY <1>1, <1>2, <1>3, <2>1 DEF ConnStates
    <2>3. Registered'
      <3>1. \A j \in Keys : j \notin made' => subs'[j] = {}
        BY <1>1, <1>2, <2>1 DEF Registered
      <3>2. ASSUME NEW d \in Conns \ {c}
            PROVE  /\ lock' = d => cpc'[d] = "leaving"
                   /\ \A j \in Keys : d \in subs'[j] => j \in {SessOf[d], Star} /\ cpc'[d] # "off"
                   /\ cpc'[d] \in {"joining", "on"} => d \in subs'[SessOf[d]]
        <4>1. SessOf[d] \in Keys
          BY HubAssumption DEF Keys
        <4> QED
          BY <1>1, <2>1, <2>2, <4>1 DEF Registered, Serving
      <3>3. /\ lock' # c
            /\ \A j \in Keys : c \in subs'[j] => j \in {SessOf[c], Star} /\ cpc'[c] # "off"
            /\ c \in subs'[SessOf[c]]
        BY <1>1, <1>2, <1>3, <2>1, <2>2 DEF Registered, Serving
      <3> QED
        BY <3>1, <3>2, <3>3 DEF Registered, Serving
    <2> QED
      BY <1>3, <2>1, <2>2, <2>3, SocketKeeps DEF Live
  <1>4. CASE Connect(c)
    BY <1>2, <1>3, <1>4, HubAssumption DEF Connect, feedVars
  <1>5. CASE Join(c)
    BY <1>3, <1>5 DEF Join, feedVars
  <1>6. CASE Write(c) \/ WriteFails(c)
    <2>1. UNCHANGED <<rings, subs, made, lock, pub, cpc, offers>>
      BY <1>6 DEF Write, WriteFails, hubVars, connVars
    <2> QED
      BY <2>1 DEF HubInv, HubTyped, Registered, Numbered, AtMostOnce, OwedComes, Live, Serving,
                  OfferIsKnown, OwedBySubs, OwedByAll
  <1>7. ASSUME NEW place \in {"leaving", "gone"}, cpc' = [cpc EXCEPT ![c] = place],
               lock' \in {c, NoConn}, lock' = c => place = "leaving",
               UNCHANGED <<rings, subs, made, pub, offers>>
        PROVE  HubInv'
    <2>1. /\ cpc' \in [Conns -> ConnStates] /\ cpc'[c] = place
          /\ \A d \in Conns \ {c} : cpc'[d] = cpc[d]
      BY <1>1, <1>7 DEF ConnStates
    <2>2. \A d \in Conns \ {c} : lock' # d
      BY <1>7, HubAssumption
    <2>3. Registered'
      BY <1>1, <1>7, <2>1, <2>2 DEF Registered, Serving
    <2> QED
      BY <1>1, <1>7, <2>1, <2>3, SocketKeeps
  <1>8. CASE Hangup(c)
    BY <1>7, <1>8 DEF Hangup, feedVars
  <1>9. CASE Unlock(c)
    BY <1>2, <1>7, <1>9 DEF Unlock, feedVars
  <1>10. CASE \E k \in Keys : DeleteFrom(c, k)
    <2> PICK k \in Keys : DeleteFrom(c, k)
      BY <1>10
    <2>1. /\ lock = c /\ subs' = [subs EXCEPT ![k] = subs[k] \ {c}]
          /\ UNCHANGED <<rings, made, lock, pub, cpc, offers>>
      BY DEF DeleteFrom, feedVars
    <2>2. cpc[c] = "leaving"
      BY <1>1, <2>1 DEF Registered
    <2>3. /\ subs' \in [Keys -> SUBSET Conns]
          /\ \A d \in Conns \ {c} : \A j \in Keys : d \in subs'[j] <=> d \in subs[j]
          /\ \A j \in Keys : subs'[j] \subseteq subs[j]
      BY <1>1, <2>1
    <2>4. Registered'
      <3>1. \A d \in Conns : SessOf[d] \in Keys
        BY HubAssumption DEF Keys
      <3> QED
        BY <1>1, <2>1, <2>2, <2>3, <3>1 DEF Registered, Serving
    <2> QED
      BY <1>1, <2>1, <2>2, <2>3, <2>4, SocketKeeps
  <1> QED
    BY <1>4, <1>5, <1>6, <1>8, <1>9, <1>10 DEF ConnStep

LEMMA HubInvKept == HubInv /\ [HubNext]_vars => HubInv'
  <1> SUFFICES ASSUME HubInv, [HubNext]_vars
               PROVE  HubInv'
    OBVIOUS
  <1>1. CASE \E p \in Publishers : PublisherStep(p)
    <2> PICK p \in Publishers : PublisherStep(p)
      BY <1>1
    <2>1. CASE \E s \in Sessions : Number(p, s)
      BY <2>1, NumberKeeps
    <2>2. CASE \E c \in Conns : EmitToSub(p, c) \/ EmitToAll(p, c)
      <3> PICK c \in Conns : EmitToSub(p, c) \/ EmitToAll(p, c)
        BY <2>2
      <3>1. CASE EmitToSub(p, c)
        <4>1. /\ pub[p].pc = "subs" /\ c \notin pub[p].seen
              /\ pub[p].subsRef /\ c \in subs[pub[p].env.sess]
              /\ See(p, c) /\ UNCHANGED <<rings, subs, made, lock, cpc>>
              /\ offers' = [offers EXCEPT ![c][pub[p].env] = @ + 1]
          BY <3>1 DEF EmitToSub, Emit, LeftInSubs, LeftIn, hubVars, connVars
        <4> QED
          BY <4>1, OfferKeeps
      <3>2. CASE EmitToAll(p, c)
        <4>1. /\ pub[p].pc = "all" /\ c \notin pub[p].seen
              /\ See(p, c) /\ UNCHANGED <<rings, subs, made, lock, cpc>>
          BY <3>2 DEF EmitToAll, LeftInAll, LeftIn, hubVars, connVars
        <4>2. CASE IsDup(p, c)
          BY <3>2, <4>1, <4>2, PassedOverKeeps DEF EmitToAll, feedVars
        <4>3. CASE ~IsDup(p, c)
          <5>1. offers' = [offers EXCEPT ![c][pub[p].env] = @ + 1]
            BY <3>2, <4>3 DEF EmitToAll, Emit
          <5> QED
            BY <4>1, <4>3, <5>1, OfferKeeps
        <4> QED
          BY <4>2, <4>3
      <3> QED
        BY <3>1, <3>2
    <2>3. CASE SubsDone(p)
      BY <2>3, SubsDoneKeeps
    <2>4. CASE AllDone(p)
      BY <2>4, AllDoneKeeps
    <2> QED
      BY <2>1, <2>2, <2>3, <2>4 DEF PublisherStep
  <1>2. CASE \E c \in Conns : ConnStep(c)
    BY <1>2, ConnStepKeeps
  <1>3. CASE UNCHANGED vars
    BY <1>3 DEF vars, HubInv, HubTyped, Registered, Numbered, AtMostOnce, OwedComes, Live,
                Serving, OfferIsKnown, OwedBySubs, OwedByAll
  <1> QED
    BY <1>1, <1>2, <1>3 DEF HubNext

LEMMA InitHubInv == HubInit => HubInv
  <1> SUFFICES ASSUME HubInit
               PROVE  HubInv
    OBVIOUS
  <1>1. Idle \in PubStates /\ Idle.pc = "idle"
    BY DEF Idle, PubStates, NoEnvelope, Keys
  <1>2. HubTyped
    BY <1>1 DEF HubInit, HubTyped, EmptyRing, ConnStates
  <1>3. \A p \in Publishers : pub[p].pc = "idle"
    BY <1>1 DEF HubInit
  <1>4. Registered
    BY HubAssumption DEF HubInit, Registered, Serving
  <1>5. Numbered
    BY <1>3 DEF HubInit, Numbered
  <1>6. AtMostOnce /\ OwedComes
    BY <1>3 DEF HubInit, AtMostOnce, OwedComes
  <1> QED
    BY <1>2, <1>4, <1>5, <1>6 DEF HubInv

(* Who stands in which map, what is numbered, offered and owed.               *)
THEOREM HubInvHolds == HubSpec => []HubInv
  BY InitHubInv, HubInvKept, PTL DEF HubSpec

(* However publishers range over two maps and sockets come and go, a socket   *)
(* that is being served is offered no envelope twice (Hub.Publish).           *)
THEOREM NobodyHearsTwice == HubSpec => []OfferedOnce
  <1>1. HubInv => OfferedOnce
    BY DEF HubInv, AtMostOnce, Live, OfferedOnce
  <1> QED
    BY <1>1, HubInvHolds, PTL

(* When Publish returns, every socket that was subscribed when the envelope   *)
(* was numbered, and has stayed on, has been offered it.                      *)
THEOREM EverybodyHears == HubSpec => FanoutIsComplete
  <1> DEFINE Complete ==
        \A p \in Publishers :
          pub[p].pc = "all" /\ pub'[p].pc = "idle" =>
            \A c \in pub[p].owed :
              cpc[c] \in {"joining", "on"} => offers[c][pub[p].env] >= 1
  <1>1. HubInv /\ [HubNext]_vars => [Complete]_vars
    <2> SUFFICES ASSUME HubInv, HubNext,
                        NEW p \in Publishers, pub[p].pc = "all", pub'[p].pc = "idle",
                        NEW c \in pub[p].owed, Serving(c)
                 PROVE  offers[c][pub[p].env] >= 1
      BY DEF Serving
    <2>1. OwedByAll(p, c)
      BY DEF HubInv, OwedComes
    <2>2. pub \in [Publishers -> PubStates] /\ c \in Conns
      BY DEF HubInv, HubTyped, PubStates
    <2>3. AllDone(p)
      <3>1. CASE \E d \in Conns : ConnStep(d)
        BY <3>1 DEF ConnStep, Connect, Join, Write, WriteFails, Hangup, DeleteFrom, Unlock
      <3>2. ASSUME NEW q \in Publishers, PublisherStep(q)
            PROVE  AllDone(p)
        <4>1. CASE q # p
          <5>1. pub'[p] = pub[p]
            BY <2>2, <3>2, <4>1 DEF PublisherStep, Number, EmitToSub, EmitToAll, See, SubsDone, AllDone
          <5> QED
            BY <5>1
        <4>2. CASE q = p
          <5>1. CASE \E s \in Sessions : Number(p, s)
            BY <5>1 DEF Number
          <5>2. CASE \E d \in Conns : EmitToSub(p, d) \/ EmitToAll(p, d)
            <6>1. pub'[p].pc = "all"
              BY <2>2, <5>2 DEF EmitToSub, EmitToAll, See, PubStates
            <6> QED
              BY <6>1
          <5>3. CASE SubsDone(p)
            BY <5>3 DEF SubsDone
          <5> QED
            BY <3>2, <4>2, <5>1, <5>2, <5>3 DEF PublisherStep
        <4> QED
          BY <4>1, <4>2
      <3> QED
        BY <3>1, <3>2 DEF HubNext
    <2>4. pub[p].allRef => subs[Star] \cap pub[p].owed \subseteq pub[p].seen
      BY <2>3 DEF AllDone, Due, LeftInAll, LeftIn
    <2> QED
      BY <2>1, <2>4 DEF OwedByAll
  <1> QED
    BY <1>1, HubInvHolds, PTL DEF HubSpec, FanoutIsComplete
=============================================================================
