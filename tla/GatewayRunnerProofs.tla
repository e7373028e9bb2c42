------------------------- MODULE GatewayRunnerProofs -------------------------
(* The safety properties of the poll loop and of the runner around it, for    *)
(* any number of updates, rungs and restarts.                                 *)
EXTENDS GatewayRunner, TLAPS

DealtWith(n) == \A u \in 1 .. n : u \in Ignored \cup dispatched

(* The sequence b is that of the numbers from first on, up to top at most.    *)
Run(b, first, top) ==
  \A i \in 1 .. Len(b) : b[i] = first + i - 1 /\ b[i] <= top

(* Everything below the offset has been dispatched or ignored, and a batch    *)
(* is a run of consecutive updates that begins where that ends.               *)
BatchFollows ==
  batch # <<>> =>
    /\ offset <= batch[1]
    /\ DealtWith(batch[1] - 1)
    /\ Run(batch, batch[1], sent)

PollInv ==
  /\ PollTypeOK
  /\ offset <= sent + 1
  /\ DealtWith(offset - 1)
  /\ ConfirmedWasDispatched
  /\ BatchFollows
  /\ seen \subseteq 1 .. offset - 1

(* Without a restart, what was dispatched is answered or about to be.         *)
NothingDropped == ends = 0 => dispatched \subseteq handlers \cup answered

(* The watcher ends with the signal, and Start with the watcher.              *)
SignalFirst ==
  /\ ~watcher => ctx
  /\ runner = "returned" => ~watcher

IInv ==
  /\ TypeOK
  /\ PollInv
  /\ NothingDropped
  /\ SignalFirst

-----------------------------------------------------------------------------
(* A getUpdates call confirms nothing that is not below its offset.  The      *)
(* bounds of the interval say that the CHOOSE has something to choose from.   *)
LEMMA ConfirmedByBounds ==
  ASSUME PollTypeOK, offset <= sent + 1
  PROVE  /\ ConfirmedBy(offset) \in confirmed .. sent
         /\ ConfirmedBy(offset) < offset \/ ConfirmedBy(offset) = confirmed
         /\ offset - 1 <= ConfirmedBy(offset)
<1> DEFINE Upto(u) == /\ u < offset \/ u = confirmed
                      /\ \A v \in confirmed .. sent : v < offset => v <= u
<1>1. confirmed \in Nat /\ sent \in Nat /\ offset \in Nat /\ confirmed <= sent
  BY PollAssumption DEF PollTypeOK
<1>2. \E u \in confirmed .. sent : Upto(u)
  <2>1. CASE offset <= confirmed
    BY <1>1, <2>1
  <2>2. CASE confirmed < offset
    <3>1. offset - 1 \in confirmed .. sent
      BY <1>1, <2>2
    <3>2. Upto(offset - 1)
      BY <1>1
    <3>3. QED
      BY <3>1, <3>2
  <2>3. QED
    BY <1>1, <2>1, <2>2
<1>3. ConfirmedBy(offset) = CHOOSE u \in confirmed .. sent : Upto(u)
  BY DEF ConfirmedBy
<1> HIDE DEF Upto
<1>4. ConfirmedBy(offset) \in confirmed .. sent /\ Upto(ConfirmedBy(offset))
  BY <1>2, <1>3
<1>5. offset - 1 <= ConfirmedBy(offset)
  <2>1. CASE offset <= confirmed
    BY <1>1, <1>4, <2>1
  <2>2. CASE confirmed < offset
    <3>1. offset - 1 \in confirmed .. sent /\ offset - 1 < offset
      BY <1>1, <2>2
    <3>2. QED
      BY <1>4, <3>1 DEF Upto
  <2>3. QED
    BY <1>1, <2>1, <2>2
<1>6. QED
  BY <1>4, <1>5 DEF Upto

(* So what it confirms has been dealt with.                                   *)
LEMMA ConfirmingIsSafe ==
  ASSUME PollInv
  PROVE  /\ ConfirmedBy(offset) \in confirmed .. sent
         /\ DealtWith(ConfirmedBy(offset))
         /\ offset - 1 <= ConfirmedBy(offset)
<1>1. offset \in Nat /\ confirmed \in Nat /\ sent \in Nat
  BY PollAssumption DEF PollInv, PollTypeOK
<1>2. DealtWith(offset - 1) /\ DealtWith(confirmed)
  BY DEF PollInv, ConfirmedWasDispatched, DealtWith
<1>3. /\ ConfirmedBy(offset) \in confirmed .. sent
      /\ ConfirmedBy(offset) < offset \/ ConfirmedBy(offset) = confirmed
      /\ offset - 1 <= ConfirmedBy(offset)
  BY ConfirmedByBounds DEF PollInv
<1>4. DealtWith(ConfirmedBy(offset))
  BY <1>1, <1>2, <1>3 DEF DealtWith
<1>5. QED
  BY <1>3, <1>4

-----------------------------------------------------------------------------
LEMMA InitEstablishes == Init => IInv
<1>1. ASSUME Init PROVE IInv
  <2>1. PollTypeOK
    <3>1. batch \in Seq(Updates) /\ rung \in 1 .. Rungs
      BY <1>1, PollAssumption DEF Init, PollInit
    <3>2. sent \in 0 .. MaxUpdates /\ confirmed \in 0 .. sent /\ offset \in 0 .. MaxUpdates + 1
      BY <1>1, PollAssumption DEF Init, PollInit
    <3>3. QED
      BY <1>1, <3>1, <3>2 DEF Init, PollInit, PollTypeOK, Places
  <2>2. TypeOK
    <3>1. ends \in 0 .. MaxEnds
      BY <1>1, RunnerAssumption DEF Init
    <3>2. QED
      BY <1>1, <2>1, <3>1 DEF Init, TypeOK
  <2>3. PollInv
    BY <1>1, <2>1 DEF Init, PollInit, PollInv, DealtWith, ConfirmedWasDispatched,
                      BatchFollows
  <2>4. NothingDropped /\ SignalFirst
    BY <1>1 DEF Init, PollInit, NothingDropped, SignalFirst
  <2>5. QED
    BY <2>2, <2>3, <2>4 DEF IInv
<1>2. QED
  BY <1>1

(* Steps that move the loop about without touching what the invariant         *)
(* relates.                                                                   *)
LEMMA QuietPollStep ==
  ASSUME PollInv, pc' \in Places, rung' \in 1 .. Rungs,
         webhook' \in BOOLEAN, dropPending' \in BOOLEAN, gctx' \in BOOLEAN,
         UNCHANGED <<sent, confirmed, offset, batch, turnVars>>
  PROVE  PollInv'
<1>1. PollTypeOK'
  BY DEF PollInv, PollTypeOK, turnVars
<1>2. QED
  BY <1>1 DEF PollInv, DealtWith, ConfirmedWasDispatched, BatchFollows, turnVars

(* Runs as a batch of updates: more may be sent, a call answers with one,     *)
(* and taking the first of them leaves the next one first.                    *)
LEMMA RunGrows ==
  ASSUME NEW b \in Seq(Nat), NEW first, NEW top \in Nat, Run(b, first, top)
  PROVE  Run(b, first, top + 1)
<1>1. \A i \in 1 .. Len(b) : b[i] \in Nat
  OBVIOUS
<1>2. QED
  BY <1>1 DEF Run

LEMMA AnswerIsRun ==
  ASSUME NEW c \in Nat, NEW top \in Nat, NEW last \in c .. top,
         top <= MaxUpdates,
         NEW b, b = [i \in 1 .. last - c |-> c + i]
  PROVE  /\ b \in Seq(Updates)
         /\ b # <<>> => b[1] = c + 1
         /\ Run(b, c + 1, top)
<1>1. last \in Nat /\ c <= last /\ last <= top /\ last - c \in Nat
  OBVIOUS
<1>2. \A i \in 1 .. last - c : c + i \in Updates /\ c + i <= top /\ c + i = (c + 1) + i - 1
  BY <1>1, PollAssumption DEF Updates
<1>3. b \in Seq(Updates) /\ Len(b) = last - c
  <2> DEFINE n == last - c
  <2>1. n \in Nat /\ b \in [1 .. n -> Updates]
    BY <1>1, <1>2
  <2> HIDE DEF n
  <2>2. b \in Seq(Updates) /\ Len(b) = n
    BY <2>1
  <2>3. QED
    BY <2>2 DEF n
<1>4. Run(b, c + 1, top)
  BY <1>2, <1>3 DEF Run
<1>5. b # <<>> => 1 \in 1 .. last - c
  BY <1>1, <1>3
<1>6. QED
  BY <1>3, <1>4, <1>5

LEMMA TailIsRun ==
  ASSUME NEW S \in SUBSET Nat, NEW b \in Seq(S), b # <<>>,
         NEW top \in Nat, Run(b, b[1], top)
  PROVE  /\ Head(b) = b[1] /\ b[1] \in S /\ b[1] <= top
         /\ Tail(b) \in Seq(S)
         /\ Tail(b) # <<>> => Tail(b)[1] = b[1] + 1
         /\ Run(Tail(b), b[1] + 1, top)
<1> DEFINE n == Len(b)
           t == Tail(b)
<1>1. n \in Nat /\ 1 \in 1 .. n /\ Head(b) = b[1] /\ b[1] \in S
  OBVIOUS
<1>2. /\ t \in Seq(S) /\ Len(t) = n - 1
      /\ \A i \in 1 .. n - 1 : t[i] = b[i + 1]
  BY <1>1
<1>3. \A i \in 1 .. n : b[i] = b[1] + i - 1 /\ b[i] <= top
  BY DEF Run
<1> DEFINE f == b[1]
<1>4. f \in Nat
  BY <1>1
<1> HIDE DEF n, t, f
<1>5. \A i \in 1 .. n - 1 : i \in Nat /\ i + 1 \in 1 .. n
  BY <1>1
<1>6. \A i \in 1 .. n - 1 : t[i] = f + i /\ t[i] <= top
  <2>1. \A i \in 1 .. n : b[i] = f + i - 1 /\ b[i] <= top
    BY <1>3 DEF f
  <2>2. ASSUME NEW i \in 1 .. n - 1 PROVE t[i] = f + i /\ t[i] <= top
    <3>1. b[i + 1] = f + (i + 1) - 1 /\ b[i + 1] <= top
      BY <1>5, <2>1
    <3>2. QED
      BY <1>2, <1>5, <1>4, <3>1
  <2>3. QED
    BY <2>2
<1>7. Run(t, f + 1, top)
  <2>1. \A i \in 1 .. n - 1 : f + i = (f + 1) + i - 1
    BY <1>5, <1>4
  <2>2. QED
    BY <1>2, <1>6, <2>1 DEF Run
<1>8. t # <<>> => 1 \in 1 .. n - 1
  BY <1>1, <1>2
<1>9. QED
  BY <1>1, <1>2, <1>3, <1>6, <1>7, <1>8 DEF t, f

LEMMA ReceivePreserves ==
  ASSUME PollInv, Receive
  PROVE  PollInv'
<1>1. PollTypeOK'
  BY PollAssumption DEF PollInv, PollTypeOK, Receive, loopVars, turnVars
<1>2. sent \in Nat /\ sent' = sent + 1 /\ offset \in Nat
  BY PollAssumption DEF PollInv, PollTypeOK, Receive
<1>3. UNCHANGED <<confirmed, offset, batch, seen, dispatched>>
  BY DEF Receive, loopVars, turnVars
<1>4. batch \in Seq(Nat)
  BY PollAssumption DEF PollInv, PollTypeOK, Updates
<1>5. Run(batch, batch[1], sent) => Run(batch, batch[1], sent + 1)
  BY <1>2, <1>4, RunGrows
<1>6. BatchFollows'
  BY <1>2, <1>3, <1>5 DEF PollInv, BatchFollows, DealtWith
<1>7. QED
  BY <1>1, <1>2, <1>3, <1>6 DEF PollInv, DealtWith, ConfirmedWasDispatched

LEMMA PollSucceedsPreserves ==
  ASSUME PollInv, PollSucceeds
  PROVE  PollInv'
<1> DEFINE c == confirmed'
           b == batch'
<1>1. confirmed \in Nat /\ sent \in Nat /\ sent <= MaxUpdates /\ offset \in Nat
  BY PollAssumption DEF PollInv, PollTypeOK
<1>2. /\ c \in confirmed .. sent
      /\ DealtWith(c)
      /\ offset - 1 <= c
  BY ConfirmingIsSafe DEF PollSucceeds
<1>3. PICK last \in c .. sent : b = [i \in 1 .. last - c |-> c + i]
  BY DEF PollSucceeds
<1>4. UNCHANGED <<sent, webhook, dropPending, gctx, offset, rung, handlers, answered, seen, dispatched>>
  BY DEF PollSucceeds, turnVars
<1>5. pc' = "batch"
  BY DEF PollSucceeds, Goto
<1> HIDE DEF c, b
<1>6. c \in Nat /\ offset <= c + 1 /\ (c + 1) - 1 = c /\ c \in 0 .. sent
  BY <1>1, <1>2
<1>7. /\ b \in Seq(Updates)
      /\ b # <<>> => b[1] = c + 1
      /\ Run(b, c + 1, sent)
  BY <1>1, <1>3, <1>6, AnswerIsRun
<1>8. PollTypeOK'
  BY <1>4, <1>5, <1>6, <1>7 DEF PollInv, PollTypeOK, Places, b, c
<1>9. b # <<>> => /\ offset <= b[1]
                   /\ DealtWith(b[1] - 1)
                   /\ Run(b, b[1], sent)
  BY <1>2, <1>6, <1>7
<1>10. BatchFollows'
  BY <1>4, <1>9 DEF BatchFollows, DealtWith, b
<1>11. ConfirmedWasDispatched'
  BY <1>2, <1>4 DEF ConfirmedWasDispatched, DealtWith, c
<1>12. QED
  BY <1>4, <1>8, <1>10, <1>11 DEF PollInv, DealtWith

LEMMA PollFailsPreserves ==
  ASSUME PollInv, PollFails
  PROVE  PollInv'
<1>1. UNCHANGED <<sent, webhook, dropPending, gctx, offset, batch, rung, handlers, answered, seen, dispatched>>
  BY DEF PollFails, turnVars
<1>2. confirmed' \in confirmed .. sent /\ DealtWith(confirmed')
  BY PollAssumption, ConfirmingIsSafe
     DEF PollFails, PollInv, PollTypeOK, ConfirmedWasDispatched, DealtWith
<1>3. PollTypeOK'
  BY <1>1, <1>2, PollAssumption
     DEF PollInv, PollTypeOK, PollFails, Goto, Places, Returned
<1>4. QED
  BY <1>1, <1>2, <1>3 DEF PollInv, DealtWith, ConfirmedWasDispatched, BatchFollows

LEMMA DispatchPreserves ==
  ASSUME PollInv, Dispatch
  PROVE  /\ PollInv'
         /\ Head(batch) \notin seen
<1> DEFINE u == batch[1]
           t == Tail(batch)
<1>1. /\ batch \in Seq(Updates) /\ batch # <<>>
      /\ sent \in Nat /\ offset \in Nat /\ Updates \in SUBSET Nat
  BY PollAssumption DEF PollInv, PollTypeOK, Dispatch, Updates
<1>2. /\ offset <= u /\ DealtWith(u - 1) /\ Run(batch, u, sent)
      /\ seen \subseteq 1 .. offset - 1
  BY <1>1 DEF PollInv, BatchFollows
<1>3. /\ Head(batch) = u /\ u \in Updates /\ u <= sent
      /\ t \in Seq(Updates)
      /\ t # <<>> => t[1] = u + 1
      /\ Run(t, u + 1, sent)
  BY <1>1, <1>2, TailIsRun
<1> HIDE DEF u, t
<1>4. u \in Nat /\ 1 <= u /\ u \notin seen /\ u + 1 \in 0 .. MaxUpdates + 1
  BY <1>1, <1>2, <1>3, PollAssumption DEF Updates
<1>5. offset' = u + 1
  BY <1>1, <1>2, <1>3, <1>4 DEF Dispatch, OffsetPast
<1>6. batch' = t /\ UNCHANGED <<sent, confirmed, webhook, dropPending, gctx, pc, rung>>
  BY DEF Dispatch, apiVars, t
<1>7. /\ dispatched \subseteq dispatched'
      /\ u \in Ignored \cup dispatched'
      /\ dispatched' \subseteq dispatched \cup {u}
      /\ seen' \subseteq seen \cup {u}
      /\ seen' \subseteq dispatched'
      /\ handlers' \subseteq handlers \cup {u}
      /\ answered' = answered
  BY <1>3 DEF Dispatch, turnVars, PollInv, PollTypeOK
<1>8. \A v \in 1 .. u : v \in Ignored \cup dispatched'
  BY <1>2, <1>4, <1>7 DEF DealtWith
<1>9. PollTypeOK'
  BY <1>3, <1>4, <1>5, <1>6, <1>7 DEF PollInv, PollTypeOK
<1>10. (u + 1) - 1 = u /\ offset' - 1 = u /\ offset' <= sent + 1
  BY <1>1, <1>3, <1>4, <1>5
<1>11. DealtWith(offset - 1)'
  BY <1>8, <1>10 DEF DealtWith
<1>12. BatchFollows'
  <2>1. t # <<>> => /\ offset' <= t[1] /\ t[1] - 1 = u
                    /\ Run(t, t[1], sent)
    BY <1>3, <1>4, <1>5, <1>10
  <2>2. QED
    BY <1>6, <1>8, <2>1 DEF BatchFollows, DealtWith
<1>13. ConfirmedWasDispatched'
  BY <1>6, <1>7 DEF PollInv, ConfirmedWasDispatched
<1>14. seen' \subseteq 1 .. offset' - 1
  BY <1>1, <1>2, <1>4, <1>7, <1>10
<1>15. QED
  BY <1>3, <1>4, <1>6, <1>9, <1>10, <1>11, <1>12, <1>13, <1>14 DEF PollInv

-----------------------------------------------------------------------------
(* Only Dispatch gives an update a handler, and one that is new to this       *)
(* process.                                                                   *)
LEMMA PollStepPreserves ==
  ASSUME PollInv, PollNext
  PROVE  /\ PollInv'
         /\ \A u \in Updates : u \in handlers' \ handlers => u \notin seen
<1>1. rung \in 1 .. Rungs /\ rung \in Nat /\ Rungs \in Nat /\ 1 \in 1 .. Rungs
  BY PollAssumption DEF PollInv, PollTypeOK
<1>2. webhook \in BOOLEAN /\ dropPending \in BOOLEAN /\ gctx \in BOOLEAN /\ pc \in Places
  BY DEF PollInv, PollTypeOK
<1>3. CASE Receive
  BY <1>3, ReceivePreserves DEF Receive, turnVars
<1>4. CASE PollSucceeds
  BY <1>4, PollSucceedsPreserves DEF PollSucceeds, turnVars
<1>5. CASE PollFails
  BY <1>5, PollFailsPreserves DEF PollFails, turnVars
<1>6. CASE Dispatch
  <2>1. handlers' \subseteq handlers \cup {Head(batch)}
    BY <1>6 DEF Dispatch, turnVars
  <2>2. QED
    BY <1>6, <2>1, DispatchPreserves
<1>7. ASSUME NEW u \in Updates, HandlerReturns(u)
      PROVE  PollInv' /\ handlers' \subseteq handlers
  <2>1. PollTypeOK'
    BY <1>7 DEF HandlerReturns, PollInv, PollTypeOK, apiVars, loopVars
  <2>2. QED
    BY <1>7, <2>1 DEF HandlerReturns, PollInv, DealtWith, ConfirmedWasDispatched,
                      BatchFollows, apiVars, loopVars
<1>8. CASE Probe \/ DeleteWebhook \/ DrainPending \/ WaitOver \/ BatchDone
  <2>1. pc' \in Places /\ webhook' \in BOOLEAN /\ dropPending' \in BOOLEAN
    BY <1>2, <1>8 DEF Probe, DeleteWebhook, DrainPending, WaitOver, BatchDone,
                 Goto, Places, Returned, apiVars
  <2>2. UNCHANGED <<sent, confirmed, gctx, rung, offset, batch, turnVars>>
    BY <1>8 DEF Probe, DeleteWebhook, DrainPending, WaitOver, BatchDone, apiVars
  <2>3. QED
    BY <1>1, <1>2, <2>1, <2>2, QuietPollStep DEF turnVars
<1>9. CASE PollConflicts \/ ClimbRung \/ LeaveLadder
  <2>1. pc' \in Places
    BY <1>2, <1>9 DEF PollConflicts, ClimbRung, LeaveLadder, Goto, Places, Returned
  <2>2. rung' \in 1 .. Rungs
    BY <1>1, <1>9 DEF PollConflicts, ClimbRung, LeaveLadder, LastRung
  <2>3. UNCHANGED <<apiVars, gctx, offset, batch, turnVars>>
    BY <1>9 DEF PollConflicts, ClimbRung, LeaveLadder
  <2>4. QED
    BY <1>2, <2>1, <2>2, <2>3, QuietPollStep DEF apiVars, turnVars
<1>10. QED
  BY <1>3, <1>4, <1>5, <1>6, <1>7, <1>8, <1>9 DEF PollNext, Start

(* Handlers become answered, and updates get a handler as they are            *)
(* dispatched: none is dropped.                                               *)
LEMMA PollStepDropsNothing ==
  ASSUME PollNext, dispatched \subseteq handlers \cup answered
  PROVE  (dispatched \subseteq handlers \cup answered)'
<1>1. CASE Dispatch
  BY <1>1 DEF Dispatch, turnVars
<1>2. ASSUME NEW u \in Updates, HandlerReturns(u)
      PROVE  (dispatched \subseteq handlers \cup answered)'
  BY <1>2 DEF HandlerReturns
<1>3. CASE UNCHANGED turnVars
  BY <1>3 DEF turnVars
<1>4. QED
  BY <1>1, <1>2, <1>3
     DEF PollNext, Start, Probe, DeleteWebhook, DrainPending, PollSucceeds,
         PollConflicts, PollFails, WaitOver, ClimbRung, LeaveLadder, BatchDone,
         Receive

-----------------------------------------------------------------------------
LEMMA TelegramPreserves ==
  ASSUME IInv, Telegram
  PROVE  IInv'
<1>1. PollInv'
  BY PollStepPreserves DEF IInv, Telegram
<1>2. UNCHANGED <<ctx, other, watcher, runner, ends>>
  BY DEF Telegram, runnerVars
<1>3. TypeOK'
  BY <1>1, <1>2 DEF IInv, TypeOK, PollInv
<1>4. NothingDropped'
  BY <1>2, PollStepDropsNothing DEF IInv, NothingDropped, Telegram
<1>5. QED
  BY <1>1, <1>2, <1>3, <1>4 DEF IInv, SignalFirst

(* The runner's own steps, and the signal, leave the loop alone but for its   *)
(* context.                                                                   *)
LEMMA RunnerStepPreserves ==
  ASSUME IInv, RunnerStep \/ Interrupt
  PROVE  IInv'
<1>1. /\ UNCHANGED <<sent, confirmed, webhook, dropPending, loopVars, turnVars, ends>>
      /\ gctx' \in BOOLEAN
  BY DEF IInv, PollInv, PollTypeOK, RunnerStep, OtherFails, OtherStops,
         GroupCancels, GroupReturns, WatcherStops, Return, Interrupt,
         pollVars, apiVars, runnerVars
<1>2. PollInv'
  BY <1>1, QuietPollStep DEF IInv, PollInv, PollTypeOK, loopVars
<1>3. /\ ctx' \in BOOLEAN /\ watcher' \in BOOLEAN
      /\ other' \in {"running", "failed", "over"}
      /\ runner' \in {"group", "watcher", "returned"}
  BY DEF IInv, TypeOK, RunnerStep, OtherFails, OtherStops, GroupCancels,
         GroupReturns, WatcherStops, Return, Interrupt, runnerVars
<1>4. TypeOK'
  BY <1>1, <1>2, <1>3 DEF IInv, TypeOK, PollInv
<1>5. NothingDropped'
  BY <1>1 DEF IInv, NothingDropped, turnVars
<1>6. SignalFirst'
  BY DEF IInv, SignalFirst, RunnerStep, OtherFails, OtherStops, GroupCancels,
         GroupReturns, WatcherStops, Return, WaitsForWatcher, Interrupt, runnerVars
<1>7. QED
  BY <1>2, <1>4, <1>5, <1>6 DEF IInv

LEMMA GoDownPreserves ==
  ASSUME IInv, GoDown
  PROVE  IInv'
<1>1. /\ UNCHANGED <<sent, confirmed, webhook, dropPending, answered, dispatched>>
      /\ pc' = "down" /\ offset' = 0 /\ batch' = <<>> /\ rung' = 1
      /\ gctx' = FALSE /\ handlers' = {} /\ seen' = {}
  BY DEF GoDown, StartOver, Goto, apiVars
<1>2. ends \in 0 .. MaxEnds /\ ends < MaxEnds /\ ends' = ends + 1
  BY DEF IInv, TypeOK, GoDown
<1>3. ends' \in 0 .. MaxEnds /\ ends' # 0
  BY <1>2, RunnerAssumption
<1>4. /\ 0 \in 0 .. MaxUpdates + 1 /\ 1 \in 1 .. Rungs
      /\ sent \in Nat /\ 0 <= sent + 1
  BY PollAssumption DEF IInv, TypeOK, PollTypeOK
<1>5. PollTypeOK'
  <2>1. /\ sent \in 0 .. MaxUpdates /\ confirmed \in 0 .. sent
        /\ webhook \in BOOLEAN /\ dropPending \in BOOLEAN
        /\ answered \subseteq Updates /\ dispatched \subseteq Updates
    BY DEF IInv, TypeOK, PollTypeOK
  <2>2. batch' \in Seq(Updates)
    BY <1>1
  <2>3. pc' \in Places /\ gctx' \in BOOLEAN
    BY <1>1 DEF Places
  <2>4. QED
    BY <1>1, <1>4, <2>1, <2>2, <2>3 DEF PollTypeOK
<1>6. DealtWith(offset - 1)'
  <2>1. 1 .. offset' - 1 = {}
    BY <1>1
  <2>2. QED
    BY <2>1 DEF DealtWith
<1>7. PollInv'
  BY <1>1, <1>4, <1>5, <1>6 DEF IInv, PollInv, ConfirmedWasDispatched, BatchFollows
<1>8. TypeOK'
  BY <1>3, <1>5 DEF TypeOK, GoDown
<1>9. NothingDropped' /\ SignalFirst'
  BY <1>3 DEF NothingDropped, SignalFirst, GoDown
<1>10. QED
  BY <1>7, <1>8, <1>9 DEF IInv

LEMMA StartAgainPreserves ==
  ASSUME IInv, StartAgain
  PROVE  IInv'
<1>1. pc' = "probe" /\ UNCHANGED <<sent, confirmed, webhook, dropPending, gctx, offset, batch, rung, turnVars>>
  BY DEF StartAgain, Goto, apiVars
<1>2. UNCHANGED <<ctx, other, watcher, runner, ends>>
  BY DEF StartAgain, runnerVars
<1>3. PollInv'
  BY <1>1, QuietPollStep DEF IInv, PollInv, PollTypeOK, Places
<1>4. TypeOK'
  BY <1>2, <1>3 DEF IInv, TypeOK, PollInv
<1>5. QED
  BY <1>1, <1>2, <1>3, <1>4 DEF IInv, NothingDropped, SignalFirst, turnVars

-----------------------------------------------------------------------------
(* The invariant of the poll loop and of the runner holds in every reachable  *)
(* state, however often the process goes down.                                *)
THEOREM RunnerInvariant == Spec => []IInv
<1>1. IInv /\ [Next]_vars => IInv'
  <2>1. SUFFICES ASSUME IInv, [Next]_vars PROVE IInv'
    OBVIOUS
  <2>2. CASE UNCHANGED vars
    <3>1. PollInv'
      BY <2>1, <2>2, QuietPollStep
         DEF IInv, PollInv, PollTypeOK, vars, pollVars, apiVars, loopVars
    <3>2. QED
      BY <2>1, <2>2, <3>1 DEF IInv, TypeOK, PollInv, NothingDropped, SignalFirst,
                              vars, pollVars, turnVars, runnerVars
  <2>3. QED
    BY <2>1, <2>2, TelegramPreserves, RunnerStepPreserves, GoDownPreserves,
       StartAgainPreserves DEF Next
<1>2. QED
  BY <1>1, InitEstablishes, PTL DEF Spec

(* Every variable of the loop and of the runner keeps its type.               *)
THEOREM RunnerTypeCorrect == Spec => []TypeOK
<1>1. IInv => TypeOK
  BY DEF IInv
<1>2. QED
  BY <1>1, RunnerInvariant, PTL

(* The API never forgets an update that no process has dispatched or          *)
(* ignored, whatever answers were lost and however often it was restarted.    *)
THEOREM NoUpdateIsLost == Spec => []ConfirmedWasDispatched
<1>1. IInv => ConfirmedWasDispatched
  BY DEF IInv, PollInv
<1>2. QED
  BY <1>1, RunnerInvariant, PTL

(* As long as the process has not gone down, what the API has forgotten is    *)
(* answered or has its handler running.                                       *)
THEOREM OnlyEndsLoseUpdates == Spec => []LostOnlyWithProcess
<1>1. IInv => LostOnlyWithProcess
  BY DEF IInv, PollInv, ConfirmedWasDispatched, NothingDropped, LostOnlyWithProcess
<1>2. QED
  BY <1>1, RunnerInvariant, PTL

(* One process starts at most one handler for an update, however often the    *)
(* API repeats it.                                                            *)
THEOREM NoProcessRepeats == Spec => OncePerProcess
<1>1. IInv /\ [Next]_vars =>
        [\A u \in Updates : u \in handlers' \ handlers => u \notin seen]_vars
  <2>1. SUFFICES ASSUME IInv, Next, NEW u \in Updates, u \in handlers' \ handlers
                 PROVE  u \notin seen
    OBVIOUS
  <2>2. CASE Telegram
    BY <2>1, <2>2, PollStepPreserves DEF IInv, Telegram
  <2>3. CASE RunnerStep \/ Interrupt \/ GoDown \/ StartAgain
    BY <2>1, <2>3 DEF RunnerStep, OtherFails, OtherStops, GroupCancels,
       GroupReturns, WatcherStops, Return, Interrupt, GoDown, StartOver,
       StartAgain, pollVars, turnVars
  <2>4. QED
    BY <2>1, <2>2, <2>3 DEF Next
<1>2. QED
  BY <1>1, RunnerInvariant, PTL DEF Spec, OncePerProcess

(* Runner.Start waits for the watcher, and so for the signal.                 *)
THEOREM StartReturnsOnSignal == Spec => []ReturnNeedsSignal
<1>1. IInv => ReturnNeedsSignal
  BY DEF IInv, SignalFirst, ReturnNeedsSignal
<1>2. QED
  BY <1>1, RunnerInvariant, PTL
=============================================================================
