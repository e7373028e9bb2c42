-------------------------- MODULE AgentTurnProofs ---------------------------
(* The budget and the interrupt of a turn, for any number of turns, presses   *)
(* of ctrl+c, iterations and empty responses; and the output of a terminal    *)
(* call of a turn, for any command and any size of pipes and channels.        *)
EXTENDS AgentTurn, TerminalStream, SequenceTheorems, TLAPS

(* The types that the arithmetic of the budget needs. *)
CountersTyped ==
  /\ pc \in [Turns -> Labels]
  /\ used \in [Turns -> Nat]
  /\ graceUsed \in [Turns -> BOOLEAN]
  /\ calls \in [Turns -> Nat]
  /\ empties \in [Turns -> Nat]

(* What an admission is worth: a turn that may call has an answer left in     *)
(* its budget, or is using its grace call.                                    *)
AdmissionIsBacked(t) ==
  /\ used[t] <= MaxIterations \/ (graceUsed[t] = TRUE /\ used[t] = MaxIterations + 1)
  /\ pc[t] \in {"admitted", "checked", "calling"} =>
       used[t] < MaxIterations \/ (graceUsed[t] = TRUE /\ used[t] = MaxIterations)

(* Every call started was answered, was empty, or is the one in flight.  A    *)
(* turn that is over may have had one that failed.                            *)
CallsAreAccounted(t) ==
  /\ pc[t] \notin {"calling", "done"} => calls[t] = used[t] + empties[t]
  /\ pc[t] = "calling" => calls[t] = used[t] + empties[t] + 1
  /\ calls[t] - empties[t] <= MaxIterations + 1

BudgetInv ==
  /\ CountersTyped
  /\ \A t \in Turns : AdmissionIsBacked(t) /\ CallsAreAccounted(t)

(* A step of turn t leaves the budget of every other turn alone; what is left *)
(* to show is that it keeps that of t.                                        *)
LEMMA OneTurnSteps ==
  ASSUME BudgetInv, NEW t \in Turns,
         CountersTyped',
         \A u \in Turns : u # t =>
           /\ pc'[u] = pc[u] /\ used'[u] = used[u] /\ graceUsed'[u] = graceUsed[u]
           /\ calls'[u] = calls[u] /\ empties'[u] = empties[u],
         AdmissionIsBacked(t)', CallsAreAccounted(t)'
  PROVE  BudgetInv'
<1>1. ASSUME NEW u \in Turns PROVE AdmissionIsBacked(u)' /\ CallsAreAccounted(u)'
  <2>1. CASE u = t
    BY <2>1
  <2>2. CASE u # t
    BY <1>1, <2>2 DEF BudgetInv, AdmissionIsBacked, CallsAreAccounted
  <2>3. QED
    BY <2>1, <2>2
<1>2. QED
  BY <1>1 DEF BudgetInv

LEMMA StepKeepsBudget ==
  ASSUME BudgetInv, NEW t \in Turns, Start(t) \/ Step(t)
  PROVE  BudgetInv'
<1> USE TurnAssumption
<1>0. /\ used[t] \in Nat /\ calls[t] \in Nat /\ empties[t] \in Nat
      /\ pc[t] \in Labels
      /\ AdmissionIsBacked(t) /\ CallsAreAccounted(t)
  BY DEF BudgetInv, CountersTyped
<1>1. CASE Start(t)
  <2>1. CountersTyped' /\ AdmissionIsBacked(t)' /\ CallsAreAccounted(t)'
    BY <1>1 DEF BudgetInv, CountersTyped, AdmissionIsBacked, CallsAreAccounted,
                Start, GoTo, Labels, budgetVars
  <2>2. QED
    BY <1>1, <2>1, OneTurnSteps DEF BudgetInv, CountersTyped, Start, GoTo, budgetVars
<1>2. CASE Admit(t)
  <2>1. /\ pc[t] = "top"
        /\ UNCHANGED <<used, calls, empties>>
    BY <1>2 DEF Admit
  <2>2. /\ \/ used[t] < MaxIterations
           \/ graceUsed'[t] = TRUE
           \/ pc'[t] = "done"
        /\ graceUsed[t] = TRUE => graceUsed'[t] = TRUE
        /\ graceUsed' \in [Turns -> BOOLEAN]
        /\ pc' \in [Turns -> Labels]
        /\ pc'[t] \in {"admitted", "done"}
    BY <1>2 DEF BudgetInv, CountersTyped, Admit, WithinBudget, Finish, GoTo, Labels
  <2>3. used[t] = MaxIterations + 1 => pc'[t] = "done"
    <3>1. SUFFICES ASSUME used[t] = MaxIterations + 1 PROVE pc'[t] = "done"
      OBVIOUS
    <3>2. used[t] \in Nat /\ ~(used[t] < MaxIterations) /\ ~(used[t] <= MaxIterations)
      BY <3>1 DEF BudgetInv, CountersTyped
    <3>3. graceUsed[t] = TRUE
      BY <3>2 DEF BudgetInv, AdmissionIsBacked
    <3>4. ~WithinBudget(t)
      BY <3>2 DEF WithinBudget
    <3>5. GoTo(t, "done")
      BY <1>2, <3>3, <3>4 DEF Admit, Finish
    <3>6. QED
      BY <3>5 DEF GoTo, BudgetInv, CountersTyped
  <2>4. CountersTyped'
    BY <2>1, <2>2 DEF BudgetInv, CountersTyped
  <2>5. AdmissionIsBacked(t)'
    BY <1>0, <2>1, <2>2, <2>3 DEF AdmissionIsBacked
  <2>6. CallsAreAccounted(t)'
    BY <1>0, <2>1, <2>2 DEF CallsAreAccounted
  <2>7. QED
    BY <1>2, <2>4, <2>5, <2>6, OneTurnSteps
       DEF BudgetInv, CountersTyped, Admit, Finish, GoTo
<1>3. CASE CheckInterrupt(t)
  <2>1. CountersTyped' /\ AdmissionIsBacked(t)' /\ CallsAreAccounted(t)'
    BY <1>3 DEF BudgetInv, CountersTyped, AdmissionIsBacked, CallsAreAccounted,
                CheckInterrupt, Finish, GoTo, Labels, budgetVars
  <2>2. QED
    BY <1>3, <2>1, OneTurnSteps
       DEF BudgetInv, CountersTyped, CheckInterrupt, Finish, GoTo, budgetVars
<1>4. CASE CheckContext(t)
  <2>1. /\ UNCHANGED <<used, graceUsed, empties>>
        /\ pc[t] = "checked"
        /\ \/ pc'[t] = "done" /\ calls'[t] = calls[t]
           \/ pc'[t] = "calling" /\ calls'[t] = calls[t] + 1
    BY <1>4 DEF BudgetInv, CountersTyped, CheckContext, Finish, GoTo, Labels, budgetVars
  <2>2. CountersTyped'
    BY <1>4 DEF BudgetInv, CountersTyped, CheckContext, Finish, GoTo, Labels, budgetVars
  <2>3. AdmissionIsBacked(t)'
    BY <1>0, <2>1 DEF AdmissionIsBacked
  <2>4. used[t] <= MaxIterations
    BY <1>0, <2>1 DEF AdmissionIsBacked
  <2>5. CallsAreAccounted(t)'
    BY <1>0, <2>1, <2>4 DEF CallsAreAccounted
  <2>6. QED
    BY <1>4, <2>2, <2>3, <2>5, OneTurnSteps
       DEF BudgetInv, CountersTyped, CheckContext, Finish, GoTo, budgetVars
<1>5. CASE EmptyResponse(t)
  <2>1. CountersTyped' /\ AdmissionIsBacked(t)' /\ CallsAreAccounted(t)'
    BY <1>5 DEF BudgetInv, CountersTyped, AdmissionIsBacked, CallsAreAccounted,
                EmptyResponse, GoTo, Labels, budgetVars
  <2>2. QED
    BY <1>5, <2>1, OneTurnSteps
       DEF BudgetInv, CountersTyped, EmptyResponse, GoTo, budgetVars
<1>6. CASE CallFails(t)
  <2>1. CountersTyped' /\ AdmissionIsBacked(t)' /\ CallsAreAccounted(t)'
    BY <1>6 DEF BudgetInv, CountersTyped, AdmissionIsBacked, CallsAreAccounted,
                CallFails, Finish, GoTo, Labels, budgetVars
  <2>2. QED
    BY <1>6, <2>1, OneTurnSteps
       DEF BudgetInv, CountersTyped, CallFails, Finish, GoTo, budgetVars
<1>7. CASE Answer(t)
  <2>1. CountersTyped' /\ AdmissionIsBacked(t)' /\ CallsAreAccounted(t)'
    BY <1>7 DEF BudgetInv, CountersTyped, AdmissionIsBacked, CallsAreAccounted,
                Answer, Spent, Finish, GoTo, Labels
  <2>2. QED
    BY <1>7, <2>1, OneTurnSteps
       DEF BudgetInv, CountersTyped, Answer, Spent, Finish, GoTo
<1>8. CASE ToolCalls(t)
  <2>1. CountersTyped' /\ AdmissionIsBacked(t)' /\ CallsAreAccounted(t)'
    BY <1>8 DEF BudgetInv, CountersTyped, AdmissionIsBacked, CallsAreAccounted,
                ToolCalls, Spent, GoTo, Labels
  <2>2. QED
    BY <1>8, <2>1, OneTurnSteps
       DEF BudgetInv, CountersTyped, ToolCalls, Spent, GoTo
<1>9. CASE RoundOver(t)
  <2>1. CountersTyped' /\ AdmissionIsBacked(t)' /\ CallsAreAccounted(t)'
    BY <1>9 DEF BudgetInv, CountersTyped, AdmissionIsBacked, CallsAreAccounted,
                RoundOver, GoTo, Labels, budgetVars
  <2>2. QED
    BY <1>9, <2>1, OneTurnSteps
       DEF BudgetInv, CountersTyped, RoundOver, GoTo, budgetVars
<1>10. QED
  BY <1>1, <1>2, <1>3, <1>4, <1>5, <1>6, <1>7, <1>8, <1>9 DEF Step

(* The budget's invariant holds in every reachable state. *)
THEOREM BudgetInvariant == Spec => []BudgetInv
<1>1. Init => BudgetInv
  BY TurnAssumption DEF Init, BudgetInv, CountersTyped, AdmissionIsBacked,
                        CallsAreAccounted, Labels
<1>2. BudgetInv /\ [Next]_vars => BudgetInv'
  <2>1. SUFFICES ASSUME BudgetInv, [Next]_vars PROVE BudgetInv'
    OBVIOUS
  <2>2. ASSUME NEW t \in Turns, Start(t) \/ Step(t) PROVE BudgetInv'
    BY <2>1, <2>2, StepKeepsBudget
  <2>3. ASSUME UNCHANGED <<pc, used, graceUsed, calls, empties>> PROVE BudgetInv'
    BY <2>1, <2>3 DEF BudgetInv, CountersTyped, AdmissionIsBacked, CallsAreAccounted
  <2>4. QED
    BY <2>1, <2>2, <2>3 DEF Next, vars, budgetVars, Cancel, Clear, CancelContext
<1>3. QED
  BY <1>1, <1>2, PTL DEF Spec

(* A turn never gets more than one answer beyond its budget, and never starts *)
(* more calls than that but for the empty ones.                               *)
THEOREM BudgetAlwaysHolds == Spec => []BudgetHolds
<1>1. BudgetInv => BudgetHolds
  <2>1. SUFFICES ASSUME BudgetInv, NEW t \in Turns
                 PROVE  /\ used[t] <= MaxIterations + 1
                        /\ calls[t] - empties[t] <= MaxIterations + 1
    BY DEF BudgetHolds
  <2>2. used[t] \in Nat /\ AdmissionIsBacked(t) /\ CallsAreAccounted(t)
    BY <2>1 DEF BudgetInv, CountersTyped
  <2>3. QED
    BY <2>2, TurnAssumption DEF AdmissionIsBacked, CallsAreAccounted
<1>2. QED
  BY <1>1, BudgetInvariant, PTL

-----------------------------------------------------------------------------
(* While the flag is set, a turn that has started a call since ctrl+c cannot  *)
(* be past the check of the flag again.                                       *)
InterruptInv ==
  /\ pc \in [Turns -> Labels]
  /\ after \in [Turns -> Int]
  /\ interrupt => \A t \in Turns :
       /\ after[t] <= 1
       /\ pc[t] = "checked" => after[t] <= 0

LEMMA TurnKeepsInterruptInv ==
  ASSUME InterruptInv, NEW t \in Turns, Start(t) \/ Step(t)
  PROVE  InterruptInv'
<1>1. CASE Start(t)
  BY <1>1 DEF InterruptInv, Start, GoTo, Labels, signalVars
<1>2. CASE Admit(t)
  BY <1>2 DEF InterruptInv, Admit, Finish, GoTo, Labels, signalVars
<1>3. CASE CheckInterrupt(t)
  BY <1>3 DEF InterruptInv, CheckInterrupt, Interrupted, Finish, GoTo, Labels, signalVars
<1>4. CASE CheckContext(t)
  <2>1. interrupt' = interrupt /\ pc' \in [Turns -> Labels]
    BY <1>4 DEF InterruptInv, CheckContext, Finish, GoTo, Labels, signalVars
  <2>2. /\ after' \in [Turns -> Int]
        /\ \A u \in Turns : u # t => after'[u] = after[u] /\ pc'[u] = pc[u]
        /\ pc'[t] # "checked"
        /\ pc[t] = "checked" /\ after'[t] \in {after[t], after[t] + 1}
    BY <1>4 DEF InterruptInv, CheckContext, Finish, GoTo, Labels, NotCancelled
  <2>3. QED
    BY <2>1, <2>2 DEF InterruptInv
<1>5. CASE EmptyResponse(t)
  BY <1>5 DEF InterruptInv, EmptyResponse, GoTo, Labels, signalVars
<1>6. CASE CallFails(t)
  BY <1>6 DEF InterruptInv, CallFails, Finish, GoTo, Labels, signalVars
<1>7. CASE Answer(t)
  BY <1>7 DEF InterruptInv, Answer, Finish, GoTo, Labels, signalVars
<1>8. CASE ToolCalls(t)
  BY <1>8 DEF InterruptInv, ToolCalls, GoTo, Labels, signalVars
<1>9. CASE RoundOver(t)
  BY <1>9 DEF InterruptInv, RoundOver, GoTo, Labels, signalVars
<1>10. QED
  BY <1>1, <1>2, <1>3, <1>4, <1>5, <1>6, <1>7, <1>8, <1>9 DEF Step

(* The invariant of the interrupt holds in every reachable state. *)
THEOREM InterruptInvariant == Spec => []InterruptInv
<1>1. Init => InterruptInv
  BY DEF Init, InterruptInv, Labels, NotCancelled
<1>2. InterruptInv /\ [Next]_vars => InterruptInv'
  <2>1. SUFFICES ASSUME InterruptInv, [Next]_vars PROVE InterruptInv'
    OBVIOUS
  <2>2. ASSUME NEW t \in Turns, Start(t) \/ Step(t) PROVE InterruptInv'
    BY <2>1, <2>2, TurnKeepsInterruptInv
  <2>3. ASSUME NEW p \in Presses, Cancel(p) PROVE InterruptInv'
    <3>1. after' = [t \in Turns |-> IF Running(t) THEN 0 ELSE NotCancelled] /\ pc' = pc
      BY <2>3 DEF Cancel
    <3>2. QED
      BY <2>1, <3>1 DEF InterruptInv, NotCancelled
  <2>4. ASSUME NEW p \in Presses, Clear(p) PROVE InterruptInv'
    BY <2>1, <2>4 DEF InterruptInv, Clear
  <2>5. ASSUME UNCHANGED <<interrupt, pc, after>> PROVE InterruptInv'
    BY <2>1, <2>5 DEF InterruptInv
  <2>6. QED
    BY <2>1, <2>2, <2>3, <2>4, <2>5 DEF Next, vars, CancelContext
<1>3. QED
  BY <1>1, <1>2, PTL DEF Spec

(* While the flag stays set, a turn that was running when it was set starts   *)
(* at most one more API call.                                                 *)
THEOREM InterruptStopsTurns == Spec => []InterruptStopsSoon
<1>1. InterruptInv => InterruptStopsSoon
  BY DEF InterruptInv, InterruptStopsSoon
<1>2. QED
  BY <1>1, InterruptInvariant, PTL

-----------------------------------------------------------------------------
(* The types of a call, and what its steps know of each other: a goroutine   *)
(* that has ended stays ended.                                                *)
TermTyped ==
  /\ \A s \in Streams : script[s] \in Seq(Nat)
  /\ written \in [Streams -> Nat] /\ taken \in [Streams -> Nat]
  /\ \A s \in Streams : taken[s] <= written[s] /\ written[s] <= Len(script[s])
  /\ pump \in [Streams -> {"none", "scanning", "sending", "done"}]
  /\ sch \in Seq(Streams \X Nat) /\ ch \in Seq(Streams \X Nat)
  /\ out \in Seq(Streams \X Nat)
  /\ held \in (Streams \X Nat) \cup {NoChunk}

Ended ==
  /\ exec \in {"starting", "waiting", "joining", "returned"}
  /\ exec = "starting" => \A s \in Streams : pump[s] = "none"
  /\ exec = "returned" => \A s \in Streams : pump[s] \in {"none", "done"}
  /\ schClosed => exec = "returned"
  /\ chClosed => bridge = "done"

HandsMatch == bridge = "sending" <=> held # NoChunk

TermInv == TermTyped /\ Ended /\ HandsMatch /\ ScannedIsInTransit

(* What is in the bridge's hands, as a sequence. *)
InHands == IF held = NoChunk THEN <<>> ELSE <<held>>

LEMMA InitTerm ==
  TermInit => TermInv
<1> SUFFICES ASSUME TermInit PROVE TermInv
  OBVIOUS
<1>1. TermTyped
  <2>1. \A s \in Streams : script[s] \in Seq(Nat)
    BY StreamAssumption DEF TermInit
  <2>2. <<>> \in Seq(Streams \X Nat)
    OBVIOUS
  <2>3. QED
    BY <2>1, <2>2 DEF TermInit, TermTyped
<1>2. Ended /\ HandsMatch
  BY DEF TermInit, Ended, HandsMatch
<1>3. Sent = <<>>
  <2>1. Sent = <<>> \o <<>> \o <<>> \o <<>>
    BY DEF TermInit, Sent
  <2>2. QED
    BY <2>1
<1>4. ScannedIsInTransit
  <2> SUFFICES ASSUME NEW s \in Streams
               PROVE  SentBy(s) = {} /\ InHand(s) = {} /\ Scanned(s) = {}
    BY DEF ScannedIsInTransit, LinesOf
  <2>1. SentBy(s) = {}
    BY <1>3 DEF SentBy
  <2>2. InHand(s) = {}
    BY DEF InHand, TermInit
  <2>3. Scanned(s) = {}
    <3>1. taken[s] = 0
      BY DEF TermInit
    <3>2. QED
      BY <3>1 DEF Scanned
  <2>4. QED
    BY <2>1, <2>2, <2>3
<1>5. QED
  BY <1>1, <1>2, <1>4 DEF TermInv

LEMMA TypedStep ==
  ASSUME TermInv, [TermNext]_termVars
  PROVE  TermTyped'
<1> USE DEF TermInv
<1> USE TermTyped DEF TermTyped
<1> DEFINE C == Streams \X Nat
<1>1. CASE UNCHANGED termVars
  BY <1>1 DEF termVars, procVars, execVars, bridgeVars, chanVars, collVars
<1>2. CASE Command
  <2>1. CASE Exit
    BY <2>1 DEF Exit, execVars, bridgeVars, chanVars, collVars
  <2>2. ASSUME NEW s \in Streams, WriteLine(s) PROVE TermTyped'
    <3>1. /\ written' = [written EXCEPT ![s] = @ + 1] /\ written[s] < Len(script[s])
          /\ UNCHANGED <<script, taken, pump, sch, ch, out, held>>
      BY <2>2 DEF WriteLine, execVars, bridgeVars, chanVars, collVars
    <3>2. written' \in [Streams -> Nat]
      BY <3>1
    <3>3. \A x \in Streams : taken'[x] <= written'[x] /\ written'[x] <= Len(script'[x])
      <4> SUFFICES ASSUME NEW x \in Streams
                   PROVE  taken[x] <= written'[x] /\ written'[x] <= Len(script[x])
        BY <3>1
      <4>1. Len(script[x]) \in Nat
        OBVIOUS
      <4>2. QED
        BY <3>1, <4>1
    <3>4. QED
      BY <3>1, <3>2, <3>3
  <2>3. QED
    BY <1>2, <2>1, <2>2 DEF Command
<1>3. CASE Exec
  <2>1. CASE StartCommand
    BY <2>1 DEF StartCommand, bridgeVars, chanVars, collVars
  <2>2. CASE StartFails \/ Wait \/ Join \/ CloseSch
    BY <2>2 DEF StartFails, Wait, Join, CloseSch, procVars, execVars, bridgeVars,
                chanVars, collVars
  <2>3. QED
    BY <1>3, <2>1, <2>2 DEF Exec
<1>4. ASSUME NEW s \in Streams, Pump(s) PROVE TermTyped'
  <2>1. CASE Scan(s)
    <3>1. /\ taken' = [taken EXCEPT ![s] = @ + 1] /\ taken[s] < written[s]
          /\ UNCHANGED <<script, written, sch, ch, out, held>>
      BY <2>1 DEF Scan, procVars, bridgeVars, chanVars, collVars
    <3>2. taken' \in [Streams -> Nat]
      BY <3>1
    <3>3. \A x \in Streams : taken'[x] <= written[x]
      BY <3>1
    <3>4. pump' \in [Streams -> {"none", "scanning", "sending", "done"}]
      BY <2>1 DEF Scan, PumpAt
    <3>5. QED
      BY <3>1, <3>2, <3>3, <3>4
  <2>2. CASE PumpSends(s)
    <3>1. Line(s) \in C
      BY DEF Line
    <3>2. sch' \in Seq(C)
      BY <2>2, <3>1, AppendProperties DEF PumpSends
    <3>3. QED
      BY <2>2, <3>2 DEF PumpSends, PumpAt, procVars, bridgeVars, collVars
  <2>3. CASE ScanEnds(s) \/ PumpGivesUp(s)
    BY <2>3 DEF ScanEnds, PumpGivesUp, PumpAt, procVars, bridgeVars, chanVars, collVars
  <2>4. QED
    BY <1>4, <2>1, <2>2, <2>3 DEF Pump
<1>5. CASE Bridge
  <2>1. CASE BridgeReceives
    <3>1. Head(sch) \in C /\ Tail(sch) \in Seq(C)
      BY <2>1 DEF BridgeReceives
    <3>2. QED
      BY <2>1, <3>1 DEF BridgeReceives, procVars, execVars, collVars
  <2>2. CASE BridgeSends
    <3>1. held \in C
      BY <2>2, HandsMatch DEF BridgeSends, HandsMatch
    <3>2. ch' \in Seq(C)
      BY <2>2, <3>1, AppendProperties DEF BridgeSends
    <3>3. QED
      BY <2>2, <3>2 DEF BridgeSends, procVars, execVars, collVars
  <2>3. CASE BridgeDrops \/ BridgeEnds
    BY <2>3 DEF BridgeDrops, BridgeEnds, procVars, execVars, chanVars, collVars
  <2>4. QED
    BY <1>5, <2>1, <2>2, <2>3 DEF Bridge
<1>6. CASE Collect
  <2>1. Head(ch) \in C /\ Tail(ch) \in Seq(C)
    BY <1>6 DEF Collect
  <2>2. out' \in Seq(C)
    BY <1>6, <2>1, AppendProperties DEF Collect
  <2>3. QED
    BY <1>6, <2>1, <2>2 DEF Collect, procVars, execVars, bridgeVars
<1>7. CASE CollectorEnds \/ Handler \/ Timeout
  BY <1>7 DEF CollectorEnds, Handler, CloseCh, Return, Timeout, procVars, execVars,
              bridgeVars, chanVars, collVars
<1>8. QED
  BY <1>1, <1>2, <1>3, <1>4, <1>5, <1>6, <1>7 DEF TermNext

LEMMA EndedStep ==
  ASSUME TermInv, [TermNext]_termVars
  PROVE  Ended' /\ HandsMatch'
<1> USE TermInv, StreamAssumption DEF TermInv, TermTyped, Ended, HandsMatch
<1>1. CASE UNCHANGED termVars
  BY <1>1 DEF termVars, execVars, bridgeVars, chanVars
<1>2. CASE Command
  BY <1>2 DEF Command, Exit, WriteLine, execVars, bridgeVars, chanVars
<1>3. CASE Exec
  <2>1. CASE StartCommand
    BY <2>1 DEF StartCommand, bridgeVars, chanVars
  <2>2. CASE Join
    BY <2>2 DEF Join, PumpsDone, bridgeVars, chanVars
  <2>3. CASE StartFails \/ Wait \/ CloseSch
    BY <2>3 DEF StartFails, Wait, CloseSch, execVars, bridgeVars, chanVars
  <2>4. QED
    BY <1>3, <2>1, <2>2, <2>3 DEF Exec
<1>4. ASSUME NEW s \in Streams, Pump(s) PROVE Ended' /\ HandsMatch'
  <2>1. /\ pump[s] \in {"scanning", "sending"}
        /\ UNCHANGED <<exec, schClosed, chClosed, bridge, held>>
    BY <1>4 DEF Pump, Scan, ScanEnds, PumpSends, PumpGivesUp, bridgeVars, chanVars
  <2>2. exec # "starting" /\ exec # "returned"
    BY <2>1
  <2>3. QED
    BY <2>1, <2>2
<1>5. CASE Bridge
  <2>1. CASE BridgeReceives
    <3>1. Head(sch) \in Streams \X Nat
      BY <2>1 DEF BridgeReceives
    <3>2. QED
      BY <2>1, <3>1 DEF BridgeReceives, execVars
  <2>2. CASE BridgeSends
    BY <2>2 DEF BridgeSends, execVars
  <2>3. CASE BridgeDrops
    BY <2>3 DEF BridgeDrops, execVars, chanVars
  <2>4. CASE BridgeEnds
    BY <2>4 DEF BridgeEnds, execVars, chanVars
  <2>5. QED
    BY <1>5, <2>1, <2>2, <2>3, <2>4 DEF Bridge
<1>6. CASE Collect \/ CollectorEnds \/ Handler \/ Timeout
  BY <1>6 DEF Collect, CollectorEnds, Handler, CloseCh, Return, Timeout, execVars,
              bridgeVars, chanVars
<1>7. QED
  BY <1>1, <1>2, <1>3, <1>4, <1>5, <1>6 DEF TermNext

(* Sent is made of four sequences, of which the third has one chunk or none.  *)
LEMMA HandsTyped ==
  ASSUME TermTyped
  PROVE  InHands \in Seq(Streams \X Nat) /\ Sent \in Seq(Streams \X Nat)
<1> DEFINE C == Streams \X Nat
<1>1. InHands \in Seq(C)
  <2>1. CASE held = NoChunk
    BY <2>1 DEF InHands
  <2>2. CASE held # NoChunk
    <3>1. held \in C
      BY <2>2 DEF TermTyped
    <3>2. <<held>> \in Seq(C)
      BY <3>1
    <3>3. QED
      BY <2>2, <3>2 DEF InHands
  <2>3. QED
    BY <2>1, <2>2
<1>2. out \in Seq(C) /\ ch \in Seq(C) /\ sch \in Seq(C)
  BY DEF TermTyped
<1>3. Sent = out \o ch \o InHands \o sch
  BY DEF Sent, InHands
<1> HIDE DEF C
<1>4. Sent \in Seq(C)
  BY <1>1, <1>2, <1>3, ConcatProperties
<1>5. QED
  BY <1>1, <1>4 DEF C

(* Moving the first chunk of a queue to the end of the one before it changes  *)
(* nothing of the two together.                                               *)
LEMMA ShiftOne ==
  ASSUME NEW C, NEW a \in Seq(C), NEW b \in Seq(C), b # <<>>
  PROVE  Append(a, Head(b)) \o Tail(b) = a \o b
<1>1. Head(b) \in C /\ Tail(b) \in Seq(C)
  BY HeadTailProperties
<1>2. Append(a, Head(b)) = a \o <<Head(b)>>
  BY <1>1, AppendIsConcat
<1>3. <<Head(b)>> \in Seq(C)
  BY <1>1
<1>4. <<Head(b)>> \o Tail(b) = b
  <2> DEFINE t == <<Head(b)>> \o Tail(b)
  <2>1. /\ t \in Seq(C) /\ Len(t) = Len(b)
        /\ \A i \in 1 .. Len(t) : t[i] = b[i]
    <3>1. Len(<<Head(b)>>) = 1 /\ <<Head(b)>>[1] = b[1]
      OBVIOUS
    <3>2. /\ t \in Seq(C) /\ Len(t) = 1 + Len(Tail(b))
          /\ \A i \in 1 .. 1 + Len(Tail(b)) :
                t[i] = IF i <= 1 THEN <<Head(b)>>[i] ELSE Tail(b)[i - 1]
      BY <1>1, <1>3, <3>1, ConcatProperties
    <3>3. /\ Len(b) \in Nat /\ Len(Tail(b)) = Len(b) - 1
          /\ \A i \in 1 .. Len(Tail(b)) : Tail(b)[i] = b[i + 1]
      BY HeadTailProperties, LenProperties
    <3> HIDE DEF t
    <3>4. Len(t) = Len(b)
      BY <3>2, <3>3
    <3>5. ASSUME NEW i \in 1 .. Len(t) PROVE t[i] = b[i]
      <4>1. CASE i = 1
        BY <3>1, <3>2, <3>3, <3>4, <4>1
      <4>2. CASE i # 1
        <5>1. t[i] = Tail(b)[i - 1]
          BY <3>2, <3>3, <3>4, <4>2
        <5>2. Tail(b)[i - 1] = b[(i - 1) + 1]
          BY <3>3, <3>4, <4>2
        <5>3. (i - 1) + 1 = i
          OBVIOUS
        <5>4. QED
          BY <5>1, <5>2, <5>3
      <4>3. QED
        BY <4>1, <4>2
    <3>6. QED
      BY <3>2, <3>4, <3>5
  <2> HIDE DEF t
  <2>2. t = b
    BY <2>1, SeqEqual
  <2>3. QED
    BY <2>2 DEF t
<1>5. QED
  BY <1>1, <1>2, <1>3, <1>4, ConcatAssociative

(* The bridge and the collector hand a chunk on; what has been sent is the    *)
(* same afterwards.                                                           *)
LEMMA HandingOnKeepsSent ==
  ASSUME TermTyped, HandsMatch, BridgeReceives \/ BridgeSends \/ Collect
  PROVE  Sent' = Sent
<1> DEFINE C == Streams \X Nat
<1>1. /\ out \in Seq(C) /\ ch \in Seq(C) /\ sch \in Seq(C)
      /\ held \in C \cup {NoChunk}
      /\ InHands \in Seq(C)
  BY HandsTyped DEF TermTyped
<1>2. /\ Sent = ((out \o ch) \o InHands) \o sch
      /\ Sent' = ((out' \o ch') \o InHands') \o sch'
  BY DEF Sent, InHands
<1>3. CASE BridgeReceives
  <2>1. /\ sch # <<>> /\ held = NoChunk
        /\ out' = out /\ ch' = ch
        /\ held' = Head(sch) /\ sch' = Tail(sch)
    BY <1>3 DEF BridgeReceives, HandsMatch, collVars
  <2>2. Head(sch) \in C
    BY <1>1, <2>1, HeadTailProperties
  <2>3. InHands = <<>> /\ InHands' = <<Head(sch)>>
    BY <2>1, <2>2, StreamAssumption DEF InHands, StreamAssumption
  <2> DEFINE a == out \o ch
  <2>4. a \in Seq(C)
    BY <1>1, ConcatProperties
  <2>5. Sent = a \o sch
    BY <1>2, <2>3, <2>4, ConcatEmptySeq
  <2>6. Sent' = Append(a, Head(sch)) \o Tail(sch)
    BY <1>2, <2>1, <2>2, <2>3, <2>4, AppendIsConcat
  <2> HIDE DEF a, C
  <2>7. QED
    BY <1>1, <2>1, <2>4, <2>5, <2>6, ShiftOne
<1>4. CASE BridgeSends
  <2>1. /\ held # NoChunk /\ held' = NoChunk
        /\ out' = out /\ ch' = Append(ch, held) /\ sch' = sch
    BY <1>4 DEF BridgeSends, HandsMatch, collVars
  <2>2. InHands = <<held>> /\ InHands' = <<>> /\ held \in C
    BY <1>1, <2>1 DEF InHands
  <2>3. <<held>> \in Seq(C) /\ ch' = ch \o <<held>> /\ ch' \in Seq(C)
    BY <1>1, <2>1, <2>2, AppendIsConcat, AppendProperties
  <2> HIDE DEF C
  <2>4. out \o ch' = (out \o ch) \o <<held>>
    BY <1>1, <2>3, ConcatAssociative
  <2>5. out \o ch' \in Seq(C)
    BY <1>1, <2>3, ConcatProperties
  <2>6. (out \o ch') \o <<>> = out \o ch'
    BY <2>5, ConcatEmptySeq
  <2>7. QED
    BY <1>2, <2>1, <2>2, <2>4, <2>6
<1>5. CASE Collect
  <2>1. /\ ch # <<>> /\ out' = Append(out, Head(ch)) /\ ch' = Tail(ch)
        /\ held' = held /\ sch' = sch
    BY <1>5 DEF Collect, bridgeVars
  <2>2. InHands' = InHands
    BY <2>1 DEF InHands
  <2> HIDE DEF C
  <2>3. out' \o ch' = out \o ch
    BY <1>1, <2>1, ShiftOne
  <2>4. QED
    BY <1>2, <2>1, <2>2, <2>3
<1>6. QED
  BY <1>3, <1>4, <1>5

(* A pump that finds room adds its line at the end.                           *)
LEMMA PumpAddsLast ==
  ASSUME TermTyped, NEW s \in Streams, PumpSends(s)
  PROVE  Sent' = Append(Sent, Line(s))
<1> DEFINE C == Streams \X Nat
           a == out \o ch \o InHands
<1>1. /\ out \in Seq(C) /\ ch \in Seq(C) /\ sch \in Seq(C) /\ InHands \in Seq(C)
      /\ Sent \in Seq(C)
  BY HandsTyped DEF TermTyped
<1>2. Line(s) \in C
  BY DEF Line, TermTyped
<1>3. sch' = Append(sch, Line(s)) /\ out' = out /\ ch' = ch /\ InHands' = InHands
  BY DEF PumpSends, InHands, collVars, bridgeVars
<1>4. Sent = a \o sch /\ Sent' = a \o sch'
  BY <1>3 DEF Sent, InHands
<1> HIDE DEF C
<1>5. a \in Seq(C)
  BY <1>1, ConcatProperties
<1> HIDE DEF a
<1>6. sch' = sch \o <<Line(s)>> /\ <<Line(s)>> \in Seq(C)
  BY <1>1, <1>2, <1>3, AppendIsConcat
<1>7. Sent' = Sent \o <<Line(s)>>
  BY <1>1, <1>4, <1>5, <1>6, ConcatAssociative
<1>8. QED
  BY <1>1, <1>2, <1>7, AppendIsConcat

(* A step that leaves what has been sent and what pumps have in hand as it is. *)
LEMMA StillInTransit ==
  ASSUME ScannedIsInTransit, tctx => tctx',
         script' = script, taken' = taken, Sent' = Sent,
         \A s \in Streams : InHand(s)' = InHand(s)
  PROVE  ScannedIsInTransit'
<1>1. \A s \in Streams : SentBy(s)' = SentBy(s) /\ LinesOf(s)' = LinesOf(s)
  BY DEF SentBy, LinesOf
<1>2. \A s \in Streams : Scanned(s)' = Scanned(s)
  BY DEF Scanned, Size
<1>3. QED
  BY <1>1, <1>2 DEF ScannedIsInTransit

(* A pump that gives up lets go of its line.                                  *)
LEMMA GivingUpKeepsOrder ==
  ASSUME TermTyped, ScannedIsInTransit, NEW s \in Streams, PumpGivesUp(s)
  PROVE  ScannedIsInTransit'
<1>1. /\ UNCHANGED <<script, taken, tctx, out, ch, held, sch>>
      /\ pump' = [pump EXCEPT ![s] = "done"]
  BY DEF PumpGivesUp, PumpAt, procVars, bridgeVars, chanVars, collVars
<1>2. Sent' = Sent
  BY <1>1 DEF Sent
<1>3. \A x \in Streams : /\ SentBy(x)' = SentBy(x) /\ LinesOf(x)' = LinesOf(x)
                         /\ Scanned(x)' = Scanned(x)
  BY <1>1, <1>2 DEF SentBy, LinesOf, Scanned, Size
<1>4. \A x \in Streams : InHand(x)' \subseteq InHand(x)
  BY <1>1 DEF InHand, TermTyped
<1>5. tctx'
  BY <1>1 DEF PumpGivesUp
<1>6. QED
  BY <1>2, <1>3, <1>4, <1>5 DEF ScannedIsInTransit

(* The bridge drops a chunk from between those before and those behind it;    *)
(* they keep their order.                                                     *)
LEMMA DroppingKeepsOrder ==
  ASSUME TermTyped, HandsMatch, ScannedIsInTransit, BridgeDrops
  PROVE  ScannedIsInTransit'
<1> DEFINE C == Streams \X Nat
           a == out \o ch
           m == Len(a)
           n == Len(sch)
           Before(i) == IF i <= m THEN i ELSE i + 1
<1>1. /\ out \in Seq(C) /\ ch \in Seq(C) /\ sch \in Seq(C)
  BY DEF TermTyped
<1>2. /\ UNCHANGED <<script, taken, pump, tctx, out, ch, sch>>
      /\ held # NoChunk /\ held' = NoChunk /\ held \in C
  BY DEF BridgeDrops, HandsMatch, TermTyped, procVars, execVars, chanVars, collVars
<1>3. tctx'
  BY DEF BridgeDrops, MayDrop
<1>4. <<held>> \in Seq(C) /\ Len(<<held>>) = 1
  BY <1>2
<1>5. Sent = (a \o <<held>>) \o sch /\ Sent' = (a \o <<>>) \o sch
  BY <1>2 DEF Sent
<1> HIDE DEF C
<1>6. a \in Seq(C) /\ a \o <<>> = a /\ m \in Nat /\ n \in Nat
  BY <1>1, ConcatProperties, ConcatEmptySeq, LenProperties
<1> HIDE DEF a
<1>7. /\ a \o <<held>> \in Seq(C) /\ Len(a \o <<held>>) = m + 1
      /\ \A i \in 1 .. m : (a \o <<held>>)[i] = a[i]
  BY <1>4, <1>6, ConcatProperties
<1>8. /\ Len(Sent) = (m + 1) + n
      /\ \A i \in 1 .. (m + 1) + n :
           Sent[i] = IF i <= m + 1 THEN (a \o <<held>>)[i] ELSE sch[i - (m + 1)]
  BY <1>1, <1>5, <1>7, ConcatProperties
<1>9. /\ Len(Sent') = m + n
      /\ \A i \in 1 .. m + n : Sent'[i] = IF i <= m THEN a[i] ELSE sch[i - m]
  BY <1>1, <1>5, <1>6, ConcatProperties
<1> HIDE DEF m, n
<1>10. ASSUME NEW i \in 1 .. Len(Sent')
       PROVE  Before(i) \in 1 .. Len(Sent) /\ Sent'[i] = Sent[Before(i)]
  <2>1. CASE i <= m
    BY <1>6, <1>7, <1>8, <1>9, <2>1
  <2>2. CASE i > m
    <3>1. i + 1 \in 1 .. (m + 1) + n /\ ~(i + 1 <= m + 1) /\ ~(i <= m)
      BY <1>6, <1>9, <2>2
    <3>2. (i + 1) - (m + 1) = i - m
      BY <1>6
    <3>3. Sent[i + 1] = sch[i - m] /\ Sent'[i] = sch[i - m]
      BY <1>8, <1>9, <3>1, <3>2
    <3>4. QED
      BY <1>8, <3>1, <3>3
  <2>3. QED
    BY <1>6, <1>9, <2>1, <2>2
<1>11. \A i, j \in 1 .. Len(Sent') : i < j => Before(i) < Before(j)
  BY <1>6, <1>9
<1> HIDE DEF Before
<1>12. ASSUME NEW s \in Streams
       PROVE  /\ \A i \in SentBy(s)' : Before(i) \in SentBy(s)
              /\ LinesOf(s)' \subseteq LinesOf(s)
              /\ InHand(s)' = InHand(s) /\ Scanned(s)' = Scanned(s)
  <2>1. \A i \in SentBy(s)' : i \in 1 .. Len(Sent') /\ Before(i) \in SentBy(s)
    BY <1>10 DEF SentBy
  <2>2. LinesOf(s)' \subseteq LinesOf(s)
    BY <1>10, <2>1 DEF LinesOf
  <2>3. QED
    BY <1>2, <2>1, <2>2 DEF InHand, Scanned, Size
<1>13. ASSUME NEW s \in Streams, NEW i \in SentBy(s)', NEW j \in SentBy(s)', i < j
       PROVE  Sent'[i][2] < Sent'[j][2]
  <2>1. i \in 1 .. Len(Sent') /\ j \in 1 .. Len(Sent')
    BY DEF SentBy
  <2>2. Before(i) \in SentBy(s) /\ Before(j) \in SentBy(s) /\ Before(i) < Before(j)
    BY <1>11, <1>12, <1>13, <2>1
  <2>3. QED
    BY <1>10, <2>1, <2>2 DEF ScannedIsInTransit
<1>14. QED
  BY <1>3, <1>12, <1>13 DEF ScannedIsInTransit

(* What a pump scans it has in hand, or is done with.                         *)
LEMMA ScanKeepsTransit ==
  ASSUME TermTyped, ScannedIsInTransit, NEW s \in Streams, Scan(s)
  PROVE  ScannedIsInTransit'
<1> USE StreamAssumption
<1> DEFINE n == taken[s] + 1
<1>1. /\ taken' = [taken EXCEPT ![s] = n] /\ taken[s] < written[s]
      /\ pump[s] = "scanning"
      /\ UNCHANGED <<script, written, sch, ch, out, held, tctx>>
      /\ pump' = [pump EXCEPT ![s] = IF script[s][n] > LineCap THEN "done" ELSE "sending"]
  BY DEF Scan, PumpAt, procVars, bridgeVars, chanVars, collVars
<1>2. Sent' = Sent /\ \A x \in Streams : SentBy(x)' = SentBy(x) /\ LinesOf(x)' = LinesOf(x)
  BY <1>1 DEF Sent, SentBy, LinesOf
<1>3. ASSUME NEW x \in Streams, x # s
      PROVE  InHand(x)' = InHand(x) /\ Scanned(x)' = Scanned(x)
  <2>1. taken'[x] = taken[x] /\ pump'[x] = pump[x]
    BY <1>1, <1>3 DEF TermTyped
  <2>2. QED
    BY <1>1, <2>1 DEF InHand, Scanned, Size
<1>4. /\ n \in Nat /\ taken[s] \in Nat /\ n \notin 1 .. taken[s]
      /\ n \in 1 .. Len(script[s])
  <2>1. taken[s] \in Nat /\ written[s] \in Nat /\ written[s] <= Len(script[s])
        /\ Len(script[s]) \in Nat
    BY LenProperties DEF TermTyped
  <2>2. QED
    BY <1>1, <2>1
<1>5. script[s][n] \in Nat /\ LineCap \in Nat
  BY <1>4, ElementOfSeq DEF TermTyped
<1>6. taken'[s] = n /\ InHand(s) = {}
  BY <1>1 DEF TermTyped, InHand
<1>7. Scanned(s)' = Scanned(s) \cup (IF script[s][n] <= LineCap THEN {n} ELSE {})
  <2>1. 1 .. n = (1 .. taken[s]) \cup {n}
    BY <1>4
  <2>2. Scanned(s)' = {m \in 1 .. n : script[s][m] <= LineCap}
    BY <1>1, <1>6 DEF Scanned, Size
  <2>3. Scanned(s) = {m \in 1 .. taken[s] : script[s][m] <= LineCap}
    BY DEF Scanned, Size
  <2> HIDE DEF n
  <2>4. QED
    BY <2>1, <2>2, <2>3
<1>8. InHand(s)' = IF script[s][n] <= LineCap THEN {n} ELSE {}
  <2>1. pump'[s] = IF script[s][n] > LineCap THEN "done" ELSE "sending"
    BY <1>1 DEF TermTyped
  <2>2. QED
    BY <1>5, <1>6, <2>1 DEF InHand
<1>9. n \notin Scanned(s)
  BY <1>4 DEF Scanned
<1> HIDE DEF n
<1>10. InHand(s)' \subseteq Scanned(s)' /\ Scanned(s)' \ InHand(s)' = Scanned(s)
  BY <1>7, <1>8, <1>9
<1>11. QED
  BY <1>1, <1>2, <1>3, <1>6, <1>10 DEF ScannedIsInTransit

(* A line that is sent is the last of its stream, and not in hand any more.   *)
LEMMA SendKeepsTransit ==
  ASSUME TermTyped, ScannedIsInTransit, NEW s \in Streams, PumpSends(s)
  PROVE  ScannedIsInTransit'
<1> DEFINE C == Streams \X Nat
           len == Len(Sent)
<1>1. /\ pump[s] = "sending" /\ pump' = [pump EXCEPT ![s] = "scanning"]
      /\ UNCHANGED <<script, taken, tctx>>
  BY DEF PumpSends, PumpAt, procVars
<1>2. taken[s] \in Nat /\ InHand(s) = {taken[s]} /\ taken[s] \in Scanned(s)
      /\ \A x \in Streams : Scanned(x) \subseteq 1 .. taken[x]
  BY <1>1 DEF TermTyped, ScannedIsInTransit, InHand, Scanned
<1>3. /\ Line(s) \in C /\ Line(s)[1] = s /\ Line(s)[2] = taken[s]
  BY <1>2 DEF Line
<1>4. /\ Sent \in Seq(C) /\ len \in Nat
      /\ Len(Sent') = len + 1 /\ Sent'[len + 1] = Line(s)
      /\ \A i \in 1 .. len : Sent'[i] = Sent[i]
  <2>1. Sent \in Seq(C) /\ Sent' = Append(Sent, Line(s))
    BY HandsTyped, PumpAddsLast
  <2> HIDE DEF C
  <2>2. QED
    BY <1>3, <2>1, AppendProperties, LenProperties
<1> HIDE DEF C, len
<1>5. \A x \in Streams : SentBy(x) \subseteq 1 .. len
  BY DEF SentBy, len
<1>6. SentBy(s)' = SentBy(s) \cup {len + 1}
  <2>1. 1 .. len + 1 = (1 .. len) \cup {len + 1}
    BY <1>4
  <2>2. QED
    BY <1>3, <1>4, <2>1 DEF SentBy, len
<1>7. ASSUME NEW x \in Streams, x # s
      PROVE  /\ SentBy(x)' = SentBy(x)
             /\ InHand(x)' = InHand(x) /\ Scanned(x)' = Scanned(x)
  <2>1. 1 .. len + 1 = (1 .. len) \cup {len + 1}
    BY <1>4
  <2>2. SentBy(x)' = SentBy(x)
    BY <1>3, <1>4, <1>7, <2>1 DEF SentBy, len
  <2>3. pump'[x] = pump[x]
    BY <1>1, <1>7 DEF TermTyped
  <2>4. QED
    BY <1>1, <2>2, <2>3 DEF InHand, Scanned, Size
<1>8. Scanned(s)' = Scanned(s) /\ InHand(s)' = {}
  BY <1>1 DEF Scanned, Size, InHand, TermTyped
<1>9. ASSUME NEW x \in Streams, x # s
      PROVE  /\ InHand(x)' \subseteq Scanned(x)'
             /\ LinesOf(x)' \subseteq Scanned(x)' \ InHand(x)'
             /\ ~tctx => LinesOf(x)' = Scanned(x)' \ InHand(x)'
             /\ \A i, j \in SentBy(x)' : i < j => Sent'[i][2] < Sent'[j][2]
  <2>1. \A i \in SentBy(x) : Sent'[i] = Sent[i]
    BY <1>4, <1>5
  <2>2. QED
    BY <1>7, <1>9, <2>1 DEF ScannedIsInTransit, LinesOf
<1>10. LinesOf(s)' \subseteq Scanned(s) /\ (~tctx => LinesOf(s)' = Scanned(s))
  <2>1. /\ LinesOf(s) \subseteq Scanned(s) \ {taken[s]}
        /\ ~tctx => LinesOf(s) = Scanned(s) \ {taken[s]}
    BY <1>2 DEF ScannedIsInTransit
  <2>2. \A i \in SentBy(s) : Sent'[i] = Sent[i]
    BY <1>4, <1>5
  <2>3. LinesOf(s)' = LinesOf(s) \cup {Sent'[len + 1][2]}
    BY <1>6, <2>2 DEF LinesOf
  <2>4. Sent'[len + 1][2] = taken[s]
    BY <1>3, <1>4
  <2>5. QED
    BY <1>2, <2>1, <2>3, <2>4
<1>11. ASSUME NEW i \in SentBy(s)', NEW j \in SentBy(s)', i < j
       PROVE  Sent'[i][2] < Sent'[j][2]
  <2>1. i \in SentBy(s) /\ i \in 1 .. len
    BY <1>4, <1>5, <1>6, <1>11
  <2>2. Sent'[i] = Sent[i] /\ Sent[i][2] \in Scanned(s) \ {taken[s]}
    BY <1>2, <1>4, <2>1 DEF ScannedIsInTransit, LinesOf
  <2>3. CASE j = len + 1
    BY <1>2, <1>3, <1>4, <2>2, <2>3
  <2>4. CASE j # len + 1
    <3>1. j \in SentBy(s) /\ Sent'[j] = Sent[j]
      BY <1>4, <1>5, <1>6, <2>4
    <3>2. QED
      BY <1>11, <2>1, <2>2, <3>1 DEF ScannedIsInTransit
  <2>5. QED
    BY <2>3, <2>4
<1>12. QED
  BY <1>1, <1>8, <1>9, <1>10, <1>11 DEF ScannedIsInTransit

LEMMA TransitStep ==
  ASSUME TermInv, [TermNext]_termVars
  PROVE  ScannedIsInTransit'
<1> USE DEF TermInv
<1>1. CASE UNCHANGED termVars
  BY <1>1, StillInTransit
     DEF termVars, procVars, execVars, bridgeVars, chanVars, collVars, Sent, InHand
<1>2. CASE Command
  <2>1. UNCHANGED <<script, taken, pump, tctx, out, ch, held, sch>>
    BY <1>2 DEF Command, Exit, WriteLine, execVars, bridgeVars, chanVars, collVars
  <2>2. QED
    BY <2>1, StillInTransit DEF Sent, InHand
<1>3. CASE Exec
  <2>1. CASE StartCommand
    <3>1. /\ UNCHANGED <<script, taken, tctx, out, ch, held, sch>>
          /\ \A s \in Streams : pump[s] = "none" /\ pump'[s] = "scanning"
      BY <2>1 DEF StartCommand, Ended, bridgeVars, chanVars, collVars
    <3>2. Sent' = Sent /\ \A s \in Streams : InHand(s)' = InHand(s)
      BY <3>1 DEF Sent, InHand
    <3>3. QED
      BY <3>1, <3>2, StillInTransit
  <2>2. CASE StartFails \/ Wait \/ Join \/ CloseSch
    <3>1. UNCHANGED <<script, taken, pump, tctx, out, ch, held, sch>>
      BY <2>2 DEF StartFails, Wait, Join, CloseSch, procVars, execVars, bridgeVars,
                  chanVars, collVars
    <3>2. QED
      BY <3>1, StillInTransit DEF Sent, InHand
  <2>3. QED
    BY <1>3, <2>1, <2>2 DEF Exec
<1>4. ASSUME NEW s \in Streams, Pump(s) PROVE ScannedIsInTransit'
  <2>1. CASE ScanEnds(s)
    <3>1. /\ UNCHANGED <<script, taken, tctx, out, ch, held, sch>>
          /\ pump[s] = "scanning" /\ pump' = [pump EXCEPT ![s] = "done"]
      BY <2>1 DEF ScanEnds, PumpAt, procVars, bridgeVars, chanVars, collVars
    <3>2. Sent' = Sent /\ \A x \in Streams : InHand(x)' = InHand(x)
      BY <3>1 DEF Sent, InHand, TermTyped
    <3>3. QED
      BY <3>1, <3>2, StillInTransit
  <2>2. QED
    BY <1>4, <2>1, ScanKeepsTransit, SendKeepsTransit, GivingUpKeepsOrder DEF Pump
<1>5. CASE BridgeReceives \/ BridgeSends \/ Collect
  <2>1. Sent' = Sent
    BY <1>5, HandingOnKeepsSent
  <2>2. UNCHANGED <<script, taken, pump, tctx>>
    BY <1>5 DEF BridgeReceives, BridgeSends, Collect, procVars, execVars
  <2>3. QED
    BY <2>1, <2>2, StillInTransit DEF InHand
<1>6. CASE BridgeDrops
  BY <1>6, DroppingKeepsOrder
<1>7. CASE BridgeEnds \/ CollectorEnds \/ Handler
  <2>1. UNCHANGED <<script, taken, pump, tctx, out, ch, held, sch>>
    BY <1>7 DEF BridgeEnds, CollectorEnds, Handler, CloseCh, Return, procVars,
                execVars, bridgeVars, chanVars, collVars
  <2>2. QED
    BY <2>1, StillInTransit DEF Sent, InHand
<1>8. CASE Timeout
  <2>1. tctx' /\ UNCHANGED <<script, taken, pump, out, ch, held, sch>>
    BY <1>8 DEF Timeout, procVars, execVars, bridgeVars, chanVars, collVars
  <2>2. QED
    BY <2>1, StillInTransit DEF Sent, InHand
<1>9. QED
  BY <1>1, <1>2, <1>3, <1>4, <1>5, <1>6, <1>7, <1>8 DEF TermNext, Bridge

(* No call, of whatever command and with whatever limits, sends on a channel  *)
(* it has closed, nor repeats or reorders a line it has scanned, nor loses    *)
(* one while it has time.                                                     *)
THEOREM TermInvHolds == TermSpec => []TermInv
<1>1. TermInv /\ [TermNext]_termVars => TermInv'
  BY TypedStep, EndedStep, TransitStep DEF TermInv
<1>2. QED
  BY InitTerm, <1>1, PTL DEF TermSpec

(* sch is closed after the pumps have ended, ch after the bridge has.         *)
THEOREM NoSendOnClosed == TermSpec => []ClosedHasNoSender
<1>1. TermInv => ClosedHasNoSender
  BY DEF TermInv, Ended, ClosedHasNoSender
<1>2. QED
  BY TermInvHolds, <1>1, PTL

(* What the pumps have scanned reaches the collector in order and once, or is *)
(* still on its way; only the end of the time limit loses some of it.         *)
THEOREM OutputIsWhole == TermSpec => []ScannedIsInTransit
<1>1. TermInv => ScannedIsInTransit
  BY DEF TermInv
<1>2. QED
  BY TermInvHolds, <1>1, PTL

=============================================================================
