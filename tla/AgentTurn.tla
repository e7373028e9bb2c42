----------------------------- MODULE AgentTurn ------------------------------
(***************************************************************************)
(* The turn loop of internal/agent: RunConversation with its iteration      *)
(* budget and the interrupt flag, and the TUI of cmd/botreaper/main.go that *)
(* starts turns (one goroutine per submitted line, nothing keeps two from   *)
(* running at once) and cancels them (the flag is set, and cleared by a     *)
(* goroutine half a second later).  The rows a turn writes to the store are  *)
(* left to HomeDir: errors of writing them are ignored here.                *)
(*                                                                         *)
(* A provider answers with text, with tool calls, with an error, or with an *)
(* error whose text contains "empty response", which the loop retries; the  *)
(* bound MaxEmpties is on how often it does that in a turn.                 *)
(***************************************************************************)
EXTENDS Integers

CONSTANTS
  Turns,          \* Chat calls on one agent
  Presses,        \* ctrl+c presses whose half second is not over
  MaxIterations,  \* the budget of API calls per turn
  MaxEmpties      \* bound on the empty responses of a turn

ASSUME TurnAssumption ==
  /\ MaxIterations \in Nat \ {0}
  /\ MaxEmpties \in Nat

VARIABLES
  interrupt,  \* AIAgent.interrupt
  asleep,     \* presses whose goroutine will clear the flag
  ctxDone,    \* the context of the turns is cancelled
  pc,         \* where each turn is
  used,       \* Budget.used
  graceUsed,  \* Budget.graceUsed
  calls,      \* history: API calls started
  empties,    \* history: empty responses
  result,     \* what RunConversation returned
  after       \* history: calls started since ctrl+c, for turns running then

vars == <<interrupt, asleep, ctxDone, pc, used, graceUsed, calls, empties,
          result, after>>

budgetVars == <<used, graceUsed>>
signalVars == <<interrupt, asleep, ctxDone>>

Labels == {"idle", "top", "admitted", "checked", "calling", "tools", "done"}

Running(t) == pc[t] \notin {"idle", "done"}

NotCancelled == -1

MaxCalls == MaxIterations + 1 + MaxEmpties

TypeOK ==
  /\ interrupt \in BOOLEAN /\ ctxDone \in BOOLEAN
  /\ asleep \subseteq Presses
  /\ pc \in [Turns -> Labels]
  /\ used \in [Turns -> 0 .. MaxIterations + 1]
  /\ graceUsed \in [Turns -> BOOLEAN]
  /\ calls \in [Turns -> 0 .. MaxCalls]
  /\ empties \in [Turns -> 0 .. MaxEmpties]
  /\ result \in [Turns -> {"none", "answer", "summary", "error"}]
  /\ after \in [Turns -> NotCancelled .. MaxCalls]

Init ==
  /\ interrupt = FALSE /\ ctxDone = FALSE
  /\ asleep = {}
  /\ pc = [t \in Turns |-> "idle"]
  /\ used = [t \in Turns |-> 0]
  /\ graceUsed = [t \in Turns |-> FALSE]
  /\ calls = [t \in Turns |-> 0]
  /\ empties = [t \in Turns |-> 0]
  /\ result = [t \in Turns |-> "none"]
  /\ after = [t \in Turns |-> NotCancelled]

GoTo(t, label) == pc' = [pc EXCEPT ![t] = label]

Finish(t, r) ==
  /\ GoTo(t, "done")
  /\ result' = [result EXCEPT ![t] = r]

-----------------------------------------------------------------------------
(* Send in the TUI, or Chat elsewhere. *)
Start(t) ==
  /\ pc[t] = "idle"
  /\ GoTo(t, "top")
  /\ UNCHANGED <<signalVars, budgetVars, calls, empties, result, after>>

(* Budget.Admit: within the budget, or once beyond it. *)
WithinBudget_OffByOne(t) == used[t] <= MaxIterations
WithinBudget(t) == used[t] < MaxIterations

Admit(t) ==
  /\ pc[t] = "top"
  /\ \/ /\ WithinBudget(t)
        /\ GoTo(t, "admitted")
        /\ UNCHANGED <<graceUsed, result>>
     \/ /\ ~WithinBudget(t) /\ ~graceUsed[t]
        /\ graceUsed' = [graceUsed EXCEPT ![t] = TRUE]
        /\ GoTo(t, "admitted")
        /\ UNCHANGED result
     \/ /\ ~WithinBudget(t) /\ graceUsed[t]
        /\ Finish(t, "summary")
        /\ UNCHANGED graceUsed
  /\ UNCHANGED <<signalVars, used, calls, empties, after>>

(* An interrupt ends the loop with a summary, not an error. *)
Interrupted_Never == FALSE
Interrupted == interrupt

CheckInterrupt(t) ==
  /\ pc[t] = "admitted"
  /\ IF Interrupted THEN Finish(t, "summary")
     ELSE GoTo(t, "checked") /\ UNCHANGED result
  /\ UNCHANGED <<signalVars, budgetVars, calls, empties, after>>

(* A cancelled context ends it with an error; persistCheck never objects.   *)
(* The API call starts.                                                      *)
CheckContext(t) ==
  /\ pc[t] = "checked"
  /\ IF ctxDone
     THEN Finish(t, "error") /\ UNCHANGED <<calls, after>>
     ELSE /\ GoTo(t, "calling")
          /\ calls' = [calls EXCEPT ![t] = @ + 1]
          /\ after' = [after EXCEPT ![t] = IF @ = NotCancelled THEN @ ELSE @ + 1]
          /\ UNCHANGED result
  /\ UNCHANGED <<signalVars, budgetVars, empties>>

(* An empty response goes round the loop again, unspent. *)
EmptyResponse(t) ==
  /\ pc[t] = "calling"
  /\ empties[t] < MaxEmpties
  /\ empties' = [empties EXCEPT ![t] = @ + 1]
  /\ GoTo(t, "top")
  /\ UNCHANGED <<signalVars, budgetVars, calls, result, after>>

(* Any other error ends the turn: the provider's, or the cancelled context's *)
(* while the call is in flight.                                              *)
CallFails(t) ==
  /\ pc[t] = "calling"
  /\ Finish(t, "error")
  /\ UNCHANGED <<signalVars, budgetVars, calls, empties, after>>

Spent(t) == [used EXCEPT ![t] = @ + 1]

(* Text without tool calls is the answer. *)
Answer(t) ==
  /\ pc[t] = "calling"
  /\ used' = Spent(t)
  /\ Finish(t, "answer")
  /\ UNCHANGED <<signalVars, graceUsed, calls, empties, after>>

(* Tool calls start a round. *)
ToolCalls(t) ==
  /\ pc[t] = "calling"
  /\ used' = Spent(t)
  /\ GoTo(t, "tools")
  /\ UNCHANGED <<signalVars, graceUsed, calls, empties, result, after>>

(* The round is over, whatever its tools returned, also when the context was *)
(* cancelled.                                                                *)
RoundOver(t) ==
  /\ pc[t] = "tools"
  /\ GoTo(t, "top")
  /\ UNCHANGED <<signalVars, budgetVars, calls, empties, result, after>>

Step(t) ==
  \/ Admit(t)
  \/ CheckInterrupt(t)
  \/ CheckContext(t)
  \/ EmptyResponse(t)
  \/ CallFails(t)
  \/ Answer(t)
  \/ ToolCalls(t)
  \/ RoundOver(t)

-----------------------------------------------------------------------------
(* Cancel in the TUI: set the flag, and leave a goroutine to clear it. *)
Cancel(p) ==
  /\ p \notin asleep
  /\ interrupt' = TRUE
  /\ asleep' = asleep \cup {p}
  /\ after' = [t \in Turns |-> IF Running(t) THEN 0 ELSE NotCancelled]
  /\ UNCHANGED <<ctxDone, pc, budgetVars, calls, empties, result>>

(* Half a second later.  It clears the flag, whichever press set it last. *)
Clear(p) ==
  /\ p \in asleep
  /\ asleep' = asleep \ {p}
  /\ interrupt' = FALSE
  /\ UNCHANGED <<ctxDone, pc, budgetVars, calls, empties, result, after>>

(* The program quits. *)
CancelContext ==
  /\ ~ctxDone
  /\ ctxDone' = TRUE
  /\ UNCHANGED <<interrupt, asleep, pc, budgetVars, calls, empties, result,
                 after>>

Next ==
  \/ \E t \in Turns : Start(t) \/ Step(t)
  \/ \E p \in Presses : Cancel(p) \/ Clear(p)
  \/ CancelContext

Spec == Init /\ [][Next]_vars

-----------------------------------------------------------------------------
(* The budget with its grace call: a turn never gets more than one answer    *)
(* beyond MaxIterations, however its calls fail, are retried or interrupted. *)
BudgetHolds ==
  \A t \in Turns :
    /\ used[t] <= MaxIterations + 1
    /\ calls[t] - empties[t] <= MaxIterations + 1

(* As long as the flag stays set, a turn that was running when it was set    *)
(* starts at most one more API call: the one whose checks it had passed.     *)
InterruptStopsSoon ==
  interrupt => \A t \in Turns : after[t] <= 1
=============================================================================
