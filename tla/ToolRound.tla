----------------------------- MODULE ToolRound ------------------------------
(***************************************************************************)
(* The tool rounds of internal/agent/executor.go: each round submits its     *)
(* calls one after the other to the pool that all turns of a process share,  *)
(* and waits for them.  The pool (external) makes Submit wait while all its  *)
(* workers are busy, and recovers a call that panics.  Dispatch of           *)
(* tools/dispatch.go is what a worker does: a call of an unknown tool, a     *)
(* call that fails, and one that is out of time are all answered with text.  *)
(***************************************************************************)
EXTENDS Integers, FiniteSets

CONSTANTS
  Rounds,     \* rounds of turns that go on at a time
  PoolOf,     \* the process of each round
  CallsOf,    \* number of calls of each round
  Workers     \* of a pool (8)

ASSUME RoundAssumption ==
  /\ IsFiniteSet(Rounds)
  /\ CallsOf \in [Rounds -> Nat]
  /\ Workers \in Nat \ {0}

VARIABLES
  at,         \* runToolRound: "submitting", "joining", "returned", "crashed"
  submitted,  \* calls it has submitted
  call,       \* each call: "new", "assigned", "running", "over", "panicked"
  out,        \* its results by index: the call that wrote it, or what it got
  ctx         \* the turn's context is cancelled

roundVars == <<at, submitted, call, out, ctx>>

Indices(r) == 1 .. CallsOf[r]

Calls == UNION {{r} \X Indices(r) : r \in Rounds}

Zero == 0
Cancelled == -1
Failed == -2

RoundInit ==
  /\ at = [r \in Rounds |-> "submitting"]
  /\ submitted = [r \in Rounds |-> 0]
  /\ call = [c \in Calls |-> "new"]
  /\ out = [c \in Calls |-> Zero]
  /\ ctx = [r \in Rounds |-> FALSE]

Taken(p) == {c \in Calls : PoolOf[c[1]] = p /\ call[c] \in {"assigned", "running"}}

-----------------------------------------------------------------------------
(* Submit hands the next call to a worker. *)
Submit(r) ==
  /\ at[r] = "submitting"
  /\ submitted[r] < CallsOf[r]
  /\ Cardinality(Taken(PoolOf[r])) < Workers
  /\ submitted' = [submitted EXCEPT ![r] = @ + 1]
  /\ call' = [call EXCEPT ![<<r, submitted[r] + 1>>] = "assigned"]
  /\ UNCHANGED <<at, out, ctx>>

AllSubmitted(r) ==
  /\ at[r] = "submitting"
  /\ submitted[r] = CallsOf[r]
  /\ at' = [at EXCEPT ![r] = "joining"]
  /\ UNCHANGED <<submitted, call, out, ctx>>

(* The worker looks at the context once, before it calls. *)
BeginCall(c) ==
  /\ call[c] = "assigned"
  /\ ~ctx[c[1]]
  /\ call' = [call EXCEPT ![c] = "running"]
  /\ UNCHANGED <<at, submitted, out, ctx>>

SkipCall(c) ==
  /\ call[c] = "assigned"
  /\ ctx[c[1]]
  /\ call' = [call EXCEPT ![c] = "over"]
  /\ out' = [out EXCEPT ![c] = Cancelled]
  /\ UNCHANGED <<at, submitted, ctx>>

(* It writes the result of the call at the call's own index. *)
Slot_Latest(c) == <<c[1], submitted[c[1]]>>
Slot(c) == c

EndCall(c) ==
  /\ call[c] = "running"
  /\ call' = [call EXCEPT ![c] = "over"]
  /\ out' = [out EXCEPT ![Slot(c)] = c[2]]
  /\ UNCHANGED <<at, submitted, ctx>>

(* An error, the five minutes, an unknown tool: the text says so. *)
FailCall(c) ==
  /\ call[c] = "running"
  /\ call' = [call EXCEPT ![c] = "over"]
  /\ out' = [out EXCEPT ![Slot(c)] = Failed]
  /\ UNCHANGED <<at, submitted, ctx>>

(* The deferred wg.Done runs, and no result is written. *)
PanicCall(c) ==
  /\ call[c] = "running"
  /\ call' = [call EXCEPT ![c] = "panicked"]
  /\ UNCHANGED <<at, submitted, out, ctx>>

(* wg.Wait *)
AllDone_NoDefer(r) == \A i \in Indices(r) : call[<<r, i>>] = "over"
AllDone(r) == \A i \in Indices(r) : call[<<r, i>>] \in {"over", "panicked"}

Join(r) ==
  /\ at[r] = "joining"
  /\ AllDone(r)
  /\ at' = [at EXCEPT ![r] = "returned"]
  /\ UNCHANGED <<submitted, call, out, ctx>>

CancelTurn(r) ==
  /\ ~ctx[r] /\ at[r] \in {"submitting", "joining"}
  /\ ctx' = [ctx EXCEPT ![r] = TRUE]
  /\ UNCHANGED <<at, submitted, call, out>>

(* The process of a pool ends, and with it whatever its workers do. *)
RoundCrash(p) ==
  /\ at' = [r \in Rounds |-> IF PoolOf[r] = p THEN "crashed" ELSE at[r]]
  /\ call' = [c \in Calls |-> IF c \in Taken(p) THEN "panicked" ELSE call[c]]
  /\ UNCHANGED <<submitted, out, ctx>>

-----------------------------------------------------------------------------
(* A call is answered by itself, by its error or by the cancellation: round  *)
(* by round, results stand at the index of their call although the workers   *)
(* finish in any order.  Only a call that panicked leaves an empty result.   *)
ResultsInOrder ==
  \A r \in Rounds : at[r] = "returned" =>
    \A i \in Indices(r) :
      \/ out[<<r, i>>] \in {i, Failed, Cancelled}
      \/ out[<<r, i>>] = Zero /\ call[<<r, i>>] = "panicked"
=============================================================================
