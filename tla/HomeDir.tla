------------------------------ MODULE HomeDir -------------------------------
(***************************************************************************)
(* Processes on one home directory.  A turn creates its session in state.db, *)
(* counts its call of the model (agent/loop.go), runs a round of tool calls, *)
(* some of which save a note in MEMORY.md, and appends their results in one  *)
(* batch when the round has returned.  A turn writes whether the write       *)
(* before went well or not; a process may end at any point.                  *)
(***************************************************************************)
EXTENDS ToolRound, StateStore, MemoryStore

CONSTANTS
  Before,      \* the write that the turn of a write makes before it, or Nobody
  MayCrash,    \* the processes that may end
  MayCancel    \* the rounds whose turns may be cancelled

ASSUME HomeAssumption ==
  /\ Rounds \subseteq Writers
  /\ \A r \in Rounds : OpOf[r] = "append" /\ ProcessOf[r] = PoolOf[r]
                       /\ CallsOf[r] = RowsOf[r]
  /\ Before \in [Writers -> Writers \cup {Nobody}]
  /\ Savers \subseteq Calls
  /\ \A s \in Savers : HomeOf[s] = PoolOf[s[1]]
  /\ MayCrash \subseteq Processes /\ MayCancel \subseteq Rounds

VARIABLE up   \* the processes that run

vars == <<roundVars, storeVars, memVars, up>>

Init == RoundInit /\ StoreInit /\ MemInit /\ up = Processes

-----------------------------------------------------------------------------
(* What a call does in a worker: one that saves a note takes the steps of    *)
(* Save, and its answer, whatever it is, is the result of the call.          *)
SaveStep(s) ==
  /\ call[s] = "running"
  /\ ReadFile(s) \/ ReadFails(s) \/ WriteTemp(s)
  /\ UNCHANGED roundVars

SaveReturns(s) ==
  /\ Refuse(s) \/ Rename(s) \/ SaveFails(s)
  /\ EndCall(s)

SavePanics(s) ==
  /\ Panic(s)
  /\ PanicCall(s)

CallStep(c) ==
  IF c \in Savers THEN SaveStep(c) \/ SaveReturns(c) \/ SavePanics(c)
  ELSE /\ EndCall(c) \/ FailCall(c) \/ PanicCall(c)
       /\ UNCHANGED memVars

RunCall(c) ==
  /\ \/ (BeginCall(c) \/ SkipCall(c)) /\ UNCHANGED memVars
     \/ CallStep(c)
  /\ UNCHANGED <<storeVars, up>>

Reached(w) == Before[w] # Nobody => place[Before[w]] = "done"

RunRound(r) ==
  /\ Reached(r)
  /\ Submit(r) \/ AllSubmitted(r) \/ Join(r)
  /\ UNCHANGED <<storeVars, memVars, up>>

Cancel(r) ==
  /\ r \in MayCancel /\ CancelTurn(r)
  /\ UNCHANGED <<storeVars, memVars, up>>

(* The loop appends the results of a round when it has them all. *)
MayWrite(w) == Reached(w) /\ (w \in Rounds => at[w] = "returned")

Write(w) ==
  /\ \/ MayWrite(w) /\ StartWrite(w)
     \/ Transact(w)
  /\ UNCHANGED <<roundVars, memVars, up>>

Crash(p) ==
  /\ p \in up \cap MayCrash
  /\ up' = up \ {p}
  /\ RoundCrash(p) /\ StoreCrash(p) /\ MemCrash(p)

Work ==
  \/ \E c \in Calls : RunCall(c)
  \/ \E r \in Rounds : RunRound(r)
  \/ \E w \in Writers : Write(w)

Next ==
  \/ Work
  \/ \E r \in Rounds : Cancel(r)
  \/ \E p \in Processes : Crash(p)

Spec == Init /\ [][Next]_vars

(* Goroutines run, files and statements are answered, tools keep their five  *)
(* minutes: there is a finite number of steps, and while one of them can be  *)
(* taken one is.                                                             *)
FairSpec == Spec /\ WF_vars(Work)

-----------------------------------------------------------------------------
(* Turns end: every round returns, although other rounds hold the workers    *)
(* and calls fail or panic, and every write gets its answer, although        *)
(* statements fail and the process with the lock of the database may end.    *)
TurnsEnd ==
  <>(/\ \A r \in Rounds : at[r] \in {"returned", "crashed"}
     /\ \A w \in Writers : place[w] = "done")
=============================================================================
