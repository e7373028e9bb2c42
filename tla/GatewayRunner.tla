--------------------------- MODULE GatewayRunner ----------------------------
(***************************************************************************)
(* internal/gateway/runner.go: the errgroup that runs the adapters, the     *)
(* delivery watcher beside it, and the process around them, which may be    *)
(* interrupted, end, crash and be started again.  The Telegram adapter is   *)
(* TelegramPoll; the other one only matters by what it returns.  MaxEnds    *)
(* bounds how often the process goes down.                                  *)
(***************************************************************************)
EXTENDS TelegramPoll

CONSTANT MaxEnds

ASSUME RunnerAssumption == MaxEnds \in Nat

VARIABLES
  ctx,      \* the signal context of main is cancelled
  other,    \* the second adapter: "running", "failed" or "over"
  watcher,  \* the delivery watcher runs
  runner,   \* Runner.Start: waits for the group, for the watcher, returned
  ends      \* how often the process has gone down

runnerVars == <<ctx, other, watcher, runner, ends>>
vars == <<pollVars, runnerVars>>

TypeOK ==
  /\ PollTypeOK
  /\ ctx \in BOOLEAN /\ watcher \in BOOLEAN
  /\ other \in {"running", "failed", "over"}
  /\ runner \in {"group", "watcher", "returned"}
  /\ ends \in 0 .. MaxEnds

Init ==
  /\ PollInit
  /\ ctx = FALSE /\ watcher = TRUE
  /\ other = "running"
  /\ runner = "group"
  /\ ends = 0

Up == pc # "down"

-----------------------------------------------------------------------------
Telegram == PollNext /\ UNCHANGED runnerVars

(* Ctrl+C *)
Interrupt ==
  /\ Up /\ ~ctx
  /\ ctx' = TRUE
  /\ UNCHANGED <<pollVars, other, watcher, runner, ends>>

(* The other adapter fails of itself, or returns once its context is done. *)
OtherFails ==
  /\ Up /\ other = "running"
  /\ other' = "failed"
  /\ UNCHANGED <<pollVars, ctx, watcher, runner, ends>>

OtherStops ==
  /\ Up /\ other = "running"
  /\ gctx
  /\ other' = "over"
  /\ UNCHANGED <<pollVars, ctx, watcher, runner, ends>>

(* The group's context is done with the signal, or with the first error of   *)
(* an adapter.                                                               *)
GroupIsOver_FailureOnly == other = "failed" \/ pc \in {"failed", "fatal"}
GroupIsOver == ctx \/ other = "failed" \/ pc \in {"failed", "fatal"}

GroupCancels ==
  /\ Up /\ ~gctx
  /\ GroupIsOver
  /\ gctx' = TRUE
  /\ UNCHANGED <<apiVars, loopVars, turnVars, runnerVars>>

(* g.Wait *)
GroupReturns ==
  /\ runner = "group"
  /\ pc \in Returned
  /\ other # "running"
  /\ runner' = "watcher"
  /\ UNCHANGED <<pollVars, ctx, other, watcher, ends>>

(* The watcher ends with Start's own context, which an adapter's error does  *)
(* not cancel.                                                               *)
WatcherStops ==
  /\ Up /\ watcher /\ ctx
  /\ watcher' = FALSE
  /\ UNCHANGED <<pollVars, ctx, other, runner, ends>>

(* r.wg.Wait *)
WaitsForWatcher == ~watcher

Return ==
  /\ runner = "watcher"
  /\ Up
  /\ WaitsForWatcher
  /\ runner' = "returned"
  /\ UNCHANGED <<pollVars, ctx, other, watcher, ends>>

(* The process crashes, or ends when Start has returned, with whatever its   *)
(* handlers were doing.                                                      *)
GoDown ==
  /\ Up
  /\ ends < MaxEnds
  /\ ends' = ends + 1
  /\ Goto("down")
  /\ StartOver
  /\ ctx' = FALSE /\ watcher' = TRUE
  /\ other' = "running"
  /\ runner' = "group"
  /\ UNCHANGED <<apiVars, answered, dispatched>>

StartAgain ==
  /\ ~Up
  /\ Goto("probe")
  /\ UNCHANGED <<apiVars, gctx, offset, batch, rung, turnVars, runnerVars>>

RunnerStep ==
  \/ OtherFails
  \/ OtherStops
  \/ GroupCancels
  \/ GroupReturns
  \/ WatcherStops
  \/ Return

Next ==
  \/ Telegram
  \/ RunnerStep
  \/ Interrupt
  \/ GoDown
  \/ StartAgain

Spec == Init /\ [][Next]_vars

(* Goroutines run, calls return, and the API that is asked again and again   *)
(* answers some time.  Nobody need interrupt, crash or restart the process.  *)
FairSpec ==
  /\ Spec
  /\ WF_vars(Start /\ UNCHANGED runnerVars)
  /\ SF_vars(PollSucceeds /\ UNCHANGED runnerVars)
  /\ WF_vars(OtherStops) /\ WF_vars(GroupCancels) /\ WF_vars(GroupReturns)
  /\ WF_vars(WatcherStops) /\ WF_vars(Return)

-----------------------------------------------------------------------------
(* The API only forgets an update after some process has dispatched it or    *)
(* decided to ignore it, whatever was lost, refused or cut short before.     *)
(* That is so with DropPending, too, as drainPending confirms nothing.       *)
ConfirmedWasDispatched ==
  \A u \in 1 .. confirmed : u \in Ignored \cup dispatched

(* A process never dispatches an update twice: only a restart does. *)
OncePerProcess ==
  [][\A u \in Updates :
       u \in handlers' \ handlers => u \notin seen]_vars

(* Without a crash or an exit, every update the API has forgotten is         *)
(* answered or has its handler running.                                      *)
LostOnlyWithProcess ==
  ends = 0 =>
    \A u \in 1 .. confirmed : u \in Ignored \cup handlers \cup answered

(* As main makes the adapter, without DropPending, every update is dispatched *)
(* in the end, also one that was queued before the process began or that a   *)
(* lost answer held; unless a webhook has outlived the one call that deletes *)
(* it, or the adapter has returned.                                          *)
UpdatesAreDispatched ==
  \A u \in Updates \ Ignored :
    ~dropPending /\ u <= sent ~> u \in dispatched \/ webhook \/ pc \in Returned \cup {"down"}

(* The signal ends Runner.Start, wherever the adapters are. *)
InterruptEndsRunner == ctx ~> runner = "returned" \/ ~Up

(* Runner.Start does not return before the signal: the process outlives its  *)
(* adapters when one of them has failed.                                     *)
ReturnNeedsSignal == runner = "returned" => ctx
=============================================================================
