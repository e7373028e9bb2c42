---------------------------- MODULE UsageWriter -----------------------------
(***************************************************************************)
(* The token usage writer of internal/state/usage.go: Queue merges deltas    *)
(* in memory, a background loop flushes them when notified, after an idle   *)
(* half minute and on Close, and Flush may also be called directly.  A      *)
(* delta is one token, so that amounts are counts of deltas.  MaxQueued     *)
(* bounds the deltas and MaxFailures the writes that fail.                  *)
(***************************************************************************)
EXTENDS Integers, FiniteSetsExt

CONSTANTS
  Keys,         \* session, model and task of a delta
  Callers,      \* goroutines that call Queue and Flush
  Loop,         \* the background goroutine
  MaxQueued,
  MaxFailures

ASSUME UsageAssumption ==
  /\ Loop \notin Callers
  /\ IsFiniteSet(Callers)
  /\ MaxQueued \in Nat
  /\ MaxFailures \in Nat

VARIABLES
  pend,      \* UsageWriter.pend
  notify,    \* the notify channel holds its one token
  quit,      \* the quit channel is closed
  at,        \* where each goroutine is
  batch,     \* what its Flush took and has not written
  final,     \* the loop has seen quit: its Flush is the last
  db,        \* session_model_usage
  queued,    \* history: all that was queued
  lost,      \* history: what a failed Flush took and gave up
  owed,      \* history: what had been queued when Close was called
  failures   \* writes that have failed

vars == <<pend, notify, quit, at, batch, final, db, queued, lost, owed, failures>>

Flushers == Callers \cup {Loop}

Zero == [k \in Keys |-> 0]

Amounts == [Keys -> 0 .. MaxQueued]

Plus(a, b) == [k \in Keys |-> a[k] + b[k]]

(* Callers are idle, between the two halves of Queue, or in a Flush; the     *)
(* loop waits in its select, is in a Flush, or has stopped.                  *)
TypeOK ==
  /\ pend \in Amounts
  /\ notify \in BOOLEAN
  /\ quit \in BOOLEAN
  /\ at \in [Flushers -> {"idle", "queued", "writing", "stopped"}]
  /\ at[Loop] # "queued" /\ \A c \in Callers : at[c] # "stopped"
  /\ batch \in [Flushers -> Amounts]
  /\ final \in BOOLEAN
  /\ db \in Amounts /\ queued \in Amounts /\ lost \in Amounts /\ owed \in Amounts
  /\ failures \in 0 .. MaxFailures

Init ==
  /\ pend = Zero
  /\ notify = FALSE
  /\ quit = FALSE
  /\ at = [f \in Flushers |-> "idle"]
  /\ batch = [f \in Flushers |-> Zero]
  /\ final = FALSE
  /\ db = Zero /\ queued = Zero /\ lost = Zero /\ owed = Zero
  /\ failures = 0

GoTo(f, place) == at' = [at EXCEPT ![f] = place]

-----------------------------------------------------------------------------
(* Queue, first half: merge the delta under the lock. *)
Merged_Replace(k) == 1
Merged(k) == pend[k] + 1

Queue(c, k) ==
  /\ at[c] = "idle"
  /\ queued[k] < MaxQueued
  /\ pend' = [pend EXCEPT ![k] = Merged(k)]
  /\ queued' = [queued EXCEPT ![k] = @ + 1]
  /\ GoTo(c, "queued")
  /\ UNCHANGED <<notify, quit, batch, final, db, lost, owed, failures>>

(* Queue, second half: a token for the loop, unless one is there already. *)
Notify(c) ==
  /\ at[c] = "queued"
  /\ notify' = TRUE
  /\ GoTo(c, "idle")
  /\ UNCHANGED <<pend, quit, batch, final, db, queued, lost, owed, failures>>

(* Flush takes the whole map under the lock. *)
LeftPending == Zero

Take(f) ==
  /\ batch' = [batch EXCEPT ![f] = pend]
  /\ pend' = LeftPending
  /\ GoTo(f, "writing")

StartFlush(c) ==
  /\ c \in Callers
  /\ at[c] = "idle"
  /\ Take(c)
  /\ UNCHANGED <<notify, quit, final, db, queued, lost, owed, failures>>

(* One transaction per key, in the map's order, which is any order. *)
Write(f, k) ==
  /\ at[f] = "writing"
  /\ batch[f][k] > 0
  /\ db' = [db EXCEPT ![k] = @ + batch[f][k]]
  /\ batch' = [batch EXCEPT ![f][k] = 0]
  /\ UNCHANGED <<pend, notify, quit, at, final, queued, lost, owed, failures>>

(* Where the goroutine goes when Flush returns. *)
AfterFlush(f) == IF f = Loop /\ final THEN "stopped" ELSE "idle"

(* A write that fails after its retries ends the Flush: this delta and those *)
(* still to be written are in no map any more.                               *)
WriteFails(f) ==
  /\ at[f] = "writing"
  /\ batch[f] # Zero
  /\ failures < MaxFailures
  /\ failures' = failures + 1
  /\ lost' = Plus(lost, batch[f])
  /\ batch' = [batch EXCEPT ![f] = Zero]
  /\ GoTo(f, AfterFlush(f))
  /\ UNCHANGED <<pend, notify, quit, final, db, queued, owed>>

Return(f) ==
  /\ at[f] = "writing"
  /\ batch[f] = Zero
  /\ GoTo(f, AfterFlush(f))
  /\ UNCHANGED <<pend, notify, quit, batch, final, db, queued, lost, owed, failures>>

(* The three cases of the loop's select.  The half minute of idleness may be *)
(* over whenever the loop waits.                                             *)
OnNotify ==
  /\ at[Loop] = "idle"
  /\ notify
  /\ notify' = FALSE
  /\ Take(Loop)
  /\ UNCHANGED <<quit, final, db, queued, lost, owed, failures>>

OnIdle ==
  /\ at[Loop] = "idle"
  /\ Take(Loop)
  /\ UNCHANGED <<notify, quit, final, db, queued, lost, owed, failures>>

FinalFlush_Skipped ==
  /\ GoTo(Loop, "stopped")
  /\ UNCHANGED <<pend, batch>>
FinalFlush == Take(Loop)

OnQuit ==
  /\ at[Loop] = "idle"
  /\ quit
  /\ final' = TRUE
  /\ FinalFlush
  /\ UNCHANGED <<notify, quit, db, queued, lost, owed, failures>>

(* Close closes quit and waits for the loop to stop. *)
Close ==
  /\ ~quit
  /\ quit' = TRUE
  /\ owed' = queued
  /\ UNCHANGED <<pend, notify, at, batch, final, db, queued, lost, failures>>

-----------------------------------------------------------------------------
Flush(f) ==
  \/ \E k \in Keys : Write(f, k)
  \/ WriteFails(f)
  \/ Return(f)

LoopStep == OnNotify \/ OnIdle \/ OnQuit \/ Flush(Loop)

CallerStep(c) ==
  \/ \E k \in Keys : Queue(c, k)
  \/ Notify(c)
  \/ StartFlush(c)
  \/ Flush(c)

-----------------------------------------------------------------------------
InFlight(k) == SumFunction([f \in Flushers |-> batch[f][k]])

(* However Queue, direct flushes, the loop and Close interleave, every token *)
(* queued is counted once: still pending, in one Flush, in the table, or     *)
(* given up by a Flush whose write failed.                                   *)
Conservation ==
  \A k \in Keys : queued[k] = pend[k] + InFlight(k) + db[k] + lost[k]

(* Close returns and has drained: the loop stops, whatever it was doing, and *)
(* no delta queued before Close is left in memory, except in the hands of a  *)
(* Flush that another goroutine has not finished.                            *)
CloseDrains ==
  quit ~> /\ at[Loop] = "stopped"
          /\ \A k \in Keys : db[k] + lost[k] + InFlight(k) >= owed[k]
=============================================================================
