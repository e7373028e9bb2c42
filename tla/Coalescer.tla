----------------------------- MODULE Coalescer ------------------------------
(***************************************************************************)
(* The delta coalescer of internal/ws/client.go.  The goroutine of a turn   *)
(* adds deltas and flushes at the end of the turn; a timer armed by Add     *)
(* runs flush in a goroutine of its own.  Deltas are numbered in the order  *)
(* in which they are added; MaxAdds bounds them, and Timers is a pool of    *)
(* timers that are used again once they have run or been stopped.           *)
(***************************************************************************)
EXTENDS Integers, Sequences, FiniteSets

CONSTANTS
  Types,     \* the delta types: token, reasoning, thinking
  Direct,    \* types of other frames, tool and pty frames among them
  Timers,    \* timers that can be armed or running at a time
  MaxAdds,   \* bound on the deltas added
  Turn,      \* the goroutine of the turn
  NoTimer    \* Coalescer.timer is nil

ASSUME CoalescerAssumption ==
  /\ Types \cap Direct = {}
  /\ Turn \notin Timers
  /\ NoTimer \notin Timers
  /\ MaxAdds \in Nat

VARIABLES
  pending,   \* Coalescer.pending: the deltas of each type, in order
  timer,     \* Coalescer.timer
  at,        \* where each goroutine that may flush is
  batch,     \* what it took from pending and has not published
  out,       \* the frames of each type that the hub has published, in order
  added,     \* number of frames added
  typeOf     \* history: the type of each frame

vars == <<pending, timer, at, batch, out, added, typeOf>>

Flushers == Timers \cup {Turn}

Deltas == 1 .. MaxAdds

Frames == Types \cup Direct

Nothing == [t \in Types |-> <<>>]

(* The timer that is remembered has not taken the lock yet.                 *)
(* "armed": the timer runs; "entering": about to take the lock in flush;    *)
(* "publishing": past the lock.  The turn is never armed.                   *)
TypeOK ==
  /\ pending \in [Types -> Seq(Deltas)]
  /\ timer \in {k \in Timers : at[k] \in {"armed", "entering"}} \cup {NoTimer}
  /\ at \in [Flushers -> {"idle", "armed", "entering", "publishing"}]
  /\ at[Turn] # "armed"
  /\ batch \in [Flushers -> [Types -> Seq(Deltas)]]
  /\ out \in [Frames -> Seq(Deltas)]
  /\ added \in 0 .. MaxAdds
  /\ typeOf \in [1 .. added -> Frames]

Init ==
  /\ pending = Nothing
  /\ timer = NoTimer
  /\ at = [f \in Flushers |-> "idle"]
  /\ batch = [f \in Flushers |-> Nothing]
  /\ out = [t \in Frames |-> <<>>]
  /\ added = 0
  /\ typeOf = <<>>

-----------------------------------------------------------------------------
(* Add appends the delta and arms a timer if there is none. *)
Arm_Never == UNCHANGED <<timer, at>>
Arm ==
  IF timer # NoTimer THEN UNCHANGED <<timer, at>>
  ELSE \E k \in Timers :
         /\ at[k] = "idle"
         /\ timer' = k
         /\ at' = [at EXCEPT ![k] = "armed"]

Merged_Last(t) == <<added + 1>>
Merged(t) == Append(pending[t], added + 1)

Add(t) ==
  /\ at[Turn] = "idle"
  /\ added < MaxAdds
  /\ added' = added + 1
  /\ typeOf' = Append(typeOf, t)
  /\ pending' = [pending EXCEPT ![t] = Merged(t)]
  /\ Arm
  /\ UNCHANGED <<batch, out>>

(* Add of any other frame publishes it at once, ahead of pending deltas. *)
AddDirect(t) ==
  /\ at[Turn] = "idle"
  /\ added < MaxAdds
  /\ added' = added + 1
  /\ typeOf' = Append(typeOf, t)
  /\ out' = [out EXCEPT ![t] = Append(@, added + 1)]
  /\ UNCHANGED <<pending, timer, at, batch>>

(* Thirty-three milliseconds are over: the timer's goroutine starts. *)
Fire(k) ==
  /\ at[k] = "armed"
  /\ at' = [at EXCEPT ![k] = "entering"]
  /\ UNCHANGED <<pending, timer, batch, out, added, typeOf>>

(* Flush, first half: forget the timer, and stop it if it has not fired. *)
StopTimer ==
  /\ at[Turn] = "idle"
  /\ timer' = NoTimer
  /\ at' = [f \in Flushers |->
              IF f = Turn THEN "entering"
              ELSE IF f = timer /\ at[f] = "armed" THEN "idle"
              ELSE at[f]]
  /\ UNCHANGED <<pending, batch, out, added, typeOf>>

(* flush, under the lock: take what is pending.  The timer it forgets may be *)
(* a later one than its own, which then still fires.                         *)
LeftPending == Nothing

TimerLeft == NoTimer

Take(f) ==
  /\ at[f] = "entering"
  /\ batch' = [batch EXCEPT ![f] = pending]
  /\ pending' = LeftPending
  /\ timer' = TimerLeft
  /\ at' = [at EXCEPT ![f] = "publishing"]
  /\ UNCHANGED <<out, added, typeOf>>

(* flush, outside the lock: one Publish per type, in no particular order. *)
Publish(f, t) ==
  /\ at[f] = "publishing"
  /\ batch[f][t] # <<>>
  /\ out' = [out EXCEPT ![t] = @ \o batch[f][t]]
  /\ batch' = [batch EXCEPT ![f][t] = <<>>]
  /\ UNCHANGED <<pending, timer, at, added, typeOf>>

Return(f) ==
  /\ at[f] = "publishing"
  /\ batch[f] = Nothing
  /\ at' = [at EXCEPT ![f] = "idle"]
  /\ UNCHANGED <<pending, timer, batch, out, added, typeOf>>

Flush(f) ==
  \/ Take(f)
  \/ \E t \in Types : Publish(f, t)
  \/ Return(f)

Next ==
  \/ \E t \in Types : Add(t)
  \/ \E t \in Direct : AddDirect(t)
  \/ StopTimer
  \/ \E k \in Timers : Fire(k)
  \/ \E f \in Flushers : Flush(f)

Spec == Init /\ [][Next]_vars

(* Armed timers fire, and goroutines are scheduled until they return.  The  *)
(* turn itself need never add another delta, nor call Flush.                *)
FairSpec ==
  /\ Spec
  /\ \A k \in Timers : WF_vars(Fire(k))
  /\ \A f \in Flushers : WF_vars(Flush(f))

-----------------------------------------------------------------------------
InSeq(n, s) == \E i \in DOMAIN s : s[i] = n

(* Pending deltas never wait for a delta that may not come: some timer is   *)
(* armed, or some flush is about to take them.  It holds although a late    *)
(* flush forgets a timer that it did not start.                             *)
PendingHasFlusher ==
  pending # Nothing =>
    \E f \in Flushers : at[f] \in {"armed", "entering"}

(* Every delta is published, whether or not the turn ever flushes. *)
EverythingIsPublished ==
  \A n \in Deltas : n <= added ~> \E t \in Frames : InSeq(n, out[t])
=============================================================================
