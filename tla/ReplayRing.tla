----------------------------- MODULE ReplayRing -----------------------------
(***************************************************************************)
(* The replay ring of one session with a client that reconnects to it.      *)
(* internal/ws/replay.go is the ring; the client calls Hub.Replay with the  *)
(* last sequence number it has seen, and falls back to a full resync when   *)
(* the ring says that it has rotated past it.  MaxPushes bounds the number  *)
(* of envelopes published.                                                  *)
(***************************************************************************)
EXTENDS RingBuffer, FiniteSets

CONSTANTS
  Events,      \* what an envelope carries
  Limits,      \* the limits a client passes
  MaxPushes    \* bound on the envelopes published

ASSUME ReplayAssumption == MaxPushes \in Nat /\ Limits \subseteq Nat

VARIABLES
  ring,     \* the ring of the session
  log,      \* history: everything ever pushed
  cursor,   \* the client's last_seq
  held      \* history: sequence numbers the client has, or has in a snapshot

ringVars == <<ring, log, cursor, held>>

Envelopes == [seq : 1 .. MaxPushes, ev : Events]

RingTypeOK ==
  /\ ring \in [next : 0 .. MaxPushes, buf : Seq(Envelopes)]
  /\ Len(ring.buf) <= ReplayDepth
  /\ log \in Seq(Events)
  /\ cursor \in 0 .. MaxPushes
  /\ held \subseteq 1 .. MaxPushes

RingInit ==
  /\ ring = EmptyRing
  /\ log = <<>>
  /\ cursor = 0
  /\ held = {}

Store(ev) ==
  /\ ring.next < MaxPushes
  /\ ring' = Push(ring, ev)
  /\ log' = Append(log, ev)
  /\ UNCHANGED <<cursor, held>>

(* Seqs of the envelopes of an answer. *)
SeqsOf(es) == {es[i].seq : i \in DOMAIN es}

(* Hub.Replay: the ring's answer, which the client applies. *)
Replay(limit) ==
  LET answer == Since(ring, cursor, limit) IN
  /\ answer.ok
  /\ cursor' = IF answer.es = <<>> THEN cursor
               ELSE answer.es[Len(answer.es)].seq
  /\ held' = held \cup SeqsOf(answer.es)
  /\ UNCHANGED <<ring, log>>

(* "caller must full-resync": the snapshot covers all that was published. *)
Resync(limit) ==
  LET answer == Since(ring, cursor, limit) IN
  /\ ~answer.ok
  /\ cursor' = Last(ring)
  /\ held' = 1 .. Last(ring)
  /\ UNCHANGED <<ring, log>>

(* The client reloads and starts from nothing. *)
Reload ==
  /\ cursor' = 0
  /\ held' = {}
  /\ UNCHANGED <<ring, log>>

RingNext ==
  \/ \E ev \in Events : Store(ev)
  \/ \E limit \in Limits : Replay(limit) \/ Resync(limit)
  \/ Reload

RingSpec == RingInit /\ [][RingNext]_ringVars

-----------------------------------------------------------------------------
(* The ring is exactly the end of what was published: no sequence number is *)
(* skipped, repeated or given to another envelope, across any rotation.     *)
RingIsLogSuffix ==
  /\ ring.next = Len(log)
  /\ \A i \in 1 .. Len(ring.buf) :
       LET n == ring.next - Len(ring.buf) + i IN
       ring.buf[i] = [seq |-> n, ev |-> log[n]]

(* The ring forgets nothing before it has to. *)
RingIsFull ==
  Len(ring.buf) = IF ring.next < ReplayDepth THEN ring.next ELSE ReplayDepth

(* The client's events are consecutive and end at its cursor. *)
Feed == INSTANCE EventFeed WITH
  head <- ring.next,
  from <- cursor - Cardinality(held),
  upto <- cursor

ImplementsEventFeed == Feed!Spec
=============================================================================
