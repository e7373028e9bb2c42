----------------------------- MODULE RingBuffer -----------------------------
(***************************************************************************)
(* The replay ring of internal/ws/replay.go as operators on a record        *)
(* [next, buf]: next is the last sequence number given out, buf the newest  *)
(* envelopes, oldest first.  An envelope is its sequence number and what it *)
(* carries.  uint64 sequence numbers are taken not to wrap.                 *)
(***************************************************************************)
EXTENDS Integers, Sequences

CONSTANT ReplayDepth   \* envelopes a ring keeps (1000)

ASSUME DepthAssumption == ReplayDepth \in Nat \ {0}

EmptyRing == [next |-> 0, buf |-> <<>>]

(* Push numbers the envelope and makes room for it by dropping the oldest. *)
Push_LateSeq(r, ev) ==
  LET e == [seq |-> r.next, ev |-> ev]
      kept == IF Len(r.buf) >= ReplayDepth THEN Tail(r.buf) ELSE r.buf
  IN  [next |-> r.next + 1, buf |-> Append(kept, e)]
Push(r, ev) ==
  LET e == [seq |-> r.next + 1, ev |-> ev]
      kept == IF Len(r.buf) >= ReplayDepth THEN Tail(r.buf) ELSE r.buf
  IN  [next |-> r.next + 1, buf |-> Append(kept, e)]

(* Since answers a client that has seen everything up to last.  The limit   *)
(* is tested after an envelope is taken, so a limit below one still gives   *)
(* one envelope; last = 0 is never told that the ring has rotated.          *)
Rotated_OffByOne(r, last) == last < r.buf[1].seq - 2 /\ last # 0
Rotated(r, last) == last < r.buf[1].seq - 1 /\ last # 0

Missed(r, last) ==
  LET taken[i \in 0 .. Len(r.buf)] ==
        IF i = 0 THEN <<>>
        ELSE IF r.buf[i].seq > last THEN Append(taken[i - 1], r.buf[i])
        ELSE taken[i - 1]
  IN  taken[Len(r.buf)]

Capped(es, limit) ==
  LET n == IF limit < 1 THEN 1 ELSE limit
  IN  IF Len(es) > n THEN SubSeq(es, 1, n) ELSE es

Since(r, last, limit) ==
  IF r.buf = <<>> THEN [ok |-> TRUE, es |-> <<>>]
  ELSE IF Rotated(r, last) THEN [ok |-> FALSE, es |-> <<>>]
  ELSE [ok |-> TRUE, es |-> Capped(Missed(r, last), limit)]

Last(r) == r.next
=============================================================================
