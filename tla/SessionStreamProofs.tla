------------------------ MODULE SessionStreamProofs -------------------------
(***************************************************************************)
(* The stream of a session for any depth of its ring, any number of deltas,  *)
(* timers, flushes and envelopes, and any way in which a client reconnects:  *)
(* the ring and the feed that a client has of it, the timers, and what an    *)
(* envelope carries.                                                         *)
(***************************************************************************)
EXTENDS SessionStream, SequenceTheorems, FiniteSetTheorems, WellFoundedInduction, TLAPS

-----------------------------------------------------------------------------
(* The ring *)

Records == [seq : Nat, ev : Events]

(* The part of the state that Push works on. *)
RingInv ==
  /\ ring \in [next : Nat, buf : Seq(Records)]
  /\ log \in Seq(Events)
  /\ RingIsLogSuffix
  /\ RingIsFull

(* What Push returns, for any ring: one envelope more at the end, and the     *)
(* oldest one less when the ring was full.                                    *)
LEMMA PushSpec ==
  ASSUME NEW r \in [next : Nat, buf : Seq(Records)], NEW ev \in Events
  PROVE  /\ Push(r, ev) \in [next : Nat, buf : Seq(Records)]
         /\ Push(r, ev).next = r.next + 1
         /\ Len(r.buf) < ReplayDepth =>
              /\ Len(Push(r, ev).buf) = Len(r.buf) + 1
              /\ \A i \in 1 .. Len(r.buf) : Push(r, ev).buf[i] = r.buf[i]
         /\ Len(r.buf) >= ReplayDepth =>
              /\ Len(Push(r, ev).buf) = Len(r.buf)
              /\ \A i \in 1 .. Len(r.buf) - 1 : Push(r, ev).buf[i] = r.buf[i + 1]
         /\ Push(r, ev).buf[Len(Push(r, ev).buf)] = [seq |-> r.next + 1, ev |-> ev]
<1> DEFINE e == [seq |-> r.next + 1, ev |-> ev]
           kept == IF Len(r.buf) >= ReplayDepth THEN Tail(r.buf) ELSE r.buf
<1>1. e \in Records
  BY DEF Records
<1>2. r.buf \in Seq(Records) /\ r.next \in Nat
  OBVIOUS
<1>3. Len(r.buf) >= ReplayDepth => r.buf # <<>>
  BY <1>2, DepthAssumption
<1>4. kept \in Seq(Records)
  BY <1>2, <1>3
<1>5. Push(r, ev) = [next |-> r.next + 1, buf |-> Append(kept, e)]
  BY DEF Push
<1>6. /\ Append(kept, e) \in Seq(Records)
      /\ Len(Append(kept, e)) = Len(kept) + 1
      /\ \A i \in 1 .. Len(kept) : Append(kept, e)[i] = kept[i]
      /\ Append(kept, e)[Len(kept) + 1] = e
  BY <1>1, <1>4, AppendProperties
<1>7. CASE Len(r.buf) < ReplayDepth
  <2>1. kept = r.buf
    BY <1>2, <1>7, DepthAssumption
  <2>2. QED
    BY <1>2, <1>5, <1>6, <1>7, <2>1, DepthAssumption
<1>8. CASE Len(r.buf) >= ReplayDepth
  <2>1. kept = Tail(r.buf)
    BY <1>8
  <2>2. Len(kept) = Len(r.buf) - 1 /\ \A i \in 1 .. Len(kept) : kept[i] = r.buf[i + 1]
    BY <1>2, <1>3, <1>8, <2>1, HeadTailProperties
  <2>3. Len(r.buf) \in Nat
    BY <1>2
  <2>4. QED
    BY <1>2, <1>5, <1>6, <1>8, <2>2, <2>3, DepthAssumption
<1>9. QED
  BY <1>2, <1>7, <1>8, DepthAssumption

LEMMA StorePreserves ==
  ASSUME RingInv, NEW ev \in Events, Store(ev)
  PROVE  RingInv'
<1> DEFINE len == Len(ring.buf)
           len1 == Len(ring'.buf)
<1>1. /\ ring \in [next : Nat, buf : Seq(Records)]
      /\ len \in Nat
      /\ log \in Seq(Events) /\ ring.next = Len(log)
  BY DEF RingInv, RingIsLogSuffix
<1>2. /\ log' \in Seq(Events)
      /\ Len(log') = Len(log) + 1
      /\ \A n \in 1 .. Len(log) : log'[n] = log[n]
      /\ log'[Len(log) + 1] = ev
  BY <1>1, AppendProperties DEF Store
<1>3. /\ ring' \in [next : Nat, buf : Seq(Records)]
      /\ ring'.next = ring.next + 1
      /\ len < ReplayDepth =>
           len1 = len + 1 /\ \A i \in 1 .. len : ring'.buf[i] = ring.buf[i]
      /\ len >= ReplayDepth =>
           len1 = len /\ \A i \in 1 .. len - 1 : ring'.buf[i] = ring.buf[i + 1]
      /\ ring'.buf[len1] = [seq |-> ring.next + 1, ev |-> ev]
  BY <1>1, PushSpec DEF Store
<1>4. RingIsFull'
  BY <1>1, <1>3, DepthAssumption DEF RingInv, RingIsFull
<1>5. len <= ring.next
  BY <1>1, DepthAssumption DEF RingInv, RingIsFull
<1>6. ASSUME NEW i \in 1 .. len1
      PROVE  ring'.buf[i] = [seq |-> ring'.next - len1 + i,
                             ev |-> log'[ring'.next - len1 + i]]
  <2>1. CASE i = len1
    BY <1>1, <1>2, <1>3, <2>1
  <2>2. CASE i # len1 /\ len < ReplayDepth
    <3>1. i \in 1 .. len /\ len1 = len + 1
      BY <1>1, <1>3, <1>6, <2>2
    <3>2. ring.buf[i] = [seq |-> ring.next - len + i, ev |-> log[ring.next - len + i]]
      BY <3>1 DEF RingInv, RingIsLogSuffix
    <3>3. ring.next - len + i \in 1 .. Len(log) /\ ring'.next - len1 + i = ring.next - len + i
      BY <1>1, <1>3, <1>5, <3>1
    <3>4. QED
      BY <1>2, <1>3, <2>2, <3>1, <3>2, <3>3
  <2>3. CASE i # len1 /\ len >= ReplayDepth
    <3>1. i \in 1 .. len - 1 /\ i + 1 \in 1 .. len /\ len1 = len
      BY <1>1, <1>3, <1>6, <2>3
    <3>2. ring.buf[i + 1] = [seq |-> ring.next - len + (i + 1),
                             ev |-> log[ring.next - len + (i + 1)]]
      BY <3>1 DEF RingInv, RingIsLogSuffix
    <3>3. /\ ring.next - len + (i + 1) \in 1 .. Len(log)
          /\ ring'.next - len1 + i = ring.next - len + (i + 1)
      <4>1. ring.next \in Nat /\ ring.next = Len(log) /\ len \in Nat
        BY <1>1
      <4>2. ring'.next = ring.next + 1
        BY <1>3
      <4> HIDE DEF len, len1
      <4>3. QED
        BY <4>1, <4>2, <1>5, <3>1
    <3>4. QED
      BY <1>2, <1>3, <2>3, <3>1, <3>2, <3>3
  <2>4. QED
    BY <1>1, <2>1, <2>2, <2>3, DepthAssumption
<1>7. RingIsLogSuffix'
  BY <1>1, <1>2, <1>3, <1>6 DEF RingIsLogSuffix
<1>8. QED
  BY <1>2, <1>3, <1>4, <1>7 DEF RingInv

-----------------------------------------------------------------------------
(* The ring's invariant holds in every reachable state: a client's traffic    *)
(* leaves the ring alone, and a push keeps it the end of the log.             *)
THEOREM RingInvariant == RingSpec => []RingInv
<1>1. RingInit => RingInv
  BY DepthAssumption DEF RingInit, EmptyRing, RingInv, RingIsLogSuffix, RingIsFull, Records
<1>2. RingInv /\ [RingNext]_ringVars => RingInv'
  <2>1. SUFFICES ASSUME RingInv, [RingNext]_ringVars PROVE RingInv'
    OBVIOUS
  <2>2. ASSUME NEW ev \in Events, Store(ev) PROVE RingInv'
    BY <2>1, <2>2, StorePreserves
  <2>3. ASSUME UNCHANGED <<ring, log>> PROVE RingInv'
    BY <2>1, <2>3 DEF RingInv, RingIsLogSuffix, RingIsFull
  <2>4. QED
    BY <2>1, <2>2, <2>3 DEF RingNext, ringVars, Replay, Resync, Reload
<1>3. QED
  BY <1>1, <1>2, PTL DEF RingSpec

(* No sequence number is skipped, repeated or given to another envelope, for  *)
(* any depth of the ring.                                                     *)
THEOREM RingHoldsLogSuffix == RingSpec => []RingIsLogSuffix
<1>1. RingInv => RingIsLogSuffix
  BY DEF RingInv
<1>2. QED
  BY <1>1, RingInvariant, PTL

(* The ring drops an envelope only when it holds ReplayDepth of them. *)
THEOREM RingKeepsAllItCan == RingSpec => []RingIsFull
<1>1. RingInv => RingIsFull
  BY DEF RingInv
<1>2. QED
  BY <1>1, RingInvariant, PTL
-----------------------------------------------------------------------------
(* The client of the ring *)

(* Induction over the numbers, for sets of them. *)
LEMMA Induction ==
  ASSUME NEW S, 0 \in S, \A n \in Nat : n \in S => n + 1 \in S
  PROVE  Nat \subseteq S
<1> SUFFICES ASSUME Nat \ S # {} PROVE FALSE
  OBVIOUS
<1>1. PICK m \in Nat \ S : \A k \in Nat \ S : ~(<<k, m>> \in OpToRel(<, Nat))
  BY NatLessThanWellFounded, WFMin
<1>2. \A k \in Nat \ S : ~(k < m)
  BY <1>1 DEF OpToRel
<1>3. m # 0 /\ m - 1 \in Nat /\ m - 1 < m /\ (m - 1) + 1 = m
  OBVIOUS
<1>4. m - 1 \in S
  BY <1>2, <1>3
<1> QED BY <1>3, <1>4

(* The loop of Since over a ring in which numbers are consecutive takes the   *)
(* envelopes behind those that the client has.                                *)
Steps(r, last, g) ==
  [i \in 0 .. Len(r.buf) |->
     IF i = 0 THEN <<>>
     ELSE IF r.buf[i].seq > last THEN Append(g[i - 1], r.buf[i]) ELSE g[i - 1]]

Known(base, last) == IF last > base THEN last - base ELSE 0

LEMMA MissedIsLoop ==
  ASSUME NEW r, NEW last, NEW g, g = Steps(r, last, g)
  PROVE  \E f : Missed(r, last) = f[Len(r.buf)] /\ f = Steps(r, last, f)
<1> DEFINE taken ==
      CHOOSE f : f = [i \in 0 .. Len(r.buf) |->
                        IF i = 0 THEN <<>>
                        ELSE IF r.buf[i].seq > last THEN Append(f[i - 1], r.buf[i])
                        ELSE f[i - 1]]
<1>1. taken = Steps(r, last, taken)
  BY Zenon DEF Steps
<1>2. Missed(r, last) = taken[Len(r.buf)]
  BY Zenon DEF Missed
<1> QED BY <1>1, <1>2

LEMMA MissedIsSuffix ==
  ASSUME NEW r \in [next : Nat, buf : Seq(Records)], NEW base \in Nat, NEW last \in Nat,
         \A i \in 1 .. Len(r.buf) : r.buf[i].seq = base + i,
         Known(base, last) <= Len(r.buf)
  PROVE  Missed(r, last) = SubSeq(r.buf, Known(base, last) + 1, Len(r.buf))
<1> DEFINE d == Known(base, last)
<1> DEFINE g == [i \in 0 .. Len(r.buf) |-> SubSeq(r.buf, d + 1, i)]
<1>1. d \in Nat /\ Len(r.buf) \in Nat /\ r.buf \in Seq(Records)
  BY DEF Known
<1>2. \A i \in 1 .. Len(r.buf) : r.buf[i].seq > last <=> i > d
  BY DEF Known
<1> HIDE DEF d
<1>3. ASSUME NEW i \in 1 .. Len(r.buf)
      PROVE  SubSeq(r.buf, d + 1, i) =
               IF r.buf[i].seq > last THEN Append(SubSeq(r.buf, d + 1, i - 1), r.buf[i])
               ELSE SubSeq(r.buf, d + 1, i - 1)
  <2>1. CASE i > d
    <3>1. r.buf[i].seq > last
      BY <1>2, <2>1
    <3> DEFINE shorter == SubSeq(r.buf, d + 1, i - 1)
    <3> DEFINE longer == SubSeq(r.buf, d + 1, i)
    <3>2. /\ shorter \in Seq(Records) /\ Len(shorter) = i - 1 - d
          /\ \A j \in 1 .. i - 1 - d : shorter[j] = r.buf[d + j]
      BY <1>1, <2>1
    <3>3. /\ longer \in Seq(Records) /\ Len(longer) = i - d
          /\ \A j \in 1 .. i - d : longer[j] = r.buf[d + j]
      <4> DEFINE b == r.buf
      <4>1. i \in Int /\ d + 1 \in Int /\ d \in Nat /\ d + 1 \in 1 .. Len(b) + 1 /\ i \in d .. Len(b)
        BY <1>1, <2>1
      <4>2. b \in Seq(Records)
        BY <1>1
      <4> HIDE DEF b
      <4>3. SubSeq(b, d + 1, i) \in Seq(Records) /\ Len(SubSeq(b, d + 1, i)) = i - d
        BY <4>1, <4>2
      <4>4. \A j \in 1 .. i - d : SubSeq(b, d + 1, i)[j] = b[d + j]
        BY <4>1, <4>2
      <4> QED BY <4>3, <4>4 DEF b
    <3>4. r.buf[i] \in Records /\ i \in Nat /\ i - d \in Nat /\ d + (i - d) = i
      BY <1>1, <2>1
    <3> HIDE DEF shorter, longer
    <3>5. longer = Append(shorter, r.buf[i])
      <4> DEFINE e == r.buf[i]
                 k == i - 1 - d
                 s == Append(shorter, e)
      <4>1. k \in Nat /\ i - d = k + 1 /\ d + (k + 1) = i
        BY <1>1, <2>1
      <4>2. /\ s \in Seq(Records) /\ Len(s) = k + 1 /\ s[k + 1] = e
            /\ \A j \in 1 .. k : s[j] = r.buf[d + j]
        BY <3>2, <3>4, AppendProperties
      <4>3. /\ Len(longer) = k + 1 /\ longer[k + 1] = e
            /\ \A j \in 1 .. k : longer[j] = r.buf[d + j]
        BY <3>3, <4>1
      <4> HIDE DEF e, k, s
      <4>4. \A j \in 1 .. k + 1 : j \in 1 .. k \/ j = k + 1
        BY <4>1
      <4>5. \A j \in 1 .. Len(longer) : longer[j] = s[j]
        BY <4>2, <4>3, <4>4
      <4>6. longer = s
        BY <3>3, <4>2, <4>3, <4>5, SeqEqual
      <4> QED BY <4>6 DEF s, e
    <3> QED BY <3>1, <3>5 DEF shorter, longer
  <2>2. CASE ~(i > d)
    <3>1. ~(r.buf[i].seq > last)
      BY <1>2, <2>2
    <3>2. SubSeq(r.buf, d + 1, i) = <<>> /\ SubSeq(r.buf, d + 1, i - 1) = <<>>
      BY <1>1, <2>2
    <3> QED BY <3>1, <3>2
  <2> QED BY <2>1, <2>2
<1>4. SubSeq(r.buf, d + 1, 0) = <<>>
  BY <1>1
<1>5. g = Steps(r, last, g)
  <2>1. \A i \in 0 .. Len(r.buf) : i = 0 \/ (i \in 1 .. Len(r.buf) /\ i - 1 \in 0 .. Len(r.buf))
    BY <1>1
  <2>2. \A i \in 0 .. Len(r.buf) :
          SubSeq(r.buf, d + 1, i) =
            IF i = 0 THEN <<>>
            ELSE IF r.buf[i].seq > last THEN Append(g[i - 1], r.buf[i]) ELSE g[i - 1]
    BY <1>3, <1>4, <2>1
  <2> QED BY <2>2 DEF Steps
<1>6. PICK f : Missed(r, last) = f[Len(r.buf)] /\ f = Steps(r, last, f)
  BY <1>5, MissedIsLoop
<1> DEFINE S == {i \in Nat : i <= Len(r.buf) => f[i] = g[i]}
<1>7. 0 \in S
  BY <1>1, <1>4, <1>6 DEF Steps
<1>8. ASSUME NEW n \in Nat, n \in S PROVE n + 1 \in S
  <2> SUFFICES ASSUME n + 1 <= Len(r.buf) PROVE f[n + 1] = g[n + 1]
    OBVIOUS
  <2>1. n \in 0 .. Len(r.buf) /\ n + 1 \in 0 .. Len(r.buf) /\ n + 1 # 0 /\ (n + 1) - 1 = n
    BY <1>1
  <2>2. f[n] = g[n]
    BY <1>8, <2>1
  <2>3. \A h : h = Steps(r, last, h) =>
          h[n + 1] = IF r.buf[n + 1].seq > last THEN Append(h[n], r.buf[n + 1]) ELSE h[n]
    BY <2>1 DEF Steps
  <2> HIDE DEF g
  <2> QED BY <1>5, <1>6, <2>2, <2>3
<1> HIDE DEF S
<1>9. Len(r.buf) \in S
  BY <1>1, <1>7, <1>8, Induction
<1> QED BY <1>1, <1>6, <1>9 DEF S, d

(* The events that a client holds are consecutive and end at its cursor.      *)
From == cursor - Cardinality(held)

ClientInv ==
  /\ cursor \in Nat /\ cursor <= ring.next
  /\ \E f \in Nat : f <= cursor /\ held = f + 1 .. cursor /\ (f = cursor => cursor = 0)

LEMMA FromIsStart ==
  ASSUME NEW c \in Nat, NEW f \in Nat, f <= c
  PROVE  c - Cardinality(f + 1 .. c) = f
<1>1. Cardinality(f + 1 .. c) = IF f + 1 > c THEN 0 ELSE c - (f + 1) + 1
  BY FS_Interval
<1> QED BY <1>1

(* What the ring answers, when it does: nothing, or the events that follow    *)
(* those that the client has; one that has nothing may get later ones.        *)
LEMMA AnswerIsNext ==
  ASSUME RingInv, ClientInv, NEW limit \in Limits, Since(ring, cursor, limit).ok,
         Since(ring, cursor, limit).es # <<>>
  PROVE  LET es == Since(ring, cursor, limit).es IN
         \E a \in Nat, b \in Nat :
           /\ a < b /\ b <= ring.next
           /\ a = cursor \/ (cursor = 0 /\ held = {})
           /\ SeqsOf(es) = a + 1 .. b /\ es[Len(es)].seq = b
<1> DEFINE es == Since(ring, cursor, limit).es
<1> DEFINE len == Len(ring.buf)
<1> DEFINE base == ring.next - len
<1> DEFINE d == Known(base, cursor)
<1> DEFINE M == Missed(ring, cursor)
<1>1. /\ ring \in [next : Nat, buf : Seq(Records)]
      /\ len \in Nat /\ ring.next \in Nat /\ base \in Nat
      /\ \A i \in 1 .. len : ring.buf[i].seq = base + i
  <2>1. ring \in [next : Nat, buf : Seq(Records)] /\ len \in Nat /\ ring.next \in Nat
    BY DEF RingInv
  <2>2. len <= ring.next
    BY <2>1, DepthAssumption DEF RingInv, RingIsFull
  <2>3. \A i \in 1 .. len : ring.buf[i] = [seq |-> base + i, ev |-> log[base + i]]
    BY Zenon DEF RingInv, RingIsLogSuffix
  <2>4. base \in Nat
    BY <2>1, <2>2
  <2> HIDE DEF base, len
  <2>5. \A i \in 1 .. len : ring.buf[i].seq = base + i
    <3> SUFFICES ASSUME NEW i \in 1 .. len PROVE ring.buf[i].seq = base + i
      OBVIOUS
    <3>1. ring.buf[i] = [seq |-> base + i, ev |-> log[base + i]]
      BY <2>3
    <3>2. [seq |-> base + i, ev |-> log[base + i]].seq = base + i
      OBVIOUS
    <3> QED BY <3>1, <3>2, Zenon
  <2> QED BY <2>1, <2>4, <2>5
<1>2. /\ cursor \in Nat /\ cursor <= ring.next
      /\ cursor = 0 => held = {}
  BY DEF ClientInv
<1>3. ring.buf # <<>> /\ ~Rotated(ring, cursor) /\ es = Capped(M, limit) /\ es # <<>>
  BY DEF Since
<1> HIDE DEF es
<1>4. 1 \in 1 .. len /\ (cursor >= base \/ cursor = 0)
  <2>1. 1 \in 1 .. len
    BY <1>1, <1>3
  <2>2. ring.buf[1].seq = base + 1
    BY <1>1, <2>1
  <2> HIDE DEF len, base
  <2> QED BY <1>1, <1>2, <1>3, <2>1, <2>2 DEF Rotated
<1>5. /\ d \in Nat /\ d <= len /\ (base + d = cursor \/ cursor = 0)
  <2>1. len \in Nat /\ base \in Nat /\ cursor \in Nat /\ cursor <= base + len
    BY <1>1, <1>2
  <2> HIDE DEF len, base
  <2> QED BY <1>4, <2>1 DEF Known
<1>6. M = SubSeq(ring.buf, d + 1, len)
  BY <1>1, <1>2, <1>5, MissedIsSuffix
<1> HIDE DEF base, d, M
<1>7. /\ M \in Seq(Records) /\ Len(M) = len - d
      /\ \A j \in 1 .. Len(M) : M[j] = ring.buf[d + j]
  <2>1. ring.buf \in Seq(Records) /\ len \in Nat
    BY <1>1
  <2> QED BY <1>5, <1>6, <2>1
<1>8. /\ es \in Seq(Records) /\ Len(es) <= Len(M)
      /\ \A j \in 1 .. Len(es) : es[j] = M[j]
  <2> DEFINE n == IF limit < 1 THEN 1 ELSE limit
  <2>1. n \in Nat /\ n >= 1
    BY ReplayAssumption
  <2>2. es = IF Len(M) > n THEN SubSeq(M, 1, n) ELSE M
    BY <1>3 DEF Capped
  <2> HIDE DEF n
  <2> QED BY <1>7, <2>1, <2>2
<1> DEFINE a == base + d
<1> DEFINE b == base + d + Len(es)
<1>9. Len(es) \in Nat \ {0} /\ Len(es) <= len - d
  BY <1>3, <1>7, <1>8
<1>10. \A j \in 1 .. Len(es) : es[j].seq = a + j
  <2> SUFFICES ASSUME NEW j \in 1 .. Len(es) PROVE es[j].seq = a + j
    OBVIOUS
  <2>0. len \in Nat /\ d \in Nat /\ base \in Nat
    BY <1>1, <1>5 DEF base
  <2>1. j \in 1 .. Len(M) /\ d + j \in 1 .. len
    BY <1>7, <1>9, <2>0
  <2>2. es[j] = ring.buf[d + j]
    BY <1>7, <1>8, <2>1
  <2>3. ring.buf[d + j].seq = base + (d + j)
    BY <1>1, <2>1 DEF base
  <2> QED BY <2>0, <2>2, <2>3
<1>11. /\ a \in Nat /\ b \in Nat /\ a < b /\ b <= ring.next
       /\ b = a + Len(es)
       /\ a = cursor \/ cursor = 0
  <2>1. len \in Nat /\ d \in Nat /\ base \in Nat /\ base + len = ring.next
    BY <1>1, <1>5 DEF base
  <2> HIDE DEF len
  <2> QED BY <1>5, <1>9, <2>1
<1> HIDE DEF a, b
<1>12. SeqsOf(es) = a + 1 .. b /\ es[Len(es)].seq = b
  <2>1. DOMAIN es = 1 .. Len(es)
    BY <1>8
  <2>2. \A n \in a + 1 .. b : n - a \in 1 .. Len(es) /\ a + (n - a) = n
    BY <1>9, <1>11
  <2>3. \A j \in 1 .. Len(es) : a + j \in a + 1 .. b
    BY <1>9, <1>11
  <2>4. SeqsOf(es) = a + 1 .. b
    BY <1>10, <2>1, <2>2, <2>3 DEF SeqsOf
  <2>5. Len(es) \in 1 .. Len(es) /\ a + Len(es) = b
    BY <1>9, <1>11
  <2> QED BY <1>10, <2>4, <2>5
<1> QED BY <1>2, <1>11, <1>12 DEF es

(* A step of the client is one of the feed, or none. *)
LEMMA ReplayIsFeed ==
  ASSUME RingInv, ClientInv, NEW limit \in Limits, Replay(limit)
  PROVE  ClientInv' /\ (Feed!Read \/ Feed!Join \/ UNCHANGED Feed!vars)
<1> DEFINE es == Since(ring, cursor, limit).es
<1>1. /\ Since(ring, cursor, limit).ok /\ ring' = ring
      /\ cursor' = IF es = <<>> THEN cursor ELSE es[Len(es)].seq
      /\ held' = held \cup SeqsOf(es)
  BY DEF Replay
<1>2. CASE es = <<>>
  <2>1. SeqsOf(es) = {}
    BY <1>2 DEF SeqsOf
  <2>2. cursor' = cursor /\ held' = held
    BY <1>1, <1>2, <2>1
  <2> QED BY <1>1, <2>2 DEF ClientInv, Feed!vars
<1>3. CASE es # <<>>
  <2>1. PICK a \in Nat, b \in Nat :
          /\ a < b /\ b <= ring.next
          /\ a = cursor \/ (cursor = 0 /\ held = {})
          /\ SeqsOf(es) = a + 1 .. b /\ es[Len(es)].seq = b
    BY <1>1, <1>3, AnswerIsNext
  <2>2. PICK f \in Nat : f <= cursor /\ held = f + 1 .. cursor /\ (f = cursor => cursor = 0)
    BY DEF ClientInv
  <2>3. cursor \in Nat /\ ring.next \in Nat
    BY DEF ClientInv, RingInv
  <2>4. cursor' = b /\ held' = held \cup (a + 1 .. b)
    BY <1>1, <1>3, <2>1
  <2> HIDE DEF es
  <2>5. From = f
    BY <2>2, <2>3, FromIsStart DEF From
  <2>6. CASE a = cursor
    <3>1. held' = f + 1 .. cursor'
      BY <2>1, <2>2, <2>3, <2>4, <2>6
    <3>2. ClientInv'
      BY <1>1, <2>1, <2>2, <2>3, <2>4, <2>6, <3>1 DEF ClientInv
    <3>3. From' = f
      <4>1. f <= cursor' /\ cursor' \in Nat
        BY <2>1, <2>2, <2>4, <2>6
      <4> QED BY <3>1, <4>1, FromIsStart DEF From
    <3>4. cursor' \in cursor + 1 .. ring.next
      BY <2>1, <2>3, <2>4, <2>6
    <3>5. Feed!Read
      BY <1>1, <2>5, <3>3, <3>4 DEF Feed!Read, From
    <3> QED BY <3>2, <3>5
  <2>7. CASE cursor = 0 /\ held = {}
    <3>1. held' = a + 1 .. cursor'
      BY <2>4, <2>7
    <3>2. ClientInv'
      BY <1>1, <2>1, <2>3, <2>4, <3>1 DEF ClientInv
    <3>3. From' = a
      <4>1. a <= cursor' /\ cursor' \in Nat
        BY <2>1, <2>4
      <4> QED BY <3>1, <4>1, FromIsStart DEF From
    <3>4. From = 0
      BY <2>2, <2>5, <2>7
    <3>5. From' \in From .. ring.next /\ cursor' \in From' + 1 .. ring.next
      BY <2>1, <2>3, <2>4, <3>3, <3>4
    <3>6. Feed!Join
      BY <1>1, <2>7, <3>4, <3>5 DEF Feed!Join, From
    <3> QED BY <3>2, <3>6
  <2> QED BY <2>1, <2>6, <2>7
<1> QED BY <1>2, <1>3

LEMMA ResyncIsFeed ==
  ASSUME RingInv, ClientInv, NEW limit \in Limits, Resync(limit)
  PROVE  ClientInv' /\ Feed!Resync
<1>1. /\ ring' = ring /\ cursor' = ring.next /\ held' = 1 .. ring.next /\ ring.next \in Nat
  BY DEF Resync, Last, RingInv
<1>2. held' = 0 + 1 .. cursor' /\ cursor' \in Nat
  BY <1>1
<1>3. ClientInv'
  BY <1>1, <1>2 DEF ClientInv
<1>4. From' = 0
  BY <1>2, FromIsStart DEF From
<1> QED BY <1>1, <1>3, <1>4 DEF Feed!Resync, From

LEMMA ReloadIsFeed ==
  ASSUME RingInv, ClientInv, Reload
  PROVE  ClientInv' /\ Feed!Reload
<1>1. ring' = ring /\ cursor' = 0 /\ held' = {} /\ ring.next \in Nat
  BY DEF Reload, RingInv
<1>2. held' = 0 + 1 .. cursor'
  BY <1>1
<1>3. ClientInv'
  BY <1>1, <1>2 DEF ClientInv
<1>4. From' = 0
  BY <1>1, <1>2, FromIsStart DEF From
<1> QED BY <1>1, <1>3, <1>4 DEF Feed!Reload, From

LEMMA StoreIsFeed ==
  ASSUME RingInv, ClientInv, NEW ev \in Events, Store(ev)
  PROVE  ClientInv' /\ Feed!Publish
<1>1. ring' = Push(ring, ev) /\ UNCHANGED <<cursor, held>> /\ ring.next \in Nat
  BY DEF Store, RingInv
<1>2. ring'.next = ring.next + 1
  BY <1>1, PushSpec DEF RingInv
<1>3. ClientInv'
  BY <1>1, <1>2 DEF ClientInv
<1> QED BY <1>1, <1>2, <1>3 DEF Feed!Publish

LEMMA RingStepIsFeed ==
  RingInv /\ ClientInv /\ [RingNext]_ringVars => ClientInv' /\ [Feed!Next]_(Feed!vars)
<1> SUFFICES ASSUME RingInv, ClientInv, [RingNext]_ringVars
             PROVE  ClientInv' /\ [Feed!Next]_(Feed!vars)
  OBVIOUS
<1>1. ASSUME NEW ev \in Events, Store(ev) PROVE ClientInv' /\ Feed!Next
  BY <1>1, StoreIsFeed DEF Feed!Next
<1>2. ASSUME NEW limit \in Limits, Replay(limit)
      PROVE  ClientInv' /\ (Feed!Next \/ UNCHANGED Feed!vars)
  BY <1>2, ReplayIsFeed DEF Feed!Next
<1>3. ASSUME NEW limit \in Limits, Resync(limit) PROVE ClientInv' /\ Feed!Next
  BY <1>3, ResyncIsFeed DEF Feed!Next
<1>4. CASE Reload
  BY <1>4, ReloadIsFeed DEF Feed!Next
<1>5. CASE UNCHANGED ringVars
  BY <1>5 DEF ringVars, ClientInv, Feed!vars
<1> QED BY <1>1, <1>2, <1>3, <1>4, <1>5 DEF RingNext

LEMMA RingInitIsFeed == RingInit => ClientInv /\ Feed!Init
<1> SUFFICES ASSUME RingInit PROVE ClientInv /\ Feed!Init
  OBVIOUS
<1>1. ring.next = 0 /\ cursor = 0 /\ held = {}
  BY DEF RingInit, EmptyRing
<1>2. held = 0 + 1 .. cursor
  BY <1>1
<1>3. ClientInv
  BY <1>1, <1>2 DEF ClientInv
<1>4. cursor - Cardinality(held) = 0
  BY <1>1, <1>2, FromIsStart
<1> QED BY <1>1, <1>3, <1>4 DEF Feed!Init

(* Since, and the client that applies its answers: a client that reconnects   *)
(* reads on where it is, starts over from a snapshot, or joins late; it never *)
(* misses an event in between, for any depth of the ring and any limits.      *)
THEOREM RingImplementsEventFeed == RingSpec => ImplementsEventFeed
<1>1. RingInit => Feed!Init /\ ClientInv
  BY RingInitIsFeed
<1> QED BY <1>1, RingStepIsFeed, RingInvariant, PTL DEF RingSpec, ImplementsEventFeed, Feed!Spec

-----------------------------------------------------------------------------
(* The coalescer *)

(* The timer that the coalescer remembers has not taken the lock yet: every   *)
(* flush that takes it forgets the timer.                                     *)
TimerIsLive ==
  timer # NoTimer => at[timer] \in {"armed", "entering"}

FlushInv ==
  /\ timer \in Timers \cup {NoTimer}
  /\ at \in [Flushers -> {"idle", "armed", "entering", "publishing"}]
  /\ TimerIsLive
  /\ PendingHasFlusher

LEMMA AddPreserves ==
  ASSUME FlushInv, NEW t \in Types, Add(t)
  PROVE  FlushInv'
<1>1. CASE timer # NoTimer
  <2>1. timer \in Flushers /\ UNCHANGED <<timer, at>>
    BY <1>1 DEF FlushInv, Add, Arm, Flushers
  <2>2. QED
    BY <1>1, <2>1 DEF FlushInv, TimerIsLive, PendingHasFlusher
<1>2. CASE timer = NoTimer
  <2>1. PICK k \in Timers : at[k] = "idle" /\ timer' = k /\ at' = [at EXCEPT ![k] = "armed"]
    BY <1>2 DEF Add, Arm
  <2>2. k \in Flushers /\ at'[k] = "armed"
    BY <2>1 DEF FlushInv, Flushers
  <2>3. QED
    BY <2>1, <2>2 DEF FlushInv, TimerIsLive, PendingHasFlusher
<1>3. QED
  BY <1>1, <1>2

LEMMA FirePreserves ==
  ASSUME FlushInv, NEW k \in Timers, Fire(k)
  PROVE  FlushInv'
<1>1. k \in Flushers /\ at' = [at EXCEPT ![k] = "entering"]
  BY DEF Fire, Flushers
<1>2. \A f \in Flushers : at[f] \in {"armed", "entering"} => at'[f] \in {"armed", "entering"}
  BY <1>1 DEF FlushInv
<1>3. timer # NoTimer => timer \in Flushers
  BY DEF FlushInv, Flushers
<1>4. QED
  BY <1>1, <1>2, <1>3 DEF FlushInv, TimerIsLive, PendingHasFlusher, Fire

LEMMA StopTimerPreserves ==
  ASSUME FlushInv, StopTimer
  PROVE  FlushInv'
<1>1. Turn \in Flushers /\ at'[Turn] = "entering"
  BY DEF StopTimer, Flushers
<1>2. at' \in [Flushers -> {"idle", "armed", "entering", "publishing"}]
  BY DEF FlushInv, StopTimer
<1>3. QED
  BY <1>1, <1>2 DEF FlushInv, StopTimer, TimerIsLive, PendingHasFlusher

LEMMA TakePreserves ==
  ASSUME FlushInv, NEW f \in Flushers, Take(f)
  PROVE  FlushInv'
<1>1. pending' = Nothing' /\ timer' = NoTimer
  BY DEF Take, LeftPending, TimerLeft, Nothing
<1>2. at' \in [Flushers -> {"idle", "armed", "entering", "publishing"}]
  BY DEF FlushInv, Take
<1>3. QED
  BY <1>1, <1>2 DEF FlushInv, TimerIsLive, PendingHasFlusher

LEMMA ReturnPreserves ==
  ASSUME FlushInv, NEW f \in Flushers, Return(f)
  PROVE  FlushInv'
<1>1. \A g \in Flushers : at[g] \in {"armed", "entering"} => at'[g] = at[g]
  BY DEF FlushInv, Return
<1>2. timer # NoTimer => timer \in Flushers
  BY DEF FlushInv, Flushers
<1>3. at' \in [Flushers -> {"idle", "armed", "entering", "publishing"}]
  BY DEF FlushInv, Return
<1>4. UNCHANGED <<pending, timer>> /\ Nothing' = Nothing
  BY DEF Return, Nothing
<1>5. QED
  BY <1>1, <1>2, <1>3, <1>4 DEF FlushInv, TimerIsLive, PendingHasFlusher

-----------------------------------------------------------------------------
(* The invariant of the timers holds in every reachable state. *)
THEOREM FlushInvariant == Spec => []FlushInv
<1>1. Init => FlushInv
  BY DEF Init, FlushInv, TimerIsLive, PendingHasFlusher
<1>2. FlushInv /\ [Next]_vars => FlushInv'
  <2>1. SUFFICES ASSUME FlushInv, [Next]_vars PROVE FlushInv'
    OBVIOUS
  <2>2. ASSUME UNCHANGED <<pending, timer, at>> PROVE FlushInv'
    BY <2>1, <2>2 DEF FlushInv, TimerIsLive, PendingHasFlusher, Nothing
  <2>3. ASSUME NEW t \in Types, Add(t) PROVE FlushInv'
    BY <2>1, <2>3, AddPreserves
  <2>4. ASSUME NEW k \in Timers, Fire(k) PROVE FlushInv'
    BY <2>1, <2>4, FirePreserves
  <2>5. CASE StopTimer
    BY <2>1, <2>5, StopTimerPreserves
  <2>6. ASSUME NEW f \in Flushers, Take(f) PROVE FlushInv'
    BY <2>1, <2>6, TakePreserves
  <2>7. ASSUME NEW f \in Flushers, Return(f) PROVE FlushInv'
    BY <2>1, <2>7, ReturnPreserves
  <2>8. QED
    BY <2>1, <2>2, <2>3, <2>4, <2>5, <2>6, <2>7
       DEF Next, Flush, AddDirect, Publish, vars
<1>3. QED
  BY <1>1, <1>2, PTL DEF Spec

(* A delta never waits in pending with no timer armed and no flush about to   *)
(* take it, even when a late flush forgets a timer it did not start.          *)
THEOREM PendingAlwaysHasFlusher == Spec => []PendingHasFlusher
<1>1. FlushInv => PendingHasFlusher
  BY DEF FlushInv
<1>2. QED
  BY <1>1, FlushInvariant, PTL

-----------------------------------------------------------------------------
(* The stream *)

(* A step of the stream is one of the coalescer and one of the ring, or none *)
(* of either.                                                                *)
LEMMA StreamStep ==
  [StreamNext]_streamVars => [Next]_vars /\ [RingNext]_ringVars
<1> SUFFICES ASSUME [StreamNext]_streamVars PROVE [Next]_vars /\ [RingNext]_ringVars
  OBVIOUS
<1>1. ASSUME NEW t \in Types, Add(t), Quiet PROVE Next /\ UNCHANGED ringVars
  BY <1>1 DEF Next, Quiet
<1>2. ASSUME NEW t \in Direct, AddFrame(t) PROVE Next /\ RingNext
  BY <1>2, StreamAssumption DEF AddFrame, Keep, Next, RingNext, Frames
<1>3. CASE StopTimer /\ Quiet
  BY <1>3 DEF Next, Quiet
<1>4. ASSUME NEW k \in Timers, FireTimer(k) PROVE Next /\ UNCHANGED ringVars
  BY <1>4 DEF FireTimer, Next, Quiet
<1>5. ASSUME NEW f \in Flushers, FlushStep(f) PROVE Next /\ [RingNext]_ringVars
  <2>1. CASE (Take(f) \/ Return(f)) /\ Quiet
    BY <2>1 DEF Next, Flush, Quiet
  <2>2. ASSUME NEW t \in Types, Publish(f, t), Keep(t, batch[f][t]) PROVE Next /\ RingNext
    <3>1. t \in Events
      BY StreamAssumption DEF Frames
    <3> QED BY <2>2, <3>1 DEF Next, Flush, Keep, RingNext
  <2> QED BY <1>5, <2>1, <2>2 DEF FlushStep
<1>6. CASE Client
  BY <1>6 DEF Client, RingNext
<1>7. CASE UNCHANGED streamVars
  BY <1>7 DEF streamVars
<1> QED BY <1>1, <1>2, <1>3, <1>4, <1>5, <1>6, <1>7 DEF StreamNext

LEMMA StreamIsBoth == StreamSpec => Spec /\ RingSpec
BY StreamStep, PTL DEF StreamSpec, StreamInit, Spec, RingSpec

(* Where a delta may be. *)
Waits(n, t) == InSeq(n, pending[t])
Taken(n, f, t) == InSeq(n, batch[f][t])
Sent(n, i) == i \in DOMAIN carried /\ InSeq(n, carried[i])

StreamTyped ==
  /\ added \in Nat
  /\ pending \in [Types -> Seq(Nat)]
  /\ batch \in [Flushers -> [Types -> Seq(Nat)]]
  /\ at \in [Flushers -> {"idle", "armed", "entering", "publishing"}]
  /\ carried \in Seq(Seq(Nat))
  /\ ring.next = Len(carried)

(* A flush that has not taken anything has nothing.                          *)
EmptyHanded == \A f \in Flushers : at[f] # "publishing" => batch[f] = Nothing

(* Every delta that was added, and nothing else, is in some place ...        *)
NothingElse ==
  \A n :
    /\ \A t \in Types : Waits(n, t) => n \in 1 .. added
    /\ \A f \in Flushers : \A t \in Types : Taken(n, f, t) => n \in 1 .. added
    /\ \A i \in Nat : Sent(n, i) => n \in 1 .. added

SomePlace ==
  \A n \in 1 .. added :
    \/ \E t \in Types : Waits(n, t)
    \/ \E f \in Flushers : \E t \in Types : Taken(n, f, t)
    \/ \E i \in Nat : Sent(n, i)

(* ... and in no two places.                                                 *)
WaitsOnce ==
  \A n : \A t, u \in Types : Waits(n, t) /\ Waits(n, u) => t = u

TakenOnce ==
  \A n : \A f, g \in Flushers : \A t, u \in Types :
    Taken(n, f, t) /\ Taken(n, g, u) => f = g /\ t = u

SentOnce ==
  \A n : \A i, j \in Nat : Sent(n, i) /\ Sent(n, j) => i = j

Apart ==
  \A n :
    /\ \A t, u \in Types : \A f \in Flushers : ~(Waits(n, t) /\ Taken(n, f, u))
    /\ \A t \in Types : \A i \in Nat : ~(Waits(n, t) /\ Sent(n, i))
    /\ \A f \in Flushers : \A t \in Types : \A i \in Nat : ~(Taken(n, f, t) /\ Sent(n, i))

OnePlace == WaitsOnce /\ TakenOnce /\ SentOnce /\ Apart

Whereabouts == NothingElse /\ SomePlace /\ OnePlace

StreamInv == StreamTyped /\ EmptyHanded /\ Whereabouts

LEMMA InSeqAppend ==
  ASSUME NEW S, NEW s \in Seq(S), NEW e \in S, NEW n
  PROVE  InSeq(n, Append(s, e)) <=> InSeq(n, s) \/ n = e
<1>1. /\ Len(s) \in Nat /\ DOMAIN s = 1 .. Len(s)
      /\ DOMAIN Append(s, e) = 1 .. Len(s) + 1
      /\ Append(s, e)[Len(s) + 1] = e
      /\ \A i \in 1 .. Len(s) : Append(s, e)[i] = s[i]
  OBVIOUS
<1> QED BY <1>1 DEF InSeq

LEMMA NothingIsEmpty == \A t \in Types : \A n : Nothing[t] = <<>> /\ ~InSeq(n, Nothing[t])
BY DEF Nothing, InSeq

(* Hub.Publish gives what it publishes a place of its own.                   *)
LEMMA KeepSends ==
  ASSUME StreamTyped, NEW t, NEW deltas \in Seq(Nat), Keep(t, deltas)
  PROVE  /\ carried' \in Seq(Seq(Nat)) /\ ring'.next = Len(carried')
         /\ Len(carried) + 1 \in Nat
         /\ \A n : \A i \in Nat :
              Sent(n, i)' <=> Sent(n, i) \/ (i = Len(carried) + 1 /\ InSeq(n, deltas))
         /\ \A n : ~Sent(n, Len(carried) + 1)
<1>1. /\ carried' = Append(carried, deltas) /\ carried \in Seq(Seq(Nat))
      /\ ring' = Push(ring, t) /\ ring.next = Len(carried)
  BY DEF Keep, Store, StreamTyped
<1>2. ring'.next = ring.next + 1
  BY <1>1 DEF Push
<1>3. /\ carried' \in Seq(Seq(Nat)) /\ Len(carried') = Len(carried) + 1
      /\ Len(carried) \in Nat
      /\ DOMAIN carried = 1 .. Len(carried) /\ DOMAIN carried' = 1 .. Len(carried) + 1
      /\ carried'[Len(carried) + 1] = deltas
      /\ \A i \in 1 .. Len(carried) : carried'[i] = carried[i]
  BY <1>1
<1>4. \A n : \A i \in Nat :
        Sent(n, i)' <=> Sent(n, i) \/ (i = Len(carried) + 1 /\ InSeq(n, deltas))
  <2> SUFFICES ASSUME NEW n, NEW i \in Nat
               PROVE  Sent(n, i)' <=> Sent(n, i) \/ (i = Len(carried) + 1 /\ InSeq(n, deltas))
    OBVIOUS
  <2>1. Sent(n, i)' <=> i \in 1 .. Len(carried) + 1 /\ InSeq(n, carried'[i])
    BY <1>3 DEF Sent, InSeq
  <2>2. CASE i = Len(carried) + 1
    <3>1. i \notin DOMAIN carried /\ i \in 1 .. Len(carried) + 1 /\ carried'[i] = deltas
      BY <1>3, <2>2
    <3> QED BY <2>1, <2>2, <3>1 DEF Sent
  <2>3. CASE i # Len(carried) + 1
    <3>1. i \in DOMAIN carried <=> i \in 1 .. Len(carried) + 1
      BY <1>3, <2>3
    <3>2. i \in DOMAIN carried => carried'[i] = carried[i]
      BY <1>3
    <3> QED BY <2>1, <2>3, <3>1, <3>2 DEF Sent
  <2> QED BY <2>2, <2>3
<1>5. \A n : ~Sent(n, Len(carried) + 1)
  BY <1>3 DEF Sent
<1> QED BY <1>1, <1>2, <1>3, <1>4, <1>5

LEMMA StreamInitInv == StreamInit => StreamInv
<1> SUFFICES ASSUME StreamInit PROVE StreamInv
  OBVIOUS
<1>0. << >> \in Seq(Nat) /\ << >> \in Seq(Seq(Nat))
  OBVIOUS
<1>1. StreamTyped
  BY <1>0 DEF StreamInit, Init, RingInit, EmptyRing, StreamTyped, Nothing
<1>2. EmptyHanded
  BY DEF StreamInit, Init, EmptyHanded
<1>3. /\ added = 0
      /\ \A n : \A t \in Types : ~Waits(n, t) /\ \A f \in Flushers : ~Taken(n, f, t)
      /\ \A n, i : ~Sent(n, i)
  BY NothingIsEmpty DEF StreamInit, Init, Waits, Taken, Sent
<1>4. Whereabouts
  <2>1. NothingElse
    BY <1>3 DEF NothingElse
  <2>3. SomePlace
    BY <1>3 DEF SomePlace
  <2>2. OnePlace
    BY <1>3 DEF OnePlace, WaitsOnce, TakenOnce, SentOnce, Apart
  <2> QED BY <2>1, <2>2, <2>3 DEF Whereabouts
<1> QED BY <1>1, <1>2, <1>4 DEF StreamInv

(* The steps that move no delta. *)
LEMMA DeltasStay ==
  ASSUME StreamInv, UNCHANGED <<pending, batch, added, carried>>, ring'.next = ring.next,
         at' \in [Flushers -> {"idle", "armed", "entering", "publishing"}], EmptyHanded'
  PROVE  StreamInv'
<1>1. StreamTyped'
  BY DEF StreamInv, StreamTyped
<1>2. Whereabouts'
  BY DEF StreamInv, Whereabouts, NothingElse, SomePlace, OnePlace, WaitsOnce, TakenOnce,
     SentOnce, Apart, Waits, Taken, Sent
<1> QED BY <1>1, <1>2 DEF StreamInv

(* A new delta comes to a place of its own. *)
LEMMA AddKeeps ==
  ASSUME StreamInv, NEW t \in Types, Add(t), Quiet
  PROVE  StreamInv'
<1>1. /\ added \in Nat /\ added' = added + 1 /\ UNCHANGED <<batch, carried, ring>>
      /\ pending' = [pending EXCEPT ![t] = Append(pending[t], added + 1)]
      /\ pending[t] \in Seq(Nat)
  BY DEF Add, Merged, Quiet, ringVars, StreamInv, StreamTyped
<1>2. /\ at' \in [Flushers -> {"idle", "armed", "entering", "publishing"}]
      /\ \A f \in Flushers : at'[f] # "publishing" => at[f] # "publishing"
  <2>1. \/ UNCHANGED at
        \/ \E k \in Timers : at[k] = "idle" /\ at' = [at EXCEPT ![k] = "armed"]
    BY DEF Add, Arm
  <2> QED BY <2>1 DEF StreamInv, StreamTyped, Flushers
<1>3. StreamTyped'
  <2>1. Append(pending[t], added + 1) \in Seq(Nat)
    BY <1>1
  <2> QED BY <1>1, <1>2, <2>1 DEF StreamInv, StreamTyped
<1>4. EmptyHanded'
  BY <1>1, <1>2 DEF StreamInv, EmptyHanded, Nothing
<1>5. \A n : /\ \A u \in Types : Waits(n, u)' <=> Waits(n, u) \/ (u = t /\ n = added + 1)
             /\ \A f \in Flushers : \A u \in Types : Taken(n, f, u)' <=> Taken(n, f, u)
             /\ \A i \in Nat : Sent(n, i)' <=> Sent(n, i)
  <2>1. \A n : InSeq(n, Append(pending[t], added + 1)) <=> InSeq(n, pending[t]) \/ n = added + 1
    BY <1>1, InSeqAppend
  <2> QED BY <1>1, <2>1 DEF Waits, Taken, Sent, StreamInv, StreamTyped
<1>6. added + 1 \notin 1 .. added /\ \A n : n \in 1 .. added' <=> n \in 1 .. added \/ n = added + 1
  BY <1>1
<1>7. Whereabouts'
  <2>1. NothingElse'
    BY <1>5, <1>6 DEF StreamInv, Whereabouts, NothingElse
  <2>2. SomePlace'
    BY <1>5, <1>6 DEF StreamInv, Whereabouts, SomePlace
  <2>3. OnePlace'
    <3>0. NothingElse /\ WaitsOnce /\ TakenOnce /\ SentOnce /\ Apart
      BY DEF StreamInv, Whereabouts, OnePlace
    <3>1. WaitsOnce'
      BY <1>5, <1>6, <3>0 DEF WaitsOnce, Apart, NothingElse
    <3>2. TakenOnce'
      <4> SUFFICES ASSUME NEW n, NEW f_1 \in Flushers, NEW f_2 \in Flushers,
                          NEW u_1 \in Types, NEW u_2 \in Types,
                          Taken(n, f_1, u_1)', Taken(n, f_2, u_2)'
                   PROVE  f_1 = f_2 /\ u_1 = u_2
        BY DEF TakenOnce
      <4> QED BY <1>5, <1>6, <3>0 DEF TakenOnce, WaitsOnce, Apart
    <3>3. SentOnce'
      BY <1>5, <1>6, <3>0 DEF SentOnce, Apart, NothingElse
    <3>4. Apart'
      <4>1. ASSUME NEW n, NEW u_1 \in Types, NEW u_2 \in Types, NEW g \in Flushers,
                   Waits(n, u_1)', Taken(n, g, u_2)'
            PROVE  FALSE
        <5>1. Taken(n, g, u_2) /\ (Waits(n, u_1) \/ n = added + 1)
          BY <1>5, <4>1
        <5>2. n # added + 1
          BY <1>6, <3>0, <5>1 DEF NothingElse
        <5> QED BY <3>0, <5>1, <5>2 DEF Apart
      <4>2. ASSUME NEW n, NEW u \in Types, NEW i \in Nat, Waits(n, u)', Sent(n, i)'
            PROVE  FALSE
        BY <1>5, <1>6, <3>0, <4>2 DEF Apart, NothingElse
      <4>3. ASSUME NEW n, NEW g \in Flushers, NEW u \in Types, NEW i \in Nat,
                   Taken(n, g, u)', Sent(n, i)'
            PROVE  FALSE
        BY <1>5, <1>6, <3>0, <4>3 DEF TakenOnce, Apart, NothingElse
      <4> QED BY <4>1, <4>2, <4>3 DEF Apart
    <3> QED BY <3>1, <3>2, <3>3, <3>4 DEF OnePlace
  <2> QED BY <2>1, <2>2, <2>3 DEF Whereabouts
<1> QED BY <1>3, <1>4, <1>7 DEF StreamInv

LEMMA AddFrameKeeps ==
  ASSUME StreamInv, NEW t \in Direct, AddFrame(t)
  PROVE  StreamInv'
<1>1. /\ added \in Nat /\ added' = added + 1 /\ UNCHANGED <<pending, batch, at>>
      /\ Keep(t, <<added + 1>>)
  BY DEF AddFrame, AddDirect, StreamInv, StreamTyped
<1>2. /\ <<added + 1>> \in Seq(Nat)
      /\ \A n : InSeq(n, <<added + 1>>) <=> n = added + 1
  BY <1>1 DEF InSeq
<1> DEFINE new == Len(carried) + 1
<1>3. /\ carried' \in Seq(Seq(Nat)) /\ ring'.next = Len(carried') /\ new \in Nat
      /\ \A n : \A i \in Nat : Sent(n, i)' <=> Sent(n, i) \/ (i = new /\ n = added + 1)
      /\ \A n : ~Sent(n, new)
  BY <1>1, <1>2, KeepSends DEF StreamInv
<1> HIDE DEF new
<1>4. StreamTyped' /\ EmptyHanded'
  BY <1>1, <1>3 DEF StreamInv, StreamTyped, EmptyHanded, Nothing
<1>5. \A n : /\ \A u \in Types : Waits(n, u)' <=> Waits(n, u)
             /\ \A f \in Flushers : \A u \in Types : Taken(n, f, u)' <=> Taken(n, f, u)
  BY <1>1 DEF Waits, Taken
<1>6. added + 1 \notin 1 .. added /\ \A n : n \in 1 .. added' <=> n \in 1 .. added \/ n = added + 1
  BY <1>1
<1>7. Whereabouts'
  <2>1. NothingElse'
    BY <1>3, <1>5, <1>6 DEF StreamInv, Whereabouts, NothingElse
  <2>2. SomePlace'
    BY <1>3, <1>5, <1>6 DEF StreamInv, Whereabouts, SomePlace
  <2>3. OnePlace'
    <3>0. NothingElse /\ WaitsOnce /\ TakenOnce /\ SentOnce /\ Apart
      BY DEF StreamInv, Whereabouts, OnePlace
    <3>1. WaitsOnce'
      BY <1>3, <1>5, <1>6, <3>0 DEF WaitsOnce, Apart, NothingElse
    <3>2. TakenOnce'
      <4> SUFFICES ASSUME NEW n, NEW f_1 \in Flushers, NEW f_2 \in Flushers,
                          NEW u_1 \in Types, NEW u_2 \in Types,
                          Taken(n, f_1, u_1)', Taken(n, f_2, u_2)'
                   PROVE  f_1 = f_2 /\ u_1 = u_2
        BY DEF TakenOnce
      <4>1. Taken(n, f_1, u_1) /\ Taken(n, f_2, u_2)
        BY <1>5
      <4> QED BY <3>0, <4>1 DEF TakenOnce
    <3>3. SentOnce'
      BY <1>3, <1>5, <1>6, <3>0 DEF SentOnce, Apart, NothingElse
    <3>4. Apart'
      <4>1. ASSUME NEW n, NEW u_1 \in Types, NEW u_2 \in Types, NEW g \in Flushers,
                   Waits(n, u_1)', Taken(n, g, u_2)'
            PROVE  FALSE
        BY <1>3, <1>5, <1>6, <3>0, <4>1 DEF Apart, NothingElse
      <4>2. ASSUME NEW n, NEW u \in Types, NEW i \in Nat, Waits(n, u)', Sent(n, i)'
            PROVE  FALSE
        BY <1>3, <1>5, <1>6, <3>0, <4>2 DEF Apart, NothingElse
      <4>3. ASSUME NEW n, NEW g \in Flushers, NEW u \in Types, NEW i \in Nat,
                   Taken(n, g, u)', Sent(n, i)'
            PROVE  FALSE
        <5>1. Taken(n, g, u) /\ (Sent(n, i) \/ n = added + 1)
          BY <1>3, <1>5, <4>3
        <5>2. n # added + 1
          BY <1>6, <3>0, <5>1 DEF NothingElse
        <5> QED BY <3>0, <5>1, <5>2 DEF Apart
      <4> QED BY <4>1, <4>2, <4>3 DEF Apart
    <3> QED BY <3>1, <3>2, <3>3, <3>4 DEF OnePlace
  <2> QED BY <2>1, <2>2, <2>3 DEF Whereabouts
<1> QED BY <1>4, <1>7 DEF StreamInv

(* A flush takes all that waits. *)
LEMMA TakeKeeps ==
  ASSUME StreamInv, NEW f \in Flushers, Take(f), Quiet
  PROVE  StreamInv'
<1>1. /\ batch' = [batch EXCEPT ![f] = pending] /\ pending' = Nothing
      /\ at' = [at EXCEPT ![f] = "publishing"]
      /\ UNCHANGED <<added, carried, ring>> /\ batch[f] = Nothing
  BY DEF Take, LeftPending, Quiet, ringVars, StreamInv, EmptyHanded
<1>2. StreamTyped'
  <2>1. << >> \in Seq(Nat)
    OBVIOUS
  <2>2. Nothing \in [Types -> Seq(Nat)]
    BY <2>1 DEF Nothing
  <2> QED BY <1>1, <2>2 DEF StreamInv, StreamTyped
<1>3. EmptyHanded'
  BY <1>1 DEF StreamInv, StreamTyped, EmptyHanded, Nothing
<1>4. \A n : /\ \A u \in Types : ~Waits(n, u)' /\ ~Taken(n, f, u)
             /\ \A g \in Flushers : \A u \in Types :
                  Taken(n, g, u)' <=> Taken(n, g, u) \/ (g = f /\ Waits(n, u))
             /\ \A i \in Nat : Sent(n, i)' <=> Sent(n, i)
  BY <1>1, NothingIsEmpty DEF Waits, Taken, Sent, StreamInv, StreamTyped
<1>5. Whereabouts'
  <2>1. NothingElse'
    BY <1>1, <1>4 DEF StreamInv, Whereabouts, NothingElse
  <2>2. SomePlace'
    BY <1>1, <1>4 DEF StreamInv, Whereabouts, SomePlace
  <2>3. OnePlace'
    <3>0. WaitsOnce /\ TakenOnce /\ SentOnce /\ Apart
      BY DEF StreamInv, Whereabouts, OnePlace
    <3>1. WaitsOnce'
      BY <1>1, <1>4, <3>0 DEF WaitsOnce, Apart
    <3>2. TakenOnce'
      <4> SUFFICES ASSUME NEW n, NEW f_1 \in Flushers, NEW f_2 \in Flushers,
                          NEW u_1 \in Types, NEW u_2 \in Types,
                          Taken(n, f_1, u_1)', Taken(n, f_2, u_2)'
                   PROVE  f_1 = f_2 /\ u_1 = u_2
        BY DEF TakenOnce
      <4> QED BY <1>1, <1>4, <3>0 DEF TakenOnce, WaitsOnce, Apart
    <3>3. SentOnce'
      BY <1>1, <1>4, <3>0 DEF SentOnce, Apart
    <3>4. Apart'
      <4>1. ASSUME NEW n, NEW u_1 \in Types, NEW u_2 \in Types, NEW g \in Flushers,
                   Waits(n, u_1)', Taken(n, g, u_2)'
            PROVE  FALSE
        BY <1>1, <1>4, <3>0, <4>1 DEF Apart
      <4>2. ASSUME NEW n, NEW u \in Types, NEW i \in Nat, Waits(n, u)', Sent(n, i)'
            PROVE  FALSE
        BY <1>1, <1>4, <3>0, <4>2 DEF Apart
      <4>3. ASSUME NEW n, NEW g \in Flushers, NEW u \in Types, NEW i \in Nat,
                   Taken(n, g, u)', Sent(n, i)'
            PROVE  FALSE
        BY <1>1, <1>4, <3>0, <4>3 DEF TakenOnce, Apart
      <4> QED BY <4>1, <4>2, <4>3 DEF Apart
    <3> QED BY <3>1, <3>2, <3>3, <3>4 DEF OnePlace
  <2> QED BY <2>1, <2>2, <2>3 DEF Whereabouts
<1> QED BY <1>2, <1>3, <1>5 DEF StreamInv

(* What a flush publishes leaves its batch. *)
LEMMA PublishKeeps ==
  ASSUME StreamInv, NEW f \in Flushers, NEW t \in Types,
         Publish(f, t), Keep(t, batch[f][t])
  PROVE  StreamInv'
<1>1. /\ batch' = [batch EXCEPT ![f][t] = <<>>] /\ at[f] = "publishing"
      /\ UNCHANGED <<added, pending, at>>
      /\ batch[f][t] \in Seq(Nat)
  BY DEF Publish, StreamInv, StreamTyped
<1> DEFINE new == Len(carried) + 1
<1>2. /\ carried' \in Seq(Seq(Nat)) /\ ring'.next = Len(carried') /\ new \in Nat
      /\ \A n : \A i \in Nat : Sent(n, i)' <=> Sent(n, i) \/ (i = new /\ Taken(n, f, t))
      /\ \A n : ~Sent(n, new)
  BY <1>1, KeepSends DEF StreamInv, Taken
<1> HIDE DEF new
<1>3. StreamTyped'
  <2>1. << >> \in Seq(Nat)
    OBVIOUS
  <2> QED BY <1>1, <1>2, <2>1 DEF StreamInv, StreamTyped
<1>4. EmptyHanded'
  BY <1>1 DEF StreamInv, StreamTyped, EmptyHanded, Nothing
<1>5. \A n : /\ \A u \in Types : Waits(n, u)' <=> Waits(n, u)
             /\ \A g \in Flushers : \A u \in Types :
                  Taken(n, g, u)' <=> Taken(n, g, u) /\ ~(g = f /\ u = t)
  <2>1. \A n : ~InSeq(n, <<>>)
    BY DEF InSeq
  <2> QED BY <1>1, <2>1 DEF Waits, Taken, StreamInv, StreamTyped
<1>6. Whereabouts'
  <2>1. NothingElse'
    BY <1>1, <1>2, <1>5 DEF StreamInv, Whereabouts, NothingElse
  <2>2. SomePlace'
    BY <1>1, <1>2, <1>5 DEF StreamInv, Whereabouts, SomePlace
  <2>3. OnePlace'
    <3>0. WaitsOnce /\ TakenOnce /\ SentOnce /\ Apart
      BY DEF StreamInv, Whereabouts, OnePlace
    <3>1. WaitsOnce'
      BY <1>1, <1>2, <1>5, <3>0 DEF WaitsOnce, Apart
    <3>2. TakenOnce'
      <4> SUFFICES ASSUME NEW n, NEW f_1 \in Flushers, NEW f_2 \in Flushers,
                          NEW u_1 \in Types, NEW u_2 \in Types,
                          Taken(n, f_1, u_1)', Taken(n, f_2, u_2)'
                   PROVE  f_1 = f_2 /\ u_1 = u_2
        BY DEF TakenOnce
      <4>1. Taken(n, f_1, u_1) /\ Taken(n, f_2, u_2)
        BY <1>5
      <4> QED BY <3>0, <4>1 DEF TakenOnce
    <3>3. SentOnce'
      <4> SUFFICES ASSUME NEW n, NEW i \in Nat, NEW j \in Nat, Sent(n, i)', Sent(n, j)'
                   PROVE  i = j
        BY DEF SentOnce
      <4>1. /\ Sent(n, i) \/ (i = new /\ Taken(n, f, t))
            /\ Sent(n, j) \/ (j = new /\ Taken(n, f, t))
        BY <1>2
      <4>2. Sent(n, i) /\ Sent(n, j) => i = j
        BY <3>0 DEF SentOnce
      <4>3. ~(Taken(n, f, t) /\ Sent(n, i)) /\ ~(Taken(n, f, t) /\ Sent(n, j))
        BY <3>0 DEF Apart
      <4> QED BY <4>1, <4>2, <4>3
    <3>4. Apart'
      <4>1. ASSUME NEW n, NEW u_1 \in Types, NEW u_2 \in Types, NEW g \in Flushers,
                   Waits(n, u_1)', Taken(n, g, u_2)'
            PROVE  FALSE
        BY <1>1, <1>2, <1>5, <3>0, <4>1 DEF Apart
      <4>2. ASSUME NEW n, NEW u \in Types, NEW i \in Nat, Waits(n, u)', Sent(n, i)'
            PROVE  FALSE
        BY <1>1, <1>2, <1>5, <3>0, <4>2 DEF Apart
      <4>3. ASSUME NEW n, NEW g \in Flushers, NEW u \in Types, NEW i \in Nat,
                   Taken(n, g, u)', Sent(n, i)'
            PROVE  FALSE
        BY <1>1, <1>2, <1>5, <3>0, <4>3 DEF TakenOnce, Apart
      <4> QED BY <4>1, <4>2, <4>3 DEF Apart
    <3> QED BY <3>1, <3>2, <3>3, <3>4 DEF OnePlace
  <2> QED BY <2>1, <2>2, <2>3 DEF Whereabouts
<1> QED BY <1>3, <1>4, <1>6 DEF StreamInv

LEMMA StreamNextInv == StreamInv /\ [StreamNext]_streamVars => StreamInv'
<1> SUFFICES ASSUME StreamInv, [StreamNext]_streamVars PROVE StreamInv'
  OBVIOUS
<1>1. ASSUME NEW t \in Types, Add(t), Quiet PROVE StreamInv'
  BY <1>1, AddKeeps
<1>2. ASSUME NEW t \in Direct, AddFrame(t) PROVE StreamInv'
  BY <1>2, AddFrameKeeps
<1>3. CASE StopTimer /\ Quiet
  <2>1. /\ at' \in [Flushers -> {"idle", "armed", "entering", "publishing"}]
        /\ \A f \in Flushers : at'[f] # "publishing" => at[f] # "publishing"
        /\ UNCHANGED <<pending, batch, added, carried, ring>>
    BY <1>3 DEF StopTimer, Quiet, ringVars, StreamInv, StreamTyped
  <2> QED BY <2>1, DeltasStay DEF StreamInv, EmptyHanded, Nothing
<1>4. ASSUME NEW k \in Timers, FireTimer(k) PROVE StreamInv'
  <2>1. /\ at' \in [Flushers -> {"idle", "armed", "entering", "publishing"}]
        /\ \A f \in Flushers : at'[f] # "publishing" => at[f] # "publishing"
        /\ UNCHANGED <<pending, batch, added, carried, ring>>
    BY <1>4 DEF FireTimer, Fire, Quiet, ringVars, StreamInv, StreamTyped, Flushers
  <2> QED BY <2>1, DeltasStay DEF StreamInv, EmptyHanded, Nothing
<1>5. ASSUME NEW f \in Flushers, FlushStep(f) PROVE StreamInv'
  <2>1. CASE Take(f) /\ Quiet
    BY <2>1, TakeKeeps
  <2>2. CASE Return(f) /\ Quiet
    <3>1. /\ at' = [at EXCEPT ![f] = "idle"] /\ batch[f] = Nothing
          /\ UNCHANGED <<pending, batch, added, carried, ring>>
      BY <2>2 DEF Return, Quiet, ringVars
    <3> QED BY <3>1, DeltasStay DEF StreamInv, StreamTyped, EmptyHanded, Nothing
  <2>3. ASSUME NEW t \in Types, Publish(f, t), Keep(t, batch[f][t]) PROVE StreamInv'
    BY <2>3, PublishKeeps
  <2> QED BY <1>5, <2>1, <2>2, <2>3 DEF FlushStep
<1>6. CASE Client
  <2>1. ring' = ring /\ UNCHANGED <<pending, batch, added, carried, at>>
    BY <1>6 DEF Client, Replay, Resync, Reload, vars
  <2> QED BY <2>1, DeltasStay DEF StreamInv, StreamTyped, EmptyHanded, Nothing
<1>7. CASE UNCHANGED streamVars
  <2>1. UNCHANGED <<ring, pending, batch, added, carried, at>>
    BY <1>7 DEF streamVars, vars, ringVars
  <2> QED BY <2>1, DeltasStay DEF StreamInv, StreamTyped, EmptyHanded, Nothing
<1> QED BY <1>1, <1>2, <1>3, <1>4, <1>5, <1>6, <1>7 DEF StreamNext

(* Add, flush, Publish, Push: a delta is in exactly one place between the     *)
(* turn and the ring, whichever flush takes it.                               *)
THEOREM StreamInvariant == StreamSpec => []StreamInv
BY StreamInitInv, StreamNextInv, PTL DEF StreamSpec

(* A client that has caught up after the last flush knows the whole turn,     *)
(* each delta once: the ring numbers every envelope, and no flush loses or    *)
(* repeats a delta, for any timers, turns and reconnects.                     *)
THEOREM WholeTurnIsKnown == StreamSpec => []CaughtUpKnowsAll
<1>1. StreamInv => CaughtUpKnowsAll
  <2> SUFFICES ASSUME StreamInv, CaughtUp, NEW n \in 1 .. added
               PROVE  Cardinality({i \in held : n \in Carried(i)}) = 1
    BY DEF CaughtUpKnowsAll
  <2>1. held = DOMAIN carried /\ DOMAIN carried \subseteq Nat
    BY DEF CaughtUp, Last, StreamInv, StreamTyped
  <2>2. \A t \in Types : ~Waits(n, t) /\ \A f \in Flushers : ~Taken(n, f, t)
    BY NothingIsEmpty DEF CaughtUp, Waits, Taken
  <2>3. PICK i \in Nat : Sent(n, i)
    BY <2>2 DEF StreamInv, Whereabouts, SomePlace
  <2>4. \A j \in held : n \in Carried(j) <=> Sent(n, j)
    BY <2>1 DEF Carried, Sent, InSeq
  <2>5. {j \in held : n \in Carried(j)} = {i}
    BY <2>1, <2>3, <2>4 DEF StreamInv, Whereabouts, OnePlace, SentOnce, Sent
  <2> QED BY <2>5, FS_Singleton
<1> QED BY <1>1, StreamInvariant, PTL

(* Hub.Publish, ring.push: what the ring holds of a session is the end of     *)
(* what was published of it, under its own numbers.                           *)
THEOREM StreamRingIsLogSuffix == StreamSpec => []RingIsLogSuffix
BY StreamIsBoth, RingHoldsLogSuffix, PTL

(* Hub.Replay: the feed of a client of the stream is one without gaps.        *)
THEOREM StreamImplementsEventFeed == StreamSpec => ImplementsEventFeed
BY StreamIsBoth, RingImplementsEventFeed
=============================================================================
