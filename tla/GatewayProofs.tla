---------------------------- MODULE GatewayProofs ----------------------------
(***************************************************************************)
(* The way of a message through a platform: the turn gate, for any sets of   *)
(* messages and sessions and any lifetime of a claim; the reply, for any     *)
(* text, limits and lost answers; the connection to Discord, for any         *)
(* messages, channels and losses of the connection.                          *)
(***************************************************************************)
EXTENDS TurnGate, Reply, DiscordConn, FiniteSetTheorems, WellFoundedInduction, TLAPS

-----------------------------------------------------------------------------

(* The inductive invariant: types, the fate of a claim, and exclusion of the  *)
(* sessions whose claims were never lost.                                     *)
IInv ==
  /\ TypeOK
  /\ ClaimHasHolder
  /\ ExclusionUnlessBreached
  /\ UnbreachedHolderIsClaimed

(* A step of a handler that neither enters nor leaves the holding state, and  *)
(* leaves the guard alone, changes nothing the invariant speaks of.           *)
LEMMA QuietStep ==
  ASSUME IInv, NEW m \in Msgs, NEW label \in Labels,
         GoTo(m, label), UNCHANGED <<busy, breached>>,
         agents' \subseteq Sessions,
         Holding(m)' = Holding(m)
  PROVE  IInv'
<1>1. TypeOK'
  BY DEF IInv, TypeOK, GoTo
<1>2. \A h \in Msgs : Holding(h)' = Holding(h)
  BY DEF IInv, TypeOK, GoTo, Holding
<1>3. \A s \in Sessions : Holders(s)' = Holders(s)
  BY <1>2 DEF Holders
<1>4. QED
  BY <1>1, <1>3 DEF IInv, ClaimHasHolder, ExclusionUnlessBreached,
                    UnbreachedHolderIsClaimed

LEMMA InitEstablishes == Init => IInv
<1>1. ASSUME Init PROVE IInv
  <2>1. \A s \in Sessions : Holders(s) = {}
    BY <1>1 DEF Init, Holders, Holding
  <2>2. QED
    BY <1>1, <2>1 DEF Init, NewBusyGuard, IInv, TypeOK, Labels, ClaimHasHolder,
                      ExclusionUnlessBreached, UnbreachedHolderIsClaimed
<1>2. QED
  BY <1>1

LEMMA ClaimPreserves ==
  ASSUME IInv, NEW m \in Msgs, Claim(m)
  PROVE  IInv'
<1> DEFINE s == SessionOf[m]
<1>1. s \in Sessions /\ 0 \in Ages /\ NoClaim # 0
  BY GateAssumption DEF Ages
<1>2. TypeOK'
  BY <1>1 DEF IInv, TypeOK, Claim, GoTo, Labels
<1>3. \A t \in Sessions : t # s => Holders(t)' = Holders(t)
  BY DEF IInv, TypeOK, Claim, GoTo, Holders, Holding
<1>4. Holders(s)' = Holders(s) \cup {m}
  BY DEF IInv, TypeOK, Claim, GoTo, Holders, Holding
<1>5. \A t \in Sessions : t # s => busy'[t] = busy[t] /\ (t \in breached' <=> t \in breached)
  BY <1>1 DEF IInv, TypeOK, Claim
<1>6. busy'[s] # NoClaim
  BY <1>1 DEF IInv, TypeOK, Claim
<1>7. s \notin breached' => Holders(s) = {}
  BY <1>1 DEF IInv, Claim, ClaimOpen, UnbreachedHolderIsClaimed
<1>8. ClaimHasHolder'
  BY <1>3, <1>4, <1>5 DEF IInv, ClaimHasHolder
<1>9. ExclusionUnlessBreached'
  BY <1>3, <1>4, <1>5, <1>7 DEF IInv, ExclusionUnlessBreached
<1>10. UnbreachedHolderIsClaimed'
  BY <1>3, <1>5, <1>6 DEF IInv, UnbreachedHolderIsClaimed
<1>11. QED
  BY <1>2, <1>8, <1>9, <1>10 DEF IInv

LEMMA ReleasePreserves ==
  ASSUME IInv, NEW m \in Msgs, Release(m)
  PROVE  IInv'
<1> DEFINE s == SessionOf[m]
<1>1. s \in Sessions
  BY GateAssumption
<1>2. TypeOK'
  BY <1>1 DEF IInv, TypeOK, Release, ReleaseMap, GoTo, Labels
<1>3. \A t \in Sessions : t # s => Holders(t)' = Holders(t)
  BY DEF IInv, TypeOK, Release, GoTo, Holders, Holding
<1>4. Holders(s)' = Holders(s) \ {m}
  BY DEF IInv, TypeOK, Release, GoTo, Holders, Holding
<1>5. \A t \in Sessions : t # s => busy'[t] = busy[t] /\ (t \in breached' <=> t \in breached)
  BY <1>1 DEF IInv, TypeOK, Release, ReleaseMap
<1>6. busy'[s] = NoClaim
  BY <1>1 DEF IInv, TypeOK, Release, ReleaseMap
<1>7. s \notin breached' => Holders(s)' = {}
  BY <1>1, <1>4 DEF Release
<1>8. ClaimHasHolder'
  BY <1>3, <1>5, <1>6 DEF IInv, ClaimHasHolder
<1>9. ExclusionUnlessBreached'
  BY <1>3, <1>5, <1>7 DEF IInv, ExclusionUnlessBreached
<1>10. UnbreachedHolderIsClaimed'
  BY <1>3, <1>5, <1>7 DEF IInv, UnbreachedHolderIsClaimed
<1>11. QED
  BY <1>2, <1>8, <1>9, <1>10 DEF IInv

LEMMA TickPreserves ==
  ASSUME IInv, Tick
  PROVE  IInv'
<1>1. \A s \in Sessions : busy'[s] = NoClaim <=> busy[s] = NoClaim
  BY GateAssumption DEF IInv, TypeOK, Ages, Tick
<1>2. TypeOK'
  BY GateAssumption DEF IInv, TypeOK, Ages, Tick
<1>3. \A s \in Sessions : Holders(s)' = Holders(s)
  BY DEF Tick, Holders, Holding
<1>4. breached' = breached
  BY DEF Tick
<1>5. QED
  BY <1>1, <1>2, <1>3, <1>4 DEF IInv, ClaimHasHolder, ExclusionUnlessBreached,
                                UnbreachedHolderIsClaimed

LEMMA NextPreserves ==
  ASSUME IInv, [Next]_vars
  PROVE  IInv'
<1>1. ASSUME NEW m \in Msgs, Deliver(m) PROVE IInv'
  <2>1. Holding(m)' = Holding(m)
    BY <1>1 DEF IInv, TypeOK, Deliver, GoTo, Holding
  <2>2. QED
    BY <1>1, <2>1, QuietStep DEF IInv, TypeOK, Deliver, Labels
<1>2. ASSUME NEW m \in Msgs, Bypass(m) PROVE IInv'
  <2>1. Holding(m)' = Holding(m)
    BY <1>2 DEF IInv, TypeOK, Bypass, GoTo, Holding
  <2>2. QED
    BY <1>2, <2>1, QuietStep DEF IInv, TypeOK, Bypass, Labels
<1>3. ASSUME NEW m \in Msgs, Claim(m) PROVE IInv'
  BY <1>3, ClaimPreserves
<1>4. ASSUME NEW m \in Msgs, Refuse(m) PROVE IInv'
  <2>1. Holding(m)' = Holding(m)
    BY <1>4 DEF IInv, TypeOK, Refuse, GoTo, Holding
  <2>2. QED
    BY <1>4, <2>1, QuietStep DEF IInv, TypeOK, Refuse, Labels
<1>5. ASSUME NEW m \in Msgs, ReplyBusy(m) PROVE IInv'
  <2>1. Holding(m)' = Holding(m)
    BY <1>5 DEF IInv, TypeOK, ReplyBusy, GoTo, Holding
  <2>2. QED
    BY <1>5, <2>1, QuietStep DEF IInv, TypeOK, ReplyBusy, Labels
<1>6. ASSUME NEW m \in Msgs, Slash(m) PROVE IInv'
  <2>1. Holding(m)' = Holding(m)
    BY <1>6 DEF IInv, TypeOK, Slash, GoTo, Holding
  <2>2. QED
    BY <1>6, <2>1, QuietStep DEF IInv, TypeOK, Slash, Labels
<1>7. ASSUME NEW m \in Msgs, StartTurn(m) PROVE IInv'
  <2>1. Holding(m)' = Holding(m)
    BY <1>7 DEF IInv, TypeOK, StartTurn, GoTo, Holding
  <2>2. agents' \subseteq Sessions
    BY <1>7, GateAssumption DEF IInv, TypeOK, StartTurn
  <2>3. QED
    BY <1>7, <2>1, <2>2, QuietStep DEF StartTurn, Labels
<1>8. ASSUME NEW m \in Msgs, FinishTurn(m) PROVE IInv'
  <2>1. Holding(m)' = Holding(m)
    BY <1>8 DEF IInv, TypeOK, FinishTurn, GoTo, Holding
  <2>2. QED
    BY <1>8, <2>1, QuietStep DEF IInv, TypeOK, FinishTurn, Labels
<1>9. ASSUME NEW m \in Msgs, Release(m) PROVE IInv'
  BY <1>9, ReleasePreserves
<1>10. CASE Tick
  BY <1>10, TickPreserves
<1>11. CASE UNCHANGED vars
  BY <1>11 DEF vars, IInv, TypeOK, ClaimHasHolder, ExclusionUnlessBreached,
               UnbreachedHolderIsClaimed, Holders, Holding
<1>12. QED
  BY <1>1, <1>2, <1>3, <1>4, <1>5, <1>6, <1>7, <1>8, <1>9, <1>10, <1>11
     DEF Next, Handle, TryAcquire

-----------------------------------------------------------------------------
(* Every reachable state of the gate satisfies the inductive invariant. *)
THEOREM GateInvariant == Spec => []IInv
<1>1. QED
  BY InitEstablishes, NextPreserves, PTL DEF Spec

(* The state of the gate is well typed. *)
THEOREM GateTypeCorrect == Spec => []TypeOK
<1>1. IInv => TypeOK
  BY DEF IInv
<1>2. QED
  BY <1>1, GateInvariant, PTL

(* No entry of the guard outlives the handlers of its session: a session can *)
(* not stay locked with nobody in it.                                        *)
THEOREM NoLeakedClaim == Spec => []ClaimHasHolder
<1>1. IInv => ClaimHasHolder
  BY DEF IInv
<1>2. QED
  BY <1>1, GateInvariant, PTL

(* Turns of one session exclude each other as long as no claim of it was lost *)
(* early, to a stale takeover or to another handler's Release.                *)
THEOREM ConditionalExclusion == Spec => []ExclusionUnlessBreached
<1>1. IInv => ExclusionUnlessBreached
  BY DEF IInv
<1>2. QED
  BY <1>1, GateInvariant, PTL

(* Nobody is told that an idle session is busy. *)
THEOREM RefusalsAreJustified == Spec => RefusedOnlyWhenHeld
<1>1. ASSUME IInv, [Next]_vars PROVE [RefusalIsJustified]_vars
  <2>1. SUFFICES ASSUME NEW m \in Msgs, pc[m] = "arrived", pc'[m] = "refused"
                 PROVE  Holders(SessionOf[m]) # {}
    BY DEF RefusalIsJustified
  <2>2. Refuse(m)
    BY <1>1, <2>1 DEF IInv, TypeOK, Next, vars, Deliver, Handle, TryAcquire,
       Bypass, Claim, Refuse, ReplyBusy, Slash, StartTurn, FinishTurn, Release,
       Tick, GoTo
  <2>3. busy[SessionOf[m]] # NoClaim
    BY <2>2 DEF Refuse, ClaimOpen
  <2>4. QED
    BY <1>1, <2>3, GateAssumption DEF IInv, ClaimHasHolder
<1>2. QED
  BY <1>1, GateInvariant, PTL DEF Spec, RefusedOnlyWhenHeld

-----------------------------------------------------------------------------
(* What SendReply has at hand is in the reply, and what the chat shows are    *)
(* messages.                                                                  *)
ReplyTyped ==
  /\ platform \in Platforms
  /\ length \in Nat /\ newlines \subseteq 1 .. length
  /\ stage \in Stages
  /\ from \in Nat \ {0} /\ (length > 0 => from <= length)
  /\ shown \in Seq(ReplyMessages) /\ lost \in Nat

(* The last message that the chat shows. *)
Latest == shown[Len(shown)]

(* The chunk at hand has been shown, and SendReply does not know. *)
AtHand == shown # << >> /\ Latest = Message(from)

(* Nothing is shown, or the chunk at hand, or what comes before it. *)
Following ==
  \/ shown = << >> /\ from = 1
  \/ AtHand
  \/ shown # << >> /\ Latest.last + 1 = from

Allowed == IF Telegram THEN lost ELSE 0

(* A chunk at hand that has been shown will be shown again: the answer that   *)
(* was lost then is not counted among the repetitions yet.                    *)
Unpaid == AtHand => Cardinality(Repeats) < Allowed

ReplyInv ==
  /\ ReplyTyped
  /\ ChunksInOrder
  /\ NilMeansShown
  /\ RepeatsNeedLoss
  /\ stage # "returned" => Following /\ Unpaid /\ result = "none"

-----------------------------------------------------------------------------
(* The latest of some newlines is one of them. *)
LEMMA LatestIsOne ==
  ASSUME NEW m \in Nat, NEW S \in SUBSET (1 .. m), S # {}
  PROVE  LatestOf(S) \in S
  <1> DEFINE T == {k \in Nat : m - k \in S}
  <1>1. PICK q \in S : TRUE
    OBVIOUS
  <1>2. m - q \in Nat /\ m - (m - q) = q
    BY <1>1
  <1>3. m - q \in T
    BY <1>1, <1>2
  <1>4. PICK k \in T : \A j \in T : ~(<<j, k>> \in OpToRel(<, Nat))
    BY <1>3, NatLessThanWellFounded, WFMin
  <1>5. ASSUME NEW r \in S
        PROVE  r <= m - k
    <2>1. m - r \in Nat /\ m - (m - r) = r
      OBVIOUS
    <2>2. m - r \in T
      BY <2>1
    <2>3. ~(m - r < k)
      BY <1>4, <2>2 DEF OpToRel
    <2> QED
      BY <2>1, <2>3
  <1>6. m - k \in S
    OBVIOUS
  <1> QED
    BY <1>5, <1>6 DEF LatestOf

(* Where the two adapters cut: behind where the chunk begins, within the      *)
(* reply and the limit.                                                       *)
LEMMA CutsAreWhole ==
  ASSUME ReplyTyped, NEW p \in 1 .. length
  PROVE  /\ ChunkEnd(p) \in p .. length
         /\ ChunkEnd(p) - p < Limit[platform]
  <1> DEFINE n == Limit[platform]
  <1>1. n \in Nat \ {0} /\ length \in Nat
    BY ReplyAssumption DEF ReplyTyped
  <1> HIDE DEF n
  <1>2. CutDiscord(p, n) \in p .. length /\ CutDiscord(p, n) - p < n
    BY <1>1 DEF CutDiscord
  <1>3. CutTelegram(p, n) \in p .. length /\ CutTelegram(p, n) - p < n
    <2>1. CASE length <= n \/ length - p + 1 < n
      BY <1>1, <2>1 DEF CutTelegram
    <2>2. CASE ~(length <= n \/ length - p + 1 < n) /\ LateNewlines(p, n) # {}
      <3> DEFINE q == LatestOf(LateNewlines(p, n))
      <3>1. LateNewlines(p, n) \in SUBSET (1 .. length)
        BY DEF LateNewlines, ReplyTyped
      <3>2. q \in LateNewlines(p, n)
        BY <1>1, <2>2, <3>1, LatestIsOne
      <3>3. q \in 1 .. length /\ q - p > n \div 2 /\ q < p + n
        BY <3>1, <3>2 DEF LateNewlines
      <3>4. CutTelegram(p, n) = q
        BY <2>2 DEF CutTelegram
      <3>5. n \div 2 \in Nat
        BY <1>1
      <3> HIDE DEF q
      <3> QED
        BY <1>1, <3>3, <3>4, <3>5
    <2>3. CASE ~(length <= n \/ length - p + 1 < n) /\ LateNewlines(p, n) = {}
      BY <1>1, <2>3 DEF CutTelegram
    <2> QED
      BY <2>1, <2>2, <2>3
  <1> QED
    BY <1>2, <1>3 DEF ChunkEnd, n

(* A message begins where its chunk does; the last one, with what it says is  *)
(* not delivered, reaches the end, and behind every other begins the next.    *)
LEMMA MessageFits ==
  ASSUME ReplyTyped, NEW p \in 1 .. length
  PROVE  /\ Message(p) \in ReplyMessages
         /\ Message(p).first = p
         /\ Message(p).last - p < Limit[platform]
         /\ IsLast(p) => Message(p).last + Message(p).dropped = length
         /\ ~IsLast(p) => /\ NextFrom(p) = Message(p).last + 1
                          /\ NextFrom(p) \in (p + 1) .. length
  <1>1. length \in Nat /\ Limit[platform] \in Nat \ {0}
    BY ReplyAssumption DEF ReplyTyped
  <1>2. ChunkEnd(p) \in p .. length /\ ChunkEnd(p) - p < Limit[platform]
    BY CutsAreWhole
  <1>3. CASE IsNotice(p)
    BY <1>1, <1>3 DEF Message, ReplyMessages, Dropped, IsLast
  <1>4. CASE ~IsNotice(p)
    BY <1>1, <1>2, <1>4 DEF Message, ReplyMessages, IsLast, NextFrom
  <1> QED
    BY <1>3, <1>4

(* The chunk at hand is shown: in its place, and as a repetition only if it   *)
(* had been.                                                                  *)
LEMMA ShownInPlace ==
  ASSUME ReplyInv, stage # "returned", Show, UNCHANGED inputVars
  PROVE  /\ shown' \in Seq(ReplyMessages) /\ shown' # << >>
         /\ Latest' = Message(from)
         /\ ChunksInOrder'
         /\ Cardinality(Repeats) \in Nat
         /\ Cardinality(Repeats') = Cardinality(Repeats) + (IF AtHand THEN 1 ELSE 0)
  <1> DEFINE n == Len(shown)
  <1>1. from \in 1 .. length
    BY DEF ReplyInv, ReplyTyped, Show
  <1>2. ReplyTyped
    BY DEF ReplyInv
  <1>3. /\ Message(from) \in ReplyMessages /\ Message(from).first = from
        /\ Message(from).last - from < Limit[platform]
    BY <1>1, <1>2, MessageFits
  <1>4. shown \in Seq(ReplyMessages) /\ shown' = Append(shown, Message(from)) /\ n \in Nat
    BY <1>2 DEF ReplyTyped, Show
  <1>5. /\ shown' \in Seq(ReplyMessages) /\ Len(shown') = n + 1
        /\ shown'[n + 1] = Message(from)
        /\ \A i \in 1 .. n : shown'[i] = shown[i]
    BY <1>3, <1>4
  <1>6. shown' # << >>
    BY <1>4, <1>5
  <1>7. Latest' = Message(from)
    BY <1>5 DEF Latest
  <1>8. Following
    BY DEF ReplyInv
  <1>9. n = 0 <=> shown = << >>
    BY <1>4
  <1>10. ChunksInOrder'
    <2> SUFFICES ASSUME NEW i \in 1 .. n + 1
                 PROVE  /\ shown'[i].last - shown'[i].first < Limit[platform]
                        /\ IF i = 1 THEN shown'[i].first = 1
                           ELSE \/ shown'[i] = shown'[i - 1]
                                \/ shown'[i].first = shown'[i - 1].last + 1
      BY <1>5 DEF ChunksInOrder, inputVars
    <2>1. CASE i = n + 1
      <3>1. CASE n = 0
        BY <1>3, <1>5, <1>8, <1>9, <2>1, <3>1 DEF Following, AtHand
      <3>2. CASE n # 0
        <4>1. n \in 1 .. n /\ i - 1 = n /\ i # 1
          BY <1>4, <2>1, <3>2
        <4>2. shown'[i] = Message(from) /\ shown'[i - 1] = Latest
          BY <1>5, <2>1, <4>1 DEF Latest
        <4>3. Message(from) = Latest \/ Latest.last + 1 = from
          BY <1>8, <1>9, <3>2 DEF Following, AtHand
        <4> QED
          BY <1>3, <4>1, <4>2, <4>3
      <3> QED
        BY <3>1, <3>2
    <2>2. CASE i # n + 1
      <3>1. i \in 1 .. n /\ (i # 1 => i - 1 \in 1 .. n)
        BY <1>4, <2>2
      <3>2. shown'[i] = shown[i] /\ (i # 1 => shown'[i - 1] = shown[i - 1])
        BY <1>5, <3>1
      <3>3. i \in DOMAIN shown
        BY <1>4, <3>1
      <3> QED
        BY <3>2, <3>3 DEF ReplyInv, ChunksInOrder
    <2> QED
      BY <2>1, <2>2
  <1>11. Repeats \subseteq 1 .. n
    BY <1>4 DEF Repeats
  <1>12. IsFiniteSet(Repeats) /\ Cardinality(Repeats) \in Nat
    <2>1. IsFiniteSet(1 .. n)
      BY <1>4, FS_Interval
    <2> QED
      BY <1>11, <2>1, FS_Subset, FS_CardinalityType
  <1>13. Repeats' = IF AtHand THEN Repeats \cup {n + 1} ELSE Repeats
    <2>1. ASSUME NEW i \in 1 .. n
          PROVE  i \in Repeats' <=> i \in Repeats
      <3>1. i # 1 => i - 1 \in 1 .. n
        BY <1>4
      <3>2. i \in DOMAIN shown' /\ i \in DOMAIN shown
        BY <1>4, <1>5
      <3> QED
        BY <1>5, <3>1, <3>2 DEF Repeats
    <2>2. n + 1 \in Repeats' <=> AtHand
      <3>1. n + 1 \in DOMAIN shown' /\ (n + 1 > 1 <=> shown # << >>) /\ (n + 1) - 1 = n
        BY <1>4, <1>5, <1>9
      <3>2. shown # << >> => shown'[(n + 1) - 1] = Latest
        <4>1. shown # << >> => n \in 1 .. n
          BY <1>4, <1>9
        <4> QED
          BY <1>5, <3>1, <4>1 DEF Latest
      <3> QED
        BY <1>5, <3>1, <3>2 DEF Repeats, AtHand
    <2>3. Repeats' \subseteq 1 .. n + 1
      BY <1>5 DEF Repeats
    <2> HIDE DEF n
    <2>4. 1 .. n + 1 = (1 .. n) \cup {n + 1}
      BY <1>4
    <2>5. n + 1 \notin 1 .. n
      BY <1>4
    <2>6. \A i \in 1 .. n : i \in Repeats' <=> i \in Repeats
      BY <2>1
    <2>7. ASSUME NEW i
          PROVE  i \in Repeats' <=> i \in Repeats \/ (AtHand /\ i = n + 1)
      <3>1. CASE i \in 1 .. n
        BY <2>5, <2>6, <3>1
      <3>2. CASE i = n + 1
        BY <1>11, <2>2, <2>5, <3>2
      <3>3. CASE i \notin 1 .. n /\ i # n + 1
        BY <1>11, <2>3, <2>4, <3>3
      <3> QED
        BY <3>1, <3>2, <3>3
    <2> QED
      BY <2>7
  <1>14. n + 1 \notin Repeats
    BY <1>4, <1>11
  <1>15. Cardinality(Repeats \cup {n + 1}) = Cardinality(Repeats) + 1
    BY <1>12, <1>14, FS_AddElement
  <1> QED
    BY <1>5, <1>6, <1>7, <1>10, <1>12, <1>13, <1>15

-----------------------------------------------------------------------------
(* Nothing is shown, and the chunk at hand stays: a wait, a failure, the      *)
(* fallbacks.                                                                 *)
LEMMA NothingShown ==
  ASSUME ReplyInv, stage # "returned", UNCHANGED <<inputVars, from, shown, lost>>,
         stage' \in Stages,
         \/ result' = result
         \/ stage' = "returned" /\ result' = "error"
  PROVE  ReplyInv'
  <1>1. Message(from)' = Message(from) /\ Allowed' = Allowed
    BY DEF inputVars, Message, IsNotice, Dropped, ChunkEnd, CutTelegram, CutDiscord,
           LateNewlines, Telegram, Allowed
  <1>2. ReplyTyped'
    BY DEF ReplyInv, ReplyTyped, inputVars
  <1>3. ChunksInOrder' /\ RepeatsNeedLoss' /\ NilMeansShown'
    BY DEF ReplyInv, ChunksInOrder, RepeatsNeedLoss, NilMeansShown, Repeats, Telegram, inputVars
  <1>4. stage' # "returned" => Following' /\ Unpaid' /\ result' = "none"
    BY <1>1 DEF ReplyInv, Following, Unpaid, AtHand, Latest, Repeats
  <1> QED
    BY <1>2, <1>3, <1>4 DEF ReplyInv

(* A message is taken and its answer is lost: one repetition is allowed more, *)
(* and Discord gives up.                                                      *)
LEMMA AnswerLostKeeps ==
  ASSUME ReplyInv, AnswerLost
  PROVE  ReplyInv'
  <1>1. stage # "returned" /\ Show /\ UNCHANGED inputVars /\ lost' = lost + 1
    BY DEF AnswerLost
  <1>2. /\ shown' \in Seq(ReplyMessages) /\ shown' # << >>
        /\ Latest' = Message(from)
        /\ ChunksInOrder'
        /\ Cardinality(Repeats) \in Nat
        /\ Cardinality(Repeats') = Cardinality(Repeats) + (IF AtHand THEN 1 ELSE 0)
    BY <1>1, ShownInPlace
  <1>3. /\ from' = from /\ stage' \in Stages /\ result' \in {"none", "error"}
        /\ stage' # "returned" => Telegram /\ result' = "none"
    BY DEF AnswerLost, TryAgain, Fail, StartCall, Return, RetriesErrors, HasThread,
           ReplyInv, Stages
  <1>4. ReplyTyped'
    BY <1>1, <1>2, <1>3 DEF ReplyInv, ReplyTyped, inputVars
  <1>5. Message(from)' = Message(from) /\ Telegram' = Telegram
    BY <1>1, <1>3 DEF inputVars, Message, IsNotice, Dropped, ChunkEnd, CutTelegram,
           CutDiscord, LateNewlines, Telegram
  <1>6. /\ Cardinality(Repeats) <= Allowed /\ (AtHand => Cardinality(Repeats) < Allowed)
        /\ lost \in Nat
    BY <1>1 DEF ReplyInv, RepeatsNeedLoss, Unpaid, Allowed, ReplyTyped
  <1>7. /\ Telegram => Cardinality(Repeats') < lost'
        /\ ~Telegram => Cardinality(Repeats') <= 0
    BY <1>1, <1>2, <1>6 DEF Allowed
  <1>8. RepeatsNeedLoss'
    <2>1. Cardinality(Repeats') \in Nat
      BY <1>2
    <2>2. lost' \in Nat
      BY <1>4 DEF ReplyTyped
    <2> QED
      BY <1>5, <1>7, <2>1, <2>2 DEF RepeatsNeedLoss
  <1>9. NilMeansShown'
    BY <1>3 DEF NilMeansShown
  <1>10. stage' # "returned" => Following' /\ Unpaid'
    BY <1>2, <1>3, <1>5, <1>7 DEF Following, AtHand, Unpaid, Allowed
  <1> QED
    BY <1>2, <1>3, <1>4, <1>8, <1>9, <1>10 DEF ReplyInv

(* A message is taken: the last, or the next chunk begins behind it.          *)
LEMMA AcceptedKeeps ==
  ASSUME ReplyInv, Accepted
  PROVE  ReplyInv'
  <1>1. stage # "returned" /\ Show /\ UNCHANGED inputVars /\ lost' = lost
    BY DEF Accepted
  <1>2. /\ shown' \in Seq(ReplyMessages) /\ shown' # << >>
        /\ Latest' = Message(from)
        /\ ChunksInOrder'
        /\ Cardinality(Repeats) \in Nat
        /\ Cardinality(Repeats') = Cardinality(Repeats) + (IF AtHand THEN 1 ELSE 0)
    BY <1>1, ShownInPlace
  <1>3. ReplyTyped /\ from \in 1 .. length
    BY <1>1 DEF ReplyInv, ReplyTyped, Show
  <1>4. /\ Message(from).first = from
        /\ IsLast(from) => Message(from).last + Message(from).dropped = length
        /\ ~IsLast(from) => /\ NextFrom(from) = Message(from).last + 1
                            /\ NextFrom(from) \in (from + 1) .. length
    BY <1>3, MessageFits
  <1>5. RepeatsNeedLoss'
    <2>1. Cardinality(Repeats) <= Allowed /\ (AtHand => Cardinality(Repeats) < Allowed)
      BY <1>1 DEF ReplyInv, RepeatsNeedLoss, Unpaid, Allowed
    <2>2. Allowed \in Nat /\ Allowed' = Allowed
      BY <1>1, <1>3 DEF Allowed, ReplyTyped, inputVars, Telegram
    <2>3. Cardinality(Repeats') <= Allowed
      BY <1>2, <2>1, <2>2
    <2> QED
      BY <2>2, <2>3 DEF RepeatsNeedLoss, Allowed
  <1>6. CASE IsLast(from)
    <2>1. stage' = "returned" /\ result' = "nil" /\ from' = from
      BY <1>6 DEF Accepted, Succeed, Return
    <2>2. ReplyTyped'
      BY <1>1, <1>2, <1>3, <2>1 DEF ReplyTyped, inputVars, Stages
    <2>3. NilMeansShown'
      BY <1>1, <1>2, <1>4, <1>6 DEF NilMeansShown, Latest, inputVars
    <2> QED
      BY <1>2, <1>5, <2>1, <2>2, <2>3 DEF ReplyInv
  <1>7. CASE ~IsLast(from)
    <2>1. /\ from' = NextFrom(from) /\ stage' \in {"pause", "posting"} /\ result' = "none"
      BY <1>1, <1>7 DEF Accepted, Succeed, StartCall, ReplyInv
    <2>2. ReplyTyped'
      BY <1>1, <1>2, <1>3, <1>4, <1>7, <2>1 DEF ReplyTyped, inputVars, Stages
    <2>3. from' # from
      BY <1>3, <1>4, <1>7, <2>1 DEF ReplyTyped
    <2>4. Following'
      BY <1>2, <1>4, <1>7, <2>1 DEF Following
    <2>5. ~AtHand'
      <3>1. Message(from)'.first = from'
        BY DEF Message
      <3> QED
        BY <1>2, <1>4, <2>3, <3>1 DEF AtHand
    <2> QED
      BY <1>2, <1>5, <2>1, <2>2, <2>4, <2>5 DEF ReplyInv, NilMeansShown, Unpaid
  <1> QED
    BY <1>6, <1>7

LEMMA ReplyInvKept == ReplyInv /\ [ReplyNext]_replyVars => ReplyInv'
  <1> SUFFICES ASSUME ReplyInv, [ReplyNext]_replyVars
               PROVE  ReplyInv'
    OBVIOUS
  <1>1. CASE Accepted
    BY <1>1, AcceptedKeeps
  <1>2. CASE AnswerLost
    BY <1>2, AnswerLostKeeps
  <1> USE DEF Stages, Fail, Return, StartCall
  <1>3. CASE NotSent \/ LimitCancelled
    BY <1>3, NothingShown DEF NotSent, LimitCancelled, TryAgain
  <1>4. CASE Limited
    BY <1>4, NothingShown DEF Limited
  <1>5. CASE Refused \/ AnchorRefused
    BY <1>5, NothingShown DEF Refused, AnchorRefused
  <1>6. CASE LimitOver
    BY <1>6, NothingShown DEF LimitOver
  <1>7. CASE RetryDue \/ BackoffCancelled
    BY <1>7, NothingShown DEF RetryDue, BackoffCancelled
  <1>8. CASE NextDue \/ PauseCancelled
    BY <1>8, NothingShown DEF NextDue, PauseCancelled
  <1>9. CASE CancelReply
    <2>1. stage' \in Stages
      BY <1>9 DEF CancelReply, ReplyInv, ReplyTyped
    <2> QED
      BY <1>9, <2>1, NothingShown DEF CancelReply
  <1>10. CASE UNCHANGED replyVars
    BY <1>10 DEF replyVars, inputVars, ReplyInv, ReplyTyped, ChunksInOrder, NilMeansShown,
         RepeatsNeedLoss, Repeats, Telegram, Following, Unpaid, AtHand, Latest, Allowed,
         Message, IsNotice, Dropped, ChunkEnd, CutTelegram, CutDiscord, LateNewlines
  <1> QED
    BY <1>1, <1>2, <1>3, <1>4, <1>5, <1>6, <1>7, <1>8, <1>9, <1>10 DEF ReplyNext, Request, Wait

LEMMA InitReplyInv == ReplyInit => ReplyInv
  <1> SUFFICES ASSUME ReplyInit
               PROVE  ReplyInv
    OBVIOUS
  <1>1. length \in Nat /\ from = 1 /\ lost = 0 /\ shown = << >>
    BY ReplyAssumption DEF ReplyInit
  <1>2. shown \in Seq(ReplyMessages) /\ DOMAIN shown = {}
    BY <1>1
  <1>3. ReplyTyped
    BY <1>1, <1>2 DEF ReplyInit, ReplyTyped, Stages
  <1>4. Repeats = {} /\ ChunksInOrder
    BY <1>2 DEF Repeats, ChunksInOrder
  <1>5. Cardinality(Repeats) = 0
    BY <1>4, FS_EmptySet
  <1>6. RepeatsNeedLoss
    BY <1>1, <1>5 DEF RepeatsNeedLoss
  <1>7. NilMeansShown
    BY <1>1 DEF ReplyInit, NilMeansShown
  <1>8. stage # "returned" => Following /\ Unpaid /\ result = "none"
    BY <1>1 DEF ReplyInit, Following, Unpaid, AtHand
  <1> QED
    BY <1>3, <1>4, <1>6, <1>7, <1>8 DEF ReplyInv

(* What SendReply knows of the chat, and what it allows for, holds throughout. *)
THEOREM ReplyInvHolds == ReplySpec => []ReplyInv
  BY InitReplyInv, ReplyInvKept, PTL DEF ReplySpec

(* For any limits, replies, newlines and lost answers, the chat shows the     *)
(* reply in order, no part of it skipped and no message too long (SendReply). *)
THEOREM ReplyIsInOrder == ReplySpec => []ChunksInOrder
  <1>1. ReplyInv => ChunksInOrder
    BY DEF ReplyInv
  <1> QED
    BY <1>1, ReplyInvHolds, PTL

(* SendReply returns nil only for what the chat shows whole, or with a notice *)
(* of how much it does not.                                                   *)
THEOREM NilIsTrue == ReplySpec => []NilMeansShown
  <1>1. ReplyInv => NilMeansShown
    BY DEF ReplyInv
  <1> QED
    BY <1>1, ReplyInvHolds, PTL

(* Nothing is shown twice unless an answer was lost, and on Discord never.    *)
THEOREM LossesPayRepeats == ReplySpec => []RepeatsNeedLoss
  <1>1. ReplyInv => RepeatsNeedLoss
    BY DEF ReplyInv
  <1> QED
    BY <1>1, ReplyInvHolds, PTL

-----------------------------------------------------------------------------
(* Numbers and sequences of the connection. *)
ConnTyped ==
  /\ made \in 0 .. MaxMessages
  /\ attached \in BOOLEAN /\ alive \in BOOLEAN /\ session \in BOOLEAN
  /\ pos \in Nat /\ seq \in Nat
  /\ log \in Seq(Nat) /\ \A i \in DOMAIN log : log[i] <= made
  /\ dispatched \in Seq(Nat) /\ \A d \in DOMAIN dispatched : dispatched[d] <= made
  /\ place = "looking" => current \in 1 .. made

Increasing(s) == \A i, j \in DOMAIN s : i < j => s[i] < s[j]

(* Conn.seq is a place in the log of the session there is, and the place of   *)
(* the socket that is attached to it; INVALID_SESSION has closed its socket.  *)
SeqInLog ==
  /\ IF session THEN seq \in 1 .. Len(log) ELSE seq = 0
  /\ attached => pos = seq /\ Len(log) >= 1
  /\ place = "looking" => session
  /\ place = "pausing" => ~attached

(* What the session still has to deliver, behind seq and READY, is younger    *)
(* than what was dispatched and what is in dispatch.                          *)
YetToCome ==
  session \/ attached =>
    \A i \in 2 .. Len(log) : i > seq =>
      /\ \A d \in DOMAIN dispatched : dispatched[d] < log[i]
      /\ place = "looking" => current < log[i]

InDispatch ==
  place = "looking" => \A d \in DOMAIN dispatched : dispatched[d] < current

ConnInv ==
  ConnTyped /\ Increasing(log) /\ Increasing(dispatched) /\ SeqInLog /\ YetToCome /\ InDispatch

-----------------------------------------------------------------------------
(* The socket, the clock and Run between sessions leave the order alone.      *)
LEMMA OrderRests ==
  ASSUME ConnInv, UNCHANGED <<made, log, seq, session, dispatched>>,
         attached' \in BOOLEAN, alive' \in BOOLEAN, attached' => attached /\ pos' = pos /\ place' # "pausing",
         pos' \in Nat,
         place' = "looking" => place = "looking" /\ current' = current
  PROVE  ConnInv'
  BY DEF ConnInv, ConnTyped, Increasing, SeqInLog, YetToCome, InDispatch

(* A read may be the last: it closes the socket then. *)
LEMMA NextReadCloses ==
  ASSUME ConnInv, NextRead
  PROVE  /\ attached' \in BOOLEAN /\ (attached' => attached)
         /\ place' \in {"reading", "over", "backoff"}
  <1>1. attached \in BOOLEAN
    BY DEF ConnInv, ConnTyped
  <1>2. attached' = attached \/ attached' = FALSE
    BY DEF NextRead, Close
  <1>3. place' \in {"reading", "over", "backoff"}
    BY DEF NextRead, Goto, AfterError
  <1>4. attached' \in BOOLEAN /\ (attached' => attached)
    <2>1. CASE attached' = attached
      BY <1>1, <2>1
    <2>2. CASE attached' = FALSE
      BY <2>2
    <2> QED
      BY <1>2, <2>1, <2>2
  <1> QED
    BY <1>3, <1>4

(* What is written is younger than all before, and the last of the log.       *)
LEMMA PostKeeps ==
  ASSUME ConnInv, Post
  PROVE  ConnInv'
  <1>1. /\ made \in Nat /\ made' = made + 1 /\ made' \in 0 .. MaxMessages
        /\ UNCHANGED <<alive, attached, session, pos, seq, place, current, dispatched>>
        /\ log' = IF alive THEN Append(log, made + 1) ELSE log
    BY ConnAssumption DEF Post, ConnInv, ConnTyped, socketVars, sessVars, msgVars
  <1>2. /\ log \in Seq(Nat) /\ dispatched \in Seq(Nat)
        /\ \A i \in DOMAIN log : log[i] <= made
        /\ \A d \in DOMAIN dispatched : dispatched[d] <= made
        /\ pos \in Nat /\ seq \in Nat
        /\ place = "looking" => current \in 1 .. made
    BY DEF ConnInv, ConnTyped
  <1>3. log' \in Seq(Nat)
    BY <1>1, <1>2
  <1> DEFINE n == Len(log)
  <1>4. n \in Nat /\ \A i \in 1 .. n : log[i] \in 0 .. made
    <2>1. ASSUME NEW i \in 1 .. n
          PROVE  log[i] \in Nat /\ log[i] <= made
      BY <1>2
    <2>2. n \in Nat
      BY <1>2
    <2> QED
      BY <1>1, <2>1, <2>2
  <1>5. \A d \in DOMAIN dispatched : dispatched[d] \in 0 .. made
    <2>1. ASSUME NEW d \in DOMAIN dispatched
          PROVE  dispatched[d] \in Nat /\ dispatched[d] <= made
      BY <1>2
    <2> QED
      BY <1>1, <2>1
  <1>7. /\ Len(log') \in n .. n + 1
        /\ \A i \in 1 .. n : log'[i] = log[i]
        /\ \A i \in 1 .. Len(log') : i \notin 1 .. n => i = n + 1 /\ log'[i] = made + 1
        /\ DOMAIN log' = 1 .. Len(log') /\ DOMAIN log = 1 .. n
    <2>1. CASE alive
      BY <1>1, <1>2, <2>1
    <2>2. CASE ~alive
      BY <1>1, <1>2, <2>2
    <2> QED
      BY <2>1, <2>2
  <1> HIDE DEF n
  <1>6. ConnTyped'
    <2>1. \A i \in DOMAIN log' : log'[i] <= made'
      BY <1>1, <1>4, <1>7
    <2>2. \A d \in DOMAIN dispatched : dispatched[d] <= made'
      BY <1>1, <1>5
    <2>3. place = "looking" => current \in 1 .. made'
      BY <1>1, <1>2
    <2> QED
      BY <1>1, <1>2, <1>3, <2>1, <2>2, <2>3 DEF ConnInv, ConnTyped
  <1>8. Increasing(log')
    <2> SUFFICES ASSUME NEW i \in 1 .. Len(log'), NEW j \in 1 .. Len(log'), i < j
                 PROVE  log'[i] < log'[j]
      BY <1>7 DEF Increasing
    <2>1. i \in 1 .. n
      BY <1>4, <1>7
    <2>2. log'[i] = log[i] /\ log[i] \in 0 .. made
      BY <1>4, <1>7, <2>1
    <2>3. CASE j \in 1 .. n
      BY <1>7, <2>1, <2>2, <2>3 DEF ConnInv, Increasing
    <2>4. CASE j \notin 1 .. n
      BY <1>1, <1>7, <2>2, <2>4
    <2> QED
      BY <2>3, <2>4
  <1>9. SeqInLog'
    BY <1>1, <1>4, <1>7 DEF ConnInv, SeqInLog, n
  <1>10. YetToCome'
    <2> SUFFICES ASSUME session \/ attached, NEW i \in 2 .. Len(log'), i > seq
                 PROVE  /\ \A d \in DOMAIN dispatched : dispatched[d] < log'[i]
                        /\ place = "looking" => current < log'[i]
      BY <1>1 DEF YetToCome
    <2>1. CASE i \in 1 .. n
      <3>1. i \in 2 .. n /\ log'[i] = log[i]
        BY <1>4, <1>7, <2>1
      <3> QED
        BY <3>1 DEF ConnInv, YetToCome, n
    <2>2. CASE i \notin 1 .. n
      <3>1. log'[i] = made + 1
        BY <1>4, <1>7, <2>2
      <3> QED
        BY <1>1, <1>2, <1>5, <3>1
    <2> QED
      BY <2>1, <2>2
  <1>11. Increasing(dispatched)' /\ InDispatch'
    BY <1>1 DEF ConnInv, Increasing, InDispatch
  <1> QED
    BY <1>6, <1>8, <1>9, <1>10, <1>11 DEF ConnInv, Increasing

(* The server goes on behind seq. *)
LEMMA ResumeKeeps ==
  ASSUME ConnInv, Resume
  PROVE  ConnInv'
  <1>1. /\ session /\ pos' = seq /\ place' = "reading"
        /\ UNCHANGED <<made, alive, log, session, seq, dispatched>>
        /\ attached' \in BOOLEAN
    BY DEF Resume, Goto, serverVars, sessVars, msgVars, ConnInv, ConnTyped
  <1>2. ConnTyped'
    BY <1>1 DEF ConnInv, ConnTyped
  <1>3. YetToCome'
    BY <1>1 DEF ConnInv, YetToCome
  <1>4. SeqInLog' /\ InDispatch' /\ Increasing(log)' /\ Increasing(dispatched)'
    BY <1>1 DEF ConnInv, SeqInLog, InDispatch, Increasing
  <1> QED
    BY <1>2, <1>3, <1>4 DEF ConnInv

LEMMA IdentifyKeeps ==
  ASSUME ConnInv, Identify
  PROVE  ConnInv'
  <1>1. /\ ~session /\ pos' = 0 /\ place' = "reading" /\ attached' = TRUE /\ log' = <<0>>
        /\ alive' = TRUE
        /\ UNCHANGED <<made, session, seq, dispatched>>
    BY DEF Identify, Goto, Ready, sessVars, msgVars
  <1>2. log' \in Seq(Nat) /\ Len(log') = 1 /\ DOMAIN log' = {1} /\ log'[1] = 0
    BY <1>1
  <1>3. Increasing(log')
    BY <1>2 DEF Increasing
  <1>4. 2 .. Len(log') = {}
    BY <1>2
  <1>5. made \in Nat
    BY ConnAssumption DEF ConnInv, ConnTyped
  <1>6. ConnTyped'
    BY <1>1, <1>2, <1>5 DEF ConnInv, ConnTyped
  <1>7. YetToCome'
    BY <1>4 DEF YetToCome
  <1>8. SeqInLog' /\ InDispatch' /\ Increasing(dispatched)'
    BY <1>1 DEF ConnInv, SeqInLog, InDispatch, Increasing
  <1> QED
    BY <1>3, <1>6, <1>7, <1>8 DEF ConnInv, Increasing

(* An event is taken from the log, and seq follows it.                        *)
LEMMA ReadEventKeeps ==
  ASSUME ConnInv, ReadEvent
  PROVE  ConnInv'
  <1>1. CASE ReadReady
    <2>1. /\ attached /\ pos = 0 /\ pos' = 1 /\ seq' = 1 /\ session' = TRUE
          /\ place' # "looking" /\ place' # "pausing" /\ attached' \in {attached, FALSE}
          /\ UNCHANGED <<made, alive, log, dispatched>>
      BY <1>1 DEF ReadReady, Reads, SeqAfter, NextRead, Goto, AfterError, Close,
                   serverVars, msgVars
    <2>2. seq = 0 /\ Len(log) \in Nat /\ Len(log) >= 1
      BY <2>1 DEF ConnInv, ConnTyped, SeqInLog
    <2>3. ConnTyped' /\ InDispatch' /\ Increasing(log)' /\ Increasing(dispatched)'
      BY <2>1 DEF ConnInv, ConnTyped, InDispatch, Increasing
    <2>4. SeqInLog'
      BY <2>1, <2>2 DEF SeqInLog
    <2>5. YetToCome'
      BY <2>1, <2>2 DEF ConnInv, YetToCome
    <2> QED
      BY <2>3, <2>4, <2>5 DEF ConnInv
  <1>2. CASE ReadMessage
    <2>1. /\ attached /\ pos \in 1 .. Len(log) - 1 /\ pos' = pos + 1 /\ seq' = pos + 1
          /\ current' = log[pos + 1] /\ place' = "looking"
          /\ UNCHANGED <<made, alive, log, attached, session, dispatched>>
      BY <1>2 DEF ReadMessage, Reads, SeqAfter, Goto, serverVars
    <2>2. /\ log \in Seq(Nat) /\ Len(log) \in Nat /\ DOMAIN log = 1 .. Len(log)
          /\ made \in Nat /\ pos = seq /\ session
          /\ \A i \in DOMAIN log : log[i] <= made
      BY <2>1, ConnAssumption DEF ConnInv, ConnTyped, SeqInLog
    <2>3. pos + 1 \in 2 .. Len(log) /\ pos + 1 \in DOMAIN log /\ 1 \in DOMAIN log /\ pos + 1 > seq
      BY <2>1, <2>2
    <2>4. current' \in 1 .. made
      <3>1. log[1] \in Nat /\ log[pos + 1] \in Nat /\ log[pos + 1] <= made
        BY <2>2, <2>3
      <3>2. log[1] < log[pos + 1]
        BY <2>1, <2>2, <2>3 DEF ConnInv, Increasing
      <3> QED
        BY <2>1, <2>2, <3>1, <3>2
    <2>5. ConnTyped'
      BY <2>1, <2>2, <2>4 DEF ConnInv, ConnTyped
    <2>6. InDispatch'
      BY <2>1, <2>3 DEF ConnInv, YetToCome, InDispatch
    <2>7. YetToCome'
      <3> SUFFICES ASSUME NEW i \in 2 .. Len(log), i > pos + 1
                   PROVE  /\ \A d \in DOMAIN dispatched : dispatched[d] < log[i]
                          /\ log[pos + 1] < log[i]
        BY <2>1 DEF YetToCome
      <3>1. i > seq /\ i \in DOMAIN log
        BY <2>1, <2>2
      <3> QED
        BY <2>1, <2>3, <3>1 DEF ConnInv, YetToCome, Increasing
    <2>8. SeqInLog'
      BY <2>1, <2>2, <2>3 DEF SeqInLog
    <2> QED
      BY <2>1, <2>5, <2>6, <2>7, <2>8 DEF ConnInv, Increasing
  <1> QED
    BY <1>1, <1>2 DEF ReadEvent

(* What is in dispatch is younger than all that was dispatched.               *)
LEMMA DispatchKeeps ==
  ASSUME ConnInv, Dispatch
  PROVE  ConnInv'
  <1>1. /\ place = "looking" /\ place' # "looking" /\ place' # "pausing"
        /\ attached' \in BOOLEAN /\ (attached' => attached)
        /\ dispatched' \in {dispatched, Append(dispatched, current)}
        /\ UNCHANGED <<made, alive, log, pos, session, seq>>
    BY NextReadCloses DEF Dispatch, serverVars, sessVars
  <1>2. CASE dispatched' = dispatched
    <2>1. YetToCome'
      BY <1>1, <1>2 DEF ConnInv, YetToCome
    <2>4. ConnTyped'
      BY <1>1, <1>2 DEF ConnInv, ConnTyped
    <2>2. SeqInLog'
      BY <1>1 DEF ConnInv, SeqInLog
    <2>3. InDispatch' /\ Increasing(log)' /\ Increasing(dispatched)'
      BY <1>1, <1>2 DEF ConnInv, InDispatch, Increasing
    <2> QED
      BY <2>1, <2>2, <2>3, <2>4 DEF ConnInv
  <1>3. CASE dispatched' = Append(dispatched, current)
    <2> DEFINE n == Len(dispatched)
    <2>1. /\ dispatched \in Seq(Nat) /\ current \in 1 .. made
          /\ n \in Nat /\ DOMAIN dispatched = 1 .. n /\ made \in Nat
          /\ \A d \in 1 .. n : dispatched[d] <= made
      BY <1>1, ConnAssumption DEF ConnInv, ConnTyped
    <2>2. /\ dispatched' \in Seq(Nat) /\ DOMAIN dispatched' = 1 .. n + 1
          /\ dispatched'[n + 1] = current
          /\ \A d \in 1 .. n : dispatched'[d] = dispatched[d]
      BY <1>3, <2>1
    <2> HIDE DEF n
    <2>3. Increasing(dispatched')
      <3> SUFFICES ASSUME NEW i \in 1 .. n + 1, NEW j \in 1 .. n + 1, i < j
                   PROVE  dispatched'[i] < dispatched'[j]
        BY <2>2 DEF Increasing
      <3>1. i \in 1 .. n /\ (j \in 1 .. n \/ j = n + 1)
        BY <2>1
      <3> QED
        BY <1>1, <2>1, <2>2, <3>1 DEF ConnInv, Increasing, InDispatch
    <2>4. YetToCome'
      <3> SUFFICES ASSUME session \/ attached, NEW i \in 2 .. Len(log), i > seq,
                          NEW d \in 1 .. n + 1
                   PROVE  dispatched'[d] < log[i]
        BY <1>1, <2>2 DEF YetToCome
      <3>1. d \in 1 .. n \/ d = n + 1
        BY <2>1
      <3> QED
        BY <1>1, <2>1, <2>2, <3>1 DEF ConnInv, YetToCome
    <2>5. InDispatch' /\ Increasing(log')
      BY <1>1 DEF ConnInv, InDispatch, Increasing
    <2>7. SeqInLog'
      BY <1>1 DEF ConnInv, SeqInLog
    <2>6. ConnTyped'
      <3>1. \A d \in 1 .. n + 1 : dispatched'[d] <= made
        BY <2>1, <2>2
      <3> QED
        BY <1>1, <2>2, <3>1 DEF ConnInv, ConnTyped
    <2> QED
      BY <2>3, <2>4, <2>5, <2>6, <2>7 DEF ConnInv, Increasing
  <1> QED
    BY <1>1, <1>2, <1>3

(* A session that is given up leaves nothing behind that could be replayed.   *)
LEMMA PauseOverKeeps ==
  ASSUME ConnInv, PauseOver
  PROVE  ConnInv'
  <1>1. /\ place = "pausing" /\ place' # "pausing" /\ place' # "looking"
        /\ UNCHANGED <<made, alive, log, attached, pos, dispatched>>
        /\ \/ UNCHANGED <<session, seq>>
           \/ resumable /\ session' = session /\ seq' = seq
           \/ session' = FALSE /\ seq' = 0
    BY DEF PauseOver, Goto, AfterError, SessionLeft, serverVars, socketVars, msgVars,
           ConnInv, ConnTyped
  <1>2. ~attached
    BY <1>1 DEF ConnInv, SeqInLog
  <1>3. InDispatch' /\ Increasing(log)' /\ Increasing(dispatched)'
    BY <1>1 DEF ConnInv, InDispatch, Increasing
  <1>4. ConnTyped'
    <2>1. session \in BOOLEAN /\ seq \in Nat
      BY DEF ConnInv, ConnTyped
    <2>2. (session' = session \/ session' = FALSE) /\ (seq' = seq \/ seq' = 0)
      BY <1>1
    <2>3. seq' \in Nat
      BY <2>1, <2>2
    <2>4. CASE session' = session
      BY <1>1, <2>1, <2>3, <2>4 DEF ConnInv, ConnTyped
    <2>5. CASE session' = FALSE
      BY <1>1, <2>3, <2>5 DEF ConnInv, ConnTyped
    <2> QED
      BY <2>2, <2>4, <2>5
  <1>5. SeqInLog'
    BY <1>1, <1>2 DEF ConnInv, SeqInLog
  <1>6. YetToCome'
    BY <1>1, <1>2 DEF ConnInv, YetToCome
  <1> QED
    BY <1>3, <1>4, <1>5, <1>6 DEF ConnInv

LEMMA ConnInvKept == ConnInv /\ [ConnNext]_connVars => ConnInv'
  <1> SUFFICES ASSUME ConnInv, [ConnNext]_connVars
               PROVE  ConnInv'
    OBVIOUS
  <1>1. pos \in Nat /\ attached \in BOOLEAN /\ alive \in BOOLEAN
    BY DEF ConnInv, ConnTyped
  <1>2. place = "pausing" => ~attached
    BY DEF ConnInv, SeqInLog
  <1> USE DEF Goto, serverVars, socketVars, sessVars, msgVars
  <1>3. CASE Post
    BY <1>3, PostKeeps
  <1>4. CASE Forget
    BY <1>1, <1>4, OrderRests DEF Forget
  <1>5. CASE Wedge \/ Cancel \/ TimePasses \/ SendHeartbeat
    BY <1>1, <1>2, <1>5, OrderRests DEF Wedge, Cancel, TimePasses, SendHeartbeat
  <1>6. CASE Dial \/ Hello
    BY <1>1, <1>6, OrderRests DEF Dial, Hello
  <1>7. CASE Drop \/ FatalClose
    BY <1>1, <1>7, OrderRests DEF Drop, FatalClose, AfterError, Close
  <1>8. CASE ReadACK \/ ReadOther
    <2>1. place = "reading"
      BY <1>8 DEF ReadACK, ReadOther, Reads
    <2>2. /\ UNCHANGED <<made, alive, log, seq, session, dispatched, pos>>
          /\ attached' \in BOOLEAN /\ (attached' => attached)
          /\ place' \in {"reading", "over", "backoff"}
      <3>1. CASE ReadACK
        BY <1>1, <2>1, <3>1 DEF ReadACK
      <3>2. CASE ReadOther
        BY <3>2, NextReadCloses DEF ReadOther
      <3> QED
        BY <1>8, <3>1, <3>2
    <2>3. /\ attached' \in BOOLEAN /\ alive' \in BOOLEAN /\ pos' \in Nat
          /\ attached' => attached /\ pos' = pos
          /\ place' # "pausing" /\ place' # "looking"
      BY <1>1, <2>2
    <2> QED
      BY <2>2, <2>3, OrderRests
  <1>9. CASE ReadInvalid
    BY <1>1, <1>9, OrderRests DEF ReadInvalid, Close
  <1>10. CASE BackoffOver
    BY <1>1, <1>10, OrderRests DEF BackoffOver
  <1>11. CASE Resume
    BY <1>11, ResumeKeeps
  <1>12. CASE Identify
    BY <1>12, IdentifyKeeps
  <1>13. CASE ReadEvent
    BY <1>13, ReadEventKeeps
  <1>14. CASE Dispatch
    BY <1>14, DispatchKeeps
  <1>15. CASE PauseOver
    BY <1>15, PauseOverKeeps
  <1>16. CASE UNCHANGED connVars
    BY <1>1, <1>2, <1>16, OrderRests DEF connVars
  <1> QED
    BY <1>3, <1>4, <1>5, <1>6, <1>7, <1>8, <1>9, <1>10, <1>11, <1>12, <1>13, <1>14, <1>15,
       <1>16 DEF ConnNext, Session, OwnStep

LEMMA InitConnInv == ConnInit => ConnInv
  <1> SUFFICES ASSUME ConnInit
               PROVE  ConnInv
    OBVIOUS
  <1>1. made = 0 /\ MaxMessages \in Nat /\ log = << >> /\ dispatched = << >>
    BY ConnAssumption DEF ConnInit
  <1>2. << >> \in Seq(Nat)
    OBVIOUS
  <1>3. made \in 0 .. MaxMessages /\ Len(log) = 0 /\ DOMAIN log = {} /\ DOMAIN dispatched = {}
    BY <1>1
  <1> QED
    BY <1>1, <1>2, <1>3 DEF ConnInit, ConnInv, ConnTyped, Increasing, SeqInLog, YetToCome, InDispatch

(* However the connection drops, resumes and starts afresh, no message        *)
(* reaches a handler twice, and they come in the order they were written      *)
(* (Conn.session, dispatch).                                                  *)
THEOREM EachMessageOnce == ConnSpec => []OnceInOrder
  <1>1. ConnInv => OnceInOrder
    BY DEF ConnInv, Increasing, OnceInOrder
  <1> QED
    BY <1>1, InitConnInv, ConnInvKept, PTL DEF ConnSpec
=============================================================================
