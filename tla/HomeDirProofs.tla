--------------------------- MODULE HomeDirProofs ----------------------------
(***************************************************************************)
(* What holds on one home directory for any processes, turns, calls, notes   *)
(* and sizes of the pool: results in order, notes that stay, answers that    *)
(* tell the truth.  The three parts of HomeDir have an invariant each.       *)
(***************************************************************************)
EXTENDS HomeDir, FiniteSetTheorems, TLAPS

-----------------------------------------------------------------------------
(* Tool rounds *)

RoundTyped ==
  /\ at \in [Rounds -> {"submitting", "joining", "returned", "crashed"}]
  /\ submitted \in [Rounds -> Nat]
  /\ call \in [Calls -> {"new", "assigned", "running", "over", "panicked"}]
  /\ out \in [Calls -> Int]

(* A call has a result once it is over, and none before.                     *)
ResultIsOwn ==
  \A c \in Calls :
    IF call[c] = "over" THEN out[c] \in {c[2], Failed, Cancelled} ELSE out[c] = Zero

(* The pool has only what was submitted.                                     *)
RestIsNew ==
  \A r \in Rounds : \A i \in Indices(r) : i > submitted[r] => call[<<r, i>>] = "new"

(* A round that has returned has waited for all its calls.                   *)
ReturnedIsDone == \A r \in Rounds : at[r] = "returned" => AllDone(r)

RoundInv == RoundTyped /\ ResultIsOwn /\ RestIsNew /\ ReturnedIsDone

LEMMA CallsArePairs ==
  /\ \A r \in Rounds : \A i \in Indices(r) : <<r, i>> \in Calls
  /\ \A c \in Calls : c[1] \in Rounds /\ c[2] \in Indices(c[1]) /\ c = <<c[1], c[2]>>
                      /\ c[2] \in Int
BY RoundAssumption DEF Calls, Indices

LEMMA RoundInitInv == RoundInit => RoundInv
<1> SUFFICES ASSUME RoundInit PROVE RoundInv
  OBVIOUS
<1> USE RoundAssumption DEF RoundInit
<1>1. RoundTyped
  BY DEF RoundTyped, Zero
<1>2. ResultIsOwn
  BY DEF ResultIsOwn
<1>3. RestIsNew
  BY CallsArePairs DEF RestIsNew
<1>4. ReturnedIsDone
  BY DEF ReturnedIsDone
<1> QED BY <1>1, <1>2, <1>3, <1>4 DEF RoundInv

(* The steps that only move a round. *)
LEMMA RoundMoves ==
  ASSUME RoundInv, NEW r \in Rounds,
         AllSubmitted(r) \/ Join(r) \/ CancelTurn(r) \/ UNCHANGED roundVars
  PROVE  RoundInv'
<1> USE DEF RoundInv
<1>1. /\ UNCHANGED <<submitted, call, out>>
      /\ RoundTyped'
      /\ \A q \in Rounds : at'[q] = "returned" => at[q] = "returned" \/ AllDone(q)
  BY DEF AllSubmitted, Join, CancelTurn, roundVars, RoundTyped
<1>2. ResultIsOwn' /\ RestIsNew'
  BY <1>1 DEF ResultIsOwn, RestIsNew, Indices
<1>3. ReturnedIsDone'
  BY <1>1 DEF ReturnedIsDone, AllDone, Indices
<1> QED BY <1>1, <1>2, <1>3

LEMMA SubmitKeeps ==
  ASSUME RoundInv, NEW r \in Rounds, Submit(r)
  PROVE  RoundInv'
<1> DEFINE c == <<r, submitted[r] + 1>>
<1>a. submitted[r] \in Nat /\ CallsOf[r] \in Nat /\ submitted[r] < CallsOf[r]
  BY RoundAssumption DEF Submit, RoundInv, RoundTyped
<1>0. submitted[r] + 1 \in Indices(r) /\ submitted[r] + 1 > submitted[r]
  BY <1>a DEF Indices
<1> USE RoundAssumption, CallsArePairs DEF RoundInv
<1>1. at[r] = "submitting" /\ c \in Calls /\ call[c] = "new"
  BY <1>0 DEF Submit, RestIsNew
<1>2. /\ submitted' = [submitted EXCEPT ![r] = @ + 1]
      /\ call' = [call EXCEPT ![c] = "assigned"]
      /\ UNCHANGED <<at, out>>
  BY DEF Submit
<1> HIDE DEF c
<1>3. RoundTyped'
  BY <1>1, <1>2 DEF RoundTyped
<1>4. ResultIsOwn'
  BY <1>1, <1>2 DEF ResultIsOwn, RoundTyped
<1>5. RestIsNew'
  BY <1>1, <1>2 DEF RestIsNew, RoundTyped, c, Indices
<1>6. ReturnedIsDone'
  BY <1>1, <1>2 DEF ReturnedIsDone, AllDone, RoundTyped, c, Indices
<1> QED BY <1>3, <1>4, <1>5, <1>6

(* The steps of a worker with a call: it stays in the pool or leaves it with *)
(* its own result, or without one when it panics.                            *)
LEMMA CallKeeps ==
  ASSUME RoundInv, NEW c \in Calls,
         BeginCall(c) \/ SkipCall(c) \/ EndCall(c) \/ FailCall(c) \/ PanicCall(c)
  PROVE  RoundInv'
<1> USE RoundAssumption, CallsArePairs DEF RoundInv
<1>1. /\ UNCHANGED <<at, submitted>>
      /\ call[c] \in {"assigned", "running"}
  BY DEF BeginCall, SkipCall, EndCall, FailCall, PanicCall
<1>2. \/ /\ call' = [call EXCEPT ![c] = "running"] \/ call' = [call EXCEPT ![c] = "panicked"]
         /\ out' = out
      \/ /\ call' = [call EXCEPT ![c] = "over"]
         /\ \E v \in {c[2], Failed, Cancelled} : out' = [out EXCEPT ![c] = v]
  BY DEF BeginCall, SkipCall, EndCall, FailCall, PanicCall, Slot
<1>3. RoundTyped'
  BY <1>1, <1>2 DEF RoundTyped, Failed, Cancelled
<1>4. ResultIsOwn'
  BY <1>1, <1>2 DEF ResultIsOwn, RoundTyped
<1>5. \A d \in Calls : call[d] \in {"new", "over", "panicked"} => call'[d] = call[d]
  BY <1>1, <1>2 DEF RoundTyped
<1>6. RestIsNew'
  BY <1>1, <1>5 DEF RestIsNew, Indices
<1>7. ReturnedIsDone'
  BY <1>1, <1>5 DEF ReturnedIsDone, AllDone, Indices
<1> QED BY <1>3, <1>4, <1>6, <1>7

LEMMA RoundCrashKeeps ==
  ASSUME RoundInv, NEW p, RoundCrash(p)
  PROVE  RoundInv'
<1> USE CallsArePairs DEF RoundInv, RoundCrash
<1>1. RoundTyped'
  BY DEF RoundTyped
<1>2. \A d \in Calls : call'[d] # call[d] =>
                         call[d] \in {"assigned", "running"} /\ call'[d] = "panicked"
  BY DEF Taken
<1>3. ResultIsOwn'
  BY <1>2 DEF ResultIsOwn
<1>4. RestIsNew'
  BY <1>2 DEF RestIsNew, Indices
<1>5. ReturnedIsDone'
  BY <1>2 DEF ReturnedIsDone, AllDone, Indices
<1> QED BY <1>1, <1>3, <1>4, <1>5

-----------------------------------------------------------------------------
(* Writes *)

StoreTyped ==
  /\ place \in [Writers -> {"idle", "begin", "open", "done"}]
  /\ reply \in [Writers -> {"none", "nil", "error"}]
  /\ committed \in Seq(Writers)
  /\ table \in Seq(Writers \X Nat) /\ calls \in Nat

(* A writer that is not done has neither an answer nor a commit.             *)
UnfinishedIsNowhere ==
  \A w \in Writers : place[w] # "done" => reply[w] = "none" /\ ~Contains(committed, w)

StoreInv == StoreTyped /\ UnfinishedIsNowhere /\ ReplyTellsTruth /\ BatchesAreWhole

LEMMA ContainsAppend ==
  ASSUME NEW S, NEW q \in Seq(S), NEW e \in S, NEW x
  PROVE  Contains(Append(q, e), x) <=> Contains(q, x) \/ x = e
<1>1. /\ Len(Append(q, e)) = Len(q) + 1 /\ Len(q) \in Nat
      /\ Append(q, e)[Len(q) + 1] = e
      /\ \A i \in 1 .. Len(q) : Append(q, e)[i] = q[i]
  OBVIOUS
<1> QED BY <1>1 DEF Contains

LEMMA StoreInitInv == StoreInit => StoreInv
<1> SUFFICES ASSUME StoreInit PROVE StoreInv
  OBVIOUS
<1>1. StoreTyped /\ UnfinishedIsNowhere /\ ReplyTellsTruth
  BY DEF StoreInit, StoreTyped, UnfinishedIsNowhere, ReplyTellsTruth, Contains
<1>2. Bumps = {} /\ Cardinality({}) = 0
  BY FS_EmptySet DEF StoreInit, Bumps
<1>3. BatchesAreWhole
  BY <1>2 DEF StoreInit, BatchesAreWhole, IsInjective
<1> QED BY <1>1, <1>3 DEF StoreInv

(* A step that leaves the data alone. *)
LEMMA DataStay ==
  ASSUME BatchesAreWhole, UNCHANGED <<dataVars, committed>>
  PROVE  BatchesAreWhole'
<1>1. table' = table /\ calls' = calls /\ committed' = committed
  BY DEF dataVars
<1>2. \A i : WholeAt(i)' <=> WholeAt(i)
  BY <1>1 DEF WholeAt, Contains
<1>3. Bumps' = Bumps
  BY <1>1 DEF Bumps
<1>4. Cardinality(Bumps)' = Cardinality(Bumps)
  BY <1>3
<1> QED BY <1>1, <1>2, <1>4 DEF BatchesAreWhole, HasRow, IsInjective

(* A commit adds its writer to the committed ones, where it was not before.  *)
LEMMA CommitAddsWriter ==
  ASSUME StoreInv, NEW w \in Writers, place[w] = "open", Apply(w)
  PROVE  /\ committed' \in Seq(Writers)
         /\ DOMAIN committed' = DOMAIN committed \cup {Len(committed) + 1}
         /\ Len(committed) \in Nat /\ DOMAIN committed = 1 .. Len(committed)
         /\ \A a \in DOMAIN committed : committed'[a] = committed[a] /\ committed[a] # w
         /\ committed'[Len(committed) + 1] = w
<1>1. ~Contains(committed, w) /\ committed \in Seq(Writers)
  BY DEF StoreInv, StoreTyped, UnfinishedIsNowhere
<1>2. committed' = Append(committed, w)
  BY DEF Apply
<1>3. \A a \in DOMAIN committed : committed[a] # w
  BY <1>1 DEF Contains
<1>4. /\ committed' \in Seq(Writers)
      /\ Len(committed) \in Nat /\ DOMAIN committed = 1 .. Len(committed)
      /\ Len(committed') = Len(committed) + 1 /\ DOMAIN committed' = 1 .. Len(committed')
      /\ \A a \in DOMAIN committed : committed'[a] = committed[a]
      /\ committed'[Len(committed) + 1] = w
  BY <1>1, <1>2
<1> QED BY <1>3, <1>4

(* The calls that are counted. *)
LEMMA CommitCounts ==
  ASSUME StoreInv, NEW w \in Writers, place[w] = "open", Apply(w)
  PROVE  calls' <= Cardinality(Bumps)' /\ calls' \in Nat
<1> DEFINE new == Len(committed) + 1
<1>1. /\ calls \in Nat /\ calls <= Cardinality(Bumps)
      /\ calls' = IF OpOf[w] = "bump" /\ present THEN calls + 1 ELSE calls
  BY DEF StoreInv, StoreTyped, BatchesAreWhole, Apply
<1>2. Bumps' = IF OpOf[w] = "bump" THEN Bumps \cup {new} ELSE Bumps
  BY CommitAddsWriter DEF Bumps
<1>3. IsFiniteSet(Bumps) /\ new \notin Bumps
  <2>1. Bumps \subseteq 1 .. Len(committed) /\ Len(committed) \in Nat
    BY CommitAddsWriter DEF Bumps
  <2>2. IsFiniteSet(1 .. Len(committed))
    BY <2>1, FS_Interval
  <2>3. IsFiniteSet(Bumps)
    BY <2>1, <2>2, FS_Subset
  <2>4. Len(committed) + 1 \notin 1 .. Len(committed)
    BY <2>1
  <2> QED BY <2>1, <2>3, <2>4
<1>4. Cardinality(Bumps) \in Nat /\ Cardinality(Bumps \cup {new}) = Cardinality(Bumps) + 1
  BY <1>3, FS_AddElement, FS_CardinalityType
<1> HIDE DEF new
<1>5. Cardinality(Bumps)' = IF OpOf[w] = "bump" THEN Cardinality(Bumps) + 1 ELSE Cardinality(Bumps)
  BY <1>2, <1>4
<1> QED BY <1>1, <1>4, <1>5

(* The rows that it appends: those of its writer, of which there were none.  *)
LEMMA CommitAddsRows ==
  ASSUME StoreInv, NEW w \in Writers, place[w] = "open", Apply(w), OpOf[w] = "append"
  PROVE  /\ table' \in Seq(Writers \X Nat)
         /\ Len(table) \in Nat /\ DOMAIN table = 1 .. Len(table)
         /\ RowsOf[w] \in Nat \ {0} /\ DOMAIN table' = 1 .. Len(table) + RowsOf[w]
         /\ \A i \in DOMAIN table : table'[i] = table[i] /\ table[i][1] # w
         /\ \A k \in 1 .. RowsOf[w] : table'[Len(table) + k] = <<w, k>>
<1>1. table' = table \o Batch(w) /\ table \in Seq(Writers \X Nat) /\ RowsOf[w] \in Nat \ {0}
  BY StoreAssumption DEF Apply, StoreInv, StoreTyped
<1>2. Batch(w) \in Seq(Writers \X Nat) /\ Len(Batch(w)) = RowsOf[w]
  <2>1. Batch(w) \in [1 .. RowsOf[w] -> Writers \X Nat]
    BY <1>1 DEF Batch
  <2>2. RowsOf[w] \in Nat
    BY <1>1
  <2> HIDE DEF Batch
  <2>3. Batch(w) \in Seq(Writers \X Nat)
    BY <2>1, <2>2
  <2> QED BY <2>1, <2>2, <2>3
<1>3. \A k \in 1 .. RowsOf[w] : Batch(w)[k] = <<w, k>>
  BY DEF Batch
<1>4. \A i \in DOMAIN table : table[i][1] # w
  <2>1. ~Contains(committed, w)
    BY DEF StoreInv, UnfinishedIsNowhere
  <2> QED BY <2>1 DEF StoreInv, BatchesAreWhole, WholeAt
<1>5. /\ table' \in Seq(Writers \X Nat)
      /\ Len(table) \in Nat /\ DOMAIN table = 1 .. Len(table)
      /\ DOMAIN table' = 1 .. Len(table) + RowsOf[w]
      /\ \A i \in DOMAIN table : table'[i] = table[i]
  BY <1>1, <1>2
<1>6. \A k \in 1 .. RowsOf[w] : table'[Len(table) + k] = Batch(w)[k]
  BY <1>1, <1>2
<1> QED BY <1>1, <1>3, <1>4, <1>5, <1>6

(* A commit of an append keeps what is said of the rows. *)
LEMMA AppendKeeps ==
  ASSUME StoreInv, NEW w \in Writers, place[w] = "open", Apply(w), OpOf[w] = "append"
  PROVE  BatchesAreWhole'
<1> DEFINE n == Len(table)
<1> DEFINE m == Len(committed)
<1>c. /\ m \in Nat /\ DOMAIN committed = 1 .. m
      /\ DOMAIN committed' = 1 .. m + 1
      /\ \A a \in 1 .. m : committed'[a] = committed[a] /\ committed[a] # w
      /\ committed'[m + 1] = w
  <2> USE CommitAddsWriter
  <2>1. m \in Nat /\ DOMAIN committed = 1 .. m /\ DOMAIN committed' = DOMAIN committed \cup {m + 1}
    OBVIOUS
  <2>2. DOMAIN committed' = 1 .. m + 1
    BY <2>1
  <2> QED BY <2>1, <2>2
<1>t. /\ n \in Nat /\ DOMAIN table = 1 .. n
      /\ RowsOf[w] \in Nat \ {0} /\ DOMAIN table' = 1 .. n + RowsOf[w]
      /\ \A i \in 1 .. n : table'[i] = table[i] /\ table[i][1] # w
      /\ \A k \in 1 .. RowsOf[w] : table'[n + k] = <<w, k>>
  BY CommitAddsRows
<1>o. BatchesAreWhole
  BY DEF StoreInv
<1> HIDE DEF n, m
<1>n. \A i \in DOMAIN table' :
        i \in 1 .. n \/ \E k \in 1 .. RowsOf[w] : i = n + k /\ table'[i] = <<w, k>>
  <2> SUFFICES ASSUME NEW i \in DOMAIN table', i \notin 1 .. n
               PROVE  \E k \in 1 .. RowsOf[w] : i = n + k /\ table'[i] = <<w, k>>
    OBVIOUS
  <2>1. i - n \in 1 .. RowsOf[w] /\ i = n + (i - n)
    BY <1>t
  <2> QED BY <1>t, <2>1
<1>1. \A i \in DOMAIN table' : WholeAt(i)'
  <2>1. ASSUME NEW i \in 1 .. n PROVE WholeAt(i)'
    <3> DEFINE v == table[i][1]
    <3> DEFINE first == i - table[i][2] + 1
    <3>1. /\ OpOf[v] = "append" /\ Contains(committed, v)
          /\ first \in 1 .. n /\ first + RowsOf[v] - 1 \in 1 .. n
          /\ \A k \in 1 .. RowsOf[v] : table[first + k - 1] = <<v, k>>
      BY <1>o, <1>t DEF BatchesAreWhole, WholeAt
    <3>2. table'[i] = table[i]
      BY <1>t
    <3>3. Contains(committed', v)
      BY <1>c, <3>1 DEF Contains
    <3>5. first \in Int /\ RowsOf[v] \in Nat
      <4>1. table[i] \in Writers \X Nat
        BY <1>t DEF StoreInv, StoreTyped
      <4> QED BY <3>1, <4>1, StoreAssumption
    <3> HIDE DEF first
    <3>6. \A k \in 1 .. RowsOf[v] : first + k - 1 \in 1 .. n
      BY <3>1, <3>5, <1>t
    <3>7. \A k \in 1 .. RowsOf[v] : table'[first + k - 1] = <<v, k>>
      BY <3>1, <3>6, <1>t
    <3>8. first \in DOMAIN table' /\ first + RowsOf[v] - 1 \in DOMAIN table'
      BY <1>t, <3>1, <3>5
    <3> QED BY <3>1, <3>2, <3>3, <3>7, <3>8 DEF WholeAt, first
  <2>2. ASSUME NEW i \in DOMAIN table', NEW k \in 1 .. RowsOf[w],
               i = n + k, table'[i] = <<w, k>>
        PROVE  WholeAt(i)'
    <3>1. Contains(committed', w)
      BY <1>c DEF Contains
    <3>2. i - k + 1 = n + 1 /\ table'[i][1] = w /\ table'[i][2] = k
      BY <1>t, <2>2
    <3>3. n + 1 \in DOMAIN table' /\ (n + 1) + RowsOf[w] - 1 \in DOMAIN table'
      BY <1>t
    <3>4. \A q \in 1 .. RowsOf[w] : (n + 1) + q - 1 = n + q
      BY <1>t
    <3> QED BY <1>t, <3>1, <3>2, <3>3, <3>4 DEF WholeAt
  <2> QED BY <1>n, <2>1, <2>2
<1>2. IsInjective(table')
  <2> SUFFICES ASSUME NEW i \in DOMAIN table', NEW j \in DOMAIN table', table'[i] = table'[j]
               PROVE  i = j
    BY DEF IsInjective
  <2>1. CASE i \in 1 .. n /\ j \in 1 .. n
    BY <1>t, <1>o, <2>1 DEF BatchesAreWhole, IsInjective
  <2> QED BY <1>t, <1>n, <2>1
<1>3. IsInjective(committed')
  BY <1>c, <1>o DEF BatchesAreWhole, IsInjective
<1>4. \A a \in DOMAIN committed' : OpOf[committed'[a]] = "append" => HasRow(committed[a])'
  <2>1. ASSUME NEW a \in 1 .. m, OpOf[committed'[a]] = "append"
        PROVE  \E i \in DOMAIN table' : table'[i][1] = committed'[a]
    <3>1. PICK i \in 1 .. n : table[i][1] = committed[a]
      BY <1>c, <1>t, <1>o, <2>1 DEF BatchesAreWhole, HasRow
    <3>2. i \in DOMAIN table' /\ table'[i] = table[i]
      BY <1>t, <3>1
    <3>3. committed'[a] = committed[a]
      BY <1>c
    <3> QED BY <3>1, <3>2, <3>3
  <2>2. \E i \in DOMAIN table' : table'[i][1] = w
    <3>1. 1 \in 1 .. RowsOf[w] /\ n + 1 \in DOMAIN table'
      BY <1>t
    <3> QED BY <1>t, <3>1
  <2> QED BY <1>c, <2>1, <2>2 DEF HasRow
<1>5. ASSUME NEW i \in DOMAIN table', NEW j \in DOMAIN table',
             NEW a \in DOMAIN committed', NEW b \in DOMAIN committed',
             i < j, committed'[a] = table'[i][1], committed'[b] = table'[j][1]
      PROVE  a <= b
  <2>1. CASE i \in 1 .. n /\ j \in 1 .. n
    <3>1. a \in 1 .. m /\ b \in 1 .. m
      BY <1>c, <1>t, <1>5, <2>1
    <3> QED BY <1>c, <1>t, <1>o, <1>5, <2>1, <3>1 DEF BatchesAreWhole
  <2>2. CASE j \notin 1 .. n
    <3>1. table'[j][1] = w
      BY <1>n, <2>2
    <3>2. b = m + 1
      BY <1>c, <1>5, <3>1
    <3> QED BY <1>c, <3>2
  <2>3. CASE i \notin 1 .. n /\ j \in 1 .. n
    BY <1>t, <1>5, <2>3
  <2> QED BY <2>1, <2>2, <2>3
<1> QED BY <1>1, <1>2, <1>3, <1>4, <1>5, CommitCounts DEF BatchesAreWhole

(* A commit of another write. *)
LEMMA OtherCommitKeeps ==
  ASSUME StoreInv, NEW w \in Writers, place[w] = "open", Apply(w), OpOf[w] # "append"
  PROVE  BatchesAreWhole'
<1>o. BatchesAreWhole /\ table' = table
  BY DEF StoreInv, Apply
<1>c. /\ Len(committed) \in Nat /\ DOMAIN committed = 1 .. Len(committed)
      /\ DOMAIN committed' = DOMAIN committed \cup {Len(committed) + 1}
      /\ \A a \in DOMAIN committed : committed'[a] = committed[a] /\ committed[a] # w
      /\ committed'[Len(committed) + 1] = w
  BY CommitAddsWriter
<1>1. \A i \in DOMAIN table' : WholeAt(i)'
  <2>1. ASSUME NEW v, Contains(committed, v) PROVE Contains(committed', v)
    <3>1. PICK a \in DOMAIN committed : committed[a] = v
      BY <1>c, <2>1 DEF Contains
    <3>2. a \in DOMAIN committed' /\ committed'[a] = v
      BY <1>c, <3>1
    <3>3. committed' \in Seq(Writers)
      BY CommitAddsWriter
    <3> QED BY <3>2, <3>3 DEF Contains
  <2> QED BY <1>o, <2>1 DEF BatchesAreWhole, WholeAt
<1>2. IsInjective(table') /\ IsInjective(committed')
  BY <1>o, <1>c DEF BatchesAreWhole, IsInjective
<1>3. \A a \in DOMAIN committed' : OpOf[committed'[a]] = "append" => HasRow(committed[a])'
  BY <1>o, <1>c DEF BatchesAreWhole, HasRow
<1>4. \A i, j \in DOMAIN table' : \A a, b \in DOMAIN committed' :
        i < j /\ committed'[a] = table'[i][1] /\ committed'[b] = table'[j][1] => a <= b
  <2>1. \A i \in DOMAIN table : table[i][1] # w
    BY <1>o DEF BatchesAreWhole, WholeAt
  <2> QED BY <1>o, <1>c, <2>1 DEF BatchesAreWhole
<1> QED BY <1>1, <1>2, <1>3, <1>4, CommitCounts DEF BatchesAreWhole

LEMMA CommitKeepsData ==
  ASSUME StoreInv, NEW w \in Writers, place[w] = "open", Apply(w)
  PROVE  BatchesAreWhole' /\ table' \in Seq(Writers \X Nat) /\ calls' \in Nat
<1>1. table' \in Seq(Writers \X Nat)
  BY CommitAddsRows DEF Apply, StoreInv, StoreTyped
<1> QED BY <1>1, AppendKeeps, OtherCommitKeeps, CommitCounts

(* Return, with or without the commit that precedes it. *)
LEMMA ReturnKeeps ==
  ASSUME StoreInv, NEW w \in Writers, place[w] # "done", NEW answer,
         Return(w, answer),
         \/ answer = "error" /\ UNCHANGED <<dataVars, committed>>
         \/ answer = "nil" /\ place[w] = "open" /\ Apply(w)
  PROVE  StoreInv'
<1> USE DEF StoreInv
<1>1. /\ place' = [place EXCEPT ![w] = "done"]
      /\ reply' = [reply EXCEPT ![w] = answer]
  BY DEF Return
<1>2. \A v \in Writers :
        /\ v # w => (Contains(committed', v) <=> Contains(committed, v))
        /\ Contains(committed', w) <=> answer = "nil"
  <2>1. ~Contains(committed, w) /\ committed \in Seq(Writers)
    BY DEF StoreTyped, UnfinishedIsNowhere
  <2>2. CASE answer = "error" /\ UNCHANGED <<dataVars, committed>>
    BY <2>1, <2>2 DEF Contains
  <2>3. CASE answer = "nil" /\ Apply(w)
    BY <2>1, <2>3, ContainsAppend DEF Apply
  <2> QED BY <2>2, <2>3
<1>3. StoreTyped'
  <2>1. /\ committed' \in Seq(Writers)
        /\ table' \in Seq(Writers \X Nat) /\ calls' \in Nat
    BY CommitAddsWriter, CommitKeepsData DEF StoreTyped, dataVars
  <2> QED BY <1>1, <2>1 DEF StoreTyped
<1>4. UnfinishedIsNowhere'
  BY <1>1, <1>2 DEF UnfinishedIsNowhere, StoreTyped
<1>5. ReplyTellsTruth'
  BY <1>1, <1>2 DEF ReplyTellsTruth, StoreTyped
<1>6. BatchesAreWhole'
  BY DataStay, CommitKeepsData
<1> QED BY <1>3, <1>4, <1>5, <1>6

(* A step within a write. *)
LEMMA GoOnKeeps ==
  ASSUME StoreInv, NEW w \in Writers, NEW there \in {"begin", "open"}, place[w] # "done",
         place' = [place EXCEPT ![w] = there], UNCHANGED <<reply, dataVars, committed>>
  PROVE  StoreInv'
<1>1. BatchesAreWhole'
  BY DataStay DEF StoreInv
<1> QED BY <1>1 DEF StoreInv, StoreTyped, UnfinishedIsNowhere, ReplyTellsTruth, dataVars

LEMMA TryAgainKeeps ==
  ASSUME StoreInv, NEW w \in Writers, place[w] # "done", TryAgain(w),
         UNCHANGED <<dataVars, committed>>
  PROVE  StoreInv'
<1>1. CASE attempt[w] + 1 < Attempts
  BY <1>1, GoOnKeeps DEF TryAgain
<1>2. CASE ~(attempt[w] + 1 < Attempts)
  <2>1. Return(w, "error")
    BY <1>2 DEF TryAgain
  <2> QED BY <2>1, ReturnKeeps
<1> QED BY <1>1, <1>2

LEMMA WriteKeeps ==
  ASSUME StoreInv, NEW w \in Writers, StartWrite(w) \/ Transact(w)
  PROVE  StoreInv'
<1>1. CASE StartWrite(w) \/ Begin(w)
  <2>1. \/ place' = [place EXCEPT ![w] = "begin"]
        \/ place' = [place EXCEPT ![w] = "open"]
    BY <1>1 DEF StartWrite, Begin
  <2>2. place[w] # "done" /\ UNCHANGED <<reply, dataVars, committed>>
    BY <1>1 DEF StartWrite, Begin
  <2> QED BY <2>1, <2>2, GoOnKeeps
<1>2. CASE BeginFails(w)
  BY <1>2, TryAgainKeeps DEF BeginFails
<1>3. CASE Execute(w)
  <2>1. UNCHANGED <<place, reply, dataVars, committed>>
    BY <1>3 DEF Execute, WrittenAtOnce, dataVars
  <2> QED BY <2>1, DataStay
      DEF StoreInv, StoreTyped, UnfinishedIsNowhere, ReplyTellsTruth, dataVars
<1>4. CASE ExecuteFails(w)
  BY <1>4, ReturnKeeps DEF ExecuteFails
<1>5. CASE Commit(w)
  BY <1>5, ReturnKeeps DEF Commit
<1>6. CASE CommitFails(w)
  BY <1>6, TryAgainKeeps DEF CommitFails, AfterFailedCommit
<1> QED BY <1>1, <1>2, <1>3, <1>4, <1>5, <1>6 DEF Transact

LEMMA StoreCrashKeeps ==
  ASSUME StoreInv, NEW p, StoreCrash(p)
  PROVE  StoreInv'
<1>1. /\ UNCHANGED <<reply, dataVars, committed>>
      /\ place' \in [Writers -> {"idle", "begin", "open", "done"}]
      /\ \A w \in Writers : place'[w] # "done" => place[w] # "done"
  BY DEF StoreCrash, StoreInv, StoreTyped
<1> QED BY <1>1, DataStay
    DEF StoreInv, StoreTyped, UnfinishedIsNowhere, ReplyTellsTruth, dataVars

-----------------------------------------------------------------------------
(* Notes *)

Holding(s) == step[s] \in {"read", "written"}

PartsOfFile == Seq(Savers \cup {Cut})

MemTyped ==
  /\ file \in PartsOfFile
  /\ guard \in [Homes -> Savers \cup {Free}]
  /\ read \in [Savers -> PartsOfFile]
  /\ missed \in [Savers -> SUBSET Savers]
  /\ step \in [Savers -> {"idle", "read", "written", "over"}]
  /\ saved \subseteq Savers

(* One Save of a process is between the read and the rename.                 *)
HolderHasGuard == \A s \in Savers : Holding(s) => guard[HomeOf[s]] = s

(* What it has read, or should have, has all the notes of its own process,   *)
(* except those that are lost already: they may be in the file again, as     *)
(* another process may write what it read long ago.                          *)
ReadHasOwn ==
  \A s \in Savers : Holding(s) =>
    \A n \in saved \cap ToSet(file) :
      HomeOf[n] = HomeOf[s] =>
        n \in ToSet(read[s]) \cup missed[s] \cup overwritten \cup dropped \cup unread

MemInv == MemTyped /\ HolderHasGuard /\ ReadHasOwn /\ SavedIsKept

LEMMA MemInitInv == MemInit => MemInv
BY MemoryAssumption
DEF MemInit, MemInv, MemTyped, PartsOfFile, HolderHasGuard, ReadHasOwn, SavedIsKept, Holding, ToSet

LEMMA HomeIsHome == \A s \in Savers : HomeOf[s] \in Homes
BY DEF Homes

(* What a failed read leaves is made of lines and parts of lines. *)
LEMMA PartsJoin ==
  ASSUME NEW p \in PartsOfFile, NEW n \in 0 .. Len(p)
  PROVE  /\ SubSeq(p, 1, n) \in PartsOfFile /\ SubSeq(p, 1, n) \o <<Cut>> \in PartsOfFile
         /\ SubSeq(p, 1, n) \o << >> \in PartsOfFile
<1>1. /\ SubSeq(p, 1, n) \in PartsOfFile
      /\ <<Cut>> \in PartsOfFile /\ << >> \in PartsOfFile
  BY DEF PartsOfFile
<1> HIDE DEF PartsOfFile
<1>2. \A q \in PartsOfFile, r \in PartsOfFile : q \o r \in PartsOfFile
  BY DEF PartsOfFile
<1> QED BY <1>1, <1>2

(* Newest is a part of what it is given. *)
LEMMA NewestIsPart ==
  ASSUME NEW q \in PartsOfFile
  PROVE  Newest(q) \subseteq PartsOfFile
<1>1. CASE Len(q) <= Lines
  BY <1>1 DEF Newest
<1>2. CASE ~(Len(q) <= Lines)
  <2> DEFINE first == Len(q) - Lines + 1
             kept == SubSeq(q, first, Len(q))
  <2>1. Len(q) \in Nat /\ Lines \in Nat /\ first \in 1 .. Len(q) + 1 /\ first \in Int
    BY <1>2, MemoryAssumption DEF PartsOfFile
  <2>2. Newest(q) = {kept, <<Cut>> \o kept}
    BY <1>2 DEF Newest
  <2> HIDE DEF first
  <2>3. kept \in PartsOfFile
    BY <2>1 DEF PartsOfFile
  <2> HIDE DEF kept
  <2>4. <<Cut>> \o kept \in PartsOfFile
    BY <2>3 DEF PartsOfFile
  <2> QED BY <2>2, <2>3, <2>4
<1> QED BY <1>1, <1>2

LEMMA ToSetAppend ==
  ASSUME NEW q \in PartsOfFile, NEW s \in Savers
  PROVE  Append(q, s) \in PartsOfFile /\ ToSet(Append(q, s)) = ToSet(q) \cup {s}
<1>1. /\ Append(q, s) \in PartsOfFile
      /\ DOMAIN q = 1 .. Len(q) /\ DOMAIN Append(q, s) = 1 .. Len(q) + 1
      /\ Len(q) \in Nat /\ Append(q, s)[Len(q) + 1] = s
      /\ \A i \in 1 .. Len(q) : Append(q, s)[i] = q[i]
  BY DEF PartsOfFile
<1> QED BY <1>1 DEF ToSet

(* Whatever a Save reads, it has read or missed every note in the file. *)
LEMMA EnterKeeps ==
  ASSUME MemInv, NEW s \in Savers, NEW lines \in PartsOfFile, Enter(s, lines)
  PROVE  MemInv'
<1> USE HomeIsHome, MemoryAssumption DEF MemInv
<1>1. /\ guard[HomeOf[s]] = Free
      /\ guard' = [guard EXCEPT ![HomeOf[s]] = s]
      /\ read' = [read EXCEPT ![s] = lines]
      /\ missed' = [missed EXCEPT ![s] = (ToSet(file) \ ToSet(lines)) \ {Cut}]
      /\ step' = [step EXCEPT ![s] = "read"]
      /\ UNCHANGED <<file, saved, overwritten, dropped, unread>>
  BY DEF Enter, MayEnter, StepTo, lost
<1>2. MemTyped'
  <2>1. ToSet(file) \subseteq Savers \cup {Cut}
    BY DEF MemTyped, PartsOfFile, ToSet
  <2> QED BY <1>1, <2>1 DEF MemTyped
<1>3. \A t \in Savers : t # s =>
        (Holding(t)' <=> Holding(t)) /\ read'[t] = read[t] /\ missed'[t] = missed[t]
  BY <1>1 DEF Holding, MemTyped
<1>4. HolderHasGuard'
  BY <1>1, <1>3 DEF HolderHasGuard, MemTyped
<1>5. ReadHasOwn'
  <2> SUFFICES ASSUME NEW t \in Savers, Holding(t)', NEW n \in saved' \cap ToSet(file'),
                      HomeOf[n] = HomeOf[t]
               PROVE  n \in ToSet(read'[t]) \cup missed'[t] \cup overwritten' \cup dropped' \cup unread'
    BY DEF ReadHasOwn
  <2>1. CASE t = s
    BY <1>1, <2>1 DEF MemTyped
  <2>2. CASE t # s
    BY <1>1, <1>3, <2>2 DEF ReadHasOwn
  <2> QED BY <2>1, <2>2
<1> QED BY <1>1, <1>2, <1>4, <1>5 DEF SavedIsKept

(* The two ways to read the file. *)
LEMMA ReadFileKeeps ==
  ASSUME MemInv, NEW s \in Savers, ReadFile(s) \/ ReadFails(s)
  PROVE  MemInv'
<1>1. CASE ReadFile(s)
  BY <1>1, EnterKeeps DEF ReadFile, MemInv, MemTyped
<1>2. CASE ReadFails(s)
  <2>1. << >> \in PartsOfFile
    BY DEF PartsOfFile
  <2>2. ASSUME NEW n \in 1 .. Len(file), NEW part \in {<<>>, <<Cut>>},
               Enter(s, SubSeq(file, 1, n - 1) \o part)
        PROVE  MemInv'
    <3>1. file \in PartsOfFile /\ Len(file) \in Nat
      BY DEF MemInv, MemTyped, PartsOfFile
    <3>2. n - 1 \in 0 .. Len(file)
      BY <3>1
    <3>3. SubSeq(file, 1, n - 1) \o part \in PartsOfFile
      BY <3>1, <3>2, PartsJoin
    <3> QED BY <2>2, <3>3, EnterKeeps
  <2> QED BY <1>2, <2>1, <2>2, EnterKeeps DEF ReadFails
<1> QED BY <1>1, <1>2

(* The ways to end a Save that write nothing. *)
LEMMA NothingWrittenKeeps ==
  ASSUME MemInv, NEW s \in Savers, Refuse(s) \/ Panic(s) \/ WriteTemp(s) \/ SaveFails(s)
  PROVE  MemInv'
<1> USE HomeIsHome, MemoryAssumption DEF MemInv
<1>1. UNCHANGED <<file, saved, overwritten, dropped, unread>>
  BY DEF Refuse, Panic, WriteTemp, SaveFails, FileMeanwhile, lost
<1>2. CASE Refuse(s) \/ Panic(s) \/ WriteTemp(s)
  <2>1. UNCHANGED <<guard, read, missed>> /\ MemTyped'
    BY <1>1, <1>2 DEF Refuse, Panic, WriteTemp, StepTo, MemTyped
  <2>2. \A t \in Savers : Holding(t)' => Holding(t)
    BY <1>2 DEF Refuse, Panic, WriteTemp, StepTo, Holding, MemTyped
  <2> QED BY <1>1, <2>1, <2>2 DEF HolderHasGuard, ReadHasOwn, SavedIsKept
<1>3. CASE SaveFails(s)
  <2>1. /\ Holding(s)
        /\ guard' = [guard EXCEPT ![HomeOf[s]] = Free]
        /\ read' = [read EXCEPT ![s] = <<>>] /\ missed' = [missed EXCEPT ![s] = {}]
        /\ step' = [step EXCEPT ![s] = "over"]
    BY <1>3 DEF SaveFails, Leave, StepTo, Holding
  <2>2. MemTyped'
    BY <1>1, <2>1 DEF MemTyped, PartsOfFile
  <2>3. \A t \in Savers : Holding(t)' => t # s /\ Holding(t) /\ read'[t] = read[t] /\ missed'[t] = missed[t]
    BY <2>1 DEF Holding, MemTyped
  <2>4. HolderHasGuard'
    BY <2>1, <2>3 DEF HolderHasGuard, MemTyped
  <2>5. ReadHasOwn'
    BY <1>1, <2>3 DEF ReadHasOwn
  <2> QED BY <1>1, <2>2, <2>4, <2>5 DEF SavedIsKept
<1> QED BY <1>2, <1>3

LEMMA RenameKeeps ==
  ASSUME MemInv, NEW s \in Savers, Rename(s)
  PROVE  MemInv'
<1> DEFINE all == Append(read[s], s)
<1> USE HomeIsHome, MemoryAssumption DEF MemInv
<1>1. /\ Holding(s)
      /\ file' \in Newest(all)
      /\ saved' = saved \cup {s}
      /\ overwritten' = overwritten \cup
           ({n \in ToSet(file) \ {Cut} : HomeOf[n] # HomeOf[s]} \ (ToSet(read[s]) \cup missed[s]))
      /\ dropped' = dropped \cup (ToSet(all) \ (ToSet(file') \cup {Cut}))
      /\ unread' = unread \cup (ToSet(file) \cap missed[s])
      /\ guard' = [guard EXCEPT ![HomeOf[s]] = Free]
      /\ read' = [read EXCEPT ![s] = <<>>] /\ missed' = [missed EXCEPT ![s] = {}]
      /\ step' = [step EXCEPT ![s] = "over"]
  BY DEF Rename, Leave, StepTo, Holding
<1>2. /\ ToSet(all) = ToSet(read[s]) \cup {s}
      /\ file' \in PartsOfFile /\ << >> \in PartsOfFile
  <2>1. /\ ToSet(all) = ToSet(read[s]) \cup {s} /\ all \in PartsOfFile
    BY ToSetAppend DEF MemTyped
  <2>2. << >> \in PartsOfFile
    BY DEF PartsOfFile
  <2> HIDE DEF all
  <2> QED BY <1>1, <2>1, <2>2, NewestIsPart
<1> HIDE DEF all
<1>3. MemTyped'
  BY <1>1, <1>2 DEF MemTyped
<1>4. \A t \in Savers : Holding(t)' =>
        /\ t # s /\ Holding(t) /\ HomeOf[t] # HomeOf[s]
        /\ read'[t] = read[t] /\ missed'[t] = missed[t]
  BY <1>1 DEF Holding, MemTyped, HolderHasGuard
<1>5. HolderHasGuard'
  BY <1>1, <1>4 DEF HolderHasGuard, MemTyped
<1>6. ReadHasOwn'
  <2> SUFFICES ASSUME NEW t \in Savers, Holding(t)', NEW n \in saved' \cap ToSet(file'),
                      HomeOf[n] = HomeOf[t]
               PROVE  n \in ToSet(read'[t]) \cup missed'[t] \cup overwritten' \cup dropped' \cup unread'
    BY DEF ReadHasOwn
  <2>1. n \in saved
    BY <1>1, <1>4
  <2>2. CASE n \in ToSet(file)
    BY <1>1, <1>4, <2>1, <2>2 DEF ReadHasOwn
  <2>3. CASE n \notin ToSet(file)
    BY <1>1, <2>1, <2>3 DEF SavedIsKept
  <2> QED BY <2>2, <2>3
<1>7. SavedIsKept'
  <2> SUFFICES ASSUME NEW n \in saved'
               PROVE  n \in ToSet(file') \cup overwritten' \cup dropped' \cup unread'
    BY DEF SavedIsKept
  <2>a. n # Cut
    BY <1>3 DEF MemTyped
  <2>1. CASE n \in ToSet(all)
    BY <1>1, <2>1, <2>a
  <2>2. CASE n \notin ToSet(all)
    <3>1. n \in saved /\ n \notin ToSet(read[s])
      BY <1>1, <1>2, <2>2
    <3>2. CASE n \in ToSet(file) /\ n \in missed[s]
      BY <1>1, <3>2
    <3>3. CASE n \in ToSet(file) /\ n \notin missed[s] /\ HomeOf[n] = HomeOf[s]
      BY <1>1, <3>1, <3>3 DEF ReadHasOwn
    <3>4. CASE n \in ToSet(file) /\ n \notin missed[s] /\ HomeOf[n] # HomeOf[s]
      BY <1>1, <2>a, <3>1, <3>4
    <3>5. CASE n \notin ToSet(file)
      BY <1>1, <3>1, <3>5 DEF SavedIsKept
    <3> QED BY <3>2, <3>3, <3>4, <3>5
  <2> QED BY <2>1, <2>2
<1> QED BY <1>3, <1>5, <1>6, <1>7

LEMMA MemCrashKeeps ==
  ASSUME MemInv, NEW h, MemCrash(h)
  PROVE  MemInv'
<1> USE HomeIsHome, MemoryAssumption DEF MemInv
<1>a. /\ read' \in [Savers -> PartsOfFile] /\ missed' \in [Savers -> SUBSET Savers]
      /\ guard' \in [Homes -> Savers \cup {Free}]
  <2>1. << >> \in PartsOfFile
    BY DEF PartsOfFile
  <2> QED BY <2>1 DEF MemCrash, MemTyped
<1>1. UNCHANGED <<file, saved, overwritten, dropped, unread>> /\ MemTyped'
  BY <1>a DEF MemCrash, MemTyped, lost
<1>2. \A t \in Savers : Holding(t)' =>
        /\ Holding(t) /\ guard'[HomeOf[t]] = guard[HomeOf[t]]
        /\ read'[t] = read[t] /\ missed'[t] = missed[t]
  BY DEF MemCrash, Holding, MemTyped
<1>3. HolderHasGuard'
  BY <1>2 DEF HolderHasGuard
<1>4. ReadHasOwn'
  BY <1>1, <1>2 DEF ReadHasOwn
<1> QED BY <1>1, <1>3, <1>4 DEF SavedIsKept

-----------------------------------------------------------------------------
(* The composition *)

HomeInv == RoundInv /\ StoreInv /\ MemInv

LEMMA Untouched ==
  /\ RoundInv /\ UNCHANGED roundVars => RoundInv'
  /\ StoreInv /\ UNCHANGED storeVars => StoreInv'
  /\ MemInv /\ UNCHANGED memVars => MemInv'
<1>1. RoundInv /\ UNCHANGED roundVars => RoundInv'
  BY DEF RoundInv, roundVars, RoundTyped, ResultIsOwn, RestIsNew, ReturnedIsDone, AllDone
<1>2. StoreInv /\ UNCHANGED storeVars => StoreInv'
  <2> SUFFICES ASSUME StoreInv, UNCHANGED storeVars PROVE StoreInv'
    OBVIOUS
  <2>1. UNCHANGED <<place, reply, dataVars, committed>>
    BY DEF storeVars, txVars
  <2> QED BY <2>1, DataStay
      DEF StoreInv, StoreTyped, UnfinishedIsNowhere, ReplyTellsTruth, dataVars
<1>3. MemInv /\ UNCHANGED memVars => MemInv'
  BY DEF MemInv, memVars, lost, MemTyped, HolderHasGuard, ReadHasOwn, SavedIsKept, Holding, ToSet
<1> QED BY <1>1, <1>2, <1>3

LEMMA RunCallKeeps ==
  ASSUME HomeInv, NEW c \in Calls, RunCall(c)
  PROVE  HomeInv'
<1> USE Untouched DEF HomeInv
<1>1. StoreInv'
  BY DEF RunCall
<1>2. CASE (BeginCall(c) \/ SkipCall(c)) /\ UNCHANGED memVars
  BY <1>1, <1>2, CallKeeps
<1>3. CASE CallStep(c) /\ c \in Savers
  <2>1. CASE SaveStep(c)
    BY <1>1, <1>3, <2>1, ReadFileKeeps, NothingWrittenKeeps DEF SaveStep
  <2>2. CASE SaveReturns(c)
    BY <1>1, <1>3, <2>2, CallKeeps, RenameKeeps, NothingWrittenKeeps DEF SaveReturns
  <2>3. CASE SavePanics(c)
    BY <1>1, <1>3, <2>3, CallKeeps, NothingWrittenKeeps DEF SavePanics
  <2> QED BY <1>3, <2>1, <2>2, <2>3 DEF CallStep
<1>4. CASE CallStep(c) /\ c \notin Savers
  BY <1>1, <1>4, CallKeeps DEF CallStep
<1> QED BY <1>2, <1>3, <1>4 DEF RunCall

LEMMA HomeNext == HomeInv /\ [Next]_vars => HomeInv'
<1> SUFFICES ASSUME HomeInv, [Next]_vars PROVE HomeInv'
  OBVIOUS
<1> USE Untouched
<1>1. ASSUME NEW c \in Calls, RunCall(c) PROVE HomeInv'
  BY <1>1, RunCallKeeps
<1>2. ASSUME NEW r \in Rounds, RunRound(r) PROVE HomeInv'
  BY <1>2, SubmitKeeps, RoundMoves DEF RunRound, HomeInv
<1>3. ASSUME NEW w \in Writers, Write(w) PROVE HomeInv'
  BY <1>3, WriteKeeps DEF Write, HomeInv
<1>4. ASSUME NEW r \in Rounds, Cancel(r) PROVE HomeInv'
  BY <1>4, RoundMoves DEF Cancel, HomeInv
<1>5. ASSUME NEW p \in Processes, Crash(p) PROVE HomeInv'
  BY <1>5, RoundCrashKeeps, StoreCrashKeeps, MemCrashKeeps DEF Crash, HomeInv
<1>6. CASE UNCHANGED vars
  BY <1>6 DEF vars, HomeInv
<1> QED BY <1>1, <1>2, <1>3, <1>4, <1>5, <1>6 DEF Next, Work

(* The invariants of the three parts hold together, whatever processes,      *)
(* turns and notes there are.                                                *)
THEOREM HomeInvHolds == Spec => []HomeInv
<1>1. Init => HomeInv
  BY RoundInitInv, StoreInitInv, MemInitInv DEF Init, HomeInv
<1> QED BY <1>1, HomeNext, PTL DEF Spec

(* runToolRound: each call's result stands at its own index, for any number  *)
(* of rounds, calls and workers, when calls fail, panic or are cancelled.    *)
THEOREM ResultsStandInOrder == Spec => []ResultsInOrder
<1>1. HomeInv => ResultsInOrder
  BY CallsArePairs
  DEF HomeInv, RoundInv, ResultIsOwn, ReturnedIsDone, AllDone, ResultsInOrder
<1> QED BY <1>1, HomeInvHolds, PTL

(* Save: a note that was saved is lost to the size of the file, to a process *)
(* that read it before, or to a Save that could not read it; never to a Save *)
(* of the same process that did, to another failure or to a crash.           *)
THEOREM SavedNotesStay == Spec => []SavedIsKept
<1>1. HomeInv => SavedIsKept
  BY DEF HomeInv, MemInv
<1> QED BY <1>1, HomeInvHolds, PTL

(* withWrite, AppendMessagesBatch: the table is made of the batches that were *)
(* committed, whole, once and in order, and no call of a session is counted  *)
(* twice, for any number of processes, writers, rows and attempts.           *)
THEOREM TableIsWhole == Spec => []BatchesAreWhole
<1>1. HomeInv => BatchesAreWhole
  BY DEF HomeInv, StoreInv
<1> QED BY <1>1, HomeInvHolds, PTL

(* withWrite: nil means that the write was committed, an error that it was   *)
(* not, for any number of writers, statements and attempts.                  *)
THEOREM RepliesTellTruth == Spec => []ReplyTellsTruth
<1>1. HomeInv => ReplyTellsTruth
  BY DEF HomeInv, StoreInv
<1> QED BY <1>1, HomeInvHolds, PTL
=============================================================================
