-------------------------- MODULE McpClientProofs ---------------------------
(* Calls get their own answers and the reader never waits, for any number of  *)
(* callers and calls, any pipe, and a server that answers as it likes.        *)
EXTENDS McpClient, TLAPS

(* Requests and answers carry numbers that have been given, each the number   *)
(* of its call.                                                               *)
Sent == {m \in Messages : m.id = m.call /\ m.id <= seq}

Wired ==
  /\ seq \in 0 .. MaxCalls
  /\ stdin \in Seq(Sent) /\ stdout \in Seq(Sent)
  /\ known \subseteq Sent
  /\ inHand \subseteq Sent

Numbered ==
  /\ id \in [Callers -> 0 .. seq]
  /\ call = id
  /\ at \in [Callers -> {"idle", "writing", "waiting"}]
  /\ \A c \in Callers : at[c] # "idle" => id[c] # NoId

(* A channel is in pending, in the reader's hand, or out of reach; what is in *)
(* it is for its call.                                                        *)
Delivered ==
  /\ pending \subseteq 1 .. seq
  /\ chan \in [Ids -> Ids \cup {NoId}]
  /\ \A i \in Ids : chan[i] \in {i, NoId}
  /\ \A i \in pending : chan[i] = NoId
  /\ \A m \in inHand : m.id \notin pending /\ chan[m.id] = NoId
  /\ reader # "sending" => inHand = {}
  /\ \A m, n \in inHand : m = n

Returned ==
  /\ outcome \in [Ids -> Ids \cup {NoId, Failed}]
  /\ OwnAnswer

Inv == Wired /\ Numbered /\ Delivered /\ Returned

-----------------------------------------------------------------------------
(* More numbers may have been given since; none is taken back. *)
LEMMA SentGrows ==
  ASSUME seq' \in Nat, seq \in Nat, seq <= seq'
  PROVE  Sent \subseteq Sent'
  BY DEF Sent, Messages, Ids

LEMMA SeqGrows ==
  ASSUME NEW S, NEW T, S \subseteq T, NEW q \in Seq(S)
  PROVE  q \in Seq(T)
  OBVIOUS

(* Queues of messages. *)
LEMMA HeadTail ==
  ASSUME NEW S, NEW q \in Seq(S), q # << >>
  PROVE  Head(q) \in S /\ Tail(q) \in Seq(S)
  OBVIOUS

LEMMA InvHolds == Spec => []Inv
  <1> USE McpAssumption DEF NoId, Failed
  <1>1. Init => Inv
    BY DEF Init, Inv, Wired, Numbered, Delivered, Returned, OwnAnswer, Sent, Messages, Ids
  <1>2. Inv /\ [Next]_vars => Inv'
    <2> SUFFICES ASSUME Inv, [Next]_vars PROVE Inv'
      OBVIOUS
    <2> USE DEF Inv, clientVars, readerVars, serverVars
    <2>1. ASSUME NEW c \in Callers, Register(c) PROVE Inv'
      <3> USE <2>1 DEF Register, NextId
      <3>1. seq \in Nat /\ seq' = seq + 1 /\ seq' \in Ids /\ seq' \in Nat
        BY DEF Wired, Ids
      <3>2. Wired'
        <4>1. Sent \subseteq Sent'
          BY <3>1, SentGrows
        <4> QED
          BY <3>1, <4>1, SeqGrows DEF Wired, Ids
      <3>3. Numbered'
        BY <3>1 DEF Numbered
      <3>4. Delivered'
        BY <3>1 DEF Delivered, Wired, Sent, Messages, Ids
      <3> QED
        BY <3>2, <3>3, <3>4 DEF Returned, OwnAnswer
    <2>2. ASSUME NEW c \in Callers, Write(c) PROVE Inv'
      <3> USE <2>2 DEF Write
      <3>1. [id |-> id[c], call |-> call[c]] \in Sent
        BY DEF Wired, Numbered, Sent, Messages, Ids
      <3>2. Wired'
        BY <3>1 DEF Wired, Sent
      <3>3. Numbered'
        BY DEF Numbered
      <3> QED
        BY <3>2, <3>3 DEF Delivered, Returned, OwnAnswer
    <2>3. ASSUME NEW c \in Callers, WriteFails(c) \/ GiveUp(c) PROVE Inv'
      <3> USE <2>3 DEF WriteFails, GiveUp, EndWith
      <3>1. Wired'
        BY DEF Wired, Sent
      <3>2. Numbered'
        BY DEF Numbered
      <3>3. Returned'
        BY DEF Returned, OwnAnswer, Ids
      <3> QED
        BY <3>1, <3>2, <3>3 DEF Delivered
    <2>4. ASSUME NEW c \in Callers, Answer(c) PROVE Inv'
      <3> USE <2>4 DEF Answer, EndWith
      <3>1. call[c] = id[c] /\ id[c] \in Ids /\ chan[id[c]] = id[c]
        BY DEF Numbered, Delivered, Wired, Ids
      <3>2. Wired'
        BY DEF Wired, Sent
      <3>3. Numbered'
        BY DEF Numbered
      <3>4. Delivered'
        BY <3>1 DEF Delivered, Wired, Sent, Messages, Ids
      <3>5. Returned'
        BY <3>1 DEF Returned, OwnAnswer, Ids
      <3> QED
        BY <3>2, <3>3, <3>4, <3>5
    <2>5. CASE ReadAnswer
      <3> USE <2>5 DEF ReadAnswer, PendingAfter
      <3>1. Head(stdout) \in Sent /\ Tail(stdout) \in Seq(Sent)
        BY HeadTail DEF Wired
      <3>2. Wired'
        BY <3>1 DEF Wired, Sent
      <3>3. Delivered'
        BY <3>1 DEF Delivered, Sent, Messages, Ids
      <3> QED
        BY <3>2, <3>3 DEF Numbered, Returned, OwnAnswer
    <2>6. CASE SendAnswer
      <3> USE <2>6 DEF SendAnswer
      <3>1. PICK m \in inHand : chan' = [chan EXCEPT ![m.id] = m.call]
        OBVIOUS
      <3>2. m.id \in Ids /\ m.call = m.id /\ m.id \notin pending
        BY <3>1 DEF Wired, Delivered, Sent, Messages
      <3>3. Wired'
        BY DEF Wired, Sent
      <3>4. Delivered'
        BY <3>1, <3>2 DEF Delivered
      <3> QED
        BY <3>3, <3>4 DEF Numbered, Returned, OwnAnswer
    <2>7. CASE ServerReads
      <3>1. Head(stdin) \in Sent /\ Tail(stdin) \in Seq(Sent)
        BY <2>7, HeadTail DEF Wired, ServerReads
      <3>2. Wired'
        BY <2>7, <3>1 DEF Wired, Sent, ServerReads
      <3> QED
        BY <2>7, <3>2 DEF ServerReads, Numbered, Delivered, Returned, OwnAnswer
    <2>8. CASE ServerAnswers
      <3>1. Wired'
        BY <2>8 DEF ServerAnswers, Wired, Sent
      <3> QED
        BY <2>8, <3>1 DEF ServerAnswers, Numbered, Delivered, Returned, OwnAnswer
    <2>9. CASE ReaderEnds \/ ServerWedges \/ ServerExits \/ Close \/ UNCHANGED vars
      <3> USE <2>9 DEF ReaderEnds, ServerWedges, ServerExits, Close, vars
      <3>1. Wired'
        BY DEF Wired, Sent
      <3>2. Delivered'
        BY DEF Delivered
      <3> QED
        BY <3>1, <3>2 DEF Numbered, Returned, OwnAnswer
    <2> QED
      BY <2>1, <2>2, <2>3, <2>4, <2>5, <2>6, <2>7, <2>8, <2>9
      DEF Next, Call, ReadLoop, Server
  <1> QED
    BY <1>1, <1>2, PTL DEF Spec

(* A call returns the answer to itself or an error (callStdio and readLoop).  *)
THEOREM AnswersAreOwn == Spec => []OwnAnswer
  <1>1. Inv => OwnAnswer
    BY DEF Inv, Returned
  <1> QED
    BY <1>1, InvHolds, PTL

(* The reader finds the channel empty that it sends to (readLoop).            *)
THEOREM ReaderIsFree == Spec => []ReaderNeverWaits
  <1>1. Inv => ReaderNeverWaits
    BY DEF Inv, Delivered, ReaderNeverWaits
  <1> QED
    BY <1>1, InvHolds, PTL
=============================================================================
