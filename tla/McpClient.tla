----------------------------- MODULE McpClient ------------------------------
(***************************************************************************)
(* Calls to an MCP server over its standard input and output,                *)
(* internal/mcp/client.go: callers number their requests and wait, readLoop  *)
(* hands each answer to the call that has its number.  The server            *)
(* (external) reads requests and answers them in any order, late, twice or   *)
(* never; it may stop reading, and exit.  Requests and answers carry the     *)
(* number that was given to the call; an answer is worth the call it answers. *)
(* MaxCalls bounds the calls and MaxTwice the answers given twice.           *)
(***************************************************************************)
EXTENDS Integers, Sequences, FiniteSets

CONSTANTS
  Callers,    \* goroutines that call, one call at a time
  PipeCap,    \* requests that fit into the server's standard input
  MaxCalls,
  MaxTwice

ASSUME McpAssumption ==
  /\ PipeCap \in Nat \ {0}
  /\ MaxCalls \in Nat /\ MaxTwice \in Nat

Ids == 1 .. MaxCalls
NoId == 0
Failed == -1

Messages == [id : Ids, call : Ids]

VARIABLES
  seq,        \* Client.seq
  pending,    \* the ids that Client.pending has a channel for
  chan,       \* what is in the channel of each call
  at,         \* where each caller is
  id,         \* the number it has given to its call
  call,       \* history: which call that is, in the order they are made
  reader,     \* readLoop: "reading", "sending" or "ended"
  inHand,     \* the answers it has to send: one, or none
  stdin,      \* requests that the server has not read
  stdout,     \* answers that readLoop has not read
  server,     \* "running", "wedged", or "exited"
  known,      \* requests that the server has read
  answered,   \* those it has answered
  twice,      \* answers it has given twice
  closed,     \* Close has been called
  outcome     \* history: what each call has returned

clientVars == <<seq, pending, chan, at, id, call>>
readerVars == <<reader, inHand>>
serverVars == <<server, known, answered, twice>>
vars == <<clientVars, readerVars, stdin, stdout, serverVars, closed, outcome>>

TypeOK ==
  /\ seq \in 0 .. MaxCalls
  /\ pending \subseteq Ids
  /\ chan \in [Ids -> Ids \cup {NoId}]
  /\ at \in [Callers -> {"idle", "writing", "waiting"}]
  /\ id \in [Callers -> Ids \cup {NoId}] /\ call \in [Callers -> Ids \cup {NoId}]
  /\ reader \in {"reading", "sending", "ended"}
  /\ inHand \in {{}} \cup {{m} : m \in Messages}
  /\ stdin \in Seq(Messages) /\ stdout \in Seq(Messages)
  /\ server \in {"running", "wedged", "exited"}
  /\ known \subseteq Messages /\ answered \subseteq Messages
  /\ twice \in 0 .. MaxTwice
  /\ closed \in BOOLEAN
  /\ outcome \in [Ids -> Ids \cup {NoId, Failed}]

Init ==
  /\ seq = 0 /\ pending = {}
  /\ chan = [i \in Ids |-> NoId]
  /\ at = [c \in Callers |-> "idle"]
  /\ id = [c \in Callers |-> NoId] /\ call = [c \in Callers |-> NoId]
  /\ reader = "reading" /\ inHand = {}
  /\ stdin = <<>> /\ stdout = <<>>
  /\ server = "running" /\ known = {} /\ answered = {} /\ twice = 0
  /\ closed = FALSE
  /\ outcome = [i \in Ids |-> NoId]

-----------------------------------------------------------------------------
(* callStdio numbers the call and makes its channel, under the lock. *)
NextId_Reused ==
  IF pending = {} THEN 1 ELSE 1 + CHOOSE i \in pending : \A j \in pending : j <= i
NextId == seq + 1

Register(c) ==
  /\ at[c] = "idle"
  /\ seq < MaxCalls
  /\ seq' = seq + 1
  /\ id' = [id EXCEPT ![c] = NextId]
  /\ call' = [call EXCEPT ![c] = seq + 1]
  /\ pending' = pending \cup {NextId}
  /\ chan' = [chan EXCEPT ![NextId] = NoId]
  /\ at' = [at EXCEPT ![c] = "writing"]
  /\ UNCHANGED <<readerVars, stdin, stdout, serverVars, closed, outcome>>

(* Write waits while the pipe is full, whatever the caller's context says.   *)
Write(c) ==
  /\ at[c] = "writing"
  /\ server # "exited"
  /\ Len(stdin) < PipeCap
  /\ stdin' = Append(stdin, [id |-> id[c], call |-> call[c]])
  /\ at' = [at EXCEPT ![c] = "waiting"]
  /\ UNCHANGED <<seq, pending, chan, id, call, readerVars, stdout, serverVars, closed,
                 outcome>>

(* The call returns.  One that has failed leaves its channel in pending.     *)
EndWith(c, what) ==
  /\ at' = [at EXCEPT ![c] = "idle"]
  /\ outcome' = [outcome EXCEPT ![call[c]] = what]
  /\ UNCHANGED <<seq, pending, id, call, readerVars, stdin, stdout, serverVars, closed>>

WriteFails(c) ==
  /\ at[c] = "writing"
  /\ server = "exited"
  /\ EndWith(c, Failed)
  /\ UNCHANGED chan

Answer(c) ==
  /\ at[c] = "waiting"
  /\ chan[id[c]] # NoId
  /\ EndWith(c, chan[id[c]])
  /\ chan' = [chan EXCEPT ![id[c]] = NoId]

(* A minute, or the end of the caller's context. *)
GiveUp_Never(c) == FALSE
GiveUp(c) ==
  /\ at[c] = "waiting"
  /\ EndWith(c, Failed)
  /\ UNCHANGED chan

-----------------------------------------------------------------------------
(* readLoop looks the number up and forgets it, under the lock, and sends.   *)
PendingAfter_Kept(i) == pending
PendingAfter(i) == pending \ {i}

ReadAnswer ==
  /\ reader = "reading"
  /\ stdout # <<>>
  /\ stdout' = Tail(stdout)
  /\ IF Head(stdout).id \in pending
     THEN /\ reader' = "sending"
          /\ inHand' = {Head(stdout)}
          /\ pending' = PendingAfter(Head(stdout).id)
     ELSE UNCHANGED <<readerVars, pending>>
  /\ UNCHANGED <<seq, chan, at, id, call, stdin, serverVars, closed, outcome>>

(* The channel holds one answer. *)
SendAnswer ==
  /\ reader = "sending"
  /\ \E m \in inHand :
       /\ chan[m.id] = NoId
       /\ chan' = [chan EXCEPT ![m.id] = m.call]
  /\ reader' = "reading" /\ inHand' = {}
  /\ UNCHANGED <<seq, pending, at, id, call, stdin, stdout, serverVars, closed, outcome>>

(* Close waits for the process, which closes the pipes unread.               *)
ReaderEnds ==
  /\ reader = "reading"
  /\ server = "exited"
  /\ stdout = <<>> \/ closed
  /\ reader' = "ended"
  /\ UNCHANGED <<clientVars, inHand, stdin, stdout, serverVars, closed, outcome>>

-----------------------------------------------------------------------------
ServerReads ==
  /\ server = "running"
  /\ stdin # <<>>
  /\ known' = known \cup {Head(stdin)}
  /\ stdin' = Tail(stdin)
  /\ UNCHANGED <<clientVars, readerVars, stdout, server, answered, twice, closed,
                 outcome>>

ServerAnswers ==
  /\ server = "running"
  /\ \E m \in known :
       /\ IF m \in answered THEN twice < MaxTwice /\ twice' = twice + 1
                            ELSE UNCHANGED twice
       /\ answered' = answered \cup {m}
       /\ stdout' = Append(stdout, m)
  /\ UNCHANGED <<clientVars, readerVars, stdin, server, known, closed, outcome>>

ServerWedges ==
  /\ server = "running"
  /\ server' = "wedged"
  /\ UNCHANGED <<clientVars, readerVars, stdin, stdout, known, answered, twice,
                 closed, outcome>>

(* Of itself, or because Close kills it. *)
ServerExits ==
  /\ server # "exited"
  /\ server' = "exited"
  /\ UNCHANGED <<clientVars, readerVars, stdin, stdout, known, answered, twice,
                 closed, outcome>>

Close ==
  /\ ~closed
  /\ closed' = TRUE
  /\ UNCHANGED <<clientVars, readerVars, stdin, stdout, serverVars, outcome>>

-----------------------------------------------------------------------------
Call(c) == Register(c) \/ Write(c) \/ WriteFails(c) \/ Answer(c) \/ GiveUp(c)

ReadLoop == ReadAnswer \/ SendAnswer \/ ReaderEnds

Server ==
  \/ ServerReads
  \/ ServerAnswers
  \/ ServerWedges
  \/ ServerExits

Next ==
  \/ \E c \in Callers : Call(c)
  \/ ReadLoop
  \/ Server
  \/ Close

Spec == Init /\ [][Next]_vars

(* Goroutines run and the minute passes; a server that is killed exits, and  *)
(* one that is neither wedged nor gone reads.  It need not answer.  Of two   *)
(* callers that wait for the pipe each gets through some time.               *)
FairSpec ==
  /\ Spec
  /\ \A c \in Callers :
       /\ SF_vars(Write(c))
       /\ WF_vars(WriteFails(c) \/ Answer(c) \/ GiveUp(c))
  /\ WF_vars(ReadLoop)
  /\ WF_vars(ServerReads)
  /\ WF_vars(closed /\ ServerExits)

-----------------------------------------------------------------------------
(* A call returns the answer to its own request, or an error: late answers,  *)
(* answers given twice and calls that have given up never mix them up.       *)
OwnAnswer == \A i \in Ids : outcome[i] \in {i, NoId, Failed}

(* readLoop never waits for a caller: the channel it sends to is empty, also *)
(* when the call has given up or the answer comes twice.  Otherwise one call *)
(* would hold up the answers to all others.                                  *)
ReaderNeverWaits == \A m \in inHand : chan[m.id] = NoId

(* Every call returns, with the answer or in time without, unless the server *)
(* does not read its input any more; and Close ends those that hang on that. *)
CallsReturn ==
  \A c \in Callers :
    at[c] # "idle" ~> at[c] = "idle" \/ (server = "wedged" /\ ~closed)
=============================================================================
