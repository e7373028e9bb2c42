---------------------------- MODULE DiscordConn -----------------------------
(***************************************************************************)
(* The gateway connection of internal/gateway/discord: Run and session of   *)
(* gateway.go, dispatch, and the admission of normalize.go, against a       *)
(* server that numbers the events of a session and replays them to a        *)
(* client that resumes it.                                                  *)
(*                                                                         *)
(* The client only identifies when it has no session, so that there is one  *)
(* session to speak of: the last the server has made.  Its events are the   *)
(* sequence log; Ready is the first.  The length of the waits is left out.  *)
(***************************************************************************)
EXTENDS Naturals, Sequences

CONSTANTS
  MaxMessages,  \* bound on the messages that are written
  Channels,
  ChannelOf,    \* the channel of each message
  KindOf,       \* what each channel is: "text", "thread" or "dm"
  Ignored,      \* bots, users who are not allowed, messages without text
  Mentioning,   \* messages that mention the bot
  StaleAge      \* age of the last acknowledgement that is too old (90 s)

Messages == 1 .. MaxMessages

Kinds == {"text", "thread", "dm"}

ASSUME ConnAssumption ==
  /\ MaxMessages \in Nat
  /\ ChannelOf \in [Messages -> Channels]
  /\ KindOf \in [Channels -> Kinds]
  /\ Ignored \subseteq Messages /\ Mentioning \subseteq Messages
  /\ StaleAge \in Nat \ {0}

VARIABLES
  made,        \* messages written so far
  alive,       \* the server would resume the session
  log,         \* the events of the session
  attached,    \* the socket is attached to the session
  pos,         \* events of the log that the socket has delivered
  wedged,      \* the socket is open, and silent for good
  beat,        \* a heartbeat that the server has not acknowledged
  ctx,         \* the context given to Start is cancelled
  place,       \* where Run is
  session,     \* sessionID is set
  seq,         \* Conn.seq, 0 for nil
  self,        \* selfID is set
  age,         \* of lastACK
  chTypes,     \* the cache of channel types
  resumable,   \* what the last INVALID_SESSION said
  current,     \* the message in dispatch
  handled,     \* history: messages that dispatch has dealt with
  dispatched   \* history: messages given to onEvent, in order

serverVars == <<made, alive, log>>
socketVars == <<attached, pos, wedged, beat>>
sessVars   == <<session, seq, self>>
msgVars    == <<chTypes, current, handled, dispatched>>
connVars == <<serverVars, socketVars, ctx, place, sessVars, age, resumable, msgVars>>

Ready == 0
NoMessage == 0
NotCached == "?"

Ended == {"over", "fatal"}

Places == {"dial", "hello", "greet", "reading", "looking", "pausing",
           "backoff"} \cup Ended

ConnTypeOK ==
  /\ made \in 0 .. MaxMessages
  /\ alive \in BOOLEAN /\ attached \in BOOLEAN /\ wedged \in BOOLEAN
  /\ beat \in BOOLEAN /\ ctx \in BOOLEAN /\ resumable \in BOOLEAN
  /\ session \in BOOLEAN /\ self \in BOOLEAN
  /\ log \in Seq(Messages \cup {Ready})
  /\ pos \in 0 .. Len(log)
  /\ seq \in 0 .. MaxMessages + 1
  /\ place \in Places
  /\ age \in 0 .. StaleAge
  /\ chTypes \in [Channels -> Kinds \cup {NotCached}]
  /\ current \in Messages \cup {NoMessage}
  /\ handled \subseteq Messages
  /\ dispatched \in Seq(Messages)

ConnInit ==
  /\ made = 0 /\ alive = FALSE /\ log = <<>>
  /\ attached = FALSE /\ pos = 0 /\ wedged = FALSE /\ beat = FALSE
  /\ ctx = FALSE
  /\ place = "dial"
  /\ session = FALSE /\ seq = 0 /\ self = FALSE
  /\ age = 0
  /\ resumable = FALSE
  /\ chTypes = [ch \in Channels |-> NotCached]
  /\ current = NoMessage /\ handled = {} /\ dispatched = <<>>

Goto(p) == place' = p

-----------------------------------------------------------------------------
(* Somebody writes a message; a session that the server has gets it. *)
Post ==
  /\ made < MaxMessages
  /\ made' = made + 1
  /\ log' = IF alive THEN Append(log, made + 1) ELSE log
  /\ UNCHANGED <<alive, socketVars, ctx, place, sessVars, age, resumable, msgVars>>

(* The server forgets the session. *)
Forget ==
  /\ alive
  /\ alive' = FALSE
  /\ attached' = FALSE
  /\ UNCHANGED <<made, log, pos, wedged, beat, ctx, place, sessVars, age,
                 resumable, msgVars>>

(* The socket falls silent without being closed. *)
Wedge ==
  /\ place \in {"reading", "looking"} /\ ~wedged
  /\ wedged' = TRUE
  /\ UNCHANGED <<serverVars, attached, pos, beat, ctx, place, sessVars, age,
                 resumable, msgVars>>

Cancel ==
  /\ ~ctx
  /\ ctx' = TRUE
  /\ UNCHANGED <<serverVars, socketVars, place, sessVars, age, resumable, msgVars>>

(* Time passes. *)
TimePasses ==
  /\ age < StaleAge
  /\ age' = age + 1
  /\ UNCHANGED <<serverVars, socketVars, ctx, place, sessVars, resumable, msgVars>>

(* heartbeatLoop, while a session lasts, and the answer to a HEARTBEAT of   *)
(* the server.  An error is discarded.                                      *)
SendHeartbeat ==
  /\ place \in {"greet", "reading", "looking"}
  /\ ~beat
  /\ beat' = TRUE
  /\ UNCHANGED <<serverVars, attached, pos, wedged, ctx, place, sessVars, age,
                 resumable, msgVars>>

-----------------------------------------------------------------------------
(* Run, after session has returned an error: the end when the context is    *)
(* cancelled, another attempt when it is not.                               *)
AfterError_Retries == "backoff"
AfterError == IF ctx THEN "over" ELSE "backoff"

(* The socket of the session is closed with the return of session. *)
Close ==
  /\ attached' = FALSE
  /\ wedged' = FALSE
  /\ beat' = FALSE

(* GET /gateway/bot, when there is no session, and the dial. *)
Dial ==
  /\ place = "dial"
  /\ ~ctx
  /\ Goto("hello")
  /\ UNCHANGED <<serverVars, socketVars, ctx, sessVars, age, resumable, msgVars>>

Hello ==
  /\ place = "hello"
  /\ ~ctx
  /\ Goto("greet")
  /\ UNCHANGED <<serverVars, socketVars, ctx, sessVars, age, resumable, msgVars>>

(* sendResume: the server goes on after seq, or knows nothing of it. *)
Resume ==
  /\ place = "greet"
  /\ session
  /\ attached' = alive
  /\ pos' = seq
  /\ age' = 0
  /\ Goto("reading")
  /\ UNCHANGED <<serverVars, wedged, beat, ctx, sessVars, resumable, msgVars>>

(* sendIdentify: the server makes a session. *)
Identify ==
  /\ place = "greet"
  /\ ~session
  /\ alive' = TRUE
  /\ log' = <<Ready>>
  /\ attached' = TRUE
  /\ pos' = 0
  /\ age' = 0
  /\ Goto("reading")
  /\ UNCHANGED <<made, wedged, beat, ctx, sessVars, resumable, msgVars>>

(* Any call of session fails, or the socket is closed by the other side. *)
Drop ==
  /\ place \in {"dial", "hello", "greet", "reading"}
  /\ Goto(AfterError)
  /\ Close
  /\ UNCHANGED <<serverVars, pos, ctx, sessVars, age, resumable, msgVars>>

(* It is closed with a code that must not reconnect. *)
FatalClose ==
  /\ place = "reading" /\ ~wedged
  /\ Goto(IF ctx THEN "over" ELSE "fatal")
  /\ Close
  /\ UNCHANGED <<serverVars, pos, ctx, sessVars, age, resumable, msgVars>>

-----------------------------------------------------------------------------
(* The guard at the end of the read loop. *)
NextRead ==
  \/ age < StaleAge /\ Goto("reading") /\ UNCHANGED <<attached, wedged, beat>>
  \/ age = StaleAge /\ Goto(AfterError) /\ Close

Reads == place = "reading" /\ ~wedged /\ ~ctx

(* Conn.seq after an event, which stands at place p of the log. *)
SeqAfter_Same(p) == seq
SeqAfter_Last(p) == Len(log)
SeqAfter(p) == p

(* READY: sessionID, resumeURL and selfID are set. *)
ReadReady ==
  /\ Reads /\ attached /\ pos = 0
  /\ pos' = 1
  /\ seq' = SeqAfter(1)
  /\ session' = TRUE /\ self' = TRUE
  /\ NextRead
  /\ UNCHANGED <<serverVars, ctx, age, resumable, msgVars>>

(* MESSAGE_CREATE and MESSAGE_UPDATE: dispatch begins. *)
ReadMessage ==
  /\ Reads /\ attached /\ pos \in 1 .. Len(log) - 1
  /\ pos' = pos + 1
  /\ seq' = SeqAfter(pos + 1)
  /\ current' = log[pos + 1]
  /\ Goto("looking")
  /\ UNCHANGED <<serverVars, attached, wedged, beat, ctx, session, self, age,
                 resumable, chTypes, handled, dispatched>>

(* What channelType takes a channel for when it cannot ask. *)
DefaultType == "text"

(* channelType: cached, or asked for over REST, and cached either way. *)
TypesOf(ch) ==
  IF chTypes[ch] # NotCached THEN {chTypes[ch]} ELSE {KindOf[ch], DefaultType}

(* A message of a guild has an effect in a thread or with a mention; one     *)
(* without a guild always has.  Before READY nothing is a mention.           *)
Admitted(m, type) ==
  /\ m \notin Ignored
  /\ \/ type # "text"
     \/ KindOf[ChannelOf[m]] = "dm"
     \/ m \in Mentioning
     \/ ~self

(* The rest of dispatch: channelType, normalizeCreate, and the handler. *)
Dispatch ==
  /\ place = "looking"
  /\ \E type \in TypesOf(ChannelOf[current]) :
       /\ chTypes' = [chTypes EXCEPT ![ChannelOf[current]] = type]
       /\ dispatched' = IF Admitted(current, type)
                        THEN Append(dispatched, current) ELSE dispatched
  /\ handled' = handled \cup {current}
  /\ current' = NoMessage
  /\ NextRead
  /\ UNCHANGED <<serverVars, pos, ctx, sessVars, age, resumable>>

ReadACK ==
  /\ Reads /\ beat
  /\ beat' = FALSE
  /\ age' = 0
  /\ UNCHANGED <<serverVars, attached, pos, wedged, ctx, place, sessVars, resumable,
                 msgVars>>

(* Frames without an effect of their own: the guard still looks at the age. *)
ReadOther ==
  /\ Reads
  /\ NextRead
  /\ UNCHANGED <<serverVars, pos, ctx, sessVars, age, resumable, msgVars>>

(* INVALID_SESSION, and what it says of a session that the server still has. *)
ReadInvalid ==
  /\ Reads
  /\ \/ resumable' = TRUE /\ UNCHANGED alive
     \/ resumable' = FALSE /\ alive' = FALSE
  /\ Goto("pausing")
  /\ Close
  /\ UNCHANGED <<made, log, pos, ctx, sessVars, age, msgVars>>

(* What is left of the session. *)
SessionLeft == session /\ resumable

(* After a second, or with the end of the context. *)
PauseOver ==
  /\ place = "pausing"
  /\ \/ /\ ctx /\ Goto("over")
        /\ UNCHANGED <<session, seq>>
     \/ /\ session' = SessionLeft
        /\ seq' = IF resumable THEN seq ELSE 0
        /\ Goto(AfterError)
  /\ UNCHANGED <<serverVars, socketVars, ctx, self, age, resumable, msgVars>>

BackoffOver ==
  /\ place = "backoff"
  /\ \/ Goto("dial")
     \/ ctx /\ Goto("over")
  /\ UNCHANGED <<serverVars, socketVars, ctx, sessVars, age, resumable, msgVars>>

-----------------------------------------------------------------------------
ReadEvent == ReadReady \/ ReadMessage

(* Steps that Run makes whatever the other side does. *)
OwnStep ==
  \/ Dispatch
  \/ PauseOver
  \/ BackoffOver
  \/ ctx /\ Drop

Session ==
  \/ Dial \/ Hello \/ Resume \/ Identify
  \/ ReadEvent \/ ReadACK \/ ReadOther \/ ReadInvalid
  \/ Drop \/ FatalClose

ConnNext ==
  \/ Session
  \/ OwnStep
  \/ SendHeartbeat
  \/ TimePasses
  \/ Post \/ Forget \/ Wedge
  \/ Cancel

ConnSpec == ConnInit /\ [][ConnNext]_connVars

(* Waits end and calls return.  Tried again and again, a call succeeds, and  *)
(* an open socket delivers the events of its session before it is dropped,   *)
(* some time.  A session that the server has no more is refused.             *)
ConnFairSpec ==
  /\ ConnSpec
  /\ WF_connVars(OwnStep)
  /\ SF_connVars(Dial) /\ SF_connVars(Hello) /\ SF_connVars(Resume) /\ SF_connVars(Identify)
  /\ SF_connVars(ReadReady) /\ SF_connVars(ReadMessage)
  /\ SF_connVars(ReadInvalid /\ ~alive /\ ~resumable')

-----------------------------------------------------------------------------
(* However the connection drops, resumes and starts afresh, no message       *)
(* reaches a handler twice, and they come in the order they were written.    *)
OnceInOrder ==
  \A i, j \in DOMAIN dispatched : i < j => dispatched[i] < dispatched[j]

(* An event of a session is dealt with in the end, unless the server has     *)
(* given the session up, the socket has fallen silent, or Run has returned;  *)
(* and then the client gets another session: it does not hold on to one that *)
(* the server does not resume.                                               *)
MessagesArrive ==
  /\ \A m \in Messages :
       (\E i \in DOMAIN log : log[i] = m) ~>
         \/ m \in handled
         \/ ~alive \/ wedged \/ place \in Ended
         \/ ~\E i \in DOMAIN log : log[i] = m
  /\ ~alive ~> (alive \/ wedged \/ place \in Ended)

(* A cancelled context ends Run, wherever it is. *)
CancelEndsRun == ctx ~> place \in Ended
=============================================================================
