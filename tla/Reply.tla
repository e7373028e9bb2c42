------------------------------- MODULE Reply --------------------------------
(***************************************************************************)
(* SendReply of the two adapters: telegram/poll.go over send.go and the      *)
(* retries of telegram.go, discord/normalize.go over discord.go.  The runes  *)
(* of a reply are numbered, and all that is kept of them is which are        *)
(* newlines; a chunk is the interval of its first and its last rune.  The    *)
(* code cuts the whole text first, the model a chunk when it is due, which   *)
(* is the same as the text does not change.  The length of waits is left     *)
(* out.  MaxLength bounds the reply and MaxLost the answers that get lost.   *)
(***************************************************************************)
EXTENDS Integers, Sequences, FiniteSets

CONSTANTS
  Limit,      \* runes of a message on each platform (4096 and 2000)
  MaxMsgs,    \* messages of a Discord reply (8)
  Origins,    \* where inbound messages come from
  MaxLength,
  MaxLost

Platforms == {"telegram", "discord"}

(* Thread ids: a message without one, the General topic, another topic. *)
None == "none"
General == "1"
Threads == {None, General, "topic"}

ASSUME ReplyAssumption ==
  /\ Limit \in [Platforms -> Nat \ {0}]
  /\ MaxMsgs \in Nat \ {0}
  /\ Origins \subseteq [forum : BOOLEAN, topicMsg : BOOLEAN, id : Threads]
  /\ MaxLength \in Nat /\ MaxLost \in Nat

VARIABLES
  platform,
  length,     \* runes of the reply
  newlines,   \* which of them are newlines
  thread,     \* message_thread_id of the reply
  cancelled,  \* the handler's context is cancelled
  stage,      \* where SendReply is
  from,       \* first rune of the chunk at hand
  bare,       \* this is the fallback without thread or anchor
  attempt,    \* of Client.call
  retried,    \* of doOnce and request
  result,     \* what SendReply has returned
  shown,      \* the messages that the chat shows, in order
  lost        \* history: messages that were taken, and the answer lost

inputVars == <<platform, length, newlines, thread>>
callVars  == <<bare, attempt, retried>>
replyVars == <<inputVars, cancelled, stage, from, callVars, result, shown, lost>>

Telegram == platform = "telegram"

-----------------------------------------------------------------------------
(* effectiveThread, and what SendReply makes of it: sendMessage does not     *)
(* take General's id.                                                        *)
EffectiveThread(o) ==
  IF o.id # None /\ (o.forum \/ o.topicMsg) THEN o.id
  ELSE IF o.forum THEN General
  ELSE None

ThreadToPost(o) ==
  IF EffectiveThread(o) = General THEN None ELSE EffectiveThread(o)

(* splitText: the last newline of a full piece, if it is in its second half. *)
LateNewlines(p, n) ==
  {q \in newlines : q - p > n \div 2 /\ q < p + n}

LatestOf(S) == CHOOSE q \in S : \A r \in S : r <= q

CutTelegram(p, n) ==
  IF length <= n \/ length - p + 1 < n THEN length
  ELSE IF LateNewlines(p, n) # {} THEN LatestOf(LateNewlines(p, n))
  ELSE p + n - 1

(* splitMessage: the piece that would be the last allowed is a notice        *)
(* instead when there are more.                                              *)
IsNotice(p) ==
  /\ ~Telegram
  /\ length > MaxMsgs * Limit[platform]
  /\ p > (MaxMsgs - 1) * Limit[platform]

CutDiscord(p, n) == IF length < p + n THEN length ELSE p + n - 1

ChunkEnd(p) ==
  IF Telegram THEN CutTelegram(p, Limit[platform])
  ELSE CutDiscord(p, Limit[platform])

(* A notice carries the number of runes that are not delivered. *)
Dropped_AfterIt(p) == length - p + 1 - Limit[platform]
Dropped(p) == length - p + 1

Message(p) ==
  IF IsNotice(p) THEN [first |-> p, last |-> p - 1, dropped |-> Dropped(p)]
  ELSE [first |-> p, last |-> ChunkEnd(p), dropped |-> 0]

IsLast(p) == IsNotice(p) \/ ChunkEnd(p) = length

NextFrom_SkipsBreak(p) ==
  IF ChunkEnd(p) + 1 \in newlines THEN ChunkEnd(p) + 2 ELSE ChunkEnd(p) + 1
NextFrom(p) == ChunkEnd(p) + 1

-----------------------------------------------------------------------------
Stages == {"posting", "limited", "backoff", "pause", "returned"}

ReplyMessages == [first : Nat, last : Nat, dropped : Nat]

ReplyTypeOK ==
  /\ platform \in Platforms
  /\ length \in 0 .. MaxLength /\ newlines \subseteq 1 .. length
  /\ thread \in Threads \ {General}
  /\ cancelled \in BOOLEAN /\ bare \in BOOLEAN /\ retried \in BOOLEAN
  /\ stage \in Stages
  /\ from \in 1 .. MaxLength + 1
  /\ attempt \in 0 .. 2
  /\ result \in {"none", "nil", "error"}
  /\ shown \in Seq(ReplyMessages)
  /\ lost \in 0 .. MaxLost

(* A Discord thread is a channel of its own.  There is nothing to send to    *)
(* Discord when the reply is empty, and one empty message to Telegram.       *)
ReplyInit ==
  /\ platform \in Platforms
  /\ length \in 0 .. MaxLength
  /\ newlines \in SUBSET (1 .. length)
  /\ IF Telegram THEN thread \in {ThreadToPost(o) : o \in Origins}
                 ELSE thread = None
  /\ cancelled = FALSE
  /\ from = 1
  /\ bare = FALSE /\ attempt = 0 /\ retried = FALSE
  /\ IF length = 0 /\ ~Telegram THEN stage = "returned" /\ result = "nil"
                                ELSE stage = "posting" /\ result = "none"
  /\ shown = <<>>
  /\ lost = 0

(* The first chunk carries the thread, and the anchor. *)
HasThread == Telegram /\ from = 1 /\ ~bare /\ thread # None

-----------------------------------------------------------------------------
Return(r) ==
  /\ stage' = "returned"
  /\ result' = r
  /\ UNCHANGED <<from, callVars>>

StartCall(place) ==
  /\ stage' = place
  /\ attempt' = 0 /\ retried' = FALSE
  /\ UNCHANGED result

(* SendMessage succeeds: the next chunk, after a pause on Telegram, which    *)
(* the fallback leaves out.                                                  *)
Succeed ==
  IF IsLast(from) THEN Return("nil")
  ELSE /\ from' = NextFrom(from)
       /\ bare' = FALSE
       /\ StartCall(IF Telegram /\ ~bare THEN "pause" ELSE "posting")

(* SendMessage fails: once more without the thread, whatever the error is.   *)
Fail ==
  IF HasThread
  THEN /\ bare' = TRUE
       /\ StartCall("posting")
       /\ UNCHANGED from
  ELSE Return("error")

(* An error of the network, or an answer that cannot be decoded: Telegram's  *)
(* call tries three times, Discord's does not.                               *)
RetriesErrors_Always == TRUE
RetriesErrors == Telegram

AttemptsLeft == attempt < 2

TryAgain ==
  IF RetriesErrors /\ AttemptsLeft
  THEN /\ stage' = "backoff"
       /\ attempt' = IF attempt < 2 THEN attempt + 1 ELSE attempt
       /\ retried' = TRUE
       /\ UNCHANGED <<from, bare, result>>
  ELSE Fail

(* The API never shows an empty message. *)
Show ==
  /\ length > 0
  /\ shown' = Append(shown, Message(from))

-----------------------------------------------------------------------------
(* One HTTP request, by what becomes of it.  Once the context is cancelled   *)
(* it is not sent any more.                                                  *)
Accepted ==
  /\ stage = "posting" /\ ~cancelled
  /\ Show
  /\ Succeed
  /\ UNCHANGED <<inputVars, cancelled, lost>>

AnswerLost ==
  /\ stage = "posting" /\ ~cancelled
  /\ lost < MaxLost
  /\ Show
  /\ lost' = lost + 1
  /\ TryAgain
  /\ UNCHANGED <<inputVars, cancelled>>

NotSent ==
  /\ stage = "posting"
  /\ TryAgain
  /\ UNCHANGED <<inputVars, cancelled, shown, lost>>

(* Status 429 with a wait that the client is ready to make. *)
Limited ==
  /\ stage = "posting" /\ ~cancelled
  /\ IF ~Telegram /\ retried THEN Fail
     ELSE /\ stage' = "limited"
          /\ UNCHANGED <<from, callVars, result>>
  /\ UNCHANGED <<inputVars, cancelled, shown, lost>>

(* Any other error of the API, a longer wait among them. *)
Refused ==
  /\ stage = "posting" /\ ~cancelled
  /\ Fail
  /\ UNCHANGED <<inputVars, cancelled, shown, lost>>

(* Discord does not know the message to reply to (10008, 50035). *)
AnchorRefused ==
  /\ stage = "posting" /\ ~cancelled
  /\ ~Telegram /\ from = 1 /\ ~bare
  /\ bare' = TRUE
  /\ StartCall("posting")
  /\ UNCHANGED <<inputVars, cancelled, from, shown, lost>>

(* The waits.  Telegram sleeps after every 429, and gives up after that if   *)
(* it had already tried again.                                               *)
LimitOver ==
  /\ stage = "limited"
  /\ IF retried THEN Fail
     ELSE /\ stage' = "posting"
          /\ retried' = TRUE
          /\ UNCHANGED <<from, bare, attempt, result>>
  /\ UNCHANGED <<inputVars, cancelled, shown, lost>>

(* In a 429 the context's error is an error like any other to call. *)
LimitCancelled ==
  /\ stage = "limited" /\ cancelled
  /\ TryAgain
  /\ UNCHANGED <<inputVars, cancelled, shown, lost>>

RetryDue ==
  /\ stage = "backoff"
  /\ stage' = "posting"
  /\ UNCHANGED <<inputVars, cancelled, from, callVars, result, shown, lost>>

BackoffCancelled ==
  /\ stage = "backoff" /\ cancelled
  /\ Fail
  /\ UNCHANGED <<inputVars, cancelled, shown, lost>>

NextDue ==
  /\ stage = "pause"
  /\ stage' = "posting"
  /\ UNCHANGED <<inputVars, cancelled, from, callVars, result, shown, lost>>

PauseCancelled ==
  /\ stage = "pause" /\ cancelled
  /\ Return("error")
  /\ UNCHANGED <<inputVars, cancelled, shown, lost>>

CancelReply ==
  /\ ~cancelled /\ stage # "returned"
  /\ cancelled' = TRUE
  /\ UNCHANGED <<inputVars, stage, from, callVars, result, shown, lost>>

-----------------------------------------------------------------------------
Request ==
  \/ Accepted
  \/ AnswerLost
  \/ NotSent
  \/ Limited
  \/ Refused
  \/ AnchorRefused

Wait ==
  \/ LimitOver \/ LimitCancelled
  \/ RetryDue \/ BackoffCancelled
  \/ NextDue \/ PauseCancelled

ReplyNext == Request \/ Wait \/ CancelReply

ReplySpec == ReplyInit /\ [][ReplyNext]_replyVars

-----------------------------------------------------------------------------
(* Messages are where the reply begins, where the one before ends, or a      *)
(* repetition of the one before: retries, fallbacks and pauses skip no part  *)
(* of the text and put none out of order, and no message is too long.        *)
ChunksInOrder ==
  \A i \in DOMAIN shown :
    /\ shown[i].last - shown[i].first < Limit[platform]
    /\ IF i = 1 THEN shown[i].first = 1
       ELSE \/ shown[i] = shown[i - 1]
            \/ shown[i].first = shown[i - 1].last + 1

(* SendReply says nil only when every rune was shown, or a notice at the end *)
(* tells exactly how many were not.                                          *)
NilMeansShown ==
  result = "nil" /\ length > 0 =>
    /\ shown # <<>>
    /\ shown[Len(shown)].last + shown[Len(shown)].dropped = length

Repeats == {i \in DOMAIN shown : i > 1 /\ shown[i] = shown[i - 1]}

(* The chat shows a chunk twice only after an answer was lost, once for each *)
(* answer, and never on Discord: rate limits, the fallback without thread    *)
(* and the one without anchor do not repeat what was taken.                  *)
RepeatsNeedLoss ==
  Cardinality(Repeats) <= IF Telegram THEN lost ELSE 0
=============================================================================
