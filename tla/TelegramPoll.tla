---------------------------- MODULE TelegramPoll ----------------------------
(***************************************************************************)
(* The long-polling loop of internal/gateway/telegram/poll.go against the   *)
(* Bot API, as far as the code relies on it: the API keeps updates in order *)
(* until a getUpdates call with a higher offset confirms them.  Updates are *)
(* numbered from 1, the API's first answer starts at the first unconfirmed  *)
(* one.  The length of the waits is left out, and so are the attempts that  *)
(* one call makes on its own: a call succeeds or fails, and one that fails  *)
(* may have been carried out.                                               *)
(*                                                                         *)
(* The module has the steps of the loop; GatewayRunner runs them.           *)
(***************************************************************************)
EXTENDS Integers, Sequences, FiniteSets

CONSTANTS
  MaxUpdates,   \* bound on the updates the API receives
  Ignored,      \* the bot's own messages, and users who are not allowed
  Rungs         \* number of waits in conflictDelays (five)

ASSUME PollAssumption ==
  /\ MaxUpdates \in Nat
  /\ Ignored \subseteq 1 .. MaxUpdates
  /\ Rungs \in Nat \ {0}

VARIABLES
  sent,        \* updates the API has received
  confirmed,   \* those up to here it has forgotten
  webhook,     \* a webhook is set: getUpdates answers 409
  dropPending, \* Config.DropPending, which main does not set
  gctx,        \* the context given to Start is cancelled
  pc,          \* where Start is
  offset,      \* Start's offset
  batch,       \* the updates it has received and not looked at
  rung,        \* the next wait of backoffConflict
  handlers,    \* updates whose onMsg goroutine runs
  answered,    \* history: updates whose handler has returned
  seen,        \* history: updates dispatched by this process
  dispatched   \* history: updates dispatched by any process

(* What a restart leaves alone. *)
apiVars  == <<sent, confirmed, webhook, dropPending>>
loopVars == <<pc, offset, batch, rung>>
turnVars == <<handlers, answered, seen, dispatched>>
pollVars == <<apiVars, gctx, loopVars, turnVars>>

Updates == 1 .. MaxUpdates

(* "down": there is no process.  "failed": Start has returned the error of   *)
(* its probe; "fatal": the polling conflict; "stopped": nil.                 *)
Returned == {"failed", "fatal", "stopped"}

Places == {"down", "probe", "webhook", "drain", "poll", "batch", "waiting",
           "conflict"} \cup Returned

PollTypeOK ==
  /\ sent \in 0 .. MaxUpdates /\ confirmed \in 0 .. sent
  /\ webhook \in BOOLEAN /\ dropPending \in BOOLEAN /\ gctx \in BOOLEAN
  /\ pc \in Places
  /\ offset \in 0 .. MaxUpdates + 1
  /\ batch \in Seq(Updates)
  /\ rung \in 1 .. Rungs
  /\ handlers \subseteq Updates /\ answered \subseteq Updates
  /\ seen \subseteq dispatched /\ dispatched \subseteq Updates

(* A process that has not started to poll. *)
StartOver ==
  /\ gctx' = FALSE
  /\ offset' = 0
  /\ batch' = <<>>
  /\ rung' = 1
  /\ handlers' = {}
  /\ seen' = {}

PollInit ==
  /\ sent = 0 /\ confirmed = 0
  /\ webhook \in BOOLEAN /\ dropPending \in BOOLEAN
  /\ gctx = FALSE
  /\ pc = "probe" /\ offset = 0 /\ batch = <<>> /\ rung = 1
  /\ handlers = {} /\ answered = {} /\ seen = {} /\ dispatched = {}

Goto(place) == pc' = place

-----------------------------------------------------------------------------
(* A user writes to the bot. *)
Receive ==
  /\ sent < MaxUpdates
  /\ sent' = sent + 1
  /\ UNCHANGED <<confirmed, webhook, dropPending, gctx, loopVars, turnVars>>

(* getMe: Start returns its error. *)
Probe ==
  /\ pc = "probe"
  /\ \/ ~gctx /\ Goto("webhook")
     \/ Goto("failed")
  /\ UNCHANGED <<apiVars, gctx, offset, batch, rung, turnVars>>

(* deleteWebhook, once; its error is discarded. *)
DeleteWebhook ==
  /\ pc = "webhook"
  /\ webhook' \in {webhook, FALSE}
  /\ Goto(IF dropPending THEN "drain" ELSE "poll")
  /\ UNCHANGED <<sent, confirmed, dropPending, gctx, offset, batch, rung, turnVars>>

(* drainPending asks from offset 0 and forgets the answer: nothing is        *)
(* confirmed by it.                                                          *)
DrainPending ==
  /\ pc = "drain"
  /\ Goto("poll")
  /\ UNCHANGED <<apiVars, gctx, offset, batch, rung, turnVars>>

(* What the API has confirmed once it has seen the offset: those below it.   *)
ConfirmedBy(off) ==
  CHOOSE u \in confirmed .. sent :
    /\ u < off \/ u = confirmed
    /\ \A v \in confirmed .. sent : v < off => v <= u

(* getUpdates answers with updates from the first unconfirmed one on; with   *)
(* none, when there is none and nothing came in time.                        *)
PollSucceeds ==
  /\ pc = "poll"
  /\ ~gctx /\ ~webhook
  /\ confirmed' = ConfirmedBy(offset)
  /\ \E last \in confirmed' .. sent :
       /\ last > confirmed' \/ confirmed' = sent
       /\ batch' = [i \in 1 .. last - confirmed' |-> confirmed' + i]
  /\ Goto("batch")
  /\ UNCHANGED <<sent, webhook, dropPending, gctx, offset, rung, turnVars>>

(* It is refused: a webhook is set, or another process polls. *)
PollConflicts ==
  /\ pc = "poll"
  /\ ~gctx
  /\ Goto("conflict")
  /\ rung' = 1
  /\ UNCHANGED <<apiVars, gctx, offset, batch, turnVars>>

(* It fails, perhaps after the API has seen the offset.  Start returns nil   *)
(* when it is the context that was cancelled.                                *)
PollFails ==
  /\ pc = "poll"
  /\ confirmed' \in {confirmed, ConfirmedBy(offset)}
  /\ Goto(IF gctx THEN "stopped" ELSE "waiting")
  /\ UNCHANGED <<sent, webhook, dropPending, gctx, offset, batch, rung, turnVars>>

(* The wait after a failure is over, or the context is. *)
WaitOver ==
  /\ pc = "waiting"
  /\ \/ Goto("poll")
     \/ gctx /\ Goto("stopped")
  /\ UNCHANGED <<apiVars, gctx, offset, batch, rung, turnVars>>

LastRung == rung = Rungs

(* backoffConflict: after each wait, a getMe that succeeds resumes polling.  *)
(* After the last one the conflict is fatal.                                 *)
ClimbRung ==
  /\ pc = "conflict"
  /\ \/ ~gctx /\ Goto("poll") /\ rung' = 1
     \/ ~LastRung /\ rung' = rung + 1 /\ UNCHANGED pc
     \/ LastRung /\ Goto("fatal") /\ UNCHANGED rung
  /\ UNCHANGED <<apiVars, gctx, offset, batch, turnVars>>

(* A cancelled context ends the ladder without an error. *)
LeaveLadder ==
  /\ pc = "conflict"
  /\ gctx
  /\ Goto("poll")
  /\ rung' = 1
  /\ UNCHANGED <<apiVars, gctx, offset, batch, turnVars>>

(* The next update of the batch: move the offset past it, and start its      *)
(* handler unless it is ignored.                                             *)
OffsetPast_Same(u) == u
OffsetPast_Two(u) == IF u + 2 > offset THEN u + 2 ELSE offset
OffsetPast(u) == IF u + 1 > offset THEN u + 1 ELSE offset

Dispatch ==
  /\ pc = "batch"
  /\ batch # <<>>
  /\ LET u == Head(batch) IN
       /\ offset' = OffsetPast(u)
       /\ IF u \in Ignored THEN UNCHANGED turnVars
          ELSE /\ handlers' = handlers \cup {u}
               /\ seen' = seen \cup {u}
               /\ dispatched' = dispatched \cup {u}
               /\ UNCHANGED answered
  /\ batch' = Tail(batch)
  /\ UNCHANGED <<apiVars, gctx, pc, rung>>

BatchDone ==
  /\ pc = "batch"
  /\ batch = <<>>
  /\ Goto("poll")
  /\ UNCHANGED <<apiVars, gctx, offset, batch, rung, turnVars>>

(* The handler has run its turn and replied, or failed to. *)
HandlerReturns(u) ==
  /\ u \in handlers
  /\ handlers' = handlers \ {u}
  /\ answered' = answered \cup {u}
  /\ UNCHANGED <<apiVars, gctx, loopVars, seen, dispatched>>

Start ==
  \/ Probe
  \/ DeleteWebhook
  \/ DrainPending
  \/ PollSucceeds
  \/ PollConflicts
  \/ PollFails
  \/ WaitOver
  \/ ClimbRung
  \/ LeaveLadder
  \/ Dispatch
  \/ BatchDone

PollNext ==
  \/ Start
  \/ Receive
  \/ \E u \in Updates : HandlerReturns(u)
=============================================================================
