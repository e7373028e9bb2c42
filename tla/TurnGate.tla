------------------------------ MODULE TurnGate ------------------------------
(***************************************************************************)
(* The turn gate of the messaging gateway: the BusyGuard of                *)
(* internal/gateway/adapter.go and the "handle" closure of                 *)
(* cmd/botreaper/main.go that every Telegram and Discord message goes      *)
(* through.                                                                *)
(*                                                                         *)
(* The adapters start one goroutine per inbound message.  A member of Msgs *)
(* is such a goroutine; it is idle, handles a message and becomes idle     *)
(* again, so that an endless stream of messages is modelled with finitely  *)
(* many goroutines in flight.  The guard's map holds the time of a claim.  *)
(* Only "younger than ten minutes" is ever asked of it, so the model keeps *)
(* the claim's age, saturated at BusyTTL.                                  *)
(***************************************************************************)
EXTENDS Naturals

CONSTANTS
  Msgs,       \* handler goroutines, each with the message it handles
  Sessions,   \* session keys: platform, chat and thread
  SessionOf,  \* the session key of each message
  Plain,      \* messages whose text starts with a slash
  BusyTTL,    \* age at which a claim is stale (ten minutes)
  NoClaim     \* the guard has no entry for the session

ASSUME GateAssumption ==
  /\ SessionOf \in [Msgs -> Sessions]
  /\ Plain \subseteq Msgs
  /\ BusyTTL \in Nat \ {0}
  /\ NoClaim \notin Nat

VARIABLES
  busy,       \* BusyGuard.busy: the age of the claim on each session
  pc,         \* where each handler goroutine is
  agents,     \* sessions that getAgent has built an agent for
  breached    \* history: sessions where a turn lost its claim before its end

vars == <<busy, pc, agents, breached>>

Labels == {"idle", "arrived", "refused", "entered", "turn", "leaving"}

Ages == 0 .. BusyTTL

TypeOK ==
  /\ busy \in [Sessions -> Ages \cup {NoClaim}]
  /\ pc \in [Msgs -> Labels]
  /\ agents \subseteq Sessions
  /\ breached \subseteq Sessions

(* Handlers of ordinary messages that passed the guard and have not yet run *)
(* their deferred Release.                                                  *)
Holding(m) == m \notin Plain /\ pc[m] \in {"entered", "turn", "leaving"}

Holders(s) == {m \in Msgs : SessionOf[m] = s /\ Holding(m)}

Turns(s) == {m \in Msgs : SessionOf[m] = s /\ pc[m] = "turn"}

GoTo(m, label) == pc' = [pc EXCEPT ![m] = label]

(* The guard is made with an empty map. *)
NewBusyGuard == [s \in Sessions |-> NoClaim]

Init ==
  /\ busy = NewBusyGuard
  /\ pc = [m \in Msgs |-> "idle"]
  /\ agents = {}
  /\ breached = {}

-----------------------------------------------------------------------------
(* The adapter starts the handler goroutine of a message. *)
Deliver(m) ==
  /\ pc[m] = "idle"
  /\ GoTo(m, "arrived")
  /\ UNCHANGED <<busy, agents, breached>>

(* TryAcquire refuses a session whose claim is younger than BusyTTL. *)
ClaimOpen_NoCheck(s) == TRUE
ClaimOpen(s) == busy[s] \in {NoClaim, BusyTTL}

(* TryAcquire for a slash command: the guard is not consulted. *)
Bypass(m) ==
  /\ pc[m] = "arrived"
  /\ m \in Plain
  /\ GoTo(m, "entered")
  /\ UNCHANGED <<busy, agents, breached>>

(* TryAcquire stores the time of the claim, over a stale one if need be. *)
Claim(m) ==
  LET s == SessionOf[m] IN
  /\ pc[m] = "arrived"
  /\ m \notin Plain
  /\ ClaimOpen(s)
  /\ busy' = [busy EXCEPT ![s] = 0]
  /\ breached' = IF busy[s] = BusyTTL THEN breached \cup {s} ELSE breached
  /\ GoTo(m, "entered")
  /\ UNCHANGED agents

Refuse(m) ==
  /\ pc[m] = "arrived"
  /\ m \notin Plain
  /\ ~ClaimOpen(SessionOf[m])
  /\ GoTo(m, "refused")
  /\ UNCHANGED <<busy, agents, breached>>

TryAcquire(m) == Bypass(m) \/ Claim(m) \/ Refuse(m)

(* The sender of a refused message is told that the session is busy; no    *)
(* Release is deferred on this path.                                       *)
ReplyBusy(m) ==
  /\ pc[m] = "refused"
  /\ GoTo(m, "idle")
  /\ UNCHANGED <<busy, agents, breached>>

(* The slash table answers every slash command, known or not. *)
Slash(m) ==
  /\ pc[m] = "entered"
  /\ m \in Plain
  /\ GoTo(m, "leaving")
  /\ UNCHANGED <<busy, agents, breached>>

(* The typing indicator, getAgent (one agent per session, kept for good) and *)
(* the start of Chat.                                                        *)
StartTurn(m) ==
  /\ pc[m] = "entered"
  /\ m \notin Plain
  /\ agents' = agents \cup {SessionOf[m]}
  /\ GoTo(m, "turn")
  /\ UNCHANGED <<busy, breached>>

(* Chat returns, with an answer or an error, and the reply is sent. *)
FinishTurn(m) ==
  /\ pc[m] = "turn"
  /\ GoTo(m, "leaving")
  /\ UNCHANGED <<busy, agents, breached>>

(* The deferred Release of every handler that passed the guard, slash      *)
(* commands included.  It deletes the entry of the session, whoever made   *)
(* it; a holder left behind then runs without a claim.                     *)
ReleaseMap_Kept(s) == busy
ReleaseMap(s) == [busy EXCEPT ![s] = NoClaim]

Release(m) ==
  LET s == SessionOf[m] IN
  /\ pc[m] = "leaving"
  /\ busy' = ReleaseMap(s)
  /\ breached' = IF Holders(s) \ {m} = {} THEN breached \ {s}
                 ELSE breached \cup {s}
  /\ GoTo(m, "idle")
  /\ UNCHANGED agents

(* Time passes: every claim grows older, up to the age that matters. *)
Tick ==
  /\ busy' = [s \in Sessions |->
                IF busy[s] \in 0 .. BusyTTL - 1 THEN busy[s] + 1 ELSE busy[s]]
  /\ busy' # busy
  /\ UNCHANGED <<pc, agents, breached>>

Handle(m) ==
  \/ TryAcquire(m)
  \/ ReplyBusy(m)
  \/ Slash(m)
  \/ StartTurn(m)
  \/ FinishTurn(m)
  \/ Release(m)

Next ==
  \/ \E m \in Msgs : Deliver(m) \/ Handle(m)
  \/ Tick

Spec == Init /\ [][Next]_vars

-----------------------------------------------------------------------------
(* A claim never outlives the turns of its session: whenever the guard has an *)
(* entry, an ordinary message of that session is past TryAcquire and has not  *)
(* yet released.  No path through handle leaks the entry, so a session cannot *)
(* stay locked with nobody in it.                                             *)
ClaimHasHolder ==
  \A s \in Sessions : busy[s] # NoClaim => Holders(s) # {}

(* Two turns of one session overlap only after a turn of that session lost  *)
(* its claim early: to a stale takeover, or to the Release of another       *)
(* handler.  Once the session has drained, exclusion holds again.           *)
ExclusionUnlessBreached ==
  \A s \in Sessions :
    s \notin breached =>
      \A m1, m2 \in Holders(s) : m1 = m2

(* A message is told "busy" only while another message of its own session  *)
(* is still being handled.                                                 *)
RefusalIsJustified ==
  \A m \in Msgs :
    pc[m] = "arrived" /\ pc'[m] = "refused" => Holders(SessionOf[m]) # {}

RefusedOnlyWhenHeld == [][RefusalIsJustified]_vars

(* Why exclusion is inductive: a session that has not been breached has at  *)
(* most one holder, and that holder's claim is in the map.                  *)
UnbreachedHolderIsClaimed ==
  \A s \in Sessions :
    s \notin breached /\ Holders(s) # {} => busy[s] # NoClaim
=============================================================================
