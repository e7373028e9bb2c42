-------------------------------- MODULE Hub ---------------------------------
(***************************************************************************)
(* The fan-out of internal/ws: the Hub with its subscription maps and       *)
(* replay rings, the connections of server.go and the goroutines that       *)
(* publish.                                                                 *)
(*                                                                         *)
(* Publish takes references to two subscription maps under the lock and     *)
(* ranges over them after unlocking, while Subscribe and Unsubscribe write  *)
(* the same maps under the lock.  The Go runtime may end the process when   *)
(* it notices ("concurrent map iteration and map write"), or may not: both  *)
(* outcomes are modelled, the first one as "crashed".  When it goes on, an  *)
(* entry present throughout a range is produced once, one deleted before    *)
(* its turn is not, and one added after the references were taken may be    *)
(* produced or not.                                                         *)
(***************************************************************************)
EXTENDS RingBuffer, FiniteSets

CONSTANTS
  Publishers,   \* goroutines that call Publish: turns, tools, timers, cron
  Conns,        \* sockets, each one handleWS call
  Sessions,     \* session keys
  SessOf,       \* the session of each socket: its sess or profile parameter
  Star,         \* the key "*" that every socket subscribes to as well
  QueueCap,     \* capacity of a connection's send channel (256)
  MaxPublished, \* bound on the envelopes published
  NoConn        \* nobody holds the hub's lock across steps

ASSUME HubAssumption ==
  /\ IsFiniteSet(Sessions)
  /\ SessOf \in [Conns -> Sessions]
  /\ Star \notin Sessions
  /\ QueueCap \in Nat \ {0}
  /\ MaxPublished \in Nat
  /\ NoConn \notin Conns

VARIABLES
  rings,     \* Hub.rings
  subs,      \* Hub.subs: the members of each map
  made,      \* the keys of Hub.subs that have a map
  lock,      \* the connection whose Unsubscribe holds Hub.mu
  pub,       \* each publisher: where it is in Publish and with what
  cpc,       \* each connection: where its handleWS is
  toDelete,  \* maps that its Unsubscribe still has to visit
  writer,    \* is its writeLoop running?
  queue,     \* its send channel
  offers,    \* history: how often each envelope was offered to it
  crashed    \* the runtime has ended the process

vars == <<rings, subs, made, lock, pub, cpc, toDelete, writer, queue,
          offers, crashed>>

hubVars  == <<rings, subs, made, lock>>
connVars == <<cpc, toDelete, writer>>
feedVars == <<queue, offers>>

Keys == Sessions \cup {Star}

Envelopes == [sess : Sessions, seq : 1 .. MaxPublished]

NoEnvelope == [sess |-> Star, seq |-> 0]

Idle == [pc |-> "idle", env |-> NoEnvelope, subsRef |-> FALSE,
         allRef |-> FALSE, seen |-> {}, owed |-> {}]

TypeOK ==
  /\ DOMAIN rings = Sessions
  /\ \A s \in Sessions : rings[s].next \in 0 .. MaxPublished
  /\ subs \in [Keys -> SUBSET Conns]
  /\ made \subseteq Keys
  /\ lock \in Conns \cup {NoConn}
  /\ pub \in [Publishers ->
                [pc : {"idle", "subs", "all"},
                 env : Envelopes \cup {NoEnvelope},
                 subsRef : BOOLEAN, allRef : BOOLEAN,
                 seen : SUBSET Conns, owed : SUBSET Conns]]
  /\ cpc \in [Conns -> {"off", "joining", "on", "leaving", "gone"}]
  /\ toDelete \in [Conns -> SUBSET Keys]
  /\ writer \in [Conns -> BOOLEAN]
  /\ \A c \in Conns : queue[c] \in Seq(Envelopes) /\ Len(queue[c]) <= QueueCap
  /\ offers \in [Conns -> [Envelopes -> 0 .. 2]]
  /\ crashed \in BOOLEAN

HubInit ==
  /\ rings = [s \in Sessions |-> EmptyRing]
  /\ subs = [k \in Keys |-> {}]
  /\ made = {}
  /\ lock = NoConn
  /\ pub = [p \in Publishers |-> Idle]
  /\ cpc = [c \in Conns |-> "off"]
  /\ toDelete = [c \in Conns |-> {}]
  /\ writer = [c \in Conns |-> FALSE]
  /\ queue = [c \in Conns |-> <<>>]
  /\ offers = [c \in Conns |-> [e \in Envelopes |-> 0]]
  /\ crashed = FALSE

-----------------------------------------------------------------------------
(* The maps that a publisher is reading outside the lock. *)
Reading(p) ==
  CASE pub[p].pc = "idle" -> {}
    [] pub[p].pc = "subs" -> IF pub[p].subsRef THEN {pub[p].env.sess} ELSE {}
    [] pub[p].pc = "all" ->
         (IF pub[p].allRef THEN {Star} ELSE {}) \cup
         (IF pub[p].subsRef THEN {pub[p].env.sess} ELSE {})

(* A write to map k races with every publisher that is reading it. *)
MapWrite(k) ==
  crashed' \in IF \E p \in Publishers : k \in Reading(p) THEN BOOLEAN
               ELSE {FALSE}

Published == {e \in Envelopes : e.seq <= rings[e.sess].next}

(* The locked part of Publish: number and keep the envelope, take hold of   *)
(* the two maps.  A map that does not exist yet is nil for good.            *)
Number(p, s) ==
  LET r == Push(rings[s], s) IN
  /\ pub[p].pc = "idle"
  /\ lock = NoConn
  /\ Cardinality(Published) < MaxPublished
  /\ rings' = [rings EXCEPT ![s] = r]
  /\ pub' = [pub EXCEPT ![p] =
       [pc |-> "subs", env |-> [sess |-> s, seq |-> Last(r)],
        subsRef |-> s \in made, allRef |-> Star \in made,
        seen |-> {}, owed |-> subs[s] \cup subs[Star]]]
  /\ UNCHANGED <<subs, made, lock, connVars, feedVars, crashed>>

HasRoom(c) == Len(queue[c]) < QueueCap

(* emit: into the channel if there is room, else the envelope is dropped. *)
Emit(c, e) ==
  /\ offers' = [offers EXCEPT ![c][e] = @ + 1]
  /\ queue' = IF HasRoom(c) THEN [queue EXCEPT ![c] = Append(@, e)] ELSE queue

(* What the range may still produce, and of that what it must. *)
LeftIn(p, k, ref) == IF ref THEN subs[k] \ pub[p].seen ELSE {}

LeftInSubs(p) == LeftIn(p, pub[p].env.sess, pub[p].subsRef)

LeftInAll(p) == LeftIn(p, Star, pub[p].allRef)

Due(p, left) == left \cap pub[p].owed

See(p, c) == pub' = [pub EXCEPT ![p].seen = @ \cup {c}]

(* for c := range subs *)
EmitToSub(p, c) ==
  /\ pub[p].pc = "subs"
  /\ c \in LeftInSubs(p)
  /\ Emit(c, pub[p].env)
  /\ See(p, c)
  /\ UNCHANGED <<hubVars, connVars, crashed>>

SubsDone(p) ==
  /\ pub[p].pc = "subs"
  /\ Due(p, LeftInSubs(p)) = {}
  /\ pub' = [pub EXCEPT ![p].pc = "all", ![p].seen = {}]
  /\ UNCHANGED <<hubVars, connVars, feedVars, crashed>>

(* for c := range all, passing over those that subs holds by now. *)
IsDup_Never(p, c) == FALSE
IsDup_Always(p, c) == pub[p].subsRef
IsDup(p, c) == pub[p].subsRef /\ c \in subs[pub[p].env.sess]

EmitToAll(p, c) ==
  /\ pub[p].pc = "all"
  /\ c \in LeftInAll(p)
  /\ IF IsDup(p, c) THEN UNCHANGED feedVars ELSE Emit(c, pub[p].env)
  /\ See(p, c)
  /\ UNCHANGED <<hubVars, connVars, crashed>>

AllDone(p) ==
  /\ pub[p].pc = "all"
  /\ Due(p, LeftInAll(p)) = {}
  /\ pub' = [pub EXCEPT ![p] = Idle]
  /\ UNCHANGED <<hubVars, connVars, feedVars, crashed>>

-----------------------------------------------------------------------------
(* Subscribe adds c to the map of k, making the map if there is none. *)
Subscribe(c, k) ==
  /\ lock = NoConn
  /\ subs' = [subs EXCEPT ![k] = @ \cup {c}]
  /\ made' = made \cup {k}
  /\ MapWrite(k)
  /\ UNCHANGED <<rings, lock>>

(* handleWS subscribes to the session, then to "*", then starts writeLoop. *)
Connect(c) ==
  /\ cpc[c] = "off"
  /\ Subscribe(c, SessOf[c])
  /\ cpc' = [cpc EXCEPT ![c] = "joining"]
  /\ UNCHANGED <<pub, toDelete, writer, feedVars>>

Join(c) ==
  /\ cpc[c] = "joining"
  /\ Subscribe(c, Star)
  /\ cpc' = [cpc EXCEPT ![c] = "on"]
  /\ writer' = [writer EXCEPT ![c] = TRUE]
  /\ UNCHANGED <<pub, toDelete, feedVars>>

(* writeLoop sends the next envelope; when that fails it returns, and the   *)
(* connection stays subscribed until readLoop fails too.                    *)
Write(c) ==
  /\ writer[c]
  /\ queue[c] # <<>>
  /\ queue' = [queue EXCEPT ![c] = Tail(@)]
  /\ UNCHANGED <<hubVars, pub, connVars, offers, crashed>>

WriteFails(c) ==
  /\ writer[c]
  /\ queue[c] # <<>>
  /\ queue' = [queue EXCEPT ![c] = Tail(@)]
  /\ writer' = [writer EXCEPT ![c] = FALSE]
  /\ UNCHANGED <<hubVars, pub, cpc, toDelete, offers, crashed>>

(* readLoop fails.  handleWS returns through its deferred calls: Unsubscribe *)
(* deletes c from one map after another, holding the lock, then the context *)
(* is cancelled and writeLoop ends.                                         *)
MapsToVisit(c) == made

Hangup(c) ==
  /\ cpc[c] = "on"
  /\ lock = NoConn
  /\ lock' = c
  /\ cpc' = [cpc EXCEPT ![c] = "leaving"]
  /\ toDelete' = [toDelete EXCEPT ![c] = MapsToVisit(c)]
  /\ UNCHANGED <<rings, subs, made, pub, writer, feedVars, crashed>>

DeleteFrom(c, k) ==
  /\ lock = c
  /\ k \in toDelete[c]
  /\ subs' = [subs EXCEPT ![k] = @ \ {c}]
  /\ toDelete' = [toDelete EXCEPT ![c] = @ \ {k}]
  /\ MapWrite(k)
  /\ UNCHANGED <<rings, made, lock, pub, cpc, writer, feedVars>>

Unlock(c) ==
  /\ lock = c
  /\ toDelete[c] = {}
  /\ lock' = NoConn
  /\ cpc' = [cpc EXCEPT ![c] = "gone"]
  /\ writer' = [writer EXCEPT ![c] = FALSE]
  /\ UNCHANGED <<rings, subs, made, pub, toDelete, feedVars, crashed>>

-----------------------------------------------------------------------------
PublisherStep(p) ==
  \/ \E s \in Sessions : Number(p, s)
  \/ \E c \in Conns : EmitToSub(p, c) \/ EmitToAll(p, c)
  \/ SubsDone(p)
  \/ AllDone(p)

ConnStep(c) ==
  \/ Connect(c)
  \/ Join(c)
  \/ Write(c)
  \/ WriteFails(c)
  \/ Hangup(c)
  \/ \E k \in Keys : DeleteFrom(c, k)
  \/ Unlock(c)

HubNext ==
  /\ ~crashed
  /\ \/ \E p \in Publishers : PublisherStep(p)
     \/ \E c \in Conns : ConnStep(c)

HubSpec == HubInit /\ [][HubNext]_vars

-----------------------------------------------------------------------------
(* A socket that is being served is offered no envelope twice, although it   *)
(* is in two of the maps that a publisher ranges over and the maps change    *)
(* under it.                                                                 *)
OfferedOnce ==
  \A c \in Conns : cpc[c] \in {"joining", "on"} =>
    \A e \in Envelopes : offers[c][e] <= 1

(* When Publish returns, every socket that was subscribed when the envelope *)
(* was numbered and has stayed on has been offered it, whatever joined or   *)
(* left in between.                                                         *)
FanoutIsComplete ==
  [][\A p \in Publishers :
       pub[p].pc = "all" /\ pub'[p].pc = "idle" =>
         \A c \in pub[p].owed :
           cpc[c] \in {"joining", "on"} => offers[c][pub[p].env] >= 1]_vars
=============================================================================
