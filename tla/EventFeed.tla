----------------------------- MODULE EventFeed ------------------------------
(***************************************************************************)
(* What the replay of a session promises a client that reconnects: the      *)
(* events it holds are consecutive.  It holds those from "from + 1" to      *)
(* "upto"; it reads on from where it is, or is told to start over from a    *)
(* snapshot.                                                                *)
(***************************************************************************)
EXTENDS Integers

VARIABLES
  head,   \* events published so far
  from,   \* the client holds the events after this one ...
  upto    \* ... up to this one

vars == <<head, from, upto>>

Init == head = 0 /\ from = 0 /\ upto = 0

Publish ==
  /\ head' = head + 1
  /\ UNCHANGED <<from, upto>>

(* The client reads some of the events it has not seen, in order. *)
Read ==
  /\ upto' \in upto + 1 .. head
  /\ UNCHANGED <<head, from>>

(* A client that holds nothing may join late, at a later event. *)
Join ==
  /\ from = upto
  /\ from' \in from .. head
  /\ upto' \in from' + 1 .. head
  /\ UNCHANGED head

(* A client that has fallen too far behind takes a snapshot of everything. *)
Resync ==
  /\ from' = 0
  /\ upto' = head
  /\ UNCHANGED head

(* A client that reloads has forgotten everything. *)
Reload ==
  /\ from' = 0
  /\ upto' = 0
  /\ UNCHANGED head

Next == Publish \/ Read \/ Join \/ Resync \/ Reload

Spec == Init /\ [][Next]_vars
=============================================================================
