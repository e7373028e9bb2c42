--------------------------- MODULE SessionStream ----------------------------
(***************************************************************************)
(* The stream of one session from the turn to a client that reconnects: each *)
(* frame that the coalescer of ws/client.go hands to Hub.Publish is numbered *)
(* and kept by the session's ring of ws/replay.go.  An envelope is its type; *)
(* carried tells, beside it, which deltas are in it.                         *)
(***************************************************************************)
EXTENDS Coalescer, ReplayRing

ASSUME StreamAssumption == Events = Frames /\ MaxPushes = MaxAdds

VARIABLE carried   \* history: the deltas of each envelope

streamVars == <<vars, ringVars, carried>>

StreamInit == Init /\ RingInit /\ carried = <<>>

-----------------------------------------------------------------------------
Quiet == UNCHANGED <<ringVars, carried>>

(* Hub.Publish *)
Keep(t, deltas) ==
  /\ Store(t)
  /\ carried' = Append(carried, deltas)

AddFrame(t) ==
  /\ AddDirect(t)
  /\ Keep(t, <<added + 1>>)

FlushStep(f) ==
  \/ (Take(f) \/ Return(f)) /\ Quiet
  \/ \E t \in Types : Publish(f, t) /\ Keep(t, batch[f][t])

FireTimer(k) == Fire(k) /\ Quiet

Client ==
  /\ \/ \E limit \in Limits : Replay(limit) \/ Resync(limit)
     \/ Reload
  /\ UNCHANGED <<vars, carried>>

StreamNext ==
  \/ \E t \in Types : Add(t) /\ Quiet
  \/ \E t \in Direct : AddFrame(t)
  \/ StopTimer /\ Quiet
  \/ \E k \in Timers : FireTimer(k)
  \/ \E f \in Flushers : FlushStep(f)
  \/ Client

StreamSpec == StreamInit /\ [][StreamNext]_streamVars

(* As in Coalescer: nothing is asked of the turn, or of the client. *)
StreamFairSpec ==
  /\ StreamSpec
  /\ \A k \in Timers : WF_streamVars(FireTimer(k))
  /\ \A f \in Flushers : WF_streamVars(FlushStep(f))

-----------------------------------------------------------------------------
(* A client that has caught up after the last flush knows the whole turn:    *)
(* the envelopes it holds since its first one, or its snapshot, carry every  *)
(* delta that was added after them exactly once, whichever flush took it and *)
(* however often the client reconnected in between.                          *)
Carried(i) == {carried[i][j] : j \in DOMAIN carried[i]}

CaughtUp ==
  /\ cursor = Last(ring) /\ held = 1 .. cursor
  /\ pending = Nothing /\ \A f \in Flushers : batch[f] = Nothing

CaughtUpKnowsAll ==
  CaughtUp => \A n \in 1 .. added :
    Cardinality({i \in held : n \in Carried(i)}) = 1
=============================================================================
