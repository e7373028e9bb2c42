--------------------------- MODULE TerminalStream ---------------------------
(***************************************************************************)
(* One call of the terminal tool on the local backend.  The output of the   *)
(* command goes through its pipes to the two pumps of sandbox/local.go and  *)
(* backend.go, through the channel sch to the bridge in cmd/botreaper       *)
(* main.go, and through the channel ch to the collector of tools/bridges.go.*)
(* A line is a pair of its stream and its number in it; sizes are in units  *)
(* of which LineCap and OutCap are so many.                                 *)
(***************************************************************************)
EXTENDS Naturals, Sequences, FiniteSetsExt, SequencesExt

CONSTANTS
  Streams,    \* stdout and stderr
  Scripts,    \* what commands write: the sizes of the lines of each stream
  LineCap,    \* largest line that a Scanner takes (256 KB)
  OutCap,     \* the collector stops above it (256 KB)
  PipeCap,    \* lines a pipe holds
  ChanCap,    \* chunks each of the channels holds (64)
  NoChunk

ASSUME StreamAssumption ==
  /\ IsFiniteSet(Streams)
  /\ \A script \in Scripts : \A s \in Streams : script[s] \in Seq(Nat)
  /\ {LineCap, OutCap, PipeCap, ChanCap} \subseteq Nat \ {0}
  /\ NoChunk \notin Streams \X Nat

VARIABLES
  script,     \* what this command writes
  hangs,      \* it does not end by itself
  proc,       \* the process: "none", "running" or "exited"
  written,    \* lines written to each pipe
  taken,      \* lines that each pump has scanned
  closed,     \* the read ends of the pipes are closed
  pump,       \* where each pump is
  exec,       \* where Exec is
  sch, schClosed,
  bridge,     \* where the bridge is
  held,       \* the chunk in its hands
  ch, chClosed,
  collector,  \* "reading" or "stopped"
  out,        \* what it has collected
  tctx,       \* the call is out of time (five minutes) or cancelled
  returned    \* the handler has returned

procVars   == <<script, hangs, proc, written>>
execVars   == <<taken, closed, pump, exec>>
bridgeVars == <<bridge, held>>
chanVars   == <<sch, schClosed, ch, chClosed>>
collVars   == <<collector, out>>
termVars == <<procVars, execVars, bridgeVars, chanVars, collVars, tctx, returned>>

Chunks == Streams \X (Nat \ {0})

TermTypeOK ==
  /\ script \in Scripts /\ hangs \in BOOLEAN
  /\ proc \in {"none", "running", "exited"}
  /\ \A s \in Streams : taken[s] \in 0 .. written[s] /\ written[s] <= Len(script[s])
  /\ pump \in [Streams -> {"none", "scanning", "sending", "done"}]
  /\ exec \in {"starting", "waiting", "joining", "returned"}
  /\ sch \in Seq(Chunks) /\ Len(sch) <= ChanCap
  /\ ch \in Seq(Chunks) /\ Len(ch) <= ChanCap
  /\ bridge \in {"receiving", "sending", "done"}
  /\ held \in Chunks \cup {NoChunk}
  /\ collector \in {"reading", "stopped"}
  /\ out \in Seq(Chunks)
  /\ {closed, schClosed, chClosed, tctx, returned} \subseteq BOOLEAN

TermInit ==
  /\ script \in Scripts /\ hangs \in BOOLEAN
  /\ proc = "none"
  /\ written = [s \in Streams |-> 0]
  /\ taken = [s \in Streams |-> 0]
  /\ closed = FALSE
  /\ pump = [s \in Streams |-> "none"]
  /\ exec = "starting"
  /\ sch = <<>> /\ schClosed = FALSE
  /\ bridge = "receiving" /\ held = NoChunk
  /\ ch = <<>> /\ chClosed = FALSE
  /\ collector = "reading" /\ out = <<>>
  /\ tctx = FALSE
  /\ returned = FALSE

(* The line that the pump of s has scanned last. *)
Line(s) == <<s, taken[s]>>

Size(c) == script[c[1]][c[2]]

PumpAt(s, place) == pump' = [pump EXCEPT ![s] = place]

-----------------------------------------------------------------------------
(* The command writes, blocks on a full pipe, exits or is killed. *)
WriteLine(s) ==
  /\ proc = "running"
  /\ written[s] < Len(script[s])
  /\ written[s] - taken[s] < PipeCap
  /\ written' = [written EXCEPT ![s] = @ + 1]
  /\ UNCHANGED <<script, hangs, proc, execVars, bridgeVars, chanVars, collVars,
                 tctx, returned>>

Exit ==
  /\ proc = "running"
  /\ \/ tctx
     \/ ~hangs /\ \A s \in Streams : written[s] = Len(script[s])
  /\ proc' = "exited"
  /\ UNCHANGED <<script, hangs, written, execVars, bridgeVars, chanVars,
                 collVars, tctx, returned>>

Timeout ==
  /\ ~tctx /\ ~returned
  /\ tctx' = TRUE
  /\ UNCHANGED <<procVars, execVars, bridgeVars, chanVars, collVars, returned>>

-----------------------------------------------------------------------------
(* Exec starts the command and the pumps, or fails to. *)
StartCommand ==
  /\ exec = "starting"
  /\ ~tctx
  /\ exec' = "waiting"
  /\ proc' = "running"
  /\ pump' = [s \in Streams |-> "scanning"]
  /\ UNCHANGED <<script, hangs, written, taken, closed, bridgeVars, chanVars,
                 collVars, tctx, returned>>

StartFails ==
  /\ exec = "starting"
  /\ exec' = "returned"
  /\ UNCHANGED <<procVars, taken, closed, pump, bridgeVars, chanVars, collVars,
                 tctx, returned>>

(* c.Wait returns with the exit of the process, and closes the pipes. *)
Wait ==
  /\ exec = "waiting"
  /\ proc = "exited"
  /\ closed' = TRUE
  /\ exec' = "joining"
  /\ UNCHANGED <<procVars, taken, pump, bridgeVars, chanVars, collVars, tctx,
                 returned>>

(* wg.Wait *)
PumpsDone_Unawaited == TRUE
PumpsDone == \A s \in Streams : pump[s] = "done"

Join ==
  /\ exec = "joining"
  /\ PumpsDone
  /\ exec' = "returned"
  /\ UNCHANGED <<procVars, taken, closed, pump, bridgeVars, chanVars, collVars,
                 tctx, returned>>

(* A line is scanned.  After the pipes are closed a Scanner still has what   *)
(* it read before; a line above its limit ends the pump.                     *)
Scan(s) ==
  /\ pump[s] = "scanning"
  /\ taken[s] < written[s]
  /\ taken' = [taken EXCEPT ![s] = @ + 1]
  /\ PumpAt(s, IF script[s][taken[s] + 1] > LineCap THEN "done" ELSE "sending")
  /\ UNCHANGED <<procVars, closed, exec, bridgeVars, chanVars, collVars, tctx,
                 returned>>

ScanEnds(s) ==
  /\ pump[s] = "scanning"
  /\ \/ closed
     \/ proc = "exited" /\ taken[s] = written[s]
  /\ PumpAt(s, "done")
  /\ UNCHANGED <<procVars, taken, closed, exec, bridgeVars, chanVars, collVars,
                 tctx, returned>>

HasRoom(queue) == Len(queue) < ChanCap

PumpSends(s) ==
  /\ pump[s] = "sending"
  /\ HasRoom(sch)
  /\ sch' = Append(sch, Line(s))
  /\ PumpAt(s, "scanning")
  /\ UNCHANGED <<procVars, taken, closed, exec, bridgeVars, schClosed, ch,
                 chClosed, collVars, tctx, returned>>

PumpGivesUp(s) ==
  /\ pump[s] = "sending"
  /\ tctx
  /\ PumpAt(s, "done")
  /\ UNCHANGED <<procVars, taken, closed, exec, bridgeVars, chanVars, collVars,
                 tctx, returned>>

Pump(s) == Scan(s) \/ ScanEnds(s) \/ PumpSends(s) \/ PumpGivesUp(s)

-----------------------------------------------------------------------------
CloseSch ==
  /\ exec = "returned" /\ ~schClosed
  /\ schClosed' = TRUE
  /\ UNCHANGED <<procVars, execVars, bridgeVars, sch, ch, chClosed, collVars,
                 tctx, returned>>

BridgeReceives ==
  /\ bridge = "receiving"
  /\ sch # <<>>
  /\ held' = Head(sch) /\ sch' = Tail(sch)
  /\ bridge' = "sending"
  /\ UNCHANGED <<procVars, execVars, schClosed, ch, chClosed, collVars, tctx,
                 returned>>

BridgeSends ==
  /\ bridge = "sending"
  /\ HasRoom(ch)
  /\ ch' = Append(ch, held)
  /\ held' = NoChunk
  /\ bridge' = "receiving"
  /\ UNCHANGED <<procVars, execVars, sch, schClosed, chClosed, collVars, tctx,
                 returned>>

(* The bridge lets go of a chunk that nobody takes when time is up. *)
MayDrop_Never == FALSE
MayDrop_Always == TRUE
MayDrop == tctx

BridgeDrops ==
  /\ bridge = "sending"
  /\ MayDrop
  /\ held' = NoChunk
  /\ bridge' = "receiving"
  /\ UNCHANGED <<procVars, execVars, chanVars, collVars, tctx, returned>>

BridgeEnds ==
  /\ bridge = "receiving"
  /\ sch = <<>> /\ schClosed
  /\ bridge' = "done"
  /\ UNCHANGED <<procVars, execVars, held, chanVars, collVars, tctx, returned>>

Bridge == BridgeReceives \/ BridgeSends \/ BridgeDrops \/ BridgeEnds

-----------------------------------------------------------------------------
CloseCh ==
  /\ bridge = "done" /\ ~chClosed
  /\ chClosed' = TRUE
  /\ UNCHANGED <<procVars, execVars, bridgeVars, sch, schClosed, ch, collVars,
                 tctx, returned>>

Collected(o) == FoldLeft(LAMBDA n, c : n + Size(c), 0, o)

(* The collector reads on until there is too much. *)
HasEnough(o) == Collected(o) > OutCap

Collect ==
  /\ collector = "reading"
  /\ ch # <<>>
  /\ out' = Append(out, Head(ch)) /\ ch' = Tail(ch)
  /\ collector' = IF HasEnough(out') THEN "stopped" ELSE "reading"
  /\ UNCHANGED <<procVars, execVars, bridgeVars, sch, schClosed, chClosed, tctx,
                 returned>>

CollectorEnds ==
  /\ collector = "reading"
  /\ ch = <<>> /\ chClosed
  /\ collector' = "stopped"
  /\ UNCHANGED <<procVars, execVars, bridgeVars, chanVars, out, tctx, returned>>

Return ==
  /\ chClosed /\ collector = "stopped"
  /\ ~returned
  /\ returned' = TRUE
  /\ UNCHANGED <<procVars, execVars, bridgeVars, chanVars, collVars, tctx>>

-----------------------------------------------------------------------------
Command == Exit \/ \E s \in Streams : WriteLine(s)

Exec == StartCommand \/ StartFails \/ Wait \/ Join \/ CloseSch

Handler == CloseCh \/ Return

TermNext ==
  \/ Command
  \/ Exec
  \/ \E s \in Streams : Pump(s)
  \/ Bridge
  \/ Collect \/ CollectorEnds
  \/ Handler
  \/ Timeout

TermSpec == TermInit /\ [][TermNext]_termVars

(* Goroutines run, and a process writes what it has to write, or is killed.  *)
(* The time limit need never come.                                           *)
TermFairSpec ==
  /\ TermSpec
  /\ WF_termVars(Exec) /\ WF_termVars(Exit)
  /\ \A s \in Streams : WF_termVars(WriteLine(s)) /\ WF_termVars(Pump(s))
  /\ WF_termVars(Bridge) /\ WF_termVars(Collect \/ CollectorEnds) /\ WF_termVars(Handler)

-----------------------------------------------------------------------------
(* Nobody is left who would send on a channel that has been closed, which    *)
(* would end the program: the pumps before sch, the bridge before ch.        *)
ClosedHasNoSender ==
  /\ schClosed => \A s \in Streams : pump[s] \in {"none", "done"}
  /\ chClosed => bridge = "done"

(* Everything between the pumps and the handler's answer, oldest first. *)
Sent == out \o ch \o (IF held = NoChunk THEN <<>> ELSE <<held>>) \o sch

SentBy(s) == {i \in 1 .. Len(Sent) : Sent[i][1] = s}
LinesOf(s) == {Sent[i][2] : i \in SentBy(s)}

(* The line with which the pump of s waits for room. *)
InHand(s) == IF pump[s] = "sending" THEN {taken[s]} ELSE {}

(* The lines a pump has scanned, but for one that was too long for it. *)
Scanned(s) == {n \in 1 .. taken[s] : Size(<<s, n>>) <= LineCap}

(* What the pumps have scanned is in hand, on its way or collected, each line *)
(* of a stream once at most and in its order, through both full channels and *)
(* when the collector has stopped; until time is up, none of it is lost.     *)
ScannedIsInTransit ==
  \A s \in Streams :
    /\ InHand(s) \subseteq Scanned(s)
    /\ LinesOf(s) \subseteq Scanned(s) \ InHand(s)
    /\ \A i, j \in SentBy(s) : i < j => Sent[i][2] < Sent[j][2]
    /\ ~tctx => LinesOf(s) = Scanned(s) \ InHand(s)

(* The end of the time limit ends the call, wherever its output is stuck. *)
TimeoutEndsCall == tctx ~> returned

=============================================================================
