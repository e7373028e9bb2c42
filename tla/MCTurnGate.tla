----------------------------- MODULE MCTurnGate -----------------------------
(* Three ordinary messages and one slash command of session A, one ordinary *)
(* message of session B.                                                    *)
EXTENDS TurnGate

CONSTANTS m1, m2, m3, other, slash, A, B

MCSessionOf == [m \in Msgs |-> IF m = other THEN B ELSE A]

MCPlain == {slash}
=============================================================================
