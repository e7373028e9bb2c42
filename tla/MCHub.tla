------------------------------- MODULE MCHub --------------------------------
(* One socket on each of two sessions; both hear everything through "*". *)
EXTENDS Hub, TLC

CONSTANTS c1, c2, S1, S2, p1, p2

MCSessOf == [c \in Conns |-> IF c = c1 THEN S1 ELSE S2]

Symmetry == Permutations(Publishers)
=============================================================================
