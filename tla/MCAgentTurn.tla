---------------------------- MODULE MCAgentTurn -----------------------------
(* Two turns submitted to one agent, and two presses of ctrl+c. *)
EXTENDS AgentTurn, TLC

CONSTANTS t1, t2, p1, p2

Symmetry == Permutations(Turns) \cup Permutations(Presses)
=============================================================================
