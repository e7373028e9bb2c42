-------------------------- MODULE MCSessionStream ---------------------------
(* Deltas and tool frames, and three timers: two flushes that run late, and  *)
(* a third timer that is armed behind them; a ring that is rotated twice.    *)
EXTENDS SessionStream

CONSTANTS token, tool, k1, k2, k3
=============================================================================
