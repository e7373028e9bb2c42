-------------------------- MODULE MCCronScheduler ---------------------------
(* Hours of two minutes and days of two hours.  One schedule of each form:   *)
(* two minutes, an even minute, the first minute after midnight with every,  *)
(* a time, and one that never matches.                                       *)
EXTENDS CronScheduler

Any == [is |-> "any", n |-> 0]
At(k) == [is |-> "at", n |-> k]
Form(kind, n, m, h) == [kind |-> kind, n |-> n, minute |-> m, hour |-> h]

MCSchedules ==
  {Form("duration", 2, Any, Any),
   Form("cron", 0, [is |-> "step", n |-> 2], Any),
   Form("everyCron", 0, At(1), At(0)),
   Form("once", 2, Any, Any),
   Form("cron", 0, [is |-> "other", n |-> 0], Any)}
=============================================================================
