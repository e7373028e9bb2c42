-------------------------- MODULE MCTerminalStream --------------------------
(* A short command, one whose output is too large, one with a long line. *)
EXTENDS TerminalStream, TLC

CONSTANTS stdout, stderr

Script(o, e) == stdout :> o @@ stderr :> e

MCScripts ==
  {Script(<<1, 1>>, <<1>>), Script(<<2, 2, 1, 1, 1>>, <<>>), Script(<<4, 1>>, <<1>>)}
=============================================================================
