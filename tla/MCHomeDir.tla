----------------------------- MODULE MCHomeDir ------------------------------
(* A turn of the first process creates its session, counts its call and runs *)
(* a round of three calls on two workers, two of which save notes; in the    *)
(* second process, which may end, a turn saves a note and appends its result.*)
EXTENDS HomeDir

CONSTANTS p1, p2, r1, r2, w1, w2

MCRounds == {r1, r2}
MCPoolOf == (r1 :> p1) @@ (r2 :> p2)
MCCallsOf == (r1 :> 3) @@ (r2 :> 1)
MCRowsOf == (r1 :> 3) @@ (r2 :> 1) @@ (w1 :> 1) @@ (w2 :> 1)
MCWriters == {r1, r2, w1, w2}
MCProcessOf == (r1 :> p1) @@ (r2 :> p2) @@ (w1 :> p1) @@ (w2 :> p1)
MCOpOf == (r1 :> "append") @@ (r2 :> "append") @@ (w1 :> "create") @@ (w2 :> "bump")
MCBefore == (w1 :> Nobody) @@ (w2 :> w1) @@ (r1 :> w2) @@ (r2 :> Nobody)
MCSavers == {<<r1, 1>>, <<r1, 2>>, <<r2, 1>>}
MCMisread == {<<r1, 2>>}
MCHomeOf == [s \in MCSavers |-> MCPoolOf[s[1]]]
=============================================================================
