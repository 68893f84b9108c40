----------------------------- MODULE MCLauncher -----------------------------
(* An instance of Launcher for TLC: three events of a node, two of them on   *)
(* the core that runs the answers, and a front end asked for two nodes or    *)
(* for nonsense.                                                           *)
EXTENDS Launcher, TLC

CONSTANTS t1, t2, t3, c1, c2

MCEvents == {t1, t2, t3}
MCCores == {c1, c2}
MCCoreOf == (t1 :> c1) @@ (t2 :> c1) @@ (t3 :> c2)

MCRequests == {-1, 2}
=============================================================================
