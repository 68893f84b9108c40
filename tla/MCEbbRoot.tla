------------------------------ MODULE MCEbbRoot ------------------------------
(* An instance of EbbRoot for TLC: three events, two of them on one core.    *)
(* All three fault on InputStream, whose constructor may throw, and each    *)
(* also on one of the other classes.                                        *)
EXTENDS EbbRoot, TLC

CONSTANTS t1, t2, t3, c1, c2

MCEvents == {t1, t2, t3}
MCCores == {c1, c2}
MCCoreOf == (t1 :> c1) @@ (t2 :> c1) @@ (t3 :> c2)
MCUses ==
  (t1 :> {"InputStream", "FS"}) @@ (t2 :> {"InputStream", "Environment"})
    @@ (t3 :> {"InputStream", "CmdLineArgs"})
============================================================================
