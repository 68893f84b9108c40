------------------------------- MODULE MCMPTest -------------------------------
(* An instance of MPTest for TLC: a test that calls it from one place, as    *)
(* timing_test and nullfunc_test do, and is repeated.                       *)
EXTENDS MPTest
============================================================================
