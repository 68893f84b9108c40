------------------------------ MODULE MCCounters ------------------------------
(* An instance of Counters for TLC: three cores asked for by a negative      *)
(* number, and two rounds of the three calls, so that each barrier is used   *)
(* by two calls.                                                           *)
EXTENDS Counters

Negative == -1
===============================================================================
