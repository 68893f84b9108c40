----------------------------- MODULE MCCmdServer -----------------------------
(* Instances of CmdServer for TLC.  A buffer of 4 bytes and windows of one  *)
(* byte: a message of two bytes takes two windows, and two clients of two   *)
(* bytes each overfill the buffer.                                          *)
EXTENDS CmdServer

CONSTANTS k1, k2
TwoConns == {k1, k2}
============================================================================
