--------------------------------- MODULE MCFS ---------------------------------
(* An instance of FS for TLC: four opens, so that one can follow a success,  *)
(* a failure and another one that is outstanding.                           *)
EXTENDS FS

CONSTANTS o1, o2, o3, o4, good, missing
MCCalls == {o1, o2, o3, o4}
MCPaths == {good, missing}
MCOpenable == {good}
===============================================================================
