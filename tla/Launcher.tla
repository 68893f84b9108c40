------------------------------ MODULE Launcher ------------------------------
(***************************************************************************)
(* The hosted programs of cmdserver and helloworld, which publish the        *)
(* address of their Printer in global_id_map and then boot back ends, and    *)
(* what that means for a back end: one node's faults (PrinterFault), whose   *)
(* questions are answered by this front end.                                *)
(*                                                                         *)
(* cmdserver boots as many nodes as its argument says and reports once that  *)
(* all are up; helloworld does the same with one node, the report apart.     *)
(* Either can be interrupted.  Nobody publishes anything for cmdServer.     *)
(***************************************************************************)
EXTENDS PrinterFault, Integers

CONSTANT Requests \* the values of NumNodes considered: what atoi can return

ASSUME RequestsAssumption == Requests \subseteq Int

VARIABLES
  NumNodes,
  front,     \* where the front end's program is
  published, \* the Set of the Printer's address has been answered
  nodes,     \* the nodes that were allocated
  ALLOCATED_NODES, \* those whose NetworkId is known
  reports    \* how often the allocation time was printed

frontVars == <<NumNodes, front, published, nodes, ALLOCATED_NODES, reports>>
allVars == <<vars, frontVars>>

LaunchInit ==
  /\ Init
  /\ NumNodes \in Requests
  /\ front = "AppMain"
  /\ published = FALSE
  /\ nodes = 0
  /\ ALLOCATED_NODES = 0
  /\ reports = 0

----------------------------------------------------------------------------
(* A seeded fault: nodes are allocated without waiting for the Set.         *)
PrinterInit_NoThen ==
  /\ front = "AppMain"
  /\ front' = "allocate"
  /\ UNCHANGED <<NumNodes, published, nodes, ALLOCATED_NODES, reports>>

(* Printer::Init issues the Set; the rest is a continuation of its answer.   *)
PrinterInit ==
  /\ front = "AppMain"
  /\ front' = "setting"
  /\ UNCHANGED <<NumNodes, published, nodes, ALLOCATED_NODES, reports>>

SetDone ==
  /\ front = "setting"
  /\ published' = TRUE
  /\ front' = "allocate"
  /\ UNCHANGED <<NumNodes, nodes, ALLOCATED_NODES, reports>>

(* f.Get() rethrows in the continuation: no node, and nobody is told.        *)
SetFails ==
  /\ front = "setting"
  /\ front' = "threw"
  /\ UNCHANGED <<NumNodes, published, nodes, ALLOCATED_NODES, reports>>

(* The loop is one event: no NetworkId arrives meanwhile.  An allocation that *)
(* throws ends cmdserver's process and helloworld's continuation, whatever    *)
(* was allocated before.                                                    *)
AllocateNodes ==
  /\ front = "allocate"
  /\ \/ /\ nodes' = IF NumNodes > 0 THEN NumNodes ELSE 0
        /\ front' = "serving"
     \/ /\ nodes' \in 0 .. NumNodes - 1
        /\ front' \in {"exited", "threw"}
  /\ UNCHANGED <<NumNodes, published, ALLOCATED_NODES, reports>>

(* A node has come up and told its NetworkId.                               *)
NodeUp ==
  /\ front \in {"serving", "threw"}
  /\ ALLOCATED_NODES < nodes
  /\ ALLOCATED_NODES' = ALLOCATED_NODES + 1
  /\ reports' = IF ALLOCATED_NODES' = NumNodes THEN reports + 1 ELSE reports
  /\ UNCHANGED <<NumNodes, front, published, nodes>>

Interrupt ==
  /\ front # "exited"
  /\ front' = "exited"
  /\ UNCHANGED <<NumNodes, published, nodes, ALLOCATED_NODES, reports>>

FrontEnd ==
  /\ PrinterInit \/ SetDone \/ SetFails \/ AllocateNodes \/ NodeUp \/ Interrupt
  /\ UNCHANGED vars

----------------------------------------------------------------------------
(* A node asks for what is published; it is answered with an error if it is  *)
(* not, or if the front end is gone.  CmdServer's lambda takes an error for  *)
(* an answer.                                                               *)
AsPublished ==
  \A t \in Events :
    /\ (<<"Printer", t>> \in live' \ live) => published
    /\ (pc[t] # "failed" /\ pc'[t] = "failed") => ~published \/ front = "exited"

Node == nodes > 0 /\ Next /\ AsPublished /\ UNCHANGED frontVars

NodeOwn(t, e) == Own(t, e) /\ UNCHANGED frontVars
NodeAnswered(t, e) == Answered(t, e) /\ AsPublished /\ UNCHANGED frontVars

LaunchNext == FrontEnd \/ Node

LaunchSpec == LaunchInit /\ [][LaunchNext]_allVars

(* The node runs its events, and its questions are answered.                *)
LaunchFairSpec ==
  /\ LaunchSpec
  /\ \A t \in Events : \A e \in Ebbs :
       WF_allVars(NodeOwn(t, e)) /\ WF_allVars(NodeAnswered(t, e))

----------------------------------------------------------------------------
(* Every variable stays in its type: no more nodes come up than were         *)
(* allocated, and the allocation time is reported at most once, which is     *)
(* when all of them are up.                                                 *)
LaunchTypeOK ==
  /\ TypeOK
  /\ NumNodes \in Requests
  /\ front \in {"AppMain", "setting", "allocate", "serving", "threw", "exited"}
  /\ published \in BOOLEAN
  /\ nodes \in Nat
  /\ ALLOCATED_NODES \in 0 .. nodes
  /\ reports = IF ALLOCATED_NODES = NumNodes /\ NumNodes > 0 THEN 1 ELSE 0

(* A node that dereferences printer finds the front end's address: a fault   *)
(* fails only if the front end is gone, because no node boots before the     *)
(* address has been published.                                              *)
PrinterFound ==
  \A t \in Events : pc[t] = "failed" => published /\ front = "exited"
=============================================================================
