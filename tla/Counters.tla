------------------------------- MODULE Counters -------------------------------
(***************************************************************************)
(* The multiprocessor counter tests of ubench (mp_test): MPTest, whose work  *)
(* is here a loop over one counter that all cores share.  A test creates a   *)
(* counter, makes three calls of MPTest (every core increments it cnt       *)
(* times, then decrements it, then reads it) and destroys it; -R repeats.    *)
(*                                                                         *)
(* The counter is an atomic on the heap, an atomic behind an Ebb with one    *)
(* representative, or an Ebb with one representative per core, each with a   *)
(* plain int, whose value is gathered from all of them.  A core obtains its  *)
(* representative when it first uses the counter.                           *)
(***************************************************************************)
EXTENDS MPTest

CONSTANTS
  Kinds   \* the counters under test: a subset of KindType

KindType == {"MPSharedCtr", "MPSharedEbbCtr", "MPMultiEbbCtr"}

ASSUME KindsAssumption == Kinds \subseteq KindType /\ Kinds # {}
ASSUME SitesAssumption == Sites = 3 /\ cnt > 0

VARIABLES
  kind,    \* the counter's class
  made,    \* how many counters were created
  gone,    \* how many were destroyed
  val,     \* val[i]: _val of core i's representative; a shared one is core 0's
  reps,    \* repArray: the cores whose representative is registered
  cached,  \* the cores that have cached their representative
  at,      \* at[i]: where the loop on core i is
  left,    \* left[i]: the iterations it has left
  reg,     \* reg[i]: the register between a load and a store; gval
  slotAt,  \* slotAt[i]: where gatherVal has come to in repArray
  sum      \* sum[i]: the loop's rc

ctrVars == <<kind, made, gone, val, reps, cached, at, left, reg, slotAt, sum>>
loopVars == <<at, left, reg, slotAt, sum>>

CtrInit ==
  /\ Init
  /\ kind \in Kinds
  /\ made = 0
  /\ gone = 0
  /\ val = [i \in Cpus |-> 0]
  /\ reps = {}
  /\ cached = {}
  /\ at = [i \in Cpus |-> "enter"]
  /\ left = [i \in Cpus |-> 0]
  /\ reg = [i \in Cpus |-> 0]
  /\ slotAt = [i \in Cpus |-> 0]
  /\ sum = [i \in Cpus |-> 0]

Inc == 1
Dec == 2
Val == 3

Multi == kind = "MPMultiEbbCtr"

(* Whose representative core i uses.                                        *)
RepOf(i) == IF Multi THEN i ELSE 0

----------------------------------------------------------------------------
(* The caller                                                               *)

(* new MPSharedCtr, or Create with an id of its own: no core has cached it.  *)
Create ==
  /\ main = "enter" /\ call < Calls
  /\ made = gone /\ call = Sites * made
  /\ made' = made + 1
  /\ val' = [i \in Cpus |-> 0]
  /\ reps' = {}
  /\ cached' = {}
  /\ UNCHANGED <<vars, kind, gone, loopVars>>

(* delete, or destroy of the representative or of the root and of all those  *)
(* it has registered.                                                       *)
Destroy ==
  /\ main \in {"enter", "done"}
  /\ made > gone /\ call = Sites * made
  /\ gone' = made
  /\ reps' = {}
  /\ UNCHANGED <<vars, kind, made, val, cached, loopVars>>

CallMPTest ==
  /\ main = "enter" => made > gone /\ call < Sites * made
  /\ Caller
  /\ UNCHANGED ctrVars

----------------------------------------------------------------------------
(* The work of one core                                                     *)

Working(i, place) == pc[i] = "work" /\ at[i] = place

(* The first use: HandleFault caches the representative, and a multicore     *)
(* Ebb's is constructed for this core and enters itself in repArray.         *)
Deref(i) ==
  /\ Working(i, "enter")
  /\ at' = [at EXCEPT ![i] = "loop"]
  /\ left' = [left EXCEPT ![i] = cnt]
  /\ sum' = [sum EXCEPT ![i] = 0]
  /\ IF Multi /\ i \notin cached
       THEN reps' = reps \cup {i} /\ val' = [val EXCEPT ![i] = 0]
       ELSE UNCHANGED <<reps, val>>
  /\ cached' = IF kind = "MPSharedCtr" THEN {} ELSE cached \cup {i}
  /\ UNCHANGED <<vars, kind, made, gone, reg, slotAt>>

(* A seeded fault: the shared counters are plain ints.                      *)
Atomic_Never == FALSE

(* _val++ and _val-- of a std::atomic.                                      *)
Atomic == ~Multi

Op(i) == SiteOf(mine[i])

Changed(i, v) == IF Op(i) = Inc THEN v + 1 ELSE v - 1

AtomicOp(i) ==
  /\ Working(i, "loop") /\ left[i] > 0
  /\ Atomic /\ Op(i) \in {Inc, Dec}
  /\ val' = [val EXCEPT ![RepOf(i)] = Changed(i, @)]
  /\ left' = [left EXCEPT ![i] = @ - 1]
  /\ UNCHANGED <<vars, kind, made, gone, reps, cached, at, reg, slotAt, sum>>

(* asm("inc %0" : "+r"(_val)): a load, the change of a register, a store.   *)
Load(i) ==
  /\ Working(i, "loop") /\ left[i] > 0
  /\ ~Atomic /\ Op(i) \in {Inc, Dec}
  /\ reg' = [reg EXCEPT ![i] = Changed(i, val[RepOf(i)])]
  /\ at' = [at EXCEPT ![i] = "store"]
  /\ UNCHANGED <<vars, kind, made, gone, val, reps, cached, left, slotAt, sum>>

StoreVal(i) ==
  /\ Working(i, "store")
  /\ val' = [val EXCEPT ![RepOf(i)] = reg[i]]
  /\ left' = [left EXCEPT ![i] = @ - 1]
  /\ at' = [at EXCEPT ![i] = "loop"]
  /\ UNCHANGED <<vars, kind, made, gone, reps, cached, reg, slotAt, sum>>

(* rc += val() of a shared counter.                                         *)
ReadVal(i) ==
  /\ Working(i, "loop") /\ left[i] > 0
  /\ ~Multi /\ Op(i) = Val
  /\ sum' = [sum EXCEPT ![i] = @ + val[0]]
  /\ left' = [left EXCEPT ![i] = @ - 1]
  /\ UNCHANGED <<vars, kind, made, gone, val, reps, cached, at, reg, slotAt>>

(* gatherVal walks through repArray until it has met a representative per    *)
(* core, or its end, and keeps (not adds) what it finds.                    *)
GatherStart(i) ==
  /\ Working(i, "loop") /\ left[i] > 0
  /\ Multi /\ Op(i) = Val
  /\ reg' = [reg EXCEPT ![i] = 0]
  /\ slotAt' = [slotAt EXCEPT ![i] = 0]
  /\ at' = [at EXCEPT ![i] = "gather"]
  /\ UNCHANGED <<vars, kind, made, gone, val, reps, cached, left, sum>>

GatherStep(i) ==
  /\ Working(i, "gather") /\ slotAt[i] < NumCpus
  /\ reg' = [reg EXCEPT ![i] = IF slotAt[i] \in reps THEN val[slotAt[i]] ELSE @]
  /\ slotAt' = [slotAt EXCEPT ![i] = @ + 1]
  /\ UNCHANGED <<vars, kind, made, gone, val, reps, cached, at, left, sum>>

GatherEnd(i) ==
  /\ Working(i, "gather") /\ slotAt[i] = NumCpus
  /\ sum' = [sum EXCEPT ![i] = @ + reg[i]]
  /\ left' = [left EXCEPT ![i] = @ - 1]
  /\ at' = [at EXCEPT ![i] = "loop"]
  /\ UNCHANGED <<vars, kind, made, gone, val, reps, cached, reg, slotAt>>

(* The loop returns the number of its iterations, or the sum it has read.    *)
LoopEnd(i) ==
  /\ Working(i, "loop") /\ left[i] = 0
  /\ WorkReturns(i, IF Op(i) = Val THEN sum[i] ELSE cnt)
  /\ at' = [at EXCEPT ![i] = "enter"]
  /\ UNCHANGED <<kind, made, gone, val, reps, cached, left, reg, slotAt, sum>>

CtrWork(i) ==
  \/ Deref(i) \/ AtomicOp(i) \/ Load(i) \/ StoreVal(i) \/ ReadVal(i)
  \/ GatherStart(i) \/ GatherStep(i) \/ GatherEnd(i) \/ LoopEnd(i)
  \/ Harness(i) /\ UNCHANGED ctrVars

CtrCaller == Create \/ Destroy \/ CallMPTest

CtrNext == CtrCaller \/ \E i \in Cpus : CtrWork(i)

allVars == <<vars, ctrVars>>

CtrSpec == CtrInit /\ [][CtrNext]_allVars

(* Every core runs.                                                         *)
CtrFairSpec == CtrSpec /\ WF_allVars(CtrCaller) /\ \A i \in Cpus : WF_allVars(CtrWork(i))

----------------------------------------------------------------------------
(* Every variable stays in its type; no core has come beyond the counter's   *)
(* bounds, and only cores that work on it are at a place in the loop.        *)
CtrTypeOK ==
  /\ TypeOK
  /\ kind \in Kinds
  /\ made \in 0 .. Calls /\ gone \in made - 1 .. made
  /\ val \in [Cpus -> -(n * cnt) .. n * cnt]
  /\ reps \subseteq Workers /\ cached \subseteq Workers
  /\ at \in [Cpus -> {"enter", "loop", "store", "gather"}]
  /\ \A i \in Cpus : at[i] # "enter" => pc[i] = "work"
  /\ left \in [Cpus -> 0 .. cnt]
  /\ slotAt \in [Cpus -> 0 .. NumCpus]
  /\ reg \in [Cpus -> Int] /\ sum \in [Cpus -> Int]

(* What the tests measure is a counter that counts: however the cores race,  *)
(* no increment is lost, what was incremented is decremented again, and      *)
(* every core reads 0 -- although gatherVal keeps the value of the last      *)
(* representative where it should add them all, which the 0 hides.          *)
Total ==
  LET upTo[i \in Cpus] == val[i] + IF i = 0 THEN 0 ELSE upTo[i - 1]
  IN  upTo[NumCpus - 1]

CountsAddUp ==
  main = "report" =>
    /\ Total = IF SiteOf(call) = Inc THEN n * cnt ELSE 0
    /\ \A i \in Workers : results[i].rc = IF SiteOf(call) = Val THEN 0 ELSE cnt
===============================================================================
