--------------------------- MODULE EbbRoot_proofs ---------------------------
(***************************************************************************)
(* EbbRoot's safety, for any number of events, cores and classes.           *)
(*                                                                         *)
(* OneRep is not inductive: that a second construction cannot happen needs  *)
(* to know that whoever is about to construct owns the mutex and that       *)
(* theRep_ is still NULL (EventsOK, MutexHeld), that a failed Get leaves    *)
(* nobody there whose lock the illegal unlock could take away (RootsOK),    *)
(* and that no Root is constructed over one that is in use.                 *)
(***************************************************************************)
EXTENDS EbbRoot, TLAPS

(* What holds of a class's Root and its entry in local_id_map.              *)
RootsOK ==
  \A e \in Ebbs :
    /\ entry[e] = "empty" <=> wlock[e] # NoOne
    /\ entry[e] # "root" => data_[e] = "none" /\ theRep_[e] = 0
    /\ entry[e] = "root" => data_[e] # "none"
    /\ theRep_[e] = built[e]
    /\ built[e] <= 1
    /\ theRep_[e] # 0 => data_[e] \in {"value", "badtype"}
    /\ wlock[e] # NoOne => pc[wlock[e]] = "construct" /\ ebb[wlock[e]] = e

(* What an event may rely on at each place of HandleFault.                  *)
EventsOK ==
  \A t \in Events :
    /\ pc[t] = "construct" => wlock[ebb[t]] = t
    /\ pc[t] \in {"lock", "check", "block", "waiting", "get", "relock",
                   "retest", "new", "cacheref"} => entry[ebb[t]] = "root"
    /\ pc[t] = "get" => data_[ebb[t]] \in {"value", "badtype", "error"}
    /\ pc[t] \in {"relock", "retest", "new"} => data_[ebb[t]] \in {"value", "badtype"}
    /\ pc[t] = "new" => theRep_[ebb[t]] = 0
    /\ pc[t] = "cacheref" => rep[t] = theRep_[ebb[t]] /\ rep[t] # 0

CachesOK ==
  \A e \in Ebbs : \A c \in Cores : cache[c][e] # 0 => cache[c][e] = theRep_[e]

IInv == TypeOK /\ RootsOK /\ EventsOK /\ MutexHeld /\ CachesOK

(* The initial states satisfy the inductive invariant.                      *)
LEMMA InitIInv == Init => IInv
  <1> SUFFICES ASSUME Init PROVE IInv
    OBVIOUS
  <1>1. ebb \in [Events -> Ebbs]
    <2>1. (CHOOSE e \in Ebbs : TRUE) \in Ebbs
      BY EbbsAssumption
    <2> QED
      BY <2>1 DEF Init
  <1>2. TypeOK
    BY <1>1 DEF Init, TypeOK, PCs
  <1>3. RootsOK
    <2> SUFFICES ASSUME NEW e \in Ebbs
                 PROVE  /\ entry[e] = "empty" <=> wlock[e] # NoOne
                        /\ entry[e] # "root" => data_[e] = "none" /\ theRep_[e] = 0
                        /\ entry[e] = "root" => data_[e] # "none"
                        /\ theRep_[e] = built[e]
                        /\ built[e] <= 1
                        /\ theRep_[e] # 0 => data_[e] \in {"value", "badtype"}
                        /\ wlock[e] # NoOne => pc[wlock[e]] = "construct" /\ ebb[wlock[e]] = e
      BY DEF RootsOK
    <2>1. entry[e] = "absent" /\ wlock[e] = NoOne /\ data_[e] = "none"
      BY DEF Init
    <2>2. theRep_[e] = 0 /\ built[e] = 0
      BY DEF Init
    <2> QED
      BY <2>1, <2>2
  <1>4. EventsOK
    BY DEF Init, EventsOK
  <1>5. MutexHeld
    BY DEF Init, MutexHeld, InsideLock
  <1>6. CachesOK
    BY DEF Init, CachesOK
  <1> QED
    BY <1>2, <1>3, <1>4, <1>5, <1>6 DEF IInv

(* Find preserves the inductive invariant.                                  *)
LEMMA FindStep ==
  ASSUME IInv, NEW t \in Events, NEW e \in Ebbs, ebb[t] = e, Find(t, e)
  PROVE  IInv'
  <1> USE CoreOfAssumption, NoOneAssumption DEF Find, Goto, Yield, mapVars, rootVars
  <1>1. TypeOK'
    BY DEF IInv, TypeOK, PCs, RootsOK, EventsOK
  <1>2. RootsOK'
    BY DEF IInv, TypeOK, PCs, RootsOK, EventsOK
  <1>3. EventsOK'
    BY DEF IInv, TypeOK, PCs, RootsOK, EventsOK, MutexHeld, InsideLock
  <1>4. MutexHeld'
    BY DEF IInv, TypeOK, PCs, RootsOK, EventsOK, MutexHeld, InsideLock
  <1>5. CachesOK'
    BY DEF IInv, TypeOK, PCs, RootsOK, EventsOK, CachesOK
  <1> QED
    BY <1>1, <1>2, <1>3, <1>4, <1>5 DEF IInv

(* Insert preserves the inductive invariant.                                  *)
LEMMA InsertStep ==
  ASSUME IInv, NEW t \in Events, NEW e \in Ebbs, ebb[t] = e, Insert(t, e)
  PROVE  IInv'
  <1> USE CoreOfAssumption, NoOneAssumption DEF Insert, Goto, Yield, mapVars, rootVars
  <1>1. TypeOK'
    <2>1. CASE entry[e] = "absent"
      <3>1. entry' \in [Ebbs -> {"absent", "empty", "root"}]
        BY <2>1 DEF IInv, TypeOK
      <3>2. wlock' \in [Ebbs -> Events \cup {NoOne}]
        <4>1. wlock' = [wlock EXCEPT ![e] = t]
          BY <2>1
        <4>2. wlock \in [Ebbs -> Events \cup {NoOne}]
          BY DEF IInv, TypeOK
        <4> QED
          BY ONLY <4>1, <4>2
      <3>3. pc' \in [Events -> PCs \ {"badcast"}]
        BY <2>1 DEF IInv, TypeOK, PCs
      <3> QED
        BY <2>1, <3>1, <3>2, <3>3 DEF IInv, TypeOK
    <2>2. CASE ~(entry[e] = "absent")
      BY <2>2 DEF IInv, TypeOK, PCs
    <2> QED
      BY <2>1, <2>2
  <1>2. RootsOK'
    BY DEF IInv, TypeOK, PCs, RootsOK, EventsOK
  <1>3. EventsOK'
    BY DEF IInv, TypeOK, PCs, RootsOK, EventsOK, MutexHeld, InsideLock
  <1>4. MutexHeld'
    BY DEF IInv, TypeOK, PCs, RootsOK, EventsOK, MutexHeld, InsideLock
  <1>5. CachesOK'
    BY DEF IInv, TypeOK, PCs, RootsOK, EventsOK, CachesOK
  <1> QED
    BY <1>1, <1>2, <1>3, <1>4, <1>5 DEF IInv

(* ConstructRoot preserves the inductive invariant.                                  *)
LEMMA ConstructRootStep ==
  ASSUME IInv, NEW t \in Events, NEW e \in Ebbs, ebb[t] = e, ConstructRoot(t, e)
  PROVE  IInv'
  <1> USE CoreOfAssumption, NoOneAssumption DEF ConstructRoot, Goto, Yield, mapVars, rootVars
  <1>1. TypeOK'
    BY DEF IInv, TypeOK, PCs, RootsOK, EventsOK
  <1>2. RootsOK'
    BY DEF IInv, TypeOK, PCs, RootsOK, EventsOK
  <1>3. EventsOK'
    BY DEF IInv, TypeOK, PCs, RootsOK, EventsOK, MutexHeld, InsideLock
  <1>4. MutexHeld'
    BY DEF IInv, TypeOK, PCs, RootsOK, EventsOK, MutexHeld, InsideLock
  <1>5. CachesOK'
    <2>1. wlock[e] = t /\ entry[e] = "empty"
      BY DEF IInv, RootsOK, EventsOK
    <2>2. theRep_[e] = 0 /\ theRep_' = theRep_ /\ cache' = cache
      BY <2>1 DEF IInv, TypeOK, RootsOK
    <2> QED
      BY <2>2 DEF IInv, CachesOK
  <1> QED
    BY <1>1, <1>2, <1>3, <1>4, <1>5 DEF IInv

(* Lock preserves the inductive invariant.                                  *)
LEMMA LockStep ==
  ASSUME IInv, NEW t \in Events, NEW e \in Ebbs, ebb[t] = e, Lock(t, e)
  PROVE  IInv'
  <1> USE CoreOfAssumption, NoOneAssumption DEF Lock, Goto, Yield, mapVars, rootVars
  <1>1. TypeOK'
    BY DEF IInv, TypeOK, PCs, RootsOK, EventsOK
  <1>2. RootsOK'
    BY DEF IInv, TypeOK, PCs, RootsOK, EventsOK
  <1>3. EventsOK'
    BY DEF IInv, TypeOK, PCs, RootsOK, EventsOK, MutexHeld, InsideLock
  <1>4. MutexHeld'
    BY DEF IInv, TypeOK, PCs, RootsOK, EventsOK, MutexHeld, InsideLock
  <1>5. CachesOK'
    BY DEF IInv, TypeOK, PCs, RootsOK, EventsOK, CachesOK
  <1> QED
    BY <1>1, <1>2, <1>3, <1>4, <1>5 DEF IInv

(* Check preserves the inductive invariant.                                  *)
LEMMA CheckStep ==
  ASSUME IInv, NEW t \in Events, NEW e \in Ebbs, ebb[t] = e, Check(t, e)
  PROVE  IInv'
  <1> USE CoreOfAssumption, NoOneAssumption DEF Check, Goto, Yield, mapVars, rootVars
  <1>1. TypeOK'
    BY DEF IInv, TypeOK, PCs, RootsOK, EventsOK
  <1>2. RootsOK'
    BY DEF IInv, TypeOK, PCs, RootsOK, EventsOK
  <1>3. EventsOK'
    BY DEF IInv, TypeOK, PCs, RootsOK, EventsOK, MutexHeld, InsideLock
  <1>4. MutexHeld'
    BY DEF IInv, TypeOK, PCs, RootsOK, EventsOK, MutexHeld, InsideLock
  <1>5. CachesOK'
    BY DEF IInv, TypeOK, PCs, RootsOK, EventsOK, CachesOK
  <1> QED
    BY <1>1, <1>2, <1>3, <1>4, <1>5 DEF IInv

(* Block preserves the inductive invariant.                                  *)
LEMMA BlockStep ==
  ASSUME IInv, NEW t \in Events, NEW e \in Ebbs, ebb[t] = e, Block(t, e)
  PROVE  IInv'
  <1> USE CoreOfAssumption, NoOneAssumption DEF Block, Goto, Yield, mapVars, rootVars
  <1>1. TypeOK'
    <2>1. CASE data_[e] = "pending"
      <3>1. pc' = [pc EXCEPT ![t] = "waiting"] /\ running' = [running EXCEPT ![CoreOf[t]] = NoOne]
        BY <2>1
      <3>2. pc' \in [Events -> PCs \ {"badcast"}]
        BY <3>1 DEF IInv, TypeOK, PCs
      <3>3. running' \in [Cores -> Events \cup {NoOne}]
        BY <3>1 DEF IInv, TypeOK
      <3> QED
        BY <3>2, <3>3 DEF IInv, TypeOK
    <2>2. CASE ~(data_[e] = "pending")
      BY <2>2 DEF IInv, TypeOK, PCs
    <2> QED
      BY <2>1, <2>2
  <1>2. RootsOK'
    BY DEF IInv, TypeOK, PCs, RootsOK, EventsOK
  <1>3. EventsOK'
    BY DEF IInv, TypeOK, PCs, RootsOK, EventsOK, MutexHeld, InsideLock
  <1>4. MutexHeld'
    BY DEF IInv, TypeOK, PCs, RootsOK, EventsOK, MutexHeld, InsideLock
  <1>5. CachesOK'
    BY DEF IInv, TypeOK, PCs, RootsOK, EventsOK, CachesOK
  <1> QED
    BY <1>1, <1>2, <1>3, <1>4, <1>5 DEF IInv

(* Wake preserves the inductive invariant.                                  *)
LEMMA WakeStep ==
  ASSUME IInv, NEW t \in Events, NEW e \in Ebbs, ebb[t] = e, Wake(t, e)
  PROVE  IInv'
  <1> USE CoreOfAssumption, NoOneAssumption DEF Wake, Goto, Yield, mapVars, rootVars
  <1>1. TypeOK'
    BY DEF IInv, TypeOK, PCs, RootsOK, EventsOK
  <1>2. RootsOK'
    BY DEF IInv, TypeOK, PCs, RootsOK, EventsOK
  <1>3. EventsOK'
    BY DEF IInv, TypeOK, PCs, RootsOK, EventsOK, MutexHeld, InsideLock
  <1>4. MutexHeld'
    BY DEF IInv, TypeOK, PCs, RootsOK, EventsOK, MutexHeld, InsideLock
  <1>5. CachesOK'
    BY DEF IInv, TypeOK, PCs, RootsOK, EventsOK, CachesOK
  <1> QED
    BY <1>1, <1>2, <1>3, <1>4, <1>5 DEF IInv

(* Get preserves the inductive invariant.                                  *)
LEMMA GetStep ==
  ASSUME IInv, NEW t \in Events, NEW e \in Ebbs, ebb[t] = e, Get(t, e)
  PROVE  IInv'
  <1> USE CoreOfAssumption, NoOneAssumption DEF Get, Goto, Yield, mapVars, rootVars
  <1>1. TypeOK'
    <2>1. CASE data_[e] = "error"
      <3>1. /\ lock_' = lock_ \/ lock_' = [lock_ EXCEPT ![e] = NoOne]
            /\ pc' = [pc EXCEPT ![t] = "threw"]
            /\ running' = [running EXCEPT ![CoreOf[t]] = NoOne]
        BY <2>1
      <3>2. pc' \in [Events -> PCs \ {"badcast"}]
        BY <3>1 DEF IInv, TypeOK, PCs
      <3>3. running' \in [Cores -> Events \cup {NoOne}]
        BY <3>1 DEF IInv, TypeOK
      <3>4. lock_' \in [Ebbs -> Events \cup {NoOne}]
        BY <3>1 DEF IInv, TypeOK
      <3> QED
        BY <3>2, <3>3, <3>4 DEF IInv, TypeOK
    <2>2. CASE ~(data_[e] = "error")
      BY <2>2 DEF IInv, TypeOK, PCs
    <2> QED
      BY <2>1, <2>2
  <1>2. RootsOK'
    BY DEF IInv, TypeOK, PCs, RootsOK, EventsOK
  <1>3. EventsOK'
    BY DEF IInv, TypeOK, PCs, RootsOK, EventsOK, MutexHeld, InsideLock
  <1>4. MutexHeld'
    BY DEF IInv, TypeOK, PCs, RootsOK, EventsOK, MutexHeld, InsideLock
  <1>5. CachesOK'
    BY DEF IInv, TypeOK, PCs, RootsOK, EventsOK, CachesOK
  <1> QED
    BY <1>1, <1>2, <1>3, <1>4, <1>5 DEF IInv

(* Relock preserves the inductive invariant.                                  *)
LEMMA RelockStep ==
  ASSUME IInv, NEW t \in Events, NEW e \in Ebbs, ebb[t] = e, Relock(t, e)
  PROVE  IInv'
  <1> USE CoreOfAssumption, NoOneAssumption DEF Relock, Goto, Yield, mapVars, rootVars
  <1>1. TypeOK'
    BY DEF IInv, TypeOK, PCs, RootsOK, EventsOK
  <1>2. RootsOK'
    BY DEF IInv, TypeOK, PCs, RootsOK, EventsOK
  <1>3. EventsOK'
    BY DEF IInv, TypeOK, PCs, RootsOK, EventsOK, MutexHeld, InsideLock
  <1>4. MutexHeld'
    BY DEF IInv, TypeOK, PCs, RootsOK, EventsOK, MutexHeld, InsideLock
  <1>5. CachesOK'
    BY DEF IInv, TypeOK, PCs, RootsOK, EventsOK, CachesOK
  <1> QED
    BY <1>1, <1>2, <1>3, <1>4, <1>5 DEF IInv

(* Retest preserves the inductive invariant.                                  *)
LEMMA RetestStep ==
  ASSUME IInv, NEW t \in Events, NEW e \in Ebbs, ebb[t] = e, Retest(t, e)
  PROVE  IInv'
  <1> USE CoreOfAssumption, NoOneAssumption DEF Retest, Goto, Yield, mapVars, rootVars
  <1>1. TypeOK'
    <2>1. CASE theRep_[e] = 0
      BY <2>1 DEF IInv, TypeOK, PCs
    <2>2. CASE ~(theRep_[e] = 0)
      <3>1. lock_' \in [Ebbs -> Events \cup {NoOne}]
        BY <2>2 DEF IInv, TypeOK
      <3>2. rep' \in [Events -> Nat]
        BY <2>2 DEF IInv, TypeOK
      <3>3. pc' \in [Events -> PCs \ {"badcast"}]
        <4>1. pc' = [pc EXCEPT ![t] = "cacheref"]
          BY <2>2
        <4>2. pc \in [Events -> PCs \ {"badcast"}]
          BY DEF IInv, TypeOK
        <4> QED
          BY ONLY <4>1, <4>2 DEF PCs
      <3> QED
        BY <2>2, <3>1, <3>2, <3>3 DEF IInv, TypeOK
    <2> QED
      BY <2>1, <2>2
  <1>2. RootsOK'
    BY DEF IInv, TypeOK, PCs, RootsOK, EventsOK
  <1>3. EventsOK'
    BY DEF IInv, TypeOK, PCs, RootsOK, EventsOK, MutexHeld, InsideLock
  <1>4. MutexHeld'
    BY DEF IInv, TypeOK, PCs, RootsOK, EventsOK, MutexHeld, InsideLock
  <1>5. CachesOK'
    BY DEF IInv, TypeOK, PCs, RootsOK, EventsOK, CachesOK
  <1> QED
    BY <1>1, <1>2, <1>3, <1>4, <1>5 DEF IInv

(* NewRep preserves the inductive invariant.                                  *)
LEMMA NewRepStep ==
  ASSUME IInv, NEW t \in Events, NEW e \in Ebbs, ebb[t] = e, NewRep(t, e)
  PROVE  IInv'
  <1> USE CoreOfAssumption, NoOneAssumption DEF NewRep, Goto, Yield, mapVars, rootVars
  <1>1. TypeOK'
    <2>1. CASE InputStreamCtorThrows(e)
      BY <2>1 DEF IInv, TypeOK, PCs
    <2>2. CASE ~(InputStreamCtorThrows(e))
      <3>1. lock_' \in [Ebbs -> Events \cup {NoOne}]
        BY <2>2 DEF IInv, TypeOK
      <3>2. theRep_' \in [Ebbs -> Nat]
        BY <2>2 DEF IInv, TypeOK
      <3>3. built' \in [Ebbs -> Nat]
        BY <2>2 DEF IInv, TypeOK
      <3>4. rep' \in [Events -> Nat]
        <4>1. rep' = [rep EXCEPT ![t] = built[e] + 1]
          BY <2>2
        <4>2. built[e] + 1 \in Nat /\ rep \in [Events -> Nat]
          BY DEF IInv, TypeOK
        <4> QED
          BY ONLY <4>1, <4>2
      <3>5. pc' \in [Events -> PCs \ {"badcast"}]
        <4>1. pc' = [pc EXCEPT ![t] = "cacheref"] /\ "cacheref" \in PCs \ {"badcast"}
          BY <2>2 DEF PCs
        <4>2. pc \in [Events -> PCs \ {"badcast"}]
          BY DEF IInv, TypeOK
        <4> QED
          BY ONLY <4>1, <4>2
      <3> QED
        BY <2>2, <3>1, <3>2, <3>3, <3>4, <3>5 DEF IInv, TypeOK
    <2> QED
      BY <2>1, <2>2
  <1>2. RootsOK'
    BY DEF IInv, TypeOK, PCs, RootsOK, EventsOK
  <1>3. EventsOK'
    BY DEF IInv, TypeOK, PCs, RootsOK, EventsOK, MutexHeld, InsideLock
  <1>4. MutexHeld'
    BY DEF IInv, TypeOK, PCs, RootsOK, EventsOK, MutexHeld, InsideLock
  <1>5. CachesOK'
    BY DEF IInv, TypeOK, PCs, RootsOK, EventsOK, CachesOK
  <1> QED
    BY <1>1, <1>2, <1>3, <1>4, <1>5 DEF IInv

(* CacheRef preserves the inductive invariant.                                  *)
LEMMA CacheRefStep ==
  ASSUME IInv, NEW t \in Events, NEW e \in Ebbs, ebb[t] = e, CacheRef(t, e)
  PROVE  IInv'
  <1> USE CoreOfAssumption, NoOneAssumption DEF CacheRef, Goto, Yield, mapVars, rootVars
  <1>1. TypeOK'
    <2>1. cache' \in [Cores -> [Ebbs -> Nat]]
      BY DEF IInv, TypeOK
    <2>2. running' \in [Cores -> Events \cup {NoOne}]
      BY DEF IInv, TypeOK
    <2> QED
      BY <2>1, <2>2 DEF IInv, TypeOK, PCs
  <1>2. RootsOK'
    BY DEF IInv, TypeOK, PCs, RootsOK, EventsOK
  <1>3. EventsOK'
    BY DEF IInv, TypeOK, PCs, RootsOK, EventsOK, MutexHeld, InsideLock
  <1>4. MutexHeld'
    BY DEF IInv, TypeOK, PCs, RootsOK, EventsOK, MutexHeld, InsideLock
  <1>5. CachesOK'
    BY DEF IInv, TypeOK, PCs, RootsOK, EventsOK, CachesOK
  <1> QED
    BY <1>1, <1>2, <1>3, <1>4, <1>5 DEF IInv

(* Starting a fault preserves the inductive invariant.                      *)
LEMMA DerefStep ==
  ASSUME IInv, NEW t \in Events, NEW e \in Ebbs, Deref(t, e)
  PROVE  IInv'
  <1> USE CoreOfAssumption, NoOneAssumption DEF Deref, Goto, mapVars, rootVars
  <1>1. TypeOK'
    BY DEF IInv, TypeOK, PCs
  <1>2. RootsOK'
    BY DEF IInv, TypeOK, PCs, RootsOK
  <1>3. EventsOK'
    BY DEF IInv, TypeOK, PCs, EventsOK
  <1>4. MutexHeld'
    BY DEF IInv, TypeOK, PCs, MutexHeld, InsideLock
  <1>5. CachesOK'
    BY DEF IInv, CachesOK
  <1> QED
    BY <1>1, <1>2, <1>3, <1>4, <1>5 DEF IInv

(* The answer of the global id map preserves the inductive invariant.       *)
LEMMA ResolveStep ==
  ASSUME IInv, NEW e \in Ebbs, Resolve(e)
  PROVE  IInv'
  <1>1. PICK d \in {"value", "error", "badtype"} : data_' = [data_ EXCEPT ![e] = d]
    BY DEF Resolve
  <1> USE <1>1 DEF Resolve, mapVars
  <1>2. TypeOK'
    BY DEF IInv, TypeOK
  <1>3. RootsOK'
    BY DEF IInv, TypeOK, RootsOK
  <1>4. EventsOK'
    BY DEF IInv, TypeOK, RootsOK, EventsOK
  <1>5. MutexHeld'
    BY DEF IInv, TypeOK, MutexHeld, InsideLock
  <1>6. CachesOK'
    BY DEF IInv, CachesOK
  <1> QED
    BY <1>2, <1>3, <1>4, <1>5, <1>6 DEF IInv

(* A step of HandleFault, whatever its class, preserves it.                 *)
LEMMA HandleFaultStep ==
  ASSUME IInv, NEW t \in Events, NEW e \in Ebbs, HandleFault(t, e)
  PROVE  IInv'
  BY FindStep, InsertStep, ConstructRootStep, LockStep, CheckStep, BlockStep,
     WakeStep, GetStep, RelockStep, RetestStep, NewRepStep, CacheRefStep
  DEF HandleFault

(* The invariant is inductive.                                              *)
LEMMA NextIInv == IInv /\ [Next]_vars => IInv'
  <1> SUFFICES ASSUME IInv, [Next]_vars PROVE IInv'
    OBVIOUS
  <1>1. CASE UNCHANGED vars
    BY <1>1 DEF vars, IInv, TypeOK, RootsOK, EventsOK, MutexHeld, InsideLock, CachesOK
  <1>2. ASSUME NEW t \in Events, Fault(t) PROVE IInv'
    BY <1>2, HandleFaultStep
    DEF Fault, CmdLineArgsFault, EnvironmentFault, InputStreamFault, FSFault
  <1>3. ASSUME NEW t \in Events, NEW e \in Uses[t], Deref(t, e) PROVE IInv'
    BY <1>3, DerefStep, UsesAssumption
  <1>4. ASSUME NEW e \in Ebbs, Resolve(e) PROVE IInv'
    BY <1>4, ResolveStep
  <1> QED
    BY <1>1, <1>2, <1>3, <1>4 DEF Next

(* The inductive invariant holds in every reachable state.                  *)
THEOREM AlwaysIInv == Spec => []IInv
  BY InitIInv, NextIInv, PTL DEF Spec

(* Type correctness, and with it that any_cast never meets an entry whose   *)
(* Root is not stored yet.                                                  *)
THEOREM TypeCorrect == Spec => []TypeOK
  <1>1. IInv => TypeOK
    BY DEF IInv
  <1> QED
    BY <1>1, AlwaysIInv, PTL

(* A node has at most one representative of a class, and everyone has it.   *)
THEOREM OneRepAlways == Spec => []OneRep
  <1>1. IInv => OneRep
    <2> SUFFICES ASSUME IInv, NEW e \in Ebbs
                 PROVE  /\ built[e] <= 1
                        /\ \A c \in Cores : cache[c][e] # 0 => cache[c][e] = theRep_[e]
                        /\ \A t \in Events : pc[t] = "cacheref" /\ ebb[t] = e
                                              => rep[t] = theRep_[e]
      BY DEF OneRep
    <2>1. built[e] <= 1
      BY DEF IInv, RootsOK
    <2>2. \A c \in Cores : cache[c][e] # 0 => cache[c][e] = theRep_[e]
      BY DEF IInv, CachesOK
    <2>3. \A t \in Events : pc[t] = "cacheref" /\ ebb[t] = e => rep[t] = theRep_[e]
      BY DEF IInv, EventsOK
    <2> QED
      BY <2>1, <2>2, <2>3
  <1> QED
    BY <1>1, AlwaysIInv, PTL

(* The mutex that getRep_BIN drops and retakes is owned by whoever is       *)
(* between its lock and unlock, unless the root data could not be had.      *)
THEOREM MutexHeldAlways == Spec => []MutexHeld
  <1>1. IInv => MutexHeld
    BY DEF IInv
  <1> QED
    BY <1>1, AlwaysIInv, PTL

(* Representatives are only built from root data that has arrived.          *)
THEOREM ReadyWhenBuiltAlways == Spec => []ReadyWhenBuilt
  <1>1. IInv => ReadyWhenBuilt
    BY DEF IInv, EventsOK, ReadyWhenBuilt
  <1> QED
    BY <1>1, AlwaysIInv, PTL

----------------------------------------------------------------------------
(* The refinement of OneObject, by the same invariant: what an event does    *)
(* inside HandleFault is invisible but for the construction of the first     *)
(* representative, the return and the exception.                            *)

(* A step to another place of HandleFault moves one event's abstract state.  *)
LEMMA GotoState ==
  ASSUME TypeOK, NEW t \in Events, NEW label, Goto(t, label)
  PROVE  [u \in Events |-> StateOf(pc[u])]'
           = [[u \in Events |-> StateOf(pc[u])] EXCEPT ![t] = StateOf(label)]
  BY DEF Goto, TypeOK

(* The steps that OneObject does not see.                                   *)
Hidden(t, e) ==
  Find(t, e) \/ Insert(t, e) \/ ConstructRoot(t, e) \/ Lock(t, e) \/ Check(t, e)
    \/ Block(t, e) \/ Wake(t, e) \/ Relock(t, e) \/ Retest(t, e)

(* They change neither the object nor a cache, and their event goes on.      *)
LEMMA HiddenStutters ==
  ASSUME IInv, NEW t \in Events, NEW e \in Ebbs, ebb[t] = e, Hidden(t, e)
  PROVE  UNCHANGED Object!vars
  <1>1. StateOf(pc[t]) = "asking"
    BY DEF Hidden, Find, Insert, ConstructRoot, Lock, Check, Block, Wake, Relock, Retest, StateOf
  <1>2. PICK label \in PCs : Goto(t, label) /\ StateOf(label) = "asking"
    BY DEF Hidden, Find, Insert, ConstructRoot, Lock, Check, Block, Wake, Relock, Retest,
           Goto, StateOf, PCs
  <1>3. [u \in Events |-> StateOf(pc[u])]' = [u \in Events |-> StateOf(pc[u])]
    BY <1>1, <1>2, GotoState DEF IInv
  <1>4. theRep_' = theRep_
    <2>1. CASE ConstructRoot(t, e)
      <3>1. theRep_[e] = 0
        BY <2>1, NoOneAssumption DEF IInv, EventsOK, RootsOK, ConstructRoot
      <3> QED
        BY <2>1, <3>1 DEF ConstructRoot, IInv, TypeOK
    <2>2. CASE ~ConstructRoot(t, e)
      BY <2>2 DEF Hidden, Find, Insert, Lock, Check, Block, Wake, Relock, Retest, rootVars
    <2> QED
      BY <2>1, <2>2
  <1>5. cache' = cache /\ ebb' = ebb
    BY DEF Hidden, Find, Insert, ConstructRoot, Lock, Check, Block, Wake, Relock, Retest
  <1> QED
    BY <1>3, <1>4, <1>5 DEF Object!vars

(* An exception ends the dereference without an object.                     *)
LEMMA ThrowFails ==
  ASSUME IInv, NEW t \in Events, StateOf(pc[t]) = "asking", Goto(t, "threw"),
         UNCHANGED <<theRep_, cache, ebb>>
  PROVE  Object!Fail(t)
  <1>1. StateOf("threw") = "failed"
    BY DEF StateOf
  <1>2. [u \in Events |-> StateOf(pc[u])]'
          = [[u \in Events |-> StateOf(pc[u])] EXCEPT ![t] = "failed"]
    BY <1>1, GotoState DEF IInv
  <1> QED
    BY <1>2 DEF Object!Fail

LEMMA GetMaps ==
  ASSUME IInv, NEW t \in Events, NEW e \in Ebbs, ebb[t] = e, Get(t, e)
  PROVE  Object!Fail(t) \/ UNCHANGED Object!vars
  <1>1. StateOf(pc[t]) = "asking" /\ StateOf("relock") = "asking"
    BY DEF Get, StateOf
  <1>2. UNCHANGED <<theRep_, cache, ebb>>
    BY DEF Get
  <1>3. CASE data_[e] = "error"
    BY <1>1, <1>2, <1>3, ThrowFails DEF Get
  <1>4. CASE data_[e] # "error"
    <2>1. Goto(t, "relock")
      BY <1>4 DEF Get
    <2>2. [u \in Events |-> StateOf(pc[u])]' = [u \in Events |-> StateOf(pc[u])]
      BY <1>1, <2>1, GotoState DEF IInv
    <2> QED
      BY <1>2, <2>2 DEF Object!vars
  <1> QED
    BY <1>3, <1>4

(* The first construction provides the object; there is no second one.       *)
LEMMA NewRepMaps ==
  ASSUME IInv, NEW t \in Events, NEW e \in Ebbs, ebb[t] = e, NewRep(t, e)
  PROVE  Object!Fail(t) \/ Object!Provide(t, 1)
  <1>1. StateOf(pc[t]) = "asking" /\ StateOf("cacheref") = "asking"
    BY DEF NewRep, StateOf
  <1>2. UNCHANGED <<cache, ebb>>
    BY DEF NewRep
  <1>3. CASE InputStreamCtorThrows(e)
    BY <1>1, <1>2, <1>3, ThrowFails DEF NewRep
  <1>4. CASE ~InputStreamCtorThrows(e)
    <2>1. theRep_[e] = 0 /\ built[e] = 0
      BY DEF NewRep, IInv, EventsOK, RootsOK
    <2>2. theRep_' = [theRep_ EXCEPT ![e] = 1]
      BY <1>4, <2>1 DEF NewRep
    <2>3. Goto(t, "cacheref")
      BY <1>4 DEF NewRep
    <2>4. [u \in Events |-> StateOf(pc[u])]' = [u \in Events |-> StateOf(pc[u])]
      BY <1>1, <2>3, GotoState DEF IInv
    <2> QED
      BY <1>1, <1>2, <2>1, <2>2, <2>4 DEF Object!Provide
  <1> QED
    BY <1>3, <1>4

(* An event returns the object that was provided.                           *)
LEMMA CacheRefMaps ==
  ASSUME IInv, NEW t \in Events, NEW e \in Ebbs, ebb[t] = e, CacheRef(t, e)
  PROVE  Object!Return(t, 1)
  <1>1. StateOf(pc[t]) = "asking" /\ StateOf("idle") = "idle"
    BY DEF CacheRef, StateOf
  <1>2. theRep_[e] = 1 /\ rep[t] = 1
    <2>1. rep[t] = theRep_[e] /\ rep[t] # 0
      BY DEF CacheRef, IInv, EventsOK
    <2>2. theRep_[e] = built[e] /\ built[e] <= 1 /\ built[e] \in Nat
      BY DEF IInv, TypeOK, RootsOK
    <2> QED
      BY ONLY <2>1, <2>2
  <1>3. theRep_' = [theRep_ EXCEPT ![e] = 1]
    BY <1>2 DEF CacheRef, rootVars, IInv, TypeOK
  <1>4. cache' = [cache EXCEPT ![CoreOf[t]][e] = 1] /\ ebb' = ebb
    BY <1>2 DEF CacheRef
  <1>5. [u \in Events |-> StateOf(pc[u])]'
          = [[u \in Events |-> StateOf(pc[u])] EXCEPT ![t] = "idle"]
    BY <1>1, GotoState DEF CacheRef, IInv
  <1> QED
    BY <1>1, <1>2, <1>3, <1>4, <1>5 DEF Object!Return

LEMMA DerefMaps ==
  ASSUME IInv, NEW t \in Events, NEW e \in Ebbs, Deref(t, e)
  PROVE  Object!Ask(t, e)
  <1>1. StateOf(pc[t]) = "idle" /\ StateOf("find") = "asking"
    BY DEF Deref, StateOf
  <1>2. [u \in Events |-> StateOf(pc[u])]'
          = [[u \in Events |-> StateOf(pc[u])] EXCEPT ![t] = "asking"]
    BY <1>1, GotoState DEF Deref, IInv
  <1> QED
    BY <1>1, <1>2 DEF Deref, rootVars, Object!Ask

LEMMA HandleFaultMaps ==
  ASSUME IInv, NEW t \in Events, NEW e \in Ebbs, HandleFault(t, e)
  PROVE  Object!Next \/ UNCHANGED Object!vars
  <1>1. ebb[t] = e
    BY DEF HandleFault
  <1>2. CASE Hidden(t, e)
    BY <1>1, <1>2, HiddenStutters
  <1>3. CASE Get(t, e)
    BY <1>1, <1>3, GetMaps DEF Object!Next
  <1>4. CASE NewRep(t, e)
    BY <1>1, <1>4, NewRepMaps DEF Object!Next
  <1>5. CASE CacheRef(t, e)
    BY <1>1, <1>5, CacheRefMaps DEF Object!Next
  <1> QED
    BY <1>2, <1>3, <1>4, <1>5 DEF HandleFault, Hidden

(* Every step of a node is a step of OneObject or invisible to it.           *)
LEMMA NextMaps == IInv /\ [Next]_vars => [Object!Next]_(Object!vars)
  <1> SUFFICES ASSUME IInv, [Next]_vars PROVE Object!Next \/ UNCHANGED Object!vars
    OBVIOUS
  <1>1. CASE UNCHANGED vars
    BY <1>1 DEF vars, Object!vars
  <1>2. ASSUME NEW t \in Events, Fault(t) PROVE Object!Next \/ UNCHANGED Object!vars
    BY <1>2, HandleFaultMaps
    DEF Fault, CmdLineArgsFault, EnvironmentFault, InputStreamFault, FSFault
  <1>3. ASSUME NEW t \in Events, NEW e \in Uses[t], Deref(t, e) PROVE Object!Next
    BY <1>3, DerefMaps, UsesAssumption DEF Object!Next
  <1>4. ASSUME NEW e \in Ebbs, Resolve(e) PROVE UNCHANGED Object!vars
    BY <1>4 DEF Resolve, Object!vars
  <1> QED
    BY <1>1, <1>2, <1>3, <1>4 DEF Next

LEMMA InitMaps == Init => Object!Init
  <1> SUFFICES ASSUME Init PROVE Object!Init
    OBVIOUS
  <1>1. TypeOK
    BY InitIInv DEF IInv
  <1>2. [t \in Events |-> StateOf(pc[t])] = [t \in Events |-> "idle"]
    BY DEF Init, StateOf
  <1> QED
    BY <1>1, <1>2 DEF Init, TypeOK, Object!Init

(* A node of the application keeps OneObject's promise: a class has no       *)
(* representative, then one for ever, and every dereference, whatever races  *)
(* with it, returns and caches that one or throws.                          *)
THEOREM RefinesOneObject == Spec => ImplementsOneObject
  BY InitMaps, NextMaps, AlwaysIInv, PTL DEF Spec, Object!Spec, ImplementsOneObject
=============================================================================
