------------------------------- MODULE EbbRoot -------------------------------
(***************************************************************************)
(* How a node of the ubench application obtains the representative of one   *)
(* of its four UNIX Ebbs (CmdLineArgs, Environment, InputStream, FS).       *)
(*                                                                         *)
(* A call through an EbbRef whose core has no cached representative runs    *)
(* HandleFault: find the Root in the node's local_id_map, or insert one     *)
(* under the entry's write lock and retry; then Root::getRep_BIN waits for  *)
(* the root data (a shared future of global_id_map->Get) with the Root's    *)
(* mutex dropped, retakes it and creates the one representative.  The four  *)
(* classes carry four copies of this code, so it is modelled once, with the *)
(* class as the parameter e.                                                *)
(*                                                                         *)
(* An Event is an EbbRT event (a handler invocation): it owns its core until *)
(* it returns or saves its context.  local_id_map is a TBB                  *)
(* concurrent_hash_map: Find and Insert wait while another holds the write  *)
(* accessor of the entry.                                                   *)
(***************************************************************************)
EXTENDS Naturals

CONSTANTS
  Ebbs,     \* the Ebb classes in use: a subset of Classes
  Events,   \* the events that dereference them
  Cores,    \* the cores of the node
  CoreOf,   \* CoreOf[t]: the core the event t runs on
  Uses,     \* Uses[t]: the classes the event t dereferences
  NoOne     \* no event

Classes == {"CmdLineArgs", "Environment", "InputStream", "FS"}

ASSUME EbbsAssumption == Ebbs \subseteq Classes /\ Ebbs # {}
ASSUME CoreOfAssumption == CoreOf \in [Events -> Cores]
ASSUME UsesAssumption == Uses \in [Events -> SUBSET Ebbs]
ASSUME NoOneAssumption == NoOne \notin Events

VARIABLES
  entry,    \* entry[e]: local_id_map's value: absent, empty (key only) or root
  wlock,    \* wlock[e]: who holds the entry's write accessor
  lock_,    \* lock_[e]: the Root's mutex
  data_,    \* data_[e]: the Root's shared future
  theRep_,  \* theRep_[e]: the Root's representative, 0 for NULL
  built,    \* built[e]: how many representatives were constructed
  pc,       \* pc[t]: where the event t is
  ebb,      \* ebb[t]: the class t dereferences
  rep,      \* rep[t]: what getRep_BIN returned to t
  running,  \* running[c]: the event that owns the core
  cache     \* cache[c][e]: the representative cached for core c, 0 for none

vars == <<entry, wlock, lock_, data_, theRep_, built, pc, ebb, rep, running, cache>>
rootVars == <<lock_, data_, theRep_, built>>
mapVars == <<entry, wlock>>

PCs == {"idle", "find", "insert", "construct", "lock", "check", "block",
        "waiting", "get", "relock", "retest", "new", "cacheref", "threw", "badcast"}

Init ==
  /\ entry = [e \in Ebbs |-> "absent"]
  /\ wlock = [e \in Ebbs |-> NoOne]
  /\ lock_ = [e \in Ebbs |-> NoOne]
  /\ data_ = [e \in Ebbs |-> "none"]
  /\ theRep_ = [e \in Ebbs |-> 0]
  /\ built = [e \in Ebbs |-> 0]
  /\ pc = [t \in Events |-> "idle"]
  /\ ebb = [t \in Events |-> CHOOSE e \in Ebbs : TRUE]
  /\ rep = [t \in Events |-> 0]
  /\ running = [c \in Cores |-> NoOne]
  /\ cache = [c \in Cores |-> [e \in Ebbs |-> 0]]

Goto(t, label) == pc' = [pc EXCEPT ![t] = label]

Yield(t) == running' = [running EXCEPT ![CoreOf[t]] = NoOne]

----------------------------------------------------------------------------
(* An event starts on a free core and dereferences e; only a core without a *)
(* cached representative faults.  An event may come back for another class. *)
Deref(t, e) ==
  /\ pc[t] = "idle"
  /\ running[CoreOf[t]] = NoOne
  /\ cache[CoreOf[t]][e] = 0
  /\ running' = [running EXCEPT ![CoreOf[t]] = t]
  /\ ebb' = [ebb EXCEPT ![t] = e]
  /\ Goto(t, "find")
  /\ UNCHANGED <<mapVars, rootVars, rep, cache>>

(* retry: Find waits for a writer; a root that is found is cast and used    *)
(* after the accessor is released.                                          *)
Find(t, e) ==
  /\ pc[t] = "find"
  /\ wlock[e] = NoOne
  /\ Goto(t, CASE entry[e] = "absent" -> "insert"
               [] entry[e] = "root" -> "lock"
               [] OTHER -> "badcast")
  /\ UNCHANGED <<mapVars, rootVars, ebb, rep, running, cache>>

(* A seeded fault: the write accessor is released before the entry is filled. *)
Insert_ReleasesEarly(t, e) ==
  /\ pc[t] = "insert"
  /\ wlock[e] = NoOne
  /\ Goto(t, IF entry[e] = "absent" THEN "construct" ELSE "find")
  /\ entry' = [entry EXCEPT ![e] = IF @ = "absent" THEN "empty" ELSE @]
  /\ UNCHANGED <<wlock, rootVars, ebb, rep, running, cache>>

(* Insert creates the entry write-locked, or waits for the other writer,    *)
(* finds the key taken, and drops the accessor at the goto.                 *)
Insert(t, e) ==
  /\ pc[t] = "insert"
  /\ wlock[e] = NoOne
  /\ IF entry[e] = "absent"
       THEN /\ entry' = [entry EXCEPT ![e] = "empty"]
            /\ wlock' = [wlock EXCEPT ![e] = t]
            /\ Goto(t, "construct")
       ELSE /\ Goto(t, "find")
            /\ UNCHANGED mapVars
  /\ UNCHANGED <<rootVars, ebb, rep, running, cache>>

(* Root::Root: issues global_id_map->Get(id) and shares its future.         *)
(* HandleFault then fills the entry, releases it and retries.               *)
ConstructRoot(t, e) ==
  /\ pc[t] = "construct"
  /\ theRep_' = [theRep_ EXCEPT ![e] = 0]
  /\ lock_' = [lock_ EXCEPT ![e] = NoOne]
  /\ data_' = [data_ EXCEPT ![e] = "pending"]
  /\ entry' = [entry EXCEPT ![e] = "root"]
  /\ wlock' = [wlock EXCEPT ![e] = NoOne]
  /\ Goto(t, "find")
  /\ UNCHANGED <<built, ebb, rep, running, cache>>

----------------------------------------------------------------------------
(* getRep_BIN                                                               *)

Lock(t, e) ==
  /\ pc[t] = "lock"
  /\ lock_[e] = NoOne
  /\ lock_' = [lock_ EXCEPT ![e] = t]
  /\ Goto(t, "check")
  /\ UNCHANGED <<mapVars, data_, theRep_, built, ebb, rep, running, cache>>

(* A seeded fault: the mutex is kept while the root data is waited for.     *)
Check_KeepsLock(t, e) ==
  /\ pc[t] = "check"
  /\ lock_' = [lock_ EXCEPT ![e] = IF theRep_[e] # 0 THEN NoOne ELSE @]
  /\ rep' = [rep EXCEPT ![t] = theRep_[e]]
  /\ Goto(t, IF theRep_[e] # 0 THEN "cacheref" ELSE "block")
  /\ UNCHANGED <<mapVars, data_, theRep_, built, ebb, running, cache>>

(* A representative that exists is returned; otherwise the mutex is dropped *)
(* before the root data is waited for.                                      *)
Check(t, e) ==
  /\ pc[t] = "check"
  /\ lock_' = [lock_ EXCEPT ![e] = NoOne]
  /\ rep' = [rep EXCEPT ![t] = theRep_[e]]
  /\ Goto(t, IF theRep_[e] # 0 THEN "cacheref" ELSE "block")
  /\ UNCHANGED <<mapVars, data_, theRep_, built, ebb, running, cache>>

(* data_.Block(): saves the context and gives up the core unless the data   *)
(* is there; the resolved future activates the context again.               *)
Block(t, e) ==
  /\ pc[t] = "block"
  /\ IF data_[e] = "pending"
       THEN Goto(t, "waiting") /\ Yield(t)
       ELSE Goto(t, "get") /\ UNCHANGED running
  /\ UNCHANGED <<mapVars, rootVars, ebb, rep, cache>>

Wake(t, e) ==
  /\ pc[t] = "waiting"
  /\ data_[e] # "pending"
  /\ running[CoreOf[t]] = NoOne
  /\ running' = [running EXCEPT ![CoreOf[t]] = t]
  /\ Goto(t, "get")
  /\ UNCHANGED <<mapVars, rootVars, ebb, rep, cache>>

(* data_.Get() rethrows a failed Get.  The unwinding lock_guard then unlocks *)
(* a mutex this event does not hold: undefined, so it either frees it (from *)
(* whoever holds it) or leaves it alone.                                    *)
Get(t, e) ==
  /\ pc[t] = "get"
  /\ IF data_[e] = "error"
       THEN /\ lock_' \in {lock_, [lock_ EXCEPT ![e] = NoOne]}
            /\ Goto(t, "threw")
            /\ Yield(t)
       ELSE /\ Goto(t, "relock")
            /\ UNCHANGED <<lock_, running>>
  /\ UNCHANGED <<mapVars, data_, theRep_, built, ebb, rep, cache>>

(* A seeded fault: the mutex is not retaken.                                *)
Relock_Skipped(t, e) ==
  /\ pc[t] = "relock"
  /\ Goto(t, "retest")
  /\ UNCHANGED <<mapVars, rootVars, ebb, rep, running, cache>>

Relock(t, e) ==
  /\ pc[t] = "relock"
  /\ lock_[e] = NoOne
  /\ lock_' = [lock_ EXCEPT ![e] = t]
  /\ Goto(t, "retest")
  /\ UNCHANGED <<mapVars, data_, theRep_, built, ebb, rep, running, cache>>

(* InputStream's constructor throws on a type it cannot stream (a directory *)
(* passes InputStream::Create); no other class looks at its data that way.  *)
InputStreamCtorThrows(e) == e = "InputStream" /\ data_[e] = "badtype"

(* A seeded fault: the second test of theRep_ is missing.                   *)
Retest_Missing(t, e) ==
  /\ pc[t] = "retest"
  /\ Goto(t, "new")
  /\ UNCHANGED <<mapVars, rootVars, ebb, rep, running, cache>>

(* The second test of theRep_: another event may have built it meanwhile.   *)
Retest(t, e) ==
  /\ pc[t] = "retest"
  /\ IF theRep_[e] = 0
       THEN /\ Goto(t, "new")
            /\ UNCHANGED <<lock_, rep>>
       ELSE /\ lock_' = [lock_ EXCEPT ![e] = NoOne]
            /\ rep' = [rep EXCEPT ![t] = theRep_[e]]
            /\ Goto(t, "cacheref")
  /\ UNCHANGED <<mapVars, data_, theRep_, built, ebb, running, cache>>

(* The representative's constructor, theRep_'s assignment and the guard's   *)
(* unlock; an exception of the constructor leaves theRep_ NULL.             *)
NewRep(t, e) ==
  /\ pc[t] = "new"
  /\ lock_' = [lock_ EXCEPT ![e] = NoOne]
  /\ IF InputStreamCtorThrows(e)
       THEN /\ Goto(t, "threw")
            /\ Yield(t)
            /\ UNCHANGED <<theRep_, built, rep>>
       ELSE /\ built' = [built EXCEPT ![e] = @ + 1]
            /\ theRep_' = [theRep_ EXCEPT ![e] = built[e] + 1]
            /\ rep' = [rep EXCEPT ![t] = built[e] + 1]
            /\ Goto(t, "cacheref")
            /\ UNCHANGED running
  /\ UNCHANGED <<mapVars, data_, ebb, cache>>

CacheRef(t, e) ==
  /\ pc[t] = "cacheref"
  /\ cache' = [cache EXCEPT ![CoreOf[t]][e] = rep[t]]
  /\ Goto(t, "idle")
  /\ Yield(t)
  /\ UNCHANGED <<mapVars, rootVars, ebb, rep>>

----------------------------------------------------------------------------
HandleFault(t, e) ==
  /\ ebb[t] = e
  /\ \/ Find(t, e) \/ Insert(t, e) \/ ConstructRoot(t, e)
     \/ Lock(t, e) \/ Check(t, e) \/ Block(t, e) \/ Wake(t, e) \/ Get(t, e)
     \/ Relock(t, e) \/ Retest(t, e) \/ NewRep(t, e)
     \/ CacheRef(t, e)

(* The four copies of the code.                                             *)
CmdLineArgsFault(t) == "CmdLineArgs" \in Ebbs /\ HandleFault(t, "CmdLineArgs")
EnvironmentFault(t) == "Environment" \in Ebbs /\ HandleFault(t, "Environment")
InputStreamFault(t) == "InputStream" \in Ebbs /\ HandleFault(t, "InputStream")
FSFault(t) == "FS" \in Ebbs /\ HandleFault(t, "FS")

Fault(t) ==
  CmdLineArgsFault(t) \/ EnvironmentFault(t) \/ InputStreamFault(t) \/ FSFault(t)

(* The answer of the global id map: the value the front end stored, or an   *)
(* error.                                                                   *)
Resolve(e) ==
  /\ data_[e] = "pending"
  /\ \E d \in {"value", "error"} \cup (IF e = "InputStream" THEN {"badtype"} ELSE {}) :
       data_' = [data_ EXCEPT ![e] = d]
  /\ UNCHANGED <<mapVars, lock_, theRep_, built, pc, ebb, rep, running, cache>>

Next ==
  \/ \E t \in Events : Fault(t) \/ (\E e \in Uses[t] : Deref(t, e))
  \/ \E e \in Ebbs : Resolve(e)

Spec == Init /\ [][Next]_vars

(* Cores run their events and the front end answers; no new call is owed.   *)
Fairness ==
  /\ \A t \in Events : WF_vars(Fault(t))
  /\ \A e \in Ebbs : WF_vars(Resolve(e))

FairSpec == Spec /\ Fairness

----------------------------------------------------------------------------
(* Every variable stays in its type; a pc is never "badcast", so boost's    *)
(* any_cast never meets an entry whose Root is not stored yet.              *)
TypeOK ==
  /\ entry \in [Ebbs -> {"absent", "empty", "root"}]
  /\ wlock \in [Ebbs -> Events \cup {NoOne}]
  /\ lock_ \in [Ebbs -> Events \cup {NoOne}]
  /\ data_ \in [Ebbs -> {"none", "pending", "value", "badtype", "error"}]
  /\ theRep_ \in [Ebbs -> Nat]
  /\ built \in [Ebbs -> Nat]
  /\ pc \in [Events -> PCs \ {"badcast"}]
  /\ ebb \in [Events -> Ebbs]
  /\ rep \in [Events -> Nat]
  /\ running \in [Cores -> Events \cup {NoOne}]
  /\ cache \in [Cores -> [Ebbs -> Nat]]

(* However many events of however many cores fault at once, a node          *)
(* constructs at most one representative of a class, and every core that    *)
(* caches one and every event that is handed one has that one.              *)
OneRep ==
  \A e \in Ebbs :
    /\ built[e] <= 1
    /\ \A c \in Cores : cache[c][e] # 0 => cache[c][e] = theRep_[e]
    /\ \A t \in Events : pc[t] = "cacheref" /\ ebb[t] = e => rep[t] = theRep_[e]

(* The Root's mutex protects theRep_ although getRep_BIN drops it half way: *)
(* unless the Get failed, in which case nobody constructs anything, two     *)
(* events are never both between the lock and the unlock of one Root, and   *)
(* whoever is there is the mutex's owner.                                   *)
InsideLock(t, e) == ebb[t] = e /\ pc[t] \in {"check", "retest", "new"}

MutexHeld ==
  \A e \in Ebbs : data_[e] # "error" =>
    \A t \in Events : InsideLock(t, e) => lock_[e] = t

(* assert(fstr.Ready()) in the constructors: a representative is only built  *)
(* from root data that has arrived.                                         *)
ReadyWhenBuilt ==
  \A e \in Ebbs : \A t \in Events :
    ebb[t] = e /\ pc[t] \in {"relock", "retest", "new"} => data_[e] \in {"value", "badtype"}

(* Both fault protocols of this repository keep one promise (OneObject). Here *)
(* the object is the first and only representative of the Root.             *)
StateOf(label) ==
  CASE label = "idle" -> "idle" [] label = "threw" -> "failed" [] OTHER -> "asking"

Object == INSTANCE OneObject WITH
  Objects <- {1},
  NoObject <- 0,
  object <- theRep_,
  cached <- cache,
  wants <- ebb,
  state <- [t \in Events |-> StateOf(pc[t])]

ImplementsOneObject == Object!Spec

(* "EVERYONE MUST EVENTUALLY GET HERE OR THROW AND EXCEPTION": every fault  *)
(* ends, by a return or an exception, whoever else blocks, fails or wins.   *)
FaultEnds ==
  \A t \in Events : pc[t] = "find" ~> pc[t] \in {"idle", "threw"}
============================================================================
