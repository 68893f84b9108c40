------------------------------ MODULE Cpu_proofs ------------------------------
(***************************************************************************)
(* Cpu's safety, for any number of cores.                                   *)
(*                                                                         *)
(* That all cores are up when AppMain runs is not inductive: the code only   *)
(* looks at a counter.  The inductive invariant says what each counter       *)
(* counts (Counted), which events a core has at which place (EventsOK), and  *)
(* that AppMain is spawned by a first event that saw inited_ reach n         *)
(* (SpawnedLate).  A counter that has reached n then stands for all cores.   *)
(***************************************************************************)
EXTENDS Cpu, FiniteSetTheorems, TLAPS

(* The cores whose Cpu is made, whose first event is spawned, whose first    *)
(* event has run.                                                           *)
Made == {i \in Index : pc[i] \notin {"none", "lock", "make"}}
Spawned == {i \in Made : pc[i] # "wait1"}
Inited == {i \in Spawned : pc[i] # "wait2" /\ "first" \notin events[i]}

Counted ==
  /\ cpus = Made
  /\ numCpus_ = Cardinality(Made) /\ created_ = Cardinality(Made)
  /\ running_ = Cardinality(Spawned)
  /\ inited_ = Cardinality(Inited)

(* Threads are created in the order of their indices.                       *)
StartedOK ==
  \A i \in Index : /\ pc[i] = "none" <=> i >= started
                   /\ pc[i] \in {"AppMain", "ended"} => i = 0

EventsOK ==
  \A i \in Index :
    /\ pc[i] \notin {"wait2", "loop", "ended"} => events[i] = {}
    /\ pc[i] = "wait2" => events[i] = {"first"}
    /\ "AppMain" \in events[i] => i = 0 /\ events[i] = {"AppMain"}

SpawnedLate == pc[0] = "AppMain" \/ "AppMain" \in events[0] => inited_ >= n

IInv == TypeOK /\ Counted /\ StartedOK /\ EventsOK /\ SpawnedLate

LEMMA IndexFacts ==
  /\ n \in Nat /\ n > 0 /\ 0 \in Index
  /\ IsFiniteSet(Index) /\ Cardinality(Index) = n
  /\ Made \subseteq Index /\ Spawned \subseteq Index /\ Inited \subseteq Index
  <1>1. n \in Nat /\ n > 0 /\ 0 \in Index
    BY CpusAssumption DEF Index
  <1>2. IsFiniteSet(Index) /\ Cardinality(Index) = n
    BY <1>1, FS_Interval DEF Index
  <1>3. Made \subseteq Index /\ Spawned \subseteq Index /\ Inited \subseteq Index
    BY DEF Made, Spawned, Inited
  <1> QED
    BY <1>1, <1>2, <1>3

(* A counter that counts some of the cores, and that reached n, all of them. *)
LEMMA CountsCores ==
  ASSUME NEW S \in SUBSET Index
  PROVE  /\ Cardinality(S) \in 0 .. n
         /\ Cardinality(S) >= n => S = Index
         /\ \A i \in Index \ S : Cardinality(S \cup {i}) = Cardinality(S) + 1
  <1>1. IsFiniteSet(S) /\ Cardinality(S) <= n /\ (Cardinality(S) = n => S = Index)
    BY IndexFacts, FS_Subset
  <1>2. Cardinality(S) \in Nat
    BY <1>1, FS_CardinalityType
  <1>3. \A i \in Index \ S : Cardinality(S \cup {i}) = Cardinality(S) + 1
    BY <1>1, FS_AddElement
  <1> QED
    BY <1>1, <1>2, <1>3, IndexFacts

(* The sets that are counted depend on pc and events alone.                 *)
LEMMA SameSets ==
  ASSUME pc' = pc, events' = events
  PROVE  Made' = Made /\ Spawned' = Spawned /\ Inited' = Inited
  BY DEF Made, Spawned, Inited

(* The initial states satisfy the inductive invariant.                      *)
LEMMA InitIInv == Init => IInv
  <1> SUFFICES ASSUME Init PROVE IInv
    OBVIOUS
  <1>1. Made = {} /\ Spawned = {} /\ Inited = {}
    BY DEF Init, Made, Spawned, Inited
  <1>2. Counted
    BY <1>1, FS_EmptySet DEF Init, Counted
  <1>3. TypeOK
    <2>1. /\ events \in [Index -> SUBSET {"first", "AppMain"}]
          /\ pc \in [Index -> PCs]
      BY DEF Init, PCs
    <2>2. 0 \in 0 .. n /\ 0 \in Nat
      BY IndexFacts
    <2> QED
      BY <2>1, <2>2 DEF Init, TypeOK
  <1>4. StartedOK /\ EventsOK /\ SpawnedLate
    BY IndexFacts DEF Init, StartedOK, EventsOK, SpawnedLate, Index
  <1> QED
    BY <1>2, <1>3, <1>4 DEF IInv

(* The main thread creates a thread.                                        *)
LEMMA CreateThreadStep ==
  ASSUME IInv, CreateThread
  PROVE  IInv'
  <1>1. /\ started < n /\ started' = started + 1 /\ pc' = [pc EXCEPT ![started] = "lock"]
        /\ UNCHANGED <<early, init_lock_, cpus, numCpus_, counters, events, ending>>
    BY DEF CreateThread, Goto
  <1>2. started \in Index /\ started \in Nat /\ pc[started] = "none" /\ pc \in [Index -> PCs]
    BY <1>1, IndexFacts DEF IInv, TypeOK, StartedOK, Index
  <1>3. \A i \in Index : pc'[i] = IF i = started THEN "lock" ELSE pc[i]
    BY <1>1, <1>2
  <1>4. Made' = Made /\ Spawned' = Spawned /\ Inited' = Inited
    BY <1>1, <1>2, <1>3 DEF Made, Spawned, Inited
  <1>5. TypeOK'
    BY <1>1, <1>2, IndexFacts DEF IInv, TypeOK, PCs, counters, ending
  <1>6. Counted'
    BY <1>1, <1>4 DEF IInv, Counted, counters
  <1>7. StartedOK'
    BY <1>1, <1>2, <1>3 DEF IInv, StartedOK, Index
  <1>8. EventsOK' /\ SpawnedLate'
    BY <1>1, <1>2, <1>3, IndexFacts DEF IInv, EventsOK, SpawnedLate, counters
  <1> QED
    BY <1>5, <1>6, <1>7, <1>8 DEF IInv

(* Steps that change only where the main thread, the lock and the end are.   *)
LEMMA AsideStep ==
  ASSUME IInv, TypeOK', UNCHANGED <<started, cpus, numCpus_, counters, events, pc>>
  PROVE  IInv'
  <1>1. Made' = Made /\ Spawned' = Spawned /\ Inited' = Inited
    BY SameSets
  <1> QED
    BY <1>1 DEF IInv, Counted, StartedOK, EventsOK, SpawnedLate, counters

(* What the end does to its variables.                                      *)
LEMMA ShutdownType ==
  ASSUME TypeOK, Shutdown
  PROVE  shutdown_' \in {0, 1} /\ stops' \in Nat
  BY DEF TypeOK, Shutdown

LEMMA EndStep ==
  ASSUME IInv, EarlyInitDone \/ JoinAndExit \/ AppMainExits \/ Interrupt
  PROVE  IInv'
  <1> USE DEF counters
  <1>1. CASE EarlyInitDone
    <2>1. TypeOK'
      BY <1>1 DEF EarlyInitDone, IInv, TypeOK, ending
    <2> QED
      BY <1>1, <2>1, AsideStep DEF EarlyInitDone
  <1>2. CASE JoinAndExit
    <2>1. TypeOK'
      BY <1>2, ShutdownType DEF JoinAndExit, Exit, IInv, TypeOK
    <2> QED
      BY <1>2, <2>1, AsideStep DEF JoinAndExit
  <1>3. CASE AppMainExits
    <2>1. TypeOK'
      BY <1>3, ShutdownType DEF AppMainExits, Exit, IInv, TypeOK
    <2> QED
      BY <1>3, <2>1, AsideStep DEF AppMainExits
  <1>4. CASE Interrupt
    <2>1. TypeOK'
      BY <1>4, ShutdownType DEF Interrupt, IInv, TypeOK
    <2> QED
      BY <1>4, <2>1, AsideStep DEF Interrupt
  <1> QED
    BY <1>1, <1>2, <1>3, <1>4

(* A step of core i that goes to label: what the parts about places owe.    *)
LEMMA GotoFacts ==
  ASSUME TypeOK, NEW i \in Index, NEW label \in PCs, Goto(i, label)
  PROVE  /\ pc' \in [Index -> PCs]
         /\ \A j \in Index : pc'[j] = IF j = i THEN label ELSE pc[j]
  BY DEF TypeOK, Goto

(* Lock and EnterLoop: nothing is counted.                                  *)
LEMMA LockStep ==
  ASSUME IInv, NEW i \in Index, Lock(i)
  PROVE  IInv'
  <1>1. /\ pc[i] = "lock" /\ init_lock_' = i
        /\ UNCHANGED <<started, early, cpus, numCpus_, counters, events, ending>>
    BY DEF Lock
  <1>2. /\ pc' \in [Index -> PCs]
        /\ \A j \in Index : pc'[j] = IF j = i THEN "make" ELSE pc[j]
    BY GotoFacts DEF IInv, Lock, PCs
  <1>3. Made' = Made /\ Spawned' = Spawned /\ Inited' = Inited
    BY <1>1, <1>2 DEF Made, Spawned, Inited
  <1>4. TypeOK'
    BY <1>1, <1>2 DEF IInv, TypeOK, counters, ending
  <1>5. Counted' /\ StartedOK'
    BY <1>1, <1>2, <1>3 DEF IInv, Counted, StartedOK, counters
  <1>6. EventsOK' /\ SpawnedLate'
    BY <1>1, <1>2, IndexFacts DEF IInv, EventsOK, SpawnedLate, counters
  <1> QED
    BY <1>4, <1>5, <1>6 DEF IInv

LEMMA EnterLoopStep ==
  ASSUME IInv, NEW i \in Index, EnterLoop(i)
  PROVE  IInv'
  <1>1. /\ pc[i] = "wait2"
        /\ UNCHANGED <<started, early, init_lock_, cpus, numCpus_, counters, events, ending>>
    BY DEF EnterLoop
  <1>2. /\ pc' \in [Index -> PCs]
        /\ \A j \in Index : pc'[j] = IF j = i THEN "loop" ELSE pc[j]
    BY GotoFacts DEF IInv, EnterLoop, PCs
  <1>3. events[i] = {"first"}
    BY <1>1 DEF IInv, EventsOK
  <1>4. Made' = Made /\ Spawned' = Spawned /\ Inited' = Inited
    BY <1>1, <1>2, <1>3 DEF Made, Spawned, Inited
  <1>5. TypeOK'
    BY <1>1, <1>2 DEF IInv, TypeOK, counters, ending
  <1>6. Counted' /\ StartedOK'
    BY <1>1, <1>2, <1>4 DEF IInv, Counted, StartedOK, counters
  <1>7. EventsOK' /\ SpawnedLate'
    BY <1>1, <1>2, <1>3, IndexFacts DEF IInv, EventsOK, SpawnedLate, counters
  <1> QED
    BY <1>5, <1>6, <1>7 DEF IInv

(* Make counts the core in created_ and numCpus_.                           *)
LEMMA MakeStep ==
  ASSUME IInv, NEW i \in Index, Make(i)
  PROVE  IInv'
  <1>1. /\ pc[i] = "make" /\ cpus' = cpus \cup {i} /\ numCpus_' = numCpus_ + 1
        /\ created_' = created_ + 1 /\ init_lock_' = NoOne
        /\ UNCHANGED <<started, early, running_, inited_, events, ending>>
    BY DEF Make
  <1>2. /\ pc' \in [Index -> PCs]
        /\ \A j \in Index : pc'[j] = IF j = i THEN "wait1" ELSE pc[j]
    BY GotoFacts DEF IInv, Make, PCs
  <1>3. /\ i \in Index \ Made /\ Made' = Made \cup {i}
        /\ Spawned' = Spawned /\ Inited' = Inited
    BY <1>1, <1>2 DEF Made, Spawned, Inited
  <1>4. Cardinality(Made') = Cardinality(Made) + 1 /\ Cardinality(Made') \in 0 .. n
    BY <1>3, IndexFacts, CountsCores
  <1>5. Counted'
    BY <1>1, <1>3, <1>4 DEF IInv, Counted
  <1>6. TypeOK'
    BY <1>1, <1>2, <1>3, <1>4 DEF IInv, TypeOK, Counted, ending
  <1>7. StartedOK'
    BY <1>1, <1>2 DEF IInv, StartedOK
  <1>8. EventsOK' /\ SpawnedLate'
    BY <1>1, <1>2, IndexFacts DEF IInv, EventsOK, SpawnedLate
  <1> QED
    BY <1>5, <1>6, <1>7, <1>8 DEF IInv

(* SpawnFirst counts the core in running_.                                  *)
LEMMA SpawnFirstStep ==
  ASSUME IInv, NEW i \in Index, SpawnFirst(i)
  PROVE  IInv'
  <1>1. /\ pc[i] = "wait1" /\ running_' = running_ + 1
        /\ events' = [events EXCEPT ![i] = @ \cup {"first"}]
        /\ UNCHANGED <<started, early, init_lock_, cpus, numCpus_, created_, inited_, ending>>
    BY DEF SpawnFirst
  <1>2. /\ pc' \in [Index -> PCs]
        /\ \A j \in Index : pc'[j] = IF j = i THEN "wait2" ELSE pc[j]
    BY GotoFacts DEF IInv, SpawnFirst, PCs
  <1>3. /\ events' \in [Index -> SUBSET {"first", "AppMain"}]
        /\ \A j \in Index : events'[j] = IF j = i THEN {"first"} ELSE events[j]
    BY <1>1 DEF IInv, TypeOK, EventsOK
  <1>4. /\ i \in Index \ Spawned /\ Spawned' = Spawned \cup {i}
        /\ Made' = Made /\ Inited' = Inited
    BY <1>1, <1>2, <1>3 DEF Made, Spawned, Inited
  <1>5. Cardinality(Spawned') = Cardinality(Spawned) + 1 /\ Cardinality(Spawned') \in 0 .. n
    BY <1>4, IndexFacts, CountsCores
  <1>6. Counted'
    BY <1>1, <1>4, <1>5 DEF IInv, Counted
  <1>7. TypeOK'
    BY <1>1, <1>2, <1>3, <1>4, <1>5 DEF IInv, TypeOK, Counted, ending
  <1>8. StartedOK'
    BY <1>1, <1>2 DEF IInv, StartedOK
  <1>9. EventsOK' /\ SpawnedLate'
    BY <1>1, <1>2, <1>3, IndexFacts DEF IInv, EventsOK, SpawnedLate
  <1> QED
    BY <1>6, <1>7, <1>8, <1>9 DEF IInv

(* RunFirst counts the core in inited_.                                     *)
LEMMA RunFirstStep ==
  ASSUME IInv, NEW i \in Index, RunFirst(i)
  PROVE  IInv'
  <1>1. /\ pc[i] = "loop" /\ "first" \in events[i] /\ inited_' = inited_ + 1
        /\ events' = [events EXCEPT ![i] = @ \ {"first"}]
        /\ UNCHANGED <<started, early, init_lock_, cpus, numCpus_, created_, running_, ending>>
    BY DEF RunFirst, Looping
  <1>2. /\ pc' \in [Index -> PCs]
        /\ \A j \in Index : pc'[j] = IF j = i THEN "spin" ELSE pc[j]
    BY GotoFacts DEF IInv, RunFirst, PCs
  <1>3. events[i] = {"first"}
    BY <1>1 DEF IInv, TypeOK, EventsOK
  <1>4. /\ events' \in [Index -> SUBSET {"first", "AppMain"}]
        /\ \A j \in Index : events'[j] = IF j = i THEN {} ELSE events[j]
    BY <1>1, <1>3 DEF IInv, TypeOK
  <1>5. /\ i \in Index \ Inited /\ Inited' = Inited \cup {i}
        /\ Made' = Made /\ Spawned' = Spawned
    BY <1>1, <1>2, <1>4 DEF Made, Spawned, Inited
  <1>6. Cardinality(Inited') = Cardinality(Inited) + 1 /\ Cardinality(Inited') \in 0 .. n
    BY <1>5, IndexFacts, CountsCores
  <1>7. Counted'
    BY <1>1, <1>5, <1>6 DEF IInv, Counted
  <1>8. TypeOK'
    BY <1>1, <1>2, <1>4, <1>5, <1>6 DEF IInv, TypeOK, Counted, ending
  <1>9. StartedOK'
    BY <1>1, <1>2 DEF IInv, StartedOK
  <1>10. EventsOK' /\ SpawnedLate'
    BY <1>1, <1>2, <1>4, IndexFacts DEF IInv, TypeOK, EventsOK, SpawnedLate
  <1> QED
    BY <1>7, <1>8, <1>9, <1>10 DEF IInv

(* FirstEnds waits for inited_, and core 0's spawns AppMain.                *)
LEMMA FirstEndsStep ==
  ASSUME IInv, NEW i \in Index, FirstEnds(i)
  PROVE  IInv'
  <1>1. /\ pc[i] = "spin" /\ inited_ >= n
        /\ events' = [events EXCEPT ![i] = IF i = 0 THEN @ \cup {"AppMain"} ELSE @]
        /\ UNCHANGED <<started, early, init_lock_, cpus, numCpus_, counters, ending>>
    BY DEF FirstEnds
  <1>2. /\ pc' \in [Index -> PCs]
        /\ \A j \in Index : pc'[j] = IF j = i THEN "loop" ELSE pc[j]
    BY GotoFacts DEF IInv, FirstEnds, PCs
  <1>3. events[i] = {}
    BY <1>1 DEF IInv, EventsOK
  <1>4. /\ events' \in [Index -> SUBSET {"first", "AppMain"}]
        /\ \A j \in Index : events'[j] = IF j = i /\ i = 0 THEN {"AppMain"} ELSE events[j]
    BY <1>1, <1>3 DEF IInv, TypeOK
  <1>5. Made' = Made /\ Spawned' = Spawned /\ Inited' = Inited
    BY <1>1, <1>2, <1>3, <1>4 DEF Made, Spawned, Inited
  <1>6. TypeOK'
    BY <1>1, <1>2, <1>4 DEF IInv, TypeOK, counters, ending
  <1>7. Counted' /\ StartedOK'
    BY <1>1, <1>2, <1>5 DEF IInv, Counted, StartedOK, counters
  <1>8. EventsOK' /\ SpawnedLate'
    BY <1>1, <1>2, <1>3, <1>4, IndexFacts DEF IInv, EventsOK, SpawnedLate, counters
  <1> QED
    BY <1>6, <1>7, <1>8 DEF IInv

(* AppMain starts, blocks, and core 0's stopped loop ends.                  *)
LEMMA AppMainStep ==
  ASSUME IInv, StartAppMain \/ AppMainBlocks \/ LoopStopped
  PROVE  IInv'
  <1>1. CASE StartAppMain
    <2>1. /\ pc[0] = "loop" /\ "AppMain" \in events[0]
          /\ events' = [events EXCEPT ![0] = @ \ {"AppMain"}]
          /\ UNCHANGED <<started, early, init_lock_, cpus, numCpus_, counters, ending>>
      BY <1>1 DEF StartAppMain, Looping
    <2>2. /\ pc' \in [Index -> PCs]
          /\ \A j \in Index : pc'[j] = IF j = 0 THEN "AppMain" ELSE pc[j]
      BY <1>1, IndexFacts, GotoFacts DEF IInv, StartAppMain, PCs
    <2>3. events[0] = {"AppMain"} /\ inited_ >= n
      BY <2>1, IndexFacts DEF IInv, EventsOK, SpawnedLate
    <2>4. /\ events' \in [Index -> SUBSET {"first", "AppMain"}]
          /\ \A j \in Index : events'[j] = IF j = 0 THEN {} ELSE events[j]
      BY <2>1, <2>3 DEF IInv, TypeOK
    <2>5. Made' = Made /\ Spawned' = Spawned /\ Inited' = Inited
      BY <2>1, <2>2, <2>3, <2>4 DEF Made, Spawned, Inited
    <2>6. TypeOK'
      BY <2>1, <2>2, <2>4 DEF IInv, TypeOK, counters, ending
    <2>7. Counted' /\ StartedOK'
      BY <2>1, <2>2, <2>5 DEF IInv, Counted, StartedOK, counters
    <2>8. EventsOK' /\ SpawnedLate'
      BY <2>1, <2>2, <2>3, <2>4, IndexFacts DEF IInv, EventsOK, SpawnedLate, counters
    <2> QED
      BY <2>6, <2>7, <2>8 DEF IInv
  <1>2. ASSUME NEW label \in {"loop", "ended"}, Goto(0, label),
               pc[0] = "AppMain" \/ pc[0] = "loop",
               UNCHANGED <<started, early, init_lock_, cpus, numCpus_, counters, events, ending>>
        PROVE  IInv'
    <2>1. /\ pc' \in [Index -> PCs]
          /\ \A j \in Index : pc'[j] = IF j = 0 THEN label ELSE pc[j]
      BY <1>2, IndexFacts, GotoFacts DEF IInv, PCs
    <2>2. Made' = Made /\ Spawned' = Spawned /\ Inited' = Inited
      BY <1>2, <2>1 DEF Made, Spawned, Inited
    <2>3. TypeOK'
      BY <1>2, <2>1 DEF IInv, TypeOK, counters, ending
    <2>4. Counted' /\ StartedOK'
      BY <1>2, <2>1, <2>2 DEF IInv, Counted, StartedOK, counters
    <2>5. EventsOK' /\ SpawnedLate'
      BY <1>2, <2>1, IndexFacts DEF IInv, EventsOK, SpawnedLate, counters
    <2> QED
      BY <2>3, <2>4, <2>5 DEF IInv
  <1>3. CASE AppMainBlocks
    BY <1>2, <1>3 DEF AppMainBlocks
  <1>4. CASE LoopStopped
    BY <1>2, <1>4 DEF LoopStopped
  <1> QED
    BY <1>1, <1>3, <1>4

(* Every step preserves the inductive invariant.                            *)
LEMMA NextIInv == IInv /\ [Next]_vars => IInv'
  <1> SUFFICES ASSUME IInv, [Next]_vars PROVE IInv'
    OBVIOUS
  <1>1. CASE MainThread
    BY <1>1, CreateThreadStep, EndStep DEF MainThread
  <1>2. CASE \E i \in Index : Run(i)
    BY <1>2, LockStep, MakeStep, SpawnFirstStep, EnterLoopStep, RunFirstStep, FirstEndsStep
    DEF Run
  <1>3. CASE StartAppMain \/ AppMainExits \/ AppMainBlocks \/ Interrupt \/ LoopStopped
    BY <1>3, AppMainStep, EndStep
  <1>4. CASE UNCHANGED vars
    <2>1. TypeOK'
      BY <1>4 DEF IInv, TypeOK, vars
    <2> QED
      BY <1>4, <2>1, AsideStep DEF vars, counters
  <1> QED
    BY <1>1, <1>2, <1>3, <1>4 DEF Next

(* The inductive invariant holds in every reachable state.                  *)
THEOREM Invariance == Spec => []IInv
  BY InitIInv, NextIInv, PTL DEF Spec

(* Every variable keeps its type: no counter passes the number of cores.    *)
THEOREM TypeCorrect == Spec => []TypeOK
  <1>1. IInv => TypeOK
    BY DEF IInv
  <1> QED
    BY <1>1, Invariance, PTL

(* AllUpForAppMain: when AppMain runs, every core is made, counted, and past *)
(* its first event: inited_ has reached n, and it counts cores that are.    *)
THEOREM AllUpAlways == Spec => []AllUpForAppMain
  <1>1. IInv => AllUpForAppMain
    <2> SUFFICES ASSUME IInv, pc[0] = "AppMain"
                 PROVE  /\ cpus = Index /\ numCpus_ = n
                        /\ \A i \in Index \ {0} : pc[i] \in {"spin", "loop"} /\ events[i] = {}
      BY DEF AllUpForAppMain
    <2>1. Cardinality(Inited) >= n
      BY DEF IInv, SpawnedLate, Counted
    <2>2. Inited = Index
      BY <2>1, IndexFacts, CountsCores
    <2>3. Made = Index
      BY <2>2, IndexFacts DEF Inited, Spawned
    <2>4. cpus = Index /\ numCpus_ = n
      BY <2>3, IndexFacts DEF IInv, Counted
    <2>5. ASSUME NEW i \in Index \ {0}
          PROVE  pc[i] \in {"spin", "loop"} /\ events[i] = {}
      <3>1. /\ pc[i] \in PCs \ {"none", "lock", "make", "wait1", "wait2"}
            /\ events[i] \subseteq {"first", "AppMain"} /\ "first" \notin events[i]
        BY <2>2 DEF Inited, Spawned, Made, IInv, TypeOK
      <3> QED
        BY <3>1 DEF IInv, StartedOK, EventsOK, PCs
    <2> QED
      BY <2>4, <2>5
  <1> QED
    BY <1>1, Invariance, PTL
===============================================================================
