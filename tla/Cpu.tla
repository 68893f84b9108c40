--------------------------------- MODULE Cpu ---------------------------------
(***************************************************************************)
(* Bringing up the cores of the hosted ubench program, and shutting down.   *)
(*                                                                         *)
(* EarlyInit starts one thread per core and waits until all of them are     *)
(* running.  A thread makes its Cpu under init_lock_, waits until all are    *)
(* created, spawns its first event on its own context, waits until all have *)
(* done so, and runs its event loop.  The first events wait for each other  *)
(* again; then core 0's calls Main, which spawns AppMain.  The program ends *)
(* when AppMain calls Cpu::Exit, or when SIGINT stops core 0's loop and the *)
(* main thread, which joins core 0's, exits.                                *)
(***************************************************************************)
EXTENDS Naturals, FiniteSets

CONSTANT n   \* GetPhysCpus(): EBBRT_NODE_ALLOCATOR_DEFAULT_CPUS or the cores online

ASSUME CpusAssumption == n \in 1 .. 256   \* kMaxCpus

Index == 0 .. n - 1

NoOne == n

VARIABLES
  started,    \* how many threads EarlyInit has created
  early,      \* where the main thread is
  init_lock_, \* its holder
  cpus,       \* the indices whose Cpu is constructed
  numCpus_, created_, running_, inited_,
  events,     \* events[i]: what is queued on core i's context
  pc,         \* pc[i]: where core i's thread is
  shutdown_,
  stops,      \* how often core 0's event loop was told to stop
  exited      \* exit() was called

vars == <<started, early, init_lock_, cpus, numCpus_, created_, running_, inited_,
          events, pc, shutdown_, stops, exited>>
counters == <<created_, running_, inited_>>
ending == <<shutdown_, stops, exited>>

Init ==
  /\ started = 0
  /\ early = "create"
  /\ init_lock_ = NoOne
  /\ cpus = {}
  /\ numCpus_ = 0
  /\ created_ = 0 /\ running_ = 0 /\ inited_ = 0
  /\ events = [i \in Index |-> {}]
  /\ pc = [i \in Index |-> "none"]
  /\ shutdown_ = 0
  /\ stops = 0
  /\ exited = FALSE

Goto(i, label) == pc' = [pc EXCEPT ![i] = label]

(* A seeded fault: Shutdown remembers the call and stops nothing.           *)
Shutdown_OnlyMarks ==
  IF numCpus_ > 0 /\ shutdown_ = 0
    THEN shutdown_' = 1 /\ UNCHANGED stops
    ELSE UNCHANGED <<shutdown_, stops>>

(* Cpu::Shutdown: the compare-exchange lets one caller stop core 0's loop.  *)
Shutdown ==
  IF numCpus_ > 0 /\ shutdown_ = 0
    THEN shutdown_' = 1 /\ stops' = stops + 1
    ELSE UNCHANGED <<shutdown_, stops>>

Exit == Shutdown /\ exited' = TRUE

----------------------------------------------------------------------------
(* The main thread: EarlyInit, then joining core 0's thread.                *)

(* A pthread_create that fails is asserted not to happen, and does not here. *)
CreateThread ==
  /\ early = "create"
  /\ started < n
  /\ started' = started + 1
  /\ Goto(started, "lock")
  /\ UNCHANGED <<early, init_lock_, cpus, numCpus_, counters, events, ending>>

EarlyInitDone ==
  /\ early = "create"
  /\ started = n
  /\ running_ >= n
  /\ early' = "join"
  /\ UNCHANGED <<started, init_lock_, cpus, numCpus_, counters, events, pc, ending>>

JoinAndExit ==
  /\ early = "join"
  /\ pc[0] = "ended"
  /\ early' = "done"
  /\ Exit
  /\ UNCHANGED <<started, init_lock_, cpus, numCpus_, counters, events, pc>>

----------------------------------------------------------------------------
(* Cpu::run on core i's thread                                              *)

Lock(i) ==
  /\ pc[i] = "lock"
  /\ init_lock_ = NoOne
  /\ init_lock_' = i
  /\ Goto(i, "make")
  /\ UNCHANGED <<started, early, cpus, numCpus_, counters, events, ending>>

(* Create and Init of the Cpu, then created_ and the unlock.                *)
Make(i) ==
  /\ pc[i] = "make"
  /\ cpus' = cpus \cup {i}
  /\ numCpus_' = numCpus_ + 1
  /\ created_' = created_ + 1
  /\ init_lock_' = NoOne
  /\ Goto(i, "wait1")
  /\ UNCHANGED <<started, early, running_, inited_, events, ending>>

(* A seeded fault: the thread forgets to report that it runs.               *)
SpawnFirst_NotCounted(i) ==
  /\ pc[i] = "wait1"
  /\ created_ >= n
  /\ events' = [events EXCEPT ![i] = @ \cup {"first"}]
  /\ Goto(i, "wait2")
  /\ UNCHANGED <<started, early, init_lock_, cpus, numCpus_, counters, ending>>

(* All are created: spawn the first event on the own context.               *)
SpawnFirst(i) ==
  /\ pc[i] = "wait1"
  /\ created_ >= n
  /\ events' = [events EXCEPT ![i] = @ \cup {"first"}]
  /\ running_' = running_ + 1
  /\ Goto(i, "wait2")
  /\ UNCHANGED <<started, early, init_lock_, cpus, numCpus_, created_, inited_, ending>>

EnterLoop(i) ==
  /\ pc[i] = "wait2"
  /\ running_ >= n
  /\ Goto(i, "loop")
  /\ UNCHANGED <<started, early, init_lock_, cpus, numCpus_, counters, events, ending>>

(* A stopped event loop starts no further event.                            *)
Looping(i) == pc[i] = "loop" /\ (i = 0 => stops = 0)

(* A seeded fault: the first event stays queued and runs again.             *)
RunFirst_StaysQueued(i) ==
  /\ Looping(i)
  /\ "first" \in events[i]
  /\ inited_' = inited_ + 1
  /\ Goto(i, "spin")
  /\ UNCHANGED <<started, early, init_lock_, cpus, numCpus_, created_, running_, events, ending>>

(* The first event; it spins inside the event loop.                         *)
RunFirst(i) ==
  /\ Looping(i)
  /\ "first" \in events[i]
  /\ events' = [events EXCEPT ![i] = @ \ {"first"}]
  /\ inited_' = inited_ + 1
  /\ Goto(i, "spin")
  /\ UNCHANGED <<started, early, init_lock_, cpus, numCpus_, created_, running_, ending>>

(* A seeded fault: the first events do not wait for each other.             *)
FirstEnds_NoWait(i) ==
  /\ pc[i] = "spin"
  /\ events' = [events EXCEPT ![i] = IF i = 0 THEN @ \cup {"AppMain"} ELSE @]
  /\ Goto(i, "loop")
  /\ UNCHANGED <<started, early, init_lock_, cpus, numCpus_, counters, ending>>

(* Core 0 calls Main, which spawns AppMain.                                 *)
FirstEnds(i) ==
  /\ pc[i] = "spin"
  /\ inited_ >= n
  /\ events' = [events EXCEPT ![i] = IF i = 0 THEN @ \cup {"AppMain"} ELSE @]
  /\ Goto(i, "loop")
  /\ UNCHANGED <<started, early, init_lock_, cpus, numCpus_, counters, ending>>

StartAppMain ==
  /\ Looping(0)
  /\ "AppMain" \in events[0]
  /\ events' = [events EXCEPT ![0] = @ \ {"AppMain"}]
  /\ Goto(0, "AppMain")
  /\ UNCHANGED <<started, early, init_lock_, cpus, numCpus_, counters, ending>>

(* AppMain exits the program, or saves its context, which gives the core    *)
(* back to the event loop.                                                  *)
AppMainExits ==
  /\ pc[0] = "AppMain"
  /\ Exit
  /\ UNCHANGED <<started, early, init_lock_, cpus, numCpus_, counters, events, pc>>

AppMainBlocks ==
  /\ pc[0] = "AppMain"
  /\ Goto(0, "loop")
  /\ UNCHANGED <<started, early, init_lock_, cpus, numCpus_, counters, events, ending>>

(* SIGINT: its handler runs in core 0's loop, once, and calls Shutdown.     *)
Interrupt ==
  /\ Looping(0)
  /\ shutdown_ = 0
  /\ Shutdown
  /\ UNCHANGED <<started, early, init_lock_, cpus, numCpus_, counters, events, pc, exited>>

(* A stopped loop returns whatever is still queued, and the thread ends.    *)
LoopStopped ==
  /\ pc[0] = "loop"
  /\ stops > 0
  /\ Goto(0, "ended")
  /\ UNCHANGED <<started, early, init_lock_, cpus, numCpus_, counters, events, ending>>

Run(i) ==
  Lock(i) \/ Make(i) \/ SpawnFirst(i) \/ EnterLoop(i) \/ RunFirst(i) \/ FirstEnds(i)

MainThread == CreateThread \/ EarlyInitDone \/ JoinAndExit

Next ==
  /\ ~exited
  /\ \/ MainThread
     \/ \E i \in Index : Run(i)
     \/ StartAppMain \/ AppMainExits \/ AppMainBlocks \/ Interrupt \/ LoopStopped

Spec == Init /\ [][Next]_vars

(* Threads are scheduled.  Neither an interrupt nor the end of AppMain is   *)
(* owed.                                                                   *)
FairSpec ==
  /\ Spec
  /\ WF_vars(~exited /\ MainThread)
  /\ \A i \in Index : WF_vars(~exited /\ Run(i))
  /\ WF_vars(~exited /\ StartAppMain)
  /\ WF_vars(~exited /\ LoopStopped)

----------------------------------------------------------------------------
PCs == {"none", "lock", "make", "wait1", "wait2", "loop", "spin", "AppMain", "ended"}

(* Every variable stays in its type: no counter passes the number of cores. *)
TypeOK ==
  /\ started \in 0 .. n
  /\ early \in {"create", "join", "done"}
  /\ init_lock_ \in Index \cup {NoOne}
  /\ cpus \subseteq Index
  /\ numCpus_ \in 0 .. n
  /\ created_ \in 0 .. n /\ running_ \in 0 .. n /\ inited_ \in 0 .. n
  /\ events \in [Index -> SUBSET {"first", "AppMain"}]
  /\ pc \in [Index -> PCs]
  /\ shutdown_ \in {0, 1}
  /\ stops \in Nat
  /\ exited \in BOOLEAN

(* AppMain may spawn on every core (GetByIndex of any index, Count of them): *)
(* when it runs, all n are made, counted, and past their first event.       *)
AllUpForAppMain ==
  pc[0] = "AppMain" =>
    /\ cpus = Index /\ numCpus_ = n
    /\ \A i \in Index \ {0} : pc[i] \in {"spin", "loop"} /\ events[i] = {}

(* No barrier is missed: AppMain starts, unless SIGINT came first.          *)
AppMainStarts == <>(pc[0] = "AppMain" \/ stops > 0)

(* Once shutting down has begun the program exits, although only core 0's   *)
(* loop is stopped and the other cores may spin in their first event.       *)
InterruptExits == (shutdown_ = 1) ~> exited
============================================================================
