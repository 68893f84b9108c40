------------------------------- MODULE MPTest -------------------------------
(***************************************************************************)
(* The harness of ubench's multiprocessor tests (ubenchCommon.h, MPTest):   *)
(* run the same work on n cores at once, between two barriers, and report   *)
(* each core's time.                                                       *)
(*                                                                         *)
(* The caller, on core 0, spawns one event per core and saves its context.  *)
(* The events meet at a barrier, work, meet again, store their result,      *)
(* increment a counter on the CALLER'S STACK and spin until it reaches n;   *)
(* the one on the caller's core then activates the caller.  Cores run their *)
(* events one after the other, to completion.                               *)
(*                                                                         *)
(* MPTest is a template over the type of the work, so that the static       *)
(* barrier is one per place in the program that calls it: a test calls it   *)
(* from one place or from several in turn, and repeats.  The work itself is *)
(* a loop of cnt actions that returns their number (timing_test); the       *)
(* module Counters gives it another meaning.                                *)
(***************************************************************************)
EXTENDS Integers, Sequences

CONSTANTS
  NumCpus,    \* ebbrt::Cpu::Count()
  Requested,  \* the processor count asked for (-P)
  cnt,        \* the action count (-A)
  Sites,      \* the places a test calls MPTest from, in turn
  Calls       \* how many calls it makes in all: Sites times -R

ASSUME CpusAssumption ==
  /\ NumCpus \in Nat \ {0} /\ Requested \in Int /\ cnt \in Nat
  /\ Sites \in Nat \ {0} /\ Calls \in Nat \ {0}

Cpus == 0 .. NumCpus - 1

(* The parameter is a size_t: a negative request is a huge one.             *)
n == IF Requested < 0 \/ Requested > NumCpus THEN NumCpus ELSE Requested

Workers == 0 .. n - 1

(* The place that makes the call number k.                                  *)
SiteOf(k) == ((k - 1) % Sites) + 1

VARIABLES
  main,     \* where the caller is
  call,     \* the number of the current call
  spawned,  \* the events it has spawned
  slot,     \* the memory of count, in the caller's frame
  ready,    \* the caller's context is activated
  queue,    \* queue[i]: the events waiting on core i, by call
  pc,       \* pc[i]: where the event that runs on core i is
  mine,     \* mine[i]: the call it belongs to
  step,     \* step[i]: the barrier step it has seen
  bar,      \* bar[site]: the static SpinBarriers
  rc,       \* rc[i]: what the work on core i returned
  results   \* MPResults[i]: the call that stored it, and the rc it stored

callerVars == <<main, call, spawned, slot, ready>>
workerVars == <<pc, mine, step, bar, rc, results>>
vars == <<callerVars, queue, workerVars>>

Init ==
  /\ main = "enter"
  /\ call = 0
  /\ spawned = 0
  /\ slot = 0
  /\ ready = FALSE
  /\ queue = [i \in Cpus |-> << >>]
  /\ pc = [i \in Cpus |-> "idle"]
  /\ mine = [i \in Cpus |-> 0]
  /\ step = [i \in Cpus |-> 0]
  /\ bar = [site \in 1 .. Sites |-> [waiters |-> n, step |-> 0]]
  /\ rc = [i \in Cpus |-> 0]
  /\ results = [i \in Cpus |-> [call |-> 0, rc |-> 0]]

Goto(i, label) == pc' = [pc EXCEPT ![i] = label]

(* The caller's core is free for it.                                        *)
CallerRuns == pc[0] = "idle"

----------------------------------------------------------------------------
(* The caller                                                               *)

(* A call: count(0) is made in the new frame, which lies where the previous *)
(* call's frame lay.                                                        *)
Enter ==
  /\ main = "enter"
  /\ call < Calls
  /\ CallerRuns
  /\ call' = call + 1
  /\ slot' = 0
  /\ spawned' = 0
  /\ main' = "spawn"
  /\ UNCHANGED <<ready, queue, workerVars>>

Spawn ==
  /\ main = "spawn"
  /\ spawned < n
  /\ queue' = [queue EXCEPT ![spawned] = Append(@, call)]
  /\ spawned' = spawned + 1
  /\ UNCHANGED <<main, call, slot, ready, workerVars>>

SaveContext ==
  /\ main = "spawn"
  /\ spawned = n
  /\ main' = "saved"
  /\ UNCHANGED <<call, spawned, slot, ready, queue, workerVars>>

Resume ==
  /\ main = "saved"
  /\ ready
  /\ CallerRuns
  /\ ready' = FALSE
  /\ main' = "report"
  /\ UNCHANGED <<call, spawned, slot, queue, workerVars>>

(* The results are printed and n==count asserted; on return the frame is    *)
(* dead and its memory holds whatever the next calls leave there.           *)
Return ==
  /\ main = "report"
  /\ main' = IF call = Calls THEN "done" ELSE "enter"
  /\ slot' \in 0 .. n
  /\ UNCHANGED <<call, spawned, ready, queue, workerVars>>

----------------------------------------------------------------------------
(* The spawned event                                                        *)

(* A core takes its next event; core 0 only while the caller is blocked.    *)
Start(i) ==
  /\ pc[i] = "idle"
  /\ queue[i] # << >>
  /\ i = 0 => main = "saved" /\ ~ready
  /\ queue' = [queue EXCEPT ![i] = Tail(@)]
  /\ mine' = [mine EXCEPT ![i] = Head(queue[i])]
  /\ Goto(i, "arrive1")
  /\ UNCHANGED <<callerVars, step, bar, rc, results>>

(* A seeded fault: the barrier is not reset for its next use.               *)
Arrive_NoReset(i, from, to) ==
  /\ pc[i] = from
  /\ LET b == bar[SiteOf(mine[i])]
     IN  /\ step' = [step EXCEPT ![i] = b.step]
         /\ bar' = [bar EXCEPT ![SiteOf(mine[i])] =
              [waiters |-> b.waiters - 1,
               step |-> IF b.waiters = 1 THEN b.step + 1 ELSE b.step]]
  /\ Goto(i, to)
  /\ UNCHANGED <<callerVars, queue, mine, rc, results>>

(* SpinBarrier::Wait in two steps: arriving (the last arrival opens it) and *)
(* leaving.                                                                 *)
Arrive(i, from, to) ==
  /\ pc[i] = from
  /\ LET b == bar[SiteOf(mine[i])]
     IN  /\ step' = [step EXCEPT ![i] = b.step]
         /\ bar' = [bar EXCEPT ![SiteOf(mine[i])] =
              IF b.waiters = 1 THEN [waiters |-> n, step |-> b.step + 1]
                               ELSE [b EXCEPT !.waiters = @ - 1]]
  /\ Goto(i, to)
  /\ UNCHANGED <<callerVars, queue, mine, rc, results>>

(* A seeded fault: a core does not wait at the barrier.                     *)
Leave_Early(i, from, to) ==
  /\ pc[i] = from
  /\ Goto(i, to)
  /\ UNCHANGED <<callerVars, queue, mine, step, bar, rc, results>>

Leave(i, from, to) ==
  /\ pc[i] = from
  /\ bar[SiteOf(mine[i])].step # step[i]
  /\ Goto(i, to)
  /\ UNCHANGED <<callerVars, queue, mine, step, bar, rc, results>>

(* rc = work(cnt) returns r.                                                *)
WorkReturns(i, r) ==
  /\ pc[i] = "work"
  /\ rc' = [rc EXCEPT ![i] = r]
  /\ Goto(i, "arrive2")
  /\ UNCHANGED <<callerVars, queue, mine, step, bar, results>>

(* The result, then count++.                                                *)
Store(i) ==
  /\ pc[i] = "store"
  /\ results' = [results EXCEPT ![i] = [call |-> mine[i], rc |-> rc[i]]]
  /\ Goto(i, "count")
  /\ UNCHANGED <<callerVars, queue, mine, step, bar, rc>>

Count(i) ==
  /\ pc[i] = "count"
  /\ slot' = slot + 1
  /\ Goto(i, "spin")
  /\ UNCHANGED <<main, call, spawned, ready, queue, mine, step, bar, rc, results>>

(* A seeded fault: the loop ends one count early.                           *)
Spin_OffByOne(i) ==
  /\ pc[i] = "spin"
  /\ slot >= n - 1
  /\ Goto(i, "idle")
  /\ ready' = (ready \/ i = 0)
  /\ UNCHANGED <<main, call, spawned, slot, queue, mine, step, bar, rc, results>>

(* while (count < n): the read is of the caller's frame, dead or alive.     *)
(* The event of the caller's core activates the caller.                     *)
Spin(i) ==
  /\ pc[i] = "spin"
  /\ slot >= n
  /\ Goto(i, "idle")
  /\ ready' = (ready \/ i = 0)
  /\ UNCHANGED <<main, call, spawned, slot, queue, mine, step, bar, rc, results>>

(* The event's own steps, around its work.                                  *)
Harness(i) ==
  \/ Start(i)
  \/ Arrive(i, "arrive1", "wait1")
  \/ Leave(i, "wait1", "work")
  \/ Arrive(i, "arrive2", "wait2")
  \/ Leave(i, "wait2", "store")
  \/ Store(i) \/ Count(i) \/ Spin(i)

Work(i) == Harness(i) \/ WorkReturns(i, cnt)

Caller == Enter \/ Spawn \/ SaveContext \/ Resume \/ Return

Next == Caller \/ \E i \in Cpus : Work(i)

Spec == Init /\ [][Next]_vars

(* Every core runs: threads and cores are not stopped for ever.             *)
FairSpec == Spec /\ WF_vars(Caller) /\ \A i \in Cpus : WF_vars(Work(i))

----------------------------------------------------------------------------
(* Every variable stays in its type; a barrier's waiters is never 0, unless  *)
(* nobody is asked for, and the count, even in a dead frame, never passes n. *)
TypeOK ==
  /\ main \in {"enter", "spawn", "saved", "report", "done"}
  /\ call \in 0 .. Calls
  /\ spawned \in 0 .. n
  /\ slot \in 0 .. n
  /\ ready \in BOOLEAN
  /\ queue \in [Cpus -> Seq(1 .. Calls)]
  /\ pc \in [Cpus -> {"idle", "arrive1", "wait1", "work", "arrive2", "wait2", "store", "count", "spin"}]
  /\ mine \in [Cpus -> 0 .. Calls]
  /\ step \in [Cpus -> Nat]
  /\ bar \in [1 .. Sites -> [waiters : (1 .. n) \cup {n}, step : Nat]]
  /\ rc \in [Cpus -> Int]
  /\ results \in [Cpus -> [call : 0 .. Calls, rc : Int]]

(* assert(n==count), and what the report prints: every core has stored the  *)
(* result of this very call, never one left over from the call before.      *)
ReportsThisCall ==
  main = "report" => /\ slot = n
                     /\ \A i \in Workers : results[i].call = call

(* While a core does the measured work (between the barriers), every core   *)
(* is in the same call, has arrived, and none has gone past the second      *)
(* barrier -- though the barrier is reused at once and by every call.       *)
Measuring(i) == pc[i] \in {"work", "arrive2"}

WorkTogether ==
  \A i, j \in Workers :
    Measuring(i) => mine[j] = mine[i] /\ pc[j] \in {"wait1", "work", "arrive2", "wait2"}

(* The event refers to the work, the counter and the count of its caller's  *)
(* frame without owning them: up to and including its count++, the caller   *)
(* is still in the same call and has not been resumed.                      *)
FrameAlive ==
  \A i \in Workers :
    pc[i] \notin {"idle", "spin"} => mine[i] = call /\ main \in {"spawn", "saved"} /\ ~ready

(* A call ends, however the cores race, unless one of them is left behind:   *)
(* still spinning on the count of an earlier call, in a frame that is dead.  *)
(* Nothing else, no barrier and no result, can make a call hang.            *)
LeftBehind == \E i \in Workers : pc[i] = "spin" /\ mine[i] # call

EndsOrLeftBehind == main = "spawn" ~> (main = "report" \/ LeftBehind)

(* All calls end: "-R repeatCount : number of times to repeat test".        *)
CallsEnd == <>(main = "done")
============================================================================
