---------------------------- MODULE MPTest_proofs ----------------------------
(***************************************************************************)
(* The safety of MPTest, and of the counter tests that run through it, for   *)
(* any number of cores, requests, sites and calls.                          *)
(*                                                                         *)
(* None of the properties is inductive.  What makes them true is that a call *)
(* cannot end without every worker: a core that is left behind in an earlier *)
(* call has not started this one, so it is not counted, and neither barrier  *)
(* nor count can be complete without it.  The inductive invariant ties the   *)
(* three numbers the code keeps (the two rounds of a barrier's waiters and   *)
(* the caller's count) to the workers they count, and says at which place a  *)
(* worker is that belongs to the current call or to an earlier one.          *)
(*                                                                         *)
(* That a counter counts rests on that: the operations of one call are done  *)
(* between its barriers, so what the counter holds is their number, whoever  *)
(* did them, and the readers of the third call find it at 0.                *)
(***************************************************************************)
EXTENDS Counters, FiniteSetTheorems, SequenceTheorems, WellFoundedInduction, TLAPS

(* The workers of the current call that are past the arrival at its first    *)
(* barrier, at its second, and past count++.                                *)
Arrived1 == {i \in Workers : mine[i] = call /\ pc[i] # "arrive1"}
Arrived2 == {i \in Arrived1 : pc[i] \notin {"wait1", "work", "arrive2"}}
Counted == {i \in Arrived2 : pc[i] \in {"spin", "idle"}}

(* Who does not take part is idle; a worker that runs for an earlier call is *)
(* spinning or through, and has this call queued if it is spawned already.   *)
CoresOK ==
  /\ \A i \in Cpus : mine[i] <= call
  /\ \A i \in Cpus \ Workers : pc[i] = "idle" /\ queue[i] = << >>
  /\ \A i \in Workers :
       /\ pc[i] \notin {"idle", "spin"} => mine[i] = call
       /\ queue[i] = IF mine[i] # call /\ i < spawned THEN <<call>> ELSE << >>
       /\ mine[i] = call /\ main = "spawn" => i < spawned

(* The caller goes on only when all workers are counted.                    *)
CallerOK ==
  /\ main = "saved" => spawned = n
  /\ main \in {"enter", "report", "done"} \/ ready => Counted = Workers
  /\ main \in {"spawn", "saved", "report"} => slot = Cardinality(Counted)
  /\ ready => main = "saved" /\ pc[0] = "idle"
  /\ pc[0] # "idle" => main = "saved" /\ ~ready /\ mine[0] = call

(* The current call's barrier counts the workers that arrived in its first   *)
(* round, then in its second; who waits in a round that is complete sees    *)
(* another step than its own.  All other barriers are reset.                *)
BarriersOK ==
  LET b == bar[SiteOf(call)]
  IN  /\ Arrived1 # Workers =>
           /\ b.waiters = n - Cardinality(Arrived1)
           /\ \A i \in Arrived1 : pc[i] = "wait1" /\ step[i] = b.step
      /\ Arrived1 = Workers /\ Arrived2 # Workers =>
           /\ b.waiters = n - Cardinality(Arrived2)
           /\ \A i \in Arrived2 : pc[i] = "wait2" /\ step[i] = b.step
           /\ \A i \in Workers : pc[i] = "wait1" => step[i] # b.step
      /\ Arrived2 = Workers =>
           /\ b.waiters = n
           /\ \A i \in Workers : pc[i] = "wait2" => step[i] # b.step
      /\ \A site \in 1 .. Sites : site # SiteOf(call) => bar[site].waiters = n

(* Who has stored its result stored it for this call.                       *)
StoredOK ==
  \A i \in Workers : mine[i] = call /\ pc[i] \in {"count", "spin", "idle"} => results[i].call = call

IInv == TypeOK /\ CoresOK /\ CallerOK /\ BarriersOK /\ StoredOK

(* No worker is more than a core, and every call has a site.                *)
LEMMA Sizes ==
  /\ n \in Nat /\ n <= NumCpus /\ Workers \subseteq Cpus /\ 0 \in Cpus
  /\ n > 0 => 0 \in Workers
  /\ \A i \in Cpus : i \in Int /\ i >= 0
  /\ \A i \in Workers : n > 0
  BY CpusAssumption DEF n, Workers, Cpus

LEMMA SiteFacts ==
  ASSUME NEW k \in Int
  PROVE  SiteOf(k) \in 1 .. Sites
  <1>1. (k - 1) % Sites \in 0 .. Sites - 1
    BY CpusAssumption
  <1> QED
    BY <1>1, CpusAssumption DEF SiteOf

(* A set of workers has at most n members, and all of them if it has n.      *)
LEMMA CountsWorkers ==
  ASSUME NEW S \in SUBSET Workers
  PROVE  /\ Cardinality(S) \in 0 .. n
         /\ Cardinality(S) = n <=> S = Workers
         /\ S = {} => Cardinality(S) = 0
         /\ \A i \in Workers \ S : Cardinality(S \cup {i}) = Cardinality(S) + 1
  <1>1. IsFiniteSet(Workers) /\ Cardinality(Workers) = n
    <2>1. 0 \in Int /\ n - 1 \in Int
      BY Sizes
    <2>2. /\ IsFiniteSet(0 .. n - 1)
          /\ Cardinality(0 .. n - 1) = IF 0 > n - 1 THEN 0 ELSE (n - 1) - 0 + 1
      BY <2>1, FS_Interval
    <2> QED
      BY <2>2, Sizes DEF Workers
  <1>2. IsFiniteSet(S) /\ Cardinality(S) <= n /\ (Cardinality(S) = n => S = Workers)
    BY <1>1, FS_Subset
  <1>3. Cardinality(S) \in Nat
    BY <1>2, FS_CardinalityType
  <1>4. \A i \in Workers \ S : Cardinality(S \cup {i}) = Cardinality(S) + 1
    BY <1>2, FS_AddElement
  <1> QED
    BY <1>1, <1>2, <1>3, <1>4, FS_EmptySet, Sizes

LEMMA Nested == Counted \subseteq Arrived2 /\ Arrived2 \subseteq Arrived1 /\ Arrived1 \subseteq Workers
  BY DEF Counted, Arrived2, Arrived1

(* A queue with one call, and what is left of it.                           *)
LEMMA OneCall ==
  ASSUME NEW k \in 1 .. Calls
  PROVE  /\ <<k>> \in Seq(1 .. Calls) /\ << >> \in Seq(1 .. Calls)
         /\ <<k>> # << >> /\ Head(<<k>>) = k /\ Tail(<<k>>) = << >>
         /\ Append(<< >>, k) = <<k>>
  OBVIOUS

(* The initial states satisfy the inductive invariant.                      *)
LEMMA InitIInv == Init => IInv
  <1> SUFFICES ASSUME Init PROVE IInv
    OBVIOUS
  <1>1. Arrived1 = Workers /\ Arrived2 = Workers /\ Counted = Workers
    BY Sizes DEF Init, Arrived1, Arrived2, Counted
  <1>2. TypeOK
    <2>1. << >> \in Seq(1 .. Calls)
      OBVIOUS
    <2>2. queue \in [Cpus -> Seq(1 .. Calls)]
      BY <2>1 DEF Init
    <2>3. 0 \in 0 .. Calls /\ 0 \in 0 .. n /\ n \in (1 .. n) \cup {n}
      BY CpusAssumption, Sizes
    <2>4. /\ bar \in [1 .. Sites -> [waiters : (1 .. n) \cup {n}, step : Nat]]
          /\ results \in [Cpus -> [call : 0 .. Calls, rc : Int]]
      BY <2>3 DEF Init
    <2> QED
      BY <2>2, <2>3, <2>4 DEF Init, TypeOK
  <1>3. CoresOK /\ CallerOK
    BY <1>1, Sizes DEF Init, CoresOK, CallerOK
  <1>4. BarriersOK
    <2>1. SiteOf(0) \in 1 .. Sites
      BY SiteFacts
    <2> QED
      BY <1>1, <2>1, Sizes DEF Init, BarriersOK
  <1>5. StoredOK
    BY Sizes DEF Init, StoredOK
  <1> QED
    BY <1>2, <1>3, <1>4, <1>5 DEF IInv

(* The barriers stay right when none is touched and nobody who waits in a    *)
(* round that is not complete moves.                                        *)
LEMMA BarriersSame ==
  ASSUME BarriersOK, UNCHANGED <<bar, call, step>>,
         Arrived1' = Arrived1, Arrived2' = Arrived2,
         \A i \in Workers : pc'[i] \in {"wait1", "wait2"} => pc'[i] = pc[i],
         Arrived1 # Workers => \A i \in Arrived1 : pc'[i] = pc[i],
         Arrived2 # Workers => \A i \in Arrived2 : pc'[i] = pc[i]
  PROVE  BarriersOK'
  <1>1. bar'[SiteOf(call')] = bar[SiteOf(call)] /\ SiteOf(call') = SiteOf(call)
    OBVIOUS
  <1> QED
    BY <1>1 DEF BarriersOK

(* The sets of workers depend on call, mine and pc alone.                   *)
LEMMA SameSets ==
  ASSUME UNCHANGED <<call, mine, pc>>
  PROVE  Arrived1' = Arrived1 /\ Arrived2' = Arrived2 /\ Counted' = Counted
  BY DEF Arrived1, Arrived2, Counted

----------------------------------------------------------------------------
(* The caller                                                               *)

(* Enter: the barrier of the new call is reset, and nobody has arrived.      *)
LEMMA EnterStep ==
  ASSUME IInv, Enter
  PROVE  IInv'
  <1>1. /\ main = "enter" /\ call < Calls /\ pc[0] = "idle"
        /\ call' = call + 1 /\ slot' = 0 /\ spawned' = 0 /\ main' = "spawn"
        /\ ready' = ready /\ queue' = queue /\ pc' = pc /\ mine' = mine
        /\ step' = step /\ bar' = bar /\ rc' = rc /\ results' = results
    BY DEF Enter, CallerRuns, workerVars
  <1>2. call \in Nat /\ Calls \in Nat /\ call' \in 0 .. Calls
    BY <1>1, CpusAssumption DEF IInv, TypeOK
  <1>3. /\ Counted = Workers /\ Arrived2 = Workers
        /\ \A i \in Workers : mine[i] = call /\ pc[i] \in {"spin", "idle"}
    BY <1>1, Nested DEF IInv, CallerOK, Counted, Arrived2, Arrived1
  <1>4. Arrived1' = {} /\ Arrived2' = {} /\ Counted' = {}
    BY <1>1, <1>2, <1>3 DEF Arrived1, Arrived2, Counted
  <1>5. TypeOK'
    BY <1>1, <1>2, Sizes DEF IInv, TypeOK
  <1>6. CoresOK'
    <2>1. \A i \in Cpus : mine'[i] <= call'
      BY <1>1, <1>2 DEF IInv, TypeOK, CoresOK
    <2>2. \A i \in Workers : queue[i] = << >> /\ ~(i < 0) /\ mine'[i] # call'
      BY <1>1, <1>2, <1>3, Sizes DEF IInv, CoresOK
    <2> QED
      BY <1>1, <1>3, <2>1, <2>2 DEF IInv, CoresOK
  <1>7. CallerOK'
    BY <1>1, <1>4, FS_EmptySet DEF IInv, CallerOK
  <1>8. BarriersOK'
    <2>1. SiteOf(call) \in 1 .. Sites /\ SiteOf(call') \in 1 .. Sites
      BY <1>1, <1>2, SiteFacts
    <2>2. \A site \in 1 .. Sites : bar[site].waiters = n
      BY <1>3, <2>1 DEF IInv, BarriersOK
    <2> QED
      BY <1>1, <1>3, <1>4, <2>1, <2>2, FS_EmptySet, Sizes DEF BarriersOK
  <1>9. StoredOK'
    BY <1>1, <1>2, <1>3 DEF StoredOK
  <1> QED
    BY <1>5, <1>6, <1>7, <1>8, <1>9 DEF IInv

(* Spawn: the worker has nothing queued yet, and is not in the new call.     *)
LEMMA SpawnStep ==
  ASSUME IInv, Spawn
  PROVE  IInv'
  <1>1. /\ main = "spawn" /\ spawned < n /\ spawned' = spawned + 1
        /\ queue' = [queue EXCEPT ![spawned] = Append(@, call)]
        /\ main' = main /\ call' = call /\ slot' = slot /\ ready' = ready
        /\ pc' = pc /\ mine' = mine
        /\ step' = step /\ bar' = bar /\ rc' = rc /\ results' = results
    BY DEF Spawn, workerVars
  <1>2. spawned \in Workers /\ spawned \in Cpus /\ spawned \in Nat
    BY <1>1, Sizes DEF IInv, TypeOK, Workers
  <1>3. mine[spawned] # call /\ queue[spawned] = << >>
    BY <1>1, <1>2 DEF IInv, CoresOK
  <1>4. call \in 1 .. Calls
    BY <1>2, <1>3, CpusAssumption DEF IInv, TypeOK, CoresOK
  <1>5. /\ queue' \in [Cpus -> Seq(1 .. Calls)]
        /\ \A i \in Cpus : queue'[i] = IF i = spawned THEN <<call>> ELSE queue[i]
    BY <1>1, <1>2, <1>3, <1>4, OneCall DEF IInv, TypeOK
  <1>6. Arrived1' = Arrived1 /\ Arrived2' = Arrived2 /\ Counted' = Counted
    BY <1>1, SameSets
  <1>7. TypeOK'
    <2>1. spawned' \in 0 .. n
      BY <1>1, <1>2, Sizes
    <2> QED
      BY <1>1, <1>5, <2>1 DEF IInv, TypeOK
  <1>8. CoresOK'
    <2>1. \A i \in Workers : i \in Int /\ i \in Cpus /\ (i < spawned' <=> i < spawned \/ i = spawned)
      BY <1>1, <1>2, Sizes
    <2> QED
      BY <1>1, <1>2, <1>3, <1>5, <2>1 DEF IInv, CoresOK
  <1>9. CallerOK' /\ StoredOK'
    BY <1>1, <1>6 DEF IInv, CallerOK, StoredOK
  <1>10. BarriersOK'
    BY <1>1, <1>6, BarriersSame DEF IInv
  <1> QED
    BY <1>7, <1>8, <1>9, <1>10 DEF IInv

(* SaveContext, Resume and Return: only the caller moves.                   *)
LEMMA CallerMoves ==
  ASSUME IInv, SaveContext \/ Resume \/ Return
  PROVE  IInv'
  <1>1. /\ call' = call /\ spawned' = spawned /\ queue' = queue /\ pc' = pc /\ mine' = mine
        /\ step' = step /\ bar' = bar /\ rc' = rc /\ results' = results
    BY DEF SaveContext, Resume, Return, workerVars
  <1>2. Arrived1' = Arrived1 /\ Arrived2' = Arrived2 /\ Counted' = Counted
    BY <1>1, SameSets
  <1>3. TypeOK'
    BY <1>1 DEF IInv, TypeOK, SaveContext, Resume, Return
  <1>4. CoresOK'
    BY <1>1 DEF IInv, CoresOK, SaveContext, Resume, Return
  <1>5. CallerOK'
    BY <1>1, <1>2 DEF IInv, TypeOK, CallerOK, SaveContext, Resume, Return, CallerRuns
  <1>6. BarriersOK' /\ StoredOK'
    BY <1>1, <1>2, BarriersSame DEF IInv, StoredOK
  <1> QED
    BY <1>3, <1>4, <1>5, <1>6 DEF IInv

LEMMA CallerStep ==
  ASSUME IInv, Caller
  PROVE  IInv'
  BY EnterStep, SpawnStep, CallerMoves DEF Caller

----------------------------------------------------------------------------
(* The spawned event                                                        *)

PCs == {"idle", "arrive1", "wait1", "work", "arrive2", "wait2", "store", "count", "spin"}

(* A worker goes to a place.                                                *)
LEMMA GotoFacts ==
  ASSUME TypeOK, NEW i \in Cpus, NEW label \in PCs, Goto(i, label)
  PROVE  /\ pc' \in [Cpus -> PCs]
         /\ \A j \in Cpus : pc'[j] = IF j = i THEN label ELSE pc[j]
  BY DEF TypeOK, Goto, PCs

(* Who is inside an event belongs to the current call, whose caller waits.   *)
LEMMA InsideFacts ==
  ASSUME IInv, NEW i \in Cpus, pc[i] \notin {"idle", "spin"}
  PROVE  /\ i \in Workers /\ mine[i] = call /\ i \notin Counted /\ Counted # Workers
         /\ main \in {"spawn", "saved"} /\ ~ready /\ slot = Cardinality(Counted)
         /\ main = "spawn" => i # 0
  <1>1. i \in Workers /\ mine[i] = call /\ i \notin Counted
    BY DEF IInv, CoresOK, Counted
  <1> QED
    BY <1>1 DEF IInv, TypeOK, CallerOK

(* A worker's step that leaves calls, queues and the caller alone keeps the  *)
(* parts about cores and the caller.                                        *)
LEMMA InsideStep ==
  ASSUME IInv, NEW i \in Cpus, pc[i] \notin {"idle", "spin"},
         \A j \in Cpus : pc'[j] = IF j = i THEN pc'[i] ELSE pc[j], pc'[i] # "idle",
         \/ Counted' = Counted /\ slot' = slot
         \/ Counted' = Counted \cup {i} /\ slot' = slot + 1,
         main' = main, call' = call, spawned' = spawned, ready' = ready, queue' = queue,
         mine' = mine
  PROVE  CoresOK' /\ CallerOK' /\ slot' \in 0 .. n
  <1>1. /\ i \in Workers /\ mine[i] = call /\ i \notin Counted /\ Counted # Workers
        /\ main \in {"spawn", "saved"} /\ ~ready /\ slot = Cardinality(Counted)
        /\ main = "spawn" => i # 0
    BY InsideFacts
  <1>2. pc'[i] # "idle" /\ \A j \in Cpus \ {i} : pc'[j] = pc[j]
    OBVIOUS
  <1>3. CoresOK'
    BY <1>1, <1>2, Sizes DEF IInv, CoresOK
  <1>4. slot' = Cardinality(Counted') /\ slot' \in 0 .. n
    <2>1. Counted' \subseteq Workers
      BY <1>1, Nested
    <2>2. slot' = Cardinality(Counted')
      BY <1>1, Nested, CountsWorkers
    <2> QED
      BY <2>1, <2>2, CountsWorkers
  <1>5. CallerOK'
    BY <1>1, <1>2, <1>4, Sizes DEF IInv, CallerOK
  <1> QED
    BY <1>3, <1>4, <1>5

(* Start: the event of the current call, on a core that is through with the  *)
(* earlier one.                                                             *)
LEMMA StartStep ==
  ASSUME IInv, NEW i \in Cpus, Start(i)
  PROVE  IInv'
  <1>1. /\ pc[i] = "idle" /\ queue[i] # << >> /\ (i = 0 => main = "saved" /\ ~ready)
        /\ queue' = [queue EXCEPT ![i] = Tail(@)]
        /\ mine' = [mine EXCEPT ![i] = Head(queue[i])] /\ Goto(i, "arrive1")
        /\ main' = main /\ call' = call /\ spawned' = spawned /\ slot' = slot
        /\ ready' = ready /\ step' = step /\ bar' = bar /\ rc' = rc /\ results' = results
    BY DEF Start, callerVars
  <1>2. i \in Workers /\ mine[i] # call /\ i < spawned /\ queue[i] = <<call>>
    BY <1>1 DEF IInv, CoresOK
  <1>3. call \in 1 .. Calls
    BY <1>2, CpusAssumption DEF IInv, TypeOK, CoresOK
  <1>4. Head(queue[i]) = call /\ Tail(queue[i]) = << >>
    BY <1>2, <1>3, OneCall
  <1>5. /\ queue' \in [Cpus -> Seq(1 .. Calls)] /\ mine' \in [Cpus -> 0 .. Calls]
        /\ \A j \in Cpus : queue'[j] = IF j = i THEN << >> ELSE queue[j]
        /\ \A j \in Cpus : mine'[j] = IF j = i THEN call ELSE mine[j]
    <2>1. << >> \in Seq(1 .. Calls) /\ call \in 0 .. Calls
      BY <1>3, OneCall
    <2>2. queue \in [Cpus -> Seq(1 .. Calls)] /\ mine \in [Cpus -> 0 .. Calls]
      BY DEF IInv, TypeOK
    <2>3. queue' = [queue EXCEPT ![i] = << >>] /\ mine' = [mine EXCEPT ![i] = call]
      BY <1>1, <1>4
    <2>4. /\ queue' \in [Cpus -> Seq(1 .. Calls)]
          /\ \A j \in Cpus : queue'[j] = IF j = i THEN << >> ELSE queue[j]
      BY <2>1, <2>2, <2>3
    <2>5. /\ mine' \in [Cpus -> 0 .. Calls]
          /\ \A j \in Cpus : mine'[j] = IF j = i THEN call ELSE mine[j]
      BY <2>1, <2>2, <2>3
    <2> QED
      BY <2>4, <2>5
  <1>6. /\ pc' \in [Cpus -> PCs]
        /\ \A j \in Cpus : pc'[j] = IF j = i THEN "arrive1" ELSE pc[j]
    BY <1>1, GotoFacts DEF IInv, PCs
  <1>7. Workers \subseteq Cpus
    BY Sizes
  <1>8. /\ Arrived1' = Arrived1 /\ Arrived2' = Arrived2 /\ Counted' = Counted
        /\ i \notin Arrived1 /\ i \notin Arrived2
    BY <1>1, <1>2, <1>5, <1>6, <1>7 DEF Arrived1, Arrived2, Counted
  <1>9. TypeOK'
    BY <1>1, <1>5, <1>6 DEF IInv, TypeOK, PCs
  <1>10. CoresOK'
    <2>1. CoresOK /\ call \in Nat
      BY <1>3, CpusAssumption DEF IInv
    <2>2. \A j \in Cpus : mine'[j] <= call
      BY <1>5, <2>1 DEF CoresOK
    <2>3. \A j \in Cpus \ Workers : pc'[j] = "idle" /\ queue'[j] = << >>
      BY <1>2, <1>5, <1>6, <2>1 DEF CoresOK
    <2>4. \A j \in Workers :
            /\ pc'[j] \notin {"idle", "spin"} => mine'[j] = call
            /\ queue'[j] = IF mine'[j] # call /\ j < spawned THEN <<call>> ELSE << >>
            /\ mine'[j] = call /\ main = "spawn" => j < spawned
      BY <1>2, <1>5, <1>6, <1>7, <2>1 DEF CoresOK
    <2> QED
      BY <1>1, <2>2, <2>3, <2>4 DEF CoresOK
  <1>11. CallerOK'
    <2>1. Counted # Workers
      BY <1>2, <1>8, Nested
    <2> QED
      BY <1>1, <1>2, <1>5, <1>6, <1>8, <2>1, Sizes DEF IInv, TypeOK, CallerOK
  <1>12. BarriersOK'
    <2>1. \A j \in Arrived1 : pc'[j] = pc[j]
      BY <1>6, <1>7, <1>8, Nested
    <2>2. \A j \in Workers : pc'[j] \in {"wait1", "wait2"} => pc'[j] = pc[j]
      BY <1>6, <1>7
    <2> QED
      BY <1>1, <1>8, <2>1, <2>2, Nested, BarriersSame DEF IInv
  <1>13. StoredOK'
    BY <1>1, <1>5, <1>6, <1>7 DEF IInv, StoredOK
  <1> QED
    BY <1>9, <1>10, <1>11, <1>12, <1>13 DEF IInv

(* The two halves of a barrier's round.  The last arrival completes it and   *)
(* resets the barrier; the others count down.                               *)
LEMMA ArriveFacts ==
  ASSUME IInv, NEW i \in Cpus, NEW from \in {"arrive1", "arrive2"}, NEW to \in PCs \ {"idle"},
         Arrive(i, from, to)
  PROVE  LET b == bar[SiteOf(call)]
         IN  /\ pc[i] = from /\ i \in Workers /\ mine[i] = call
             /\ pc' \in [Cpus -> PCs]
             /\ \A j \in Cpus : pc'[j] = IF j = i THEN to ELSE pc[j]
             /\ step' \in [Cpus -> Nat]
             /\ \A j \in Cpus : step'[j] = IF j = i THEN b.step ELSE step[j]
             /\ bar' \in [1 .. Sites -> [waiters : (1 .. n) \cup {n}, step : Nat]]
             /\ b.waiters \in 1 .. n /\ b.step \in Nat
             /\ bar'[SiteOf(call)].waiters = IF b.waiters = 1 THEN n ELSE b.waiters - 1
             /\ bar'[SiteOf(call)].step = IF b.waiters = 1 THEN b.step + 1 ELSE b.step
             /\ \A site \in 1 .. Sites : site # SiteOf(call) => bar'[site] = bar[site]
             /\ UNCHANGED <<callerVars, queue, mine, rc, results>>
  <1> DEFINE b == bar[SiteOf(call)]
             b1 == IF b.waiters = 1 THEN [waiters |-> n, step |-> b.step + 1]
                                    ELSE [b EXCEPT !.waiters = @ - 1]
  <1>1. pc[i] = from /\ Goto(i, to) /\ UNCHANGED <<callerVars, queue, mine, rc, results>>
    BY DEF Arrive
  <1>2. i \in Workers /\ mine[i] = call
    BY <1>1, InsideFacts
  <1>3. step' = [step EXCEPT ![i] = b.step] /\ bar' = [bar EXCEPT ![SiteOf(call)] = b1]
    BY <1>2 DEF Arrive
  <1>4. SiteOf(call) \in 1 .. Sites
    <2>1. call \in Int
      BY CpusAssumption DEF IInv, TypeOK
    <2> QED
      BY <2>1, SiteFacts
  <1>5. b \in [waiters : (1 .. n) \cup {n}, step : Nat] /\ n \in Nat /\ n > 0
    BY <1>2, <1>4, Sizes DEF IInv, TypeOK
  <1>6. /\ b.waiters \in 1 .. n /\ b.step \in Nat
        /\ b1 \in [waiters : (1 .. n) \cup {n}, step : Nat]
        /\ b1.waiters = IF b.waiters = 1 THEN n ELSE b.waiters - 1
        /\ b1.step = IF b.waiters = 1 THEN b.step + 1 ELSE b.step
    BY <1>5
  <1> HIDE DEF b1
  <1>7. /\ bar' \in [1 .. Sites -> [waiters : (1 .. n) \cup {n}, step : Nat]]
        /\ bar'[SiteOf(call)] = b1
        /\ \A site \in 1 .. Sites : site # SiteOf(call) => bar'[site] = bar[site]
    BY <1>3, <1>4, <1>6 DEF IInv, TypeOK
  <1>8. /\ step' \in [Cpus -> Nat]
        /\ \A j \in Cpus : step'[j] = IF j = i THEN b.step ELSE step[j]
    BY <1>3, <1>6 DEF IInv, TypeOK
  <1>9. /\ pc' \in [Cpus -> PCs]
        /\ \A j \in Cpus : pc'[j] = IF j = i THEN to ELSE pc[j]
    BY <1>1, GotoFacts DEF IInv
  <1> QED
    BY <1>1, <1>2, <1>6, <1>7, <1>8, <1>9

(* The arrival at the first barrier.                                        *)
LEMMA Arrive1Step ==
  ASSUME IInv, NEW i \in Cpus, Arrive(i, "arrive1", "wait1")
  PROVE  IInv'
  <1> DEFINE b == bar[SiteOf(call)]
             c == bar'[SiteOf(call)]
  <1>1. /\ pc[i] = "arrive1" /\ i \in Workers /\ mine[i] = call
        /\ pc' \in [Cpus -> PCs]
        /\ \A j \in Cpus : pc'[j] = IF j = i THEN "wait1" ELSE pc[j]
        /\ step' \in [Cpus -> Nat]
        /\ \A j \in Cpus : step'[j] = IF j = i THEN b.step ELSE step[j]
        /\ bar' \in [1 .. Sites -> [waiters : (1 .. n) \cup {n}, step : Nat]]
        /\ b.waiters \in 1 .. n /\ b.step \in Nat
        /\ c.waiters = IF b.waiters = 1 THEN n ELSE b.waiters - 1
        /\ c.step = IF b.waiters = 1 THEN b.step + 1 ELSE b.step
        /\ \A site \in 1 .. Sites : site # SiteOf(call) => bar'[site] = bar[site]
    BY ArriveFacts DEF PCs
  <1>2. /\ main' = main /\ call' = call /\ spawned' = spawned /\ slot' = slot /\ ready' = ready
        /\ queue' = queue /\ mine' = mine /\ rc' = rc /\ results' = results
        /\ Goto(i, "wait1")
    BY DEF Arrive, callerVars
  <1> HIDE DEF b, c
  <1>3. Workers \subseteq Cpus
    BY Sizes
  <1>4. /\ i \notin Arrived1 /\ Arrived1' = Arrived1 \cup {i}
        /\ Arrived2' = Arrived2 /\ Counted' = Counted
    BY <1>1, <1>2, <1>3 DEF Arrived1, Arrived2, Counted
  <1>5. /\ b.waiters = n - Cardinality(Arrived1)
        /\ \A j \in Arrived1 : pc[j] = "wait1" /\ step[j] = b.step
    BY <1>1, <1>4 DEF IInv, BarriersOK, b
  <1>6. /\ Cardinality(Arrived1') = Cardinality(Arrived1) + 1
        /\ Cardinality(Arrived1') = n <=> Arrived1' = Workers
        /\ Cardinality(Arrived1) \in 0 .. n /\ n \in Nat /\ n > 0
    BY <1>1, <1>4, Nested, CountsWorkers, Sizes
  <1>7. Arrived2 = {} /\ Arrived2 # Workers /\ Cardinality(Arrived2) = 0
    BY <1>1, <1>5, Nested, FS_EmptySet DEF Arrived2
  <1>8. TypeOK'
    BY <1>1, <1>2 DEF IInv, TypeOK, PCs
  <1>9. CoresOK' /\ CallerOK'
    <2>1. /\ pc[i] \notin {"idle", "spin"} /\ pc'[i] # "idle"
          /\ \A j \in Cpus : pc'[j] = IF j = i THEN pc'[i] ELSE pc[j]
      BY <1>1
    <2>2. Counted' = Counted /\ slot' = slot
      BY <1>2, <1>4
    <2> QED
      BY <1>2, <2>1, <2>2, InsideStep
  <1>10. BarriersOK'
    <2>1. Arrived1' # Workers =>
            /\ c.waiters = n - Cardinality(Arrived1')
            /\ \A j \in Arrived1' : pc'[j] = "wait1" /\ step'[j] = c.step
      <3> SUFFICES ASSUME Arrived1' # Workers
          PROVE  /\ c.waiters = n - Cardinality(Arrived1')
                 /\ \A j \in Arrived1' : pc'[j] = "wait1" /\ step'[j] = c.step
        OBVIOUS
      <3>1. Cardinality(Arrived1') # n
        BY <1>6
      <3>2. b.waiters # 1
        BY <1>5, <1>6, <3>1
      <3>3. c.waiters = n - Cardinality(Arrived1') /\ c.step = b.step
        BY <1>1, <1>5, <1>6, <3>2
      <3>4. \A j \in Arrived1' : pc'[j] = "wait1" /\ step'[j] = c.step
        BY <1>1, <1>3, <1>4, <1>5, <3>3, Nested
      <3> QED
        BY <3>3, <3>4
    <2>2. Arrived1' = Workers =>
            /\ c.waiters = n
            /\ \A j \in Workers : pc'[j] = "wait1" => step'[j] # c.step
      <3> SUFFICES ASSUME Arrived1' = Workers
                   PROVE  /\ c.waiters = n
                          /\ \A j \in Workers : step'[j] # c.step
        OBVIOUS
      <3>1. b.waiters = 1
        BY <1>5, <1>6
      <3>2. c.waiters = n /\ c.step = b.step + 1
        BY <1>1, <3>1
      <3>3. \A j \in Workers : step'[j] = b.step
        BY <1>1, <1>3, <1>4, <1>5
      <3>4. b.step + 1 # b.step
        BY <1>1
      <3> QED
        BY <3>2, <3>3, <3>4
    <2>3. \A site \in 1 .. Sites : site # SiteOf(call) => bar'[site].waiters = n
      BY <1>1 DEF IInv, BarriersOK
    <2> QED
      BY <1>2, <1>4, <1>6, <1>7, <2>1, <2>2, <2>3 DEF BarriersOK, c
  <1>11. StoredOK'
    BY <1>1, <1>2, <1>3 DEF IInv, StoredOK
  <1> QED
    BY <1>8, <1>9, <1>10, <1>11 DEF IInv

(* The arrival at the second barrier, which all have reached.               *)
LEMMA Arrive2Step ==
  ASSUME IInv, NEW i \in Cpus, Arrive(i, "arrive2", "wait2")
  PROVE  IInv'
  <1> DEFINE b == bar[SiteOf(call)]
             c == bar'[SiteOf(call)]
  <1>1. /\ pc[i] = "arrive2" /\ i \in Workers /\ mine[i] = call
        /\ pc' \in [Cpus -> PCs]
        /\ \A j \in Cpus : pc'[j] = IF j = i THEN "wait2" ELSE pc[j]
        /\ step' \in [Cpus -> Nat]
        /\ \A j \in Cpus : step'[j] = IF j = i THEN b.step ELSE step[j]
        /\ bar' \in [1 .. Sites -> [waiters : (1 .. n) \cup {n}, step : Nat]]
        /\ b.waiters \in 1 .. n /\ b.step \in Nat
        /\ c.waiters = IF b.waiters = 1 THEN n ELSE b.waiters - 1
        /\ c.step = IF b.waiters = 1 THEN b.step + 1 ELSE b.step
        /\ \A site \in 1 .. Sites : site # SiteOf(call) => bar'[site] = bar[site]
    BY ArriveFacts DEF PCs
  <1>2. /\ main' = main /\ call' = call /\ spawned' = spawned /\ slot' = slot /\ ready' = ready
        /\ queue' = queue /\ mine' = mine /\ rc' = rc /\ results' = results
        /\ Goto(i, "wait2")
    BY DEF Arrive, callerVars
  <1>3. Workers \subseteq Cpus
    BY Sizes
  <1>4. /\ i \in Arrived1 /\ i \notin Arrived2 /\ Arrived1' = Arrived1
        /\ Arrived2' = Arrived2 \cup {i} /\ Counted' = Counted
    BY <1>1, <1>2, <1>3 DEF Arrived1, Arrived2, Counted
  <1>5. /\ Arrived1 = Workers /\ Arrived2 # Workers
        /\ b.waiters = n - Cardinality(Arrived2)
        /\ \A j \in Arrived2 : pc[j] = "wait2" /\ step[j] = b.step
        /\ \A j \in Workers : pc[j] = "wait1" => step[j] # b.step
    BY <1>1, <1>4 DEF IInv, BarriersOK
  <1> HIDE DEF b, c
  <1>6. /\ Cardinality(Arrived2') = Cardinality(Arrived2) + 1
        /\ Cardinality(Arrived2') = n <=> Arrived2' = Workers
        /\ Cardinality(Arrived2) \in 0 .. n /\ n \in Nat /\ n > 0
    BY <1>1, <1>4, Nested, CountsWorkers, Sizes
  <1>7. TypeOK'
    BY <1>1, <1>2 DEF IInv, TypeOK, PCs
  <1>8. CoresOK' /\ CallerOK'
    <2>1. /\ pc[i] \notin {"idle", "spin"} /\ pc'[i] # "idle"
          /\ \A j \in Cpus : pc'[j] = IF j = i THEN pc'[i] ELSE pc[j]
      BY <1>1
    <2>2. Counted' = Counted /\ slot' = slot
      BY <1>2, <1>4
    <2> QED
      BY <1>2, <2>1, <2>2, InsideStep
  <1>9. BarriersOK'
    <2>1. Arrived2' # Workers =>
            /\ c.waiters = n - Cardinality(Arrived2')
            /\ \A j \in Arrived2' : pc'[j] = "wait2" /\ step'[j] = c.step
            /\ \A j \in Workers : pc'[j] = "wait1" => step'[j] # c.step
      <3> SUFFICES ASSUME Arrived2' # Workers
          PROVE  /\ c.waiters = n - Cardinality(Arrived2')
                 /\ \A j \in Arrived2' : pc'[j] = "wait2" /\ step'[j] = c.step
                 /\ \A j \in Workers : pc'[j] = "wait1" => step'[j] # c.step
        OBVIOUS
      <3>1. Cardinality(Arrived2') # n
        BY <1>6
      <3>2. b.waiters # 1
        BY <1>5, <1>6, <3>1
      <3>3. c.waiters = n - Cardinality(Arrived2') /\ c.step = b.step
        BY <1>1, <1>5, <1>6, <3>2
      <3>4. \A j \in Arrived2' : pc'[j] = "wait2" /\ step'[j] = c.step
        BY <1>1, <1>3, <1>4, <1>5, <3>3, Nested
      <3>5. \A j \in Workers : pc'[j] = "wait1" => step'[j] # c.step
        BY <1>1, <1>3, <1>5, <3>3
      <3> QED
        BY <3>3, <3>4, <3>5
    <2>2. Arrived2' = Workers =>
            /\ c.waiters = n
            /\ \A j \in Workers : pc'[j] = "wait2" => step'[j] # c.step
      BY <1>1, <1>3, <1>4, <1>5, <1>6, Nested
    <2>3. \A site \in 1 .. Sites : site # SiteOf(call) => bar'[site].waiters = n
      BY <1>1 DEF IInv, BarriersOK
    <2> QED
      BY <1>2, <1>4, <1>5, <2>1, <2>2, <2>3 DEF BarriersOK, c
  <1>10. StoredOK'
    BY <1>1, <1>2, <1>3 DEF IInv, StoredOK
  <1> QED
    BY <1>7, <1>8, <1>9, <1>10 DEF IInv

(* A worker passes on between two arrivals: it leaves a round only when that  *)
(* is complete, and nothing is counted.                                     *)
LEMMA PassStep ==
  ASSUME IInv, NEW i \in Cpus, NEW to \in {"work", "arrive2", "store", "count"}, Goto(i, to),
         \/ pc[i] = "wait1" /\ to = "work" /\ bar[SiteOf(mine[i])].step # step[i]
         \/ pc[i] = "work" /\ to = "arrive2"
         \/ pc[i] = "wait2" /\ to = "store" /\ bar[SiteOf(mine[i])].step # step[i]
         \/ pc[i] = "store" /\ to = "count",
         main' = main, call' = call, spawned' = spawned, slot' = slot, ready' = ready,
         queue' = queue, mine' = mine, step' = step, bar' = bar,
         rc' \in [Cpus -> Int], results' \in [Cpus -> [call : 0 .. Calls, rc : Int]]
  PROVE  TypeOK' /\ CoresOK' /\ CallerOK' /\ BarriersOK'
  <1>1. /\ pc' \in [Cpus -> PCs]
        /\ \A j \in Cpus : pc'[j] = IF j = i THEN to ELSE pc[j]
    BY GotoFacts DEF IInv, PCs
  <1>2. i \in Workers /\ mine[i] = call /\ Workers \subseteq Cpus
    BY InsideFacts, Sizes
  <1>3. /\ Arrived1' = Arrived1 /\ Arrived2' = Arrived2 /\ Counted' = Counted
        /\ i \in Arrived1
        /\ i \in Arrived2 <=> pc[i] \in {"wait2", "store"}
    BY <1>1, <1>2 DEF Arrived1, Arrived2, Counted
  <1>4. TypeOK'
    BY <1>1 DEF IInv, TypeOK, PCs
  <1>5. CoresOK' /\ CallerOK'
    <2>1. /\ pc[i] \notin {"idle", "spin"} /\ pc'[i] # "idle"
          /\ \A j \in Cpus : pc'[j] = IF j = i THEN pc'[i] ELSE pc[j]
      BY <1>1
    <2>2. Counted' = Counted /\ slot' = slot
      BY <1>3
    <2> QED
      BY <2>1, <2>2, InsideStep
  <1>6. BarriersOK'
    <2>1. Arrived1 = Workers
      <3> SUFFICES ASSUME Arrived1 # Workers PROVE FALSE
        OBVIOUS
      <3>1. pc[i] = "wait1" /\ step[i] = bar[SiteOf(call)].step
        BY <1>3 DEF IInv, BarriersOK
      <3> QED
        BY <1>2, <3>1
    <2>2. Arrived2 # Workers => i \notin Arrived2
      BY <1>2, <1>3, <2>1 DEF IInv, BarriersOK
    <2>3. \A j \in Workers : pc'[j] \in {"wait1", "wait2"} => pc'[j] = pc[j]
      BY <1>1, <1>2
    <2>4. Arrived2 # Workers => \A j \in Arrived2 : pc'[j] = pc[j]
      BY <1>1, <1>2, <2>2, Nested
    <2> QED
      BY <1>3, <2>1, <2>3, <2>4, BarriersSame DEF IInv
  <1> QED
    BY <1>4, <1>5, <1>6

(* Leaving either barrier.                                                  *)
LEMMA LeaveStep ==
  ASSUME IInv, NEW i \in Cpus, Leave(i, "wait1", "work") \/ Leave(i, "wait2", "store")
  PROVE  IInv'
  <1> DEFINE to == IF pc[i] = "wait1" THEN "work" ELSE "store"
  <1>1. /\ \/ pc[i] = "wait1" /\ to = "work" /\ bar[SiteOf(mine[i])].step # step[i]
           \/ pc[i] = "wait2" /\ to = "store" /\ bar[SiteOf(mine[i])].step # step[i]
        /\ Goto(i, to) /\ to \in {"work", "store"}
        /\ main' = main /\ call' = call /\ spawned' = spawned /\ slot' = slot /\ ready' = ready
        /\ queue' = queue /\ mine' = mine /\ step' = step /\ bar' = bar /\ rc' = rc
        /\ results' = results
    BY DEF Leave, callerVars
  <1> HIDE DEF to
  <1>2. TypeOK' /\ CoresOK' /\ CallerOK' /\ BarriersOK'
    <2>1. rc' \in [Cpus -> Int] /\ results' \in [Cpus -> [call : 0 .. Calls, rc : Int]]
      BY <1>1 DEF IInv, TypeOK
    <2> QED
      BY <1>1, <2>1, PassStep
  <1>3. StoredOK'
    BY <1>1, GotoFacts, Sizes DEF IInv, StoredOK, PCs
  <1> QED
    BY <1>2, <1>3 DEF IInv

(* The work returns, whatever it returns.                                   *)
LEMMA WorkReturnsStep ==
  ASSUME IInv, NEW i \in Cpus, NEW r \in Int, WorkReturns(i, r)
  PROVE  IInv'
  <1>1. /\ pc[i] = "work" /\ Goto(i, "arrive2") /\ rc' = [rc EXCEPT ![i] = r]
        /\ main' = main /\ call' = call /\ spawned' = spawned /\ slot' = slot /\ ready' = ready
        /\ queue' = queue /\ mine' = mine /\ step' = step /\ bar' = bar /\ results' = results
    BY DEF WorkReturns, callerVars
  <1>2. TypeOK' /\ CoresOK' /\ CallerOK' /\ BarriersOK'
    <2>1. rc' \in [Cpus -> Int] /\ results' \in [Cpus -> [call : 0 .. Calls, rc : Int]]
      BY <1>1 DEF IInv, TypeOK
    <2> QED
      BY <1>1, <2>1, PassStep
  <1>3. StoredOK'
    BY <1>1, GotoFacts, Sizes DEF IInv, StoredOK, PCs
  <1> QED
    BY <1>2, <1>3 DEF IInv

(* The result is stored for the current call.                               *)
LEMMA StoreStep ==
  ASSUME IInv, NEW i \in Cpus, Store(i)
  PROVE  IInv'
  <1>1. /\ pc[i] = "store" /\ Goto(i, "count")
        /\ results' = [results EXCEPT ![i] = [call |-> mine[i], rc |-> rc[i]]]
        /\ main' = main /\ call' = call /\ spawned' = spawned /\ slot' = slot /\ ready' = ready
        /\ queue' = queue /\ mine' = mine /\ step' = step /\ bar' = bar /\ rc' = rc
    BY DEF Store, callerVars
  <1>2. TypeOK' /\ CoresOK' /\ CallerOK' /\ BarriersOK'
    <2>1. rc' \in [Cpus -> Int] /\ results' \in [Cpus -> [call : 0 .. Calls, rc : Int]]
      BY <1>1 DEF IInv, TypeOK
    <2> QED
      BY <1>1, <2>1, PassStep
  <1>3. StoredOK'
    <2>1. \A j \in Cpus : pc'[j] = IF j = i THEN "count" ELSE pc[j]
      BY <1>1, GotoFacts DEF IInv, PCs
    <2>2. results'[i].call = mine[i] /\ \A j \in Cpus \ {i} : results'[j] = results[j]
      BY <1>1 DEF IInv, TypeOK
    <2> QED
      BY <1>1, <2>1, <2>2, Sizes DEF IInv, StoredOK
  <1> QED
    BY <1>2, <1>3 DEF IInv

(* count++ counts the worker in the frame of a caller that waits.           *)
LEMMA CountStep ==
  ASSUME IInv, NEW i \in Cpus, Count(i)
  PROVE  IInv'
  <1>1. /\ pc[i] = "count" /\ Goto(i, "spin") /\ slot' = slot + 1
        /\ main' = main /\ call' = call /\ spawned' = spawned /\ ready' = ready
        /\ queue' = queue /\ mine' = mine /\ step' = step /\ bar' = bar /\ rc' = rc
        /\ results' = results
    BY DEF Count
  <1>2. /\ pc' \in [Cpus -> PCs]
        /\ \A j \in Cpus : pc'[j] = IF j = i THEN "spin" ELSE pc[j]
    BY <1>1, GotoFacts DEF IInv, PCs
  <1>3. i \in Workers /\ mine[i] = call /\ Workers \subseteq Cpus
    BY <1>1, InsideFacts, Sizes
  <1>4. /\ Arrived1' = Arrived1 /\ Arrived2' = Arrived2 /\ Counted' = Counted \cup {i}
        /\ i \in Arrived2
    BY <1>1, <1>2, <1>3 DEF Arrived1, Arrived2, Counted
  <1>5. CoresOK' /\ CallerOK' /\ slot' \in 0 .. n
    <2>1. /\ pc[i] \notin {"idle", "spin"} /\ pc'[i] # "idle"
          /\ \A j \in Cpus : pc'[j] = IF j = i THEN pc'[i] ELSE pc[j]
      BY <1>1, <1>2
    <2> QED
      BY <1>1, <1>4, <2>1, InsideStep
  <1>6. TypeOK'
    BY <1>1, <1>2, <1>5 DEF IInv, TypeOK, PCs
  <1>7. BarriersOK'
    <2>1. Arrived1 = Workers /\ Arrived2 = Workers
      BY <1>1, <1>3, <1>4, Nested DEF IInv, BarriersOK
    <2>2. \A j \in Workers : pc'[j] \in {"wait1", "wait2"} => pc'[j] = pc[j]
      BY <1>2, <1>3
    <2> QED
      BY <1>1, <1>4, <2>1, <2>2, BarriersSame DEF IInv
  <1>8. StoredOK'
    BY <1>1, <1>2, <1>3 DEF IInv, StoredOK
  <1> QED
    BY <1>5, <1>6, <1>7, <1>8 DEF IInv

(* Spin ends for a worker of this call when all are counted, or for one that *)
(* was left behind when the caller's frame holds what it waits for.         *)
LEMMA SpinStep ==
  ASSUME IInv, NEW i \in Cpus, Spin(i)
  PROVE  IInv'
  <1>1. /\ pc[i] = "spin" /\ slot >= n /\ Goto(i, "idle") /\ ready' = (ready \/ i = 0)
        /\ main' = main /\ call' = call /\ spawned' = spawned /\ slot' = slot
        /\ queue' = queue /\ mine' = mine /\ step' = step /\ bar' = bar /\ rc' = rc
        /\ results' = results
    BY DEF Spin
  <1>2. /\ pc' \in [Cpus -> PCs]
        /\ \A j \in Cpus : pc'[j] = IF j = i THEN "idle" ELSE pc[j]
    BY <1>1, GotoFacts DEF IInv, PCs
  <1>3. i \in Workers /\ Workers \subseteq Cpus
    BY <1>1, Sizes DEF IInv, CoresOK
  <1>4. Counted = Workers
    <2>1. CASE main \in {"spawn", "saved", "report"}
      <3>1. Cardinality(Counted) >= n /\ Cardinality(Counted) \in 0 .. n /\ n \in Nat
        BY <1>1, <2>1, Nested, CountsWorkers, Sizes DEF IInv, CallerOK
      <3>2. Cardinality(Counted) = n
        BY <3>1
      <3> QED
        BY <3>2, Nested, CountsWorkers
    <2>2. CASE main \notin {"spawn", "saved", "report"}
      BY <2>2 DEF IInv, TypeOK, CallerOK
    <2> QED
      BY <2>1, <2>2
  <1>5. Arrived2 = Workers /\ Arrived1 = Workers
    BY <1>4, Nested
  <1>6. Counted' = Counted /\ Arrived2' = Arrived2 /\ Arrived1' = Arrived1
    BY <1>1, <1>2, <1>3 DEF Arrived1, Arrived2, Counted
  <1>7. TypeOK'
    BY <1>1, <1>2 DEF IInv, TypeOK, PCs
  <1>8. CoresOK'
    BY <1>1, <1>2, <1>3 DEF IInv, CoresOK
  <1>9. CallerOK'
    <2>1. i = 0 => main = "saved" /\ ~ready
      BY <1>1 DEF IInv, CallerOK
    <2>2. ready' => main = "saved" /\ pc'[0] = "idle"
      BY <1>1, <1>2, <2>1, Sizes DEF IInv, CallerOK
    <2>3. pc'[0] # "idle" => main = "saved" /\ ~ready' /\ mine[0] = call
      BY <1>1, <1>2, Sizes DEF IInv, CallerOK
    <2> QED
      BY <1>1, <1>4, <1>6, <2>2, <2>3 DEF IInv, CallerOK
  <1>10. BarriersOK'
    <2>1. \A j \in Workers : pc'[j] \in {"wait1", "wait2"} => pc'[j] = pc[j]
      BY <1>2, <1>3
    <2> QED
      BY <1>1, <1>5, <1>6, <2>1, BarriersSame DEF IInv
  <1>11. StoredOK'
    BY <1>1, <1>2, <1>3 DEF IInv, StoredOK
  <1> QED
    BY <1>7, <1>8, <1>9, <1>10, <1>11 DEF IInv

LEMMA HarnessStep ==
  ASSUME IInv, NEW i \in Cpus, Harness(i)
  PROVE  IInv'
  <1>1. CASE Start(i) \/ Store(i) \/ Count(i) \/ Spin(i)
    BY <1>1, StartStep, StoreStep, CountStep, SpinStep
  <1>2. CASE Arrive(i, "arrive1", "wait1") \/ Arrive(i, "arrive2", "wait2")
    BY <1>2, Arrive1Step, Arrive2Step
  <1>3. CASE Leave(i, "wait1", "work") \/ Leave(i, "wait2", "store")
    BY <1>3, LeaveStep
  <1> QED
    BY <1>1, <1>2, <1>3 DEF Harness

(* A step that leaves the harness alone.                                    *)
LEMMA StutterStep ==
  ASSUME IInv, vars' = vars
  PROVE  IInv'
  <1>1. /\ main' = main /\ call' = call /\ spawned' = spawned /\ slot' = slot /\ ready' = ready
        /\ queue' = queue /\ mine' = mine /\ pc' = pc /\ step' = step /\ bar' = bar
        /\ rc' = rc /\ results' = results
    BY DEF vars, callerVars, workerVars
  <1>2. Arrived1' = Arrived1 /\ Arrived2' = Arrived2 /\ Counted' = Counted
    BY <1>1, SameSets
  <1>3. BarriersOK'
    BY <1>1, <1>2, BarriersSame DEF IInv
  <1> QED
    BY <1>1, <1>2, <1>3 DEF IInv, TypeOK, CoresOK, CallerOK, StoredOK

----------------------------------------------------------------------------
(* What the inductive invariant says of the harness                         *)

LEMMA Conclusions == IInv => TypeOK /\ ReportsThisCall /\ WorkTogether /\ FrameAlive
  <1> SUFFICES ASSUME IInv PROVE TypeOK /\ ReportsThisCall /\ WorkTogether /\ FrameAlive
    OBVIOUS
  <1>1. ReportsThisCall
    <2>1. main = "report" => Counted = Workers /\ slot = Cardinality(Counted)
      BY DEF IInv, CallerOK
    <2>2. Counted = Workers => Cardinality(Counted) = n
      BY Nested, CountsWorkers
    <2>3. Counted = Workers => \A i \in Workers : results[i].call = call
      BY DEF IInv, StoredOK, Counted, Arrived2, Arrived1
    <2> QED
      BY <2>1, <2>2, <2>3 DEF ReportsThisCall
  <1>2. WorkTogether
    <2> SUFFICES ASSUME NEW i \in Workers, NEW j \in Workers, pc[i] \in {"work", "arrive2"}
                 PROVE  /\ mine[j] = mine[i]
                        /\ pc[j] \in {"wait1", "work", "arrive2", "wait2"}
      BY DEF WorkTogether, Measuring
    <2>1. i \in Arrived1 /\ i \notin Arrived2 /\ mine[i] = call
      BY DEF IInv, CoresOK, Arrived1, Arrived2
    <2>2. Arrived1 = Workers /\ Arrived2 # Workers
      BY <2>1 DEF IInv, BarriersOK
    <2>3. mine[j] = call /\ pc[j] # "arrive1" /\ (j \in Arrived2 => pc[j] = "wait2")
      BY <2>2 DEF Arrived1, IInv, BarriersOK
    <2> QED
      BY <2>1, <2>2, <2>3 DEF Arrived2
  <1>3. FrameAlive
    BY InsideFacts, Sizes DEF FrameAlive
  <1> QED
    BY <1>1, <1>2, <1>3 DEF IInv

(* The inductive invariant holds of the harness around its own work.        *)
THEOREM Invariance == Spec => []IInv
  <1>1. IInv /\ [Next]_vars => IInv'
    <2> SUFFICES ASSUME IInv, [Next]_vars PROVE IInv'
      OBVIOUS
    <2>1. CASE Caller
      BY <2>1, CallerStep
    <2>2. ASSUME NEW i \in Cpus, Work(i) PROVE IInv'
      <3>1. cnt \in Int
        BY CpusAssumption
      <3> QED
        BY <2>2, <3>1, HarnessStep, WorkReturnsStep DEF Work
    <2>3. CASE UNCHANGED vars
      BY <2>3, StutterStep
    <2> QED
      BY <2>1, <2>2, <2>3 DEF Next
  <1> QED
    BY <1>1, InitIInv, PTL DEF Spec

(* Every variable of the harness keeps its type.                            *)
THEOREM TypeCorrect == Spec => []TypeOK
  BY Invariance, Conclusions, PTL

(* ReportsThisCall: what is reported is the result of this call on every     *)
(* core, and the assertion n==count holds.                                  *)
THEOREM ReportsThisCallAlways == Spec => []ReportsThisCall
  BY Invariance, Conclusions, PTL

(* WorkTogether: while one core measures, all are in the same call and       *)
(* between its two barriers, although the barriers are reused at once.       *)
THEOREM WorkTogetherAlways == Spec => []WorkTogether
  BY Invariance, Conclusions, PTL

(* FrameAlive: up to its count++ an event runs in a frame that is alive.     *)
THEOREM FrameAliveAlways == Spec => []FrameAlive
  BY Invariance, Conclusions, PTL

----------------------------------------------------------------------------
(* The counter tests                                                        *)

(* What the loop hands to the harness is a number.                          *)
NumbersOK ==
  /\ val \in [Cpus -> Int] /\ reg \in [Cpus -> Int] /\ sum \in [Cpus -> Int]
  /\ slotAt \in [Cpus -> 0 .. NumCpus]

(* The work of a core is a step of the harness or leaves it alone.           *)
LEMMA CtrWorkStep ==
  ASSUME IInv, NumbersOK, NEW i \in Cpus, CtrWork(i)
  PROVE  IInv' /\ NumbersOK'
  <1>1. CASE Harness(i) /\ UNCHANGED ctrVars
    <2>1. IInv'
      BY <1>1, HarnessStep
    <2> QED
      BY <1>1, <2>1 DEF ctrVars, NumbersOK
  <1>2. CASE LoopEnd(i)
    <2>1. WorkReturns(i, IF Op(i) = Val THEN sum[i] ELSE cnt)
      BY <1>2 DEF LoopEnd
    <2>2. (IF Op(i) = Val THEN sum[i] ELSE cnt) \in Int
      BY CpusAssumption DEF NumbersOK
    <2>3. IInv'
      BY <2>1, <2>2, WorkReturnsStep
    <2> QED
      BY <1>2, <2>3 DEF LoopEnd, NumbersOK
  <1>3. CASE Deref(i)
    <2>1. vars' = vars /\ NumbersOK'
      BY <1>3 DEF Deref, NumbersOK
    <2> QED
      BY <2>1, StutterStep
  <1>4. CASE AtomicOp(i)
    <2>1. vars' = vars /\ NumbersOK'
      BY <1>4, Sizes DEF AtomicOp, NumbersOK, Changed, RepOf
    <2> QED
      BY <2>1, StutterStep
  <1>5. CASE Load(i) \/ StoreVal(i)
    <2>1. RepOf(i) \in Cpus
      BY Sizes DEF RepOf
    <2>2. vars' = vars /\ NumbersOK'
      BY <1>5, <2>1 DEF Load, StoreVal, NumbersOK, Changed
    <2> QED
      BY <2>2, StutterStep
  <1>6. CASE ReadVal(i)
    <2>1. vars' = vars /\ NumbersOK'
      BY <1>6, Sizes DEF ReadVal, NumbersOK
    <2> QED
      BY <2>1, StutterStep
  <1>7. CASE GatherStart(i) \/ GatherEnd(i)
    <2>1. vars' = vars /\ NumbersOK'
      BY <1>7, CpusAssumption DEF GatherStart, GatherEnd, NumbersOK
    <2> QED
      BY <2>1, StutterStep
  <1>8. CASE GatherStep(i)
    <2>1. slotAt[i] \in 0 .. NumCpus /\ slotAt[i] < NumCpus /\ NumCpus \in Nat
      BY <1>8, CpusAssumption DEF GatherStep, NumbersOK
    <2>2. slotAt[i] \in Cpus /\ slotAt[i] + 1 \in 0 .. NumCpus
      BY <2>1 DEF Cpus
    <2>3. val[slotAt[i]] \in Int
      BY <2>2 DEF NumbersOK
    <2>4. vars' = vars /\ NumbersOK'
      BY <1>8, <2>2, <2>3 DEF GatherStep, NumbersOK
    <2> QED
      BY <2>4, StutterStep
  <1> QED
    BY <1>1, <1>2, <1>3, <1>4, <1>5, <1>6, <1>7, <1>8 DEF CtrWork

(* The inductive invariant of the harness also holds around the counters.    *)
THEOREM CtrInvariance == CtrSpec => [](IInv /\ NumbersOK)
  <1>1. CtrInit => IInv /\ NumbersOK
    BY InitIInv, CpusAssumption DEF CtrInit, NumbersOK
  <1>2. IInv /\ NumbersOK /\ [CtrNext]_allVars => IInv' /\ NumbersOK'
    <2> SUFFICES ASSUME IInv, NumbersOK, [CtrNext]_allVars PROVE IInv' /\ NumbersOK'
      OBVIOUS
    <2>1. CASE Create \/ Destroy
      <3>1. vars' = vars /\ NumbersOK'
        BY <2>1 DEF Create, Destroy, NumbersOK, loopVars
      <3> QED
        BY <3>1, StutterStep
    <2>2. CASE CallMPTest
      <3>1. IInv'
        BY <2>2, CallerStep DEF CallMPTest
      <3> QED
        BY <2>2, <3>1 DEF CallMPTest, ctrVars, NumbersOK
    <2>3. CASE \E i \in Cpus : CtrWork(i)
      BY <2>3, CtrWorkStep
    <2>4. CASE UNCHANGED allVars
      <3>1. vars' = vars /\ NumbersOK'
        BY <2>4 DEF allVars, ctrVars, NumbersOK
      <3> QED
        BY <3>1, StutterStep
    <2> QED
      BY <2>1, <2>2, <2>3, <2>4 DEF CtrNext, CtrCaller
  <1> QED
    BY <1>1, <1>2, PTL DEF CtrSpec

(* The harness keeps its promises to the counter tests as it does to the     *)
(* others: ReportsThisCall, WorkTogether and FrameAlive.                    *)
THEOREM CtrHarnessAlways == CtrSpec => [](TypeOK /\ ReportsThisCall /\ WorkTogether /\ FrameAlive)
  <1>1. IInv /\ NumbersOK => TypeOK /\ ReportsThisCall /\ WorkTogether /\ FrameAlive
    BY Conclusions
  <1> QED
    BY <1>1, CtrInvariance, PTL
----------------------------------------------------------------------------
(* CountsAddUp: what the shared counter holds is the number of operations    *)
(* done in this call, on all cores; what one of a multicore Ebb's            *)
(* representatives holds is the number done on its own core.                *)

(* The loop of a core has begun in the current call, and how many of its     *)
(* operations are done.                                                     *)
Entered(i) == mine[i] = call /\ pc[i] \notin {"arrive1", "wait1"}
                /\ ~(pc[i] = "work" /\ at[i] = "enter")

Progress(i) == IF ~Entered(i) THEN 0 ELSE IF pc[i] = "work" THEN cnt - left[i] ELSE cnt

(* The operations of the current call that are done, on all cores: what a    *)
(* shared counter has counted is their number.                              *)
Ops == {o \in Workers \X (1 .. cnt) : o[2] <= Progress(o[1])}

(* What a counter holds after so many of all operations of this call.        *)
Counts(done, all) ==
  CASE SiteOf(call) = Inc -> done [] SiteOf(call) = Dec -> all - done [] OTHER -> 0

ValueOK ==
  /\ Multi => /\ \A i \in Workers : val[i] = Counts(Progress(i), cnt)
              /\ \A i \in Cpus \ Workers : val[i] = 0
  /\ ~Multi => /\ val[0] = Counts(Cardinality(Ops), n * cnt)
               /\ \A i \in Cpus \ {0} : val[i] = 0

(* Between a load and a store nobody else changes what was loaded, and what  *)
(* the readers meet is 0.                                                   *)
LoopOK ==
  /\ at \in [Cpus -> {"enter", "loop", "store", "gather"}]
  /\ left \in [Cpus -> 0 .. cnt]
  /\ \A i \in Cpus :
       /\ at[i] # "enter" => pc[i] = "work"
       /\ at[i] = "store" => /\ Multi /\ Op(i) \in {Inc, Dec} /\ left[i] > 0
                             /\ reg[i] = Changed(i, val[i])
       /\ at[i] = "gather" => Multi /\ Op(i) = Val /\ left[i] > 0 /\ reg[i] = 0
       /\ at[i] # "enter" /\ Op(i) = Val => sum[i] = 0

(* A representative that holds a count is cached: no use of it makes another. *)
CachedOK ==
  /\ reps \subseteq Workers /\ cached \subseteq Workers
  /\ Multi => /\ SiteOf(call) = Dec => cached = Workers
              /\ SiteOf(call) = Inc => \A i \in Workers : Entered(i) => i \in cached

(* What a core's loop returns is kept until the report.                     *)
Returned == IF SiteOf(call) = Val THEN 0 ELSE cnt

RcOK ==
  \A i \in Workers : mine[i] = call =>
    /\ pc[i] \in {"arrive2", "wait2", "store"} => rc[i] = Returned
    /\ pc[i] \in {"count", "spin", "idle"} => results[i].rc = Returned

LifeOK == kind \in Kinds /\ made \in 0 .. Calls /\ gone \in made - 1 .. made

CountsOK == LifeOK /\ LoopOK /\ CachedOK /\ ValueOK /\ RcOK

LEMMA SiteNext ==
  ASSUME NEW k \in Nat
  PROVE  /\ SiteOf(k) \in {Inc, Dec, Val} /\ SiteOf(3 * k) = Val
         /\ SiteOf(k + 1) = IF SiteOf(k) = Val THEN Inc ELSE SiteOf(k) + 1
  <1>1. \A m \in Nat : SiteOf(m) = ((m - 1) % 3) + 1
    BY SitesAssumption DEF SiteOf
  <1>2. ((3 * k - 1) % 3) + 1 = 3
    OBVIOUS
  <1>3. ((k - 1) % 3) + 1 \in {1, 2, 3}
    OBVIOUS
  <1>4. ((k + 1 - 1) % 3) + 1 = IF ((k - 1) % 3) + 1 = 3 THEN 1 ELSE ((k - 1) % 3) + 2
    OBVIOUS
  <1> QED
    BY <1>1, <1>2, <1>3, <1>4 DEF Inc, Dec, Val

(* Whoever works is a worker of the current call.                           *)
LEMMA AtWork ==
  ASSUME IInv, NEW i \in Cpus, pc[i] = "work"
  PROVE  i \in Workers /\ mine[i] = call /\ Op(i) = SiteOf(call)
  BY DEF IInv, CoresOK, Op

LEMMA CtrFacts ==
  ASSUME IInv, NumbersOK, CountsOK
  PROVE  /\ cnt \in Nat \ {0} /\ call \in Nat /\ SiteOf(call) \in {Inc, Dec, Val}
         /\ \A i \in Cpus : left[i] \in 0 .. cnt /\ Progress(i) \in 0 .. cnt
         /\ \A i \in Cpus : ~Entered(i) => Progress(i) = 0
  <1>1. cnt \in Nat \ {0} /\ call \in Nat
    BY CpusAssumption, SitesAssumption DEF IInv, TypeOK
  <1>2. \A i \in Cpus : left[i] \in 0 .. cnt
    BY DEF CountsOK, LoopOK
  <1>3. \A i \in Cpus : Progress(i) \in 0 .. cnt
    BY <1>1, <1>2 DEF Progress
  <1> QED
    BY <1>1, <1>2, <1>3, SiteNext DEF Progress

(* The operations done are counted one by one, from none to all.            *)
LEMMA OpsFacts ==
  ASSUME IInv, NumbersOK, CountsOK
  PROVE  /\ IsFiniteSet(Ops) /\ Cardinality(Ops) \in Nat /\ Cardinality(Ops) <= n * cnt
         /\ n * cnt \in Nat
         /\ (\A i \in Workers : Progress(i) = cnt) => Cardinality(Ops) = n * cnt
  <1>1. cnt \in Nat /\ n \in Nat
    BY CtrFacts, Sizes
  <1>2. IsFiniteSet(Workers) /\ Cardinality(Workers) = n
    <2>1. IsFiniteSet(0 .. n - 1) /\ Cardinality(0 .. n - 1) = IF 0 > n - 1 THEN 0 ELSE (n - 1) - 0 + 1
      BY <1>1, FS_Interval
    <2> QED
      BY <1>1, <2>1 DEF Workers
  <1>3. IsFiniteSet(1 .. cnt) /\ Cardinality(1 .. cnt) = cnt
    <2>1. IsFiniteSet(1 .. cnt) /\ Cardinality(1 .. cnt) = IF 1 > cnt THEN 0 ELSE cnt - 1 + 1
      BY <1>1, FS_Interval
    <2> QED
      BY <1>1, <2>1
  <1>4. IsFiniteSet(Workers \X (1 .. cnt)) /\ Cardinality(Workers \X (1 .. cnt)) = n * cnt
    BY <1>2, <1>3, FS_Product
  <1>5. Ops \subseteq Workers \X (1 .. cnt)
    BY DEF Ops
  <1>6. IsFiniteSet(Ops) /\ Cardinality(Ops) <= n * cnt
    BY <1>4, <1>5, FS_Subset
  <1>7. Cardinality(Ops) \in Nat
    BY <1>6, FS_CardinalityType
  <1>8. (\A i \in Workers : Progress(i) = cnt) => Ops = Workers \X (1 .. cnt)
    BY <1>1 DEF Ops
  <1>9. n * cnt \in Nat
    BY <1>1
  <1> QED
    BY <1>4, <1>6, <1>7, <1>8, <1>9

(* A core that has not entered, or is through with its loop, may move on.    *)
Aside(i) ==
  \/ mine'[i] = mine[i] /\ pc'[i] = pc[i]
  \/ at[i] = "enter" /\ ~Entered(i) /\ ~Entered(i)'
  \/ at[i] = "enter" /\ Entered(i) /\ Entered(i)' /\ pc[i] # "work" /\ pc'[i] # "work"

LEMMA AsideSame ==
  ASSUME CountsOK, call' = call, UNCHANGED ctrVars, \A i \in Cpus : Aside(i)
  PROVE  LifeOK' /\ LoopOK' /\ CachedOK' /\ ValueOK'
  <1>1. /\ kind' = kind /\ made' = made /\ gone' = gone /\ val' = val /\ reps' = reps
        /\ cached' = cached /\ at' = at /\ left' = left /\ reg' = reg /\ slotAt' = slotAt
        /\ sum' = sum
    BY DEF ctrVars
  <1>2. \A i \in Cpus : /\ Entered(i)' <=> Entered(i)
                        /\ Progress(i)' = Progress(i)
    BY <1>1 DEF Aside, Entered, Progress
  <1>3. LifeOK'
    BY <1>1 DEF CountsOK, LifeOK
  <1>4. LoopOK'
    BY <1>1 DEF CountsOK, LoopOK, Aside, Multi, Op, Changed
  <1>5. Workers \subseteq Cpus
    BY Sizes
  <1>6. CachedOK'
    BY <1>1, <1>2, <1>5 DEF CountsOK, CachedOK, Multi
  <1>7. Ops' = Ops
    BY <1>2, <1>5 DEF Ops
  <1>8. ValueOK'
    BY <1>1, <1>2, <1>5, <1>7 DEF CountsOK, ValueOK, Counts, Multi
  <1> QED
    BY <1>3, <1>4, <1>6, <1>8

(* The steps of the harness around the loop.                                *)
LEMMA HarnessCounts ==
  ASSUME IInv, NumbersOK, CountsOK, NEW i \in Cpus, Harness(i), UNCHANGED ctrVars
  PROVE  CountsOK'
  <1>1. call' = call /\ Workers \subseteq Cpus
    BY Sizes DEF Harness, Start, Arrive, Leave, Store, Count, Spin, callerVars
  <1>2. /\ pc \in [Cpus -> {"idle", "arrive1", "wait1", "work", "arrive2", "wait2", "store",
                            "count", "spin"}]
        /\ mine \in [Cpus -> 0 .. Calls] /\ rc \in [Cpus -> Int]
        /\ results \in [Cpus -> [call : 0 .. Calls, rc : Int]]
    BY DEF IInv, TypeOK
  <1>3. \A j \in Cpus : (at[j] # "enter" => pc[j] = "work") /\ (pc[j] = "work" => mine[j] = call)
    BY AtWork DEF CountsOK, LoopOK
  <1>4. RcOK
    BY DEF CountsOK
  <1>5. Returned' = Returned
    BY <1>1 DEF Returned
  <1>6. CASE Start(i)
    <2>1. /\ pc' = [pc EXCEPT ![i] = "arrive1"] /\ mine' = [mine EXCEPT ![i] = Head(queue[i])]
          /\ pc[i] = "idle" /\ queue[i] # << >> /\ rc' = rc /\ results' = results
      BY <1>6 DEF Start, Goto
    <2>2. mine[i] # call
      BY <2>1 DEF IInv, CoresOK
    <2>3. \A j \in Cpus : Aside(j)
      BY <1>2, <1>3, <2>1, <2>2 DEF Aside, Entered
    <2>4. RcOK'
      BY <1>1, <1>2, <1>4, <1>5, <2>1 DEF RcOK
    <2> QED
      BY <1>1, <2>3, <2>4, AsideSame DEF CountsOK
  <1>7. CASE \/ Arrive(i, "arrive1", "wait1") \/ Leave(i, "wait1", "work")
    <2>1. /\ pc[i] \in {"arrive1", "wait1"} /\ mine' = mine /\ rc' = rc /\ results' = results
          /\ \/ pc' = [pc EXCEPT ![i] = "wait1"]
             \/ pc' = [pc EXCEPT ![i] = "work"]
      BY <1>7 DEF Arrive, Leave, Goto
    <2>2. at' = at
      BY DEF ctrVars
    <2>3. \A j \in Cpus : Aside(j)
      BY <1>1, <1>2, <1>3, <2>1, <2>2 DEF Aside, Entered
    <2>4. RcOK'
      BY <1>1, <1>2, <1>4, <1>5, <2>1 DEF RcOK
    <2> QED
      BY <1>1, <2>3, <2>4, AsideSame DEF CountsOK
  <1>8. CASE \/ Arrive(i, "arrive2", "wait2") \/ Leave(i, "wait2", "store")
             \/ Store(i) \/ Count(i) \/ Spin(i)
    <2>1. /\ mine' = mine /\ rc' = rc
          /\ \/ /\ pc[i] = "arrive2" /\ pc' = [pc EXCEPT ![i] = "wait2"] /\ results' = results
             \/ /\ pc[i] = "wait2" /\ pc' = [pc EXCEPT ![i] = "store"] /\ results' = results
             \/ /\ pc[i] = "store" /\ pc' = [pc EXCEPT ![i] = "count"]
                /\ results' = [results EXCEPT ![i] = [call |-> mine[i], rc |-> rc[i]]]
             \/ /\ pc[i] = "count" /\ pc' = [pc EXCEPT ![i] = "spin"] /\ results' = results
             \/ /\ pc[i] = "spin" /\ pc' = [pc EXCEPT ![i] = "idle"] /\ results' = results
      BY <1>8 DEF Arrive, Leave, Store, Count, Spin, Goto
    <2>2. at' = at
      BY DEF ctrVars
    <2>3. \A j \in Cpus : Aside(j)
      BY <1>1, <1>2, <1>3, <2>1, <2>2 DEF Aside, Entered
    <2>4. RcOK'
      BY <1>1, <1>2, <1>4, <1>5, <2>1 DEF RcOK
    <2> QED
      BY <1>1, <2>3, <2>4, AsideSame DEF CountsOK
  <1> QED
    BY <1>6, <1>7, <1>8 DEF Harness

(* The caller's steps: a new call starts from what the last one has left.    *)
LEMMA CallMPTestCounts ==
  ASSUME IInv, NumbersOK, CountsOK, CallMPTest
  PROVE  CountsOK'
  <1>1. /\ Caller /\ UNCHANGED ctrVars /\ pc' = pc /\ mine' = mine /\ rc' = rc
        /\ results' = results /\ at' = at
    BY DEF CallMPTest, Caller, Enter, Spawn, SaveContext, Resume, Return, workerVars, ctrVars
  <1>2. RcOK /\ Workers \subseteq Cpus /\ cnt \in Nat /\ call \in Nat
    BY CtrFacts, Sizes DEF CountsOK
  <1>3. CASE call' = call
    <2>1. \A j \in Cpus : Aside(j)
      BY <1>1 DEF Aside
    <2>2. RcOK'
      BY <1>1, <1>2, <1>3 DEF RcOK, Returned
    <2> QED
      BY <1>1, <1>3, <2>1, <2>2, AsideSame DEF CountsOK
  <1>4. CASE call' # call
    <2>1. main = "enter" /\ call' = call + 1
      BY <1>1, <1>4 DEF Caller, Enter, Spawn, SaveContext, Resume, Return
    <2>2. Counted = Workers
      BY <2>1 DEF IInv, CallerOK
    <2>3. \A i \in Workers : mine[i] = call /\ pc[i] \in {"spin", "idle"}
      BY <2>2 DEF Counted, Arrived2, Arrived1
    <2>4. \A i \in Cpus : pc[i] # "work"
      BY <2>3 DEF IInv, CoresOK
    <2>5. \A i \in Workers : Entered(i) /\ Progress(i) = cnt
      BY <2>3 DEF Entered, Progress
    <2>6. \A i \in Cpus : mine'[i] # call'
      <3>1. \A i \in Cpus : mine[i] \in Int /\ mine[i] <= call
        BY DEF IInv, TypeOK, CoresOK
      <3> QED
        BY <1>1, <1>2, <2>1, <3>1
    <2>7. \A i \in Cpus : ~Entered(i)' /\ Progress(i)' = 0
      BY <2>6 DEF Entered, Progress
    <2>8. /\ kind' = kind /\ made' = made /\ gone' = gone /\ val' = val /\ reps' = reps
          /\ cached' = cached /\ left' = left /\ reg' = reg /\ sum' = sum
      BY <1>1 DEF ctrVars
    <2>9. \A i \in Cpus : at[i] = "enter"
      BY <2>4 DEF CountsOK, LoopOK
    <2>10. SiteOf(call)' = IF SiteOf(call) = Val THEN Inc ELSE SiteOf(call) + 1
      <3>1. SiteOf(call') = IF SiteOf(call) = Val THEN Inc ELSE SiteOf(call) + 1
        BY <1>2, <2>1, SiteNext
      <3> QED
        BY <3>1 DEF SiteOf
    <2>11. SiteOf(call) \in {Inc, Dec, Val}
      BY CtrFacts
    <2>12. LifeOK'
      BY <2>8 DEF CountsOK, LifeOK
    <2>13. LoopOK'
      BY <1>1, <2>8, <2>9 DEF CountsOK, LoopOK
    <2>14. CachedOK'
      <3>1. Multi /\ SiteOf(call) = Inc => cached = Workers
        BY <2>5 DEF CountsOK, CachedOK
      <3>2. reps \subseteq Workers /\ cached \subseteq Workers
        BY DEF CountsOK, CachedOK
      <3>3. SiteOf(call)' = Dec => SiteOf(call) = Inc
        BY <2>10, <2>11 DEF Inc, Dec, Val
      <3> QED
        BY <1>2, <2>7, <2>8, <3>1, <3>2, <3>3 DEF CachedOK, Multi
    <2>15. ValueOK'
      <3>1. Cardinality(Ops) = n * cnt /\ n * cnt \in Nat
        BY <2>5, OpsFacts
      <3>2. Ops' = {}
        BY <1>2, <2>7 DEF Ops
      <3>3. Cardinality(Ops)' = 0
        BY <3>2, FS_EmptySet
      <3>4. \A all \in Nat : Counts(all, all) = Counts(0, all)'
        BY <2>10, <2>11 DEF Counts, Inc, Dec, Val
      <3>5. Multi => \A i \in Workers : val[i] = Counts(0, cnt)'
        BY <1>2, <2>5, <3>4 DEF CountsOK, ValueOK
      <3>6. ~Multi => val[0] = Counts(0, n * cnt)'
        BY <3>1, <3>4 DEF CountsOK, ValueOK
      <3>7. /\ Multi => \A i \in Cpus \ Workers : val[i] = 0
            /\ ~Multi => \A i \in Cpus \ {0} : val[i] = 0
        BY DEF CountsOK, ValueOK
      <3> QED
        BY <1>2, <2>7, <2>8, <3>3, <3>5, <3>6, <3>7 DEF ValueOK, Multi, Counts
    <2>16. RcOK'
      BY <1>2, <2>6 DEF RcOK
    <2> QED
      BY <2>12, <2>13, <2>14, <2>15, <2>16 DEF CountsOK
  <1> QED
    BY <1>3, <1>4

(* Every counter begins at 0, after the calls that read the last one.        *)
LEMMA CreateCounts ==
  ASSUME IInv, NumbersOK, CountsOK, Create
  PROVE  CountsOK'
  <1>1. /\ main = "enter" /\ call < Calls /\ made = gone /\ call = 3 * made
        /\ made' = made + 1 /\ val' = [i \in Cpus |-> 0] /\ reps' = {} /\ cached' = {}
        /\ kind' = kind /\ gone' = gone /\ at' = at /\ left' = left /\ reg' = reg /\ sum' = sum
        /\ call' = call /\ pc' = pc /\ mine' = mine /\ rc' = rc /\ results' = results
    BY SitesAssumption DEF Create, vars, callerVars, workerVars, loopVars
  <1>2. /\ made \in 0 .. Calls /\ Calls \in Nat /\ LoopOK /\ RcOK /\ LifeOK
        /\ Workers \subseteq Cpus /\ 0 \in Cpus
    BY CpusAssumption, Sizes DEF CountsOK, LifeOK
  <1>3. SiteOf(call) = Val /\ Val # Inc /\ Val # Dec
    <2>1. made \in Nat /\ call = 3 * made
      BY <1>1, <1>2
    <2>2. SiteOf(3 * made) = Val
      BY <2>1, SiteNext
    <2> QED
      BY <2>1, <2>2 DEF Val, Inc, Dec
  <1>4. SiteOf(call)' = SiteOf(call)
    BY <1>1 DEF SiteOf
  <1>5. \A i \in Cpus : at[i] = "enter"
    <2>1. Counted = Workers
      BY <1>1 DEF IInv, CallerOK
    <2>2. \A i \in Cpus : pc[i] # "work"
      BY <2>1 DEF Counted, Arrived2, IInv, CoresOK
    <2> QED
      BY <1>2, <2>2 DEF LoopOK
  <1>6. LifeOK'
    <2>1. made + 1 \in 0 .. Calls /\ gone \in made + 1 - 1 .. made + 1
      BY <1>1, <1>2
    <2> QED
      BY <1>1, <1>2, <2>1 DEF LifeOK
  <1>7. LoopOK'
    BY <1>1, <1>2, <1>5 DEF LoopOK
  <1>8. CachedOK'
    BY <1>1, <1>3, <1>4 DEF CachedOK
  <1>9. ValueOK'
    BY <1>1, <1>2, <1>3, <1>4 DEF ValueOK, Counts
  <1>10. RcOK'
    BY <1>1, <1>2 DEF RcOK, Returned
  <1> QED
    BY <1>6, <1>7, <1>8, <1>9, <1>10 DEF CountsOK

LEMMA DestroyCounts ==
  ASSUME IInv, NumbersOK, CountsOK, Destroy
  PROVE  CountsOK'
  <1>1. /\ gone' = made /\ made' = made /\ reps' = {}
        /\ kind' = kind /\ val' = val /\ cached' = cached /\ at' = at /\ left' = left
        /\ reg' = reg /\ sum' = sum
        /\ call' = call /\ pc' = pc /\ mine' = mine /\ rc' = rc /\ results' = results
    BY DEF Destroy, vars, callerVars, workerVars, loopVars
  <1>2. \A i : (Entered(i)' <=> Entered(i)) /\ Progress(i)' = Progress(i)
    BY <1>1 DEF Entered, Progress
  <1>3. LifeOK'
    BY <1>1, CpusAssumption DEF CountsOK, LifeOK
  <1>4. LoopOK'
    BY <1>1 DEF CountsOK, LoopOK, Multi, Op, Changed
  <1>5. CachedOK'
    BY <1>1, <1>2 DEF CountsOK, CachedOK, Multi
  <1>6. Ops' = Ops
    BY <1>2 DEF Ops
  <1>7. ValueOK'
    BY <1>1, <1>2, <1>6 DEF CountsOK, ValueOK, Counts, Multi
  <1>8. RcOK'
    BY <1>1 DEF CountsOK, RcOK, Returned
  <1> QED
    BY <1>3, <1>4, <1>5, <1>7, <1>8 DEF CountsOK

(* What a step of the loop on core i leaves as it was.                      *)
LEMMA LoopElse ==
  ASSUME CountsOK, NEW i \in Cpus, vars' = vars,
         kind' = kind, made' = made, gone' = gone,
         \A j \in Cpus \ {i} : at'[j] = at[j] /\ left'[j] = left[j]
  PROVE  /\ \A j \in Cpus \ {i} : (Entered(j)' <=> Entered(j)) /\ Progress(j)' = Progress(j)
         /\ call' = call /\ pc' = pc /\ mine' = mine /\ SiteOf(call)' = SiteOf(call)
         /\ (Multi' <=> Multi) /\ LifeOK' /\ RcOK'
  <1>1. /\ call' = call /\ pc' = pc /\ mine' = mine /\ rc' = rc /\ results' = results
    BY DEF vars, callerVars, workerVars
  <1>2. SiteOf(call)' = SiteOf(call) /\ (Multi' <=> Multi)
    BY <1>1 DEF SiteOf, Multi
  <1>3. \A j \in Cpus \ {i} : (Entered(j)' <=> Entered(j)) /\ Progress(j)' = Progress(j)
    BY <1>1 DEF Entered, Progress
  <1>4. LifeOK' /\ RcOK'
    BY <1>1 DEF CountsOK, LifeOK, RcOK, Returned
  <1> QED
    BY <1>1, <1>2, <1>3, <1>4

(* One operation more on core i.                                            *)
LEMMA OneMore ==
  ASSUME IInv, NumbersOK, CountsOK, NEW i \in Workers,
         Progress(i)' = Progress(i) + 1, Progress(i) + 1 <= cnt,
         \A j \in Workers \ {i} : Progress(j)' = Progress(j)
  PROVE  Cardinality(Ops)' = Cardinality(Ops) + 1
  <1> DEFINE o == <<i, Progress(i) + 1>>
  <1>1. cnt \in Nat /\ Workers \subseteq Cpus
    BY CtrFacts, Sizes
  <1>2. \A j \in Workers : Progress(j) \in 0 .. cnt
    BY <1>1, CtrFacts
  <1>3. o \in Workers \X (1 .. cnt) /\ o \notin Ops
    BY <1>1, <1>2 DEF Ops
  <1>4. Ops' = Ops \cup {o}
    <2>1. ASSUME NEW j \in Workers, NEW k \in 1 .. cnt
          PROVE  k <= Progress(j)' <=> k <= Progress(j) \/ <<j, k>> = o
      <3>1. CASE j = i
        BY <1>1, <1>2, <3>1
      <3>2. CASE j # i
        BY <3>2
      <3> QED
        BY <3>1, <3>2
    <2>2. \A x \in Workers \X (1 .. cnt) : x = <<x[1], x[2]>> /\ x[1] \in Workers /\ x[2] \in 1 .. cnt
      OBVIOUS
    <2>3. Ops' = {x \in Workers \X (1 .. cnt) : x[2] <= Progress(x[1])'}
      BY DEF Ops
    <2> QED
      BY <1>3, <2>1, <2>2, <2>3 DEF Ops
  <1> HIDE DEF o
  <1>5. IsFiniteSet(Ops)
    BY OpsFacts
  <1>6. Cardinality(Ops \cup {o}) = Cardinality(Ops) + 1
    BY <1>3, <1>5, FS_AddElement
  <1> QED
    BY <1>4, <1>6

(* A core comes to use the counter: a representative made then holds what    *)
(* its core has counted, nothing.                                           *)
LEMMA DerefCounts ==
  ASSUME IInv, NumbersOK, CountsOK, NEW i \in Cpus, Deref(i)
  PROVE  CountsOK'
  <1>1. /\ pc[i] = "work" /\ at[i] = "enter" /\ at' = [at EXCEPT ![i] = "loop"]
        /\ left' = [left EXCEPT ![i] = cnt] /\ sum' = [sum EXCEPT ![i] = 0]
        /\ reg' = reg /\ vars' = vars /\ kind' = kind /\ made' = made /\ gone' = gone
    BY DEF Deref, Working
  <1>2. /\ LoopOK /\ CachedOK /\ ValueOK /\ Workers \subseteq Cpus
        /\ cnt \in Nat /\ SiteOf(call) \in {Inc, Dec, Val}
        /\ at \in [Cpus -> {"enter", "loop", "store", "gather"}]
        /\ left \in [Cpus -> 0 .. cnt] /\ sum \in [Cpus -> Int] /\ val \in [Cpus -> Int]
    BY CtrFacts, Sizes DEF CountsOK, LoopOK, NumbersOK
  <1>3. i \in Workers /\ mine[i] = call /\ Op(i) = SiteOf(call)
    BY <1>1, AtWork
  <1>4. \A j \in Cpus \ {i} : at'[j] = at[j] /\ left'[j] = left[j]
    BY <1>1, <1>2
  <1>5. /\ \A j \in Cpus \ {i} : (Entered(j)' <=> Entered(j)) /\ Progress(j)' = Progress(j)
        /\ call' = call /\ pc' = pc /\ mine' = mine /\ SiteOf(call)' = SiteOf(call)
        /\ (Multi' <=> Multi) /\ LifeOK' /\ RcOK'
    BY <1>1, <1>4, LoopElse
  <1>6. ~Entered(i) /\ Progress(i) = 0
    BY <1>1 DEF Entered, Progress
  <1>7. Progress(i)' = 0
    <2>1. at'[i] = "loop" /\ left'[i] = cnt
      BY <1>1, <1>2
    <2> QED
      BY <1>1, <1>2, <1>3, <1>5, <2>1 DEF Entered, Progress
  <1>8. Ops' = Ops
    BY <1>2, <1>5, <1>6, <1>7 DEF Ops
  <1>9. val' = val
    <2>1. CASE Multi /\ i \notin cached
      <3>1. val' = [val EXCEPT ![i] = 0]
        BY <2>1 DEF Deref
      <3>2. SiteOf(call) # Dec
        BY <1>2, <1>3, <2>1 DEF CachedOK
      <3>3. val[i] = 0
        BY <1>2, <1>3, <1>6, <2>1, <3>2 DEF ValueOK, Counts
      <3> QED
        BY <1>2, <3>1, <3>3
    <2>2. CASE ~(Multi /\ i \notin cached)
      BY <2>2 DEF Deref
    <2> QED
      BY <2>1, <2>2
  <1>10. LoopOK'
    <2>1. at' \in [Cpus -> {"enter", "loop", "store", "gather"}] /\ left' \in [Cpus -> 0 .. cnt]
      BY <1>1, <1>2
    <2>2. ASSUME NEW j \in Cpus
          PROVE  /\ at'[j] # "enter" => pc'[j] = "work"
                 /\ at'[j] = "store" => /\ Multi /\ Op(j) \in {Inc, Dec} /\ left'[j] > 0
                                        /\ reg'[j] = Changed(j, val'[j])
                 /\ at'[j] = "gather" => Multi /\ Op(j) = Val /\ left'[j] > 0 /\ reg'[j] = 0
                 /\ at'[j] # "enter" /\ Op(j) = Val => sum'[j] = 0
      BY <1>1, <1>2, <1>5, <1>9 DEF LoopOK
    <2>3. \A j \in Cpus : Op(j)' = Op(j) /\ \A v : Changed(j, v)' = Changed(j, v)
      BY <1>5 DEF Op, SiteOf, Changed
    <2> QED
      BY <1>5, <1>9, <2>1, <2>2, <2>3 DEF LoopOK, Changed
  <1>11. CachedOK'
    <2>1. reps' \subseteq Workers /\ cached' \subseteq Workers
      BY <1>2, <1>3 DEF CachedOK, Deref
    <2>2. Multi => cached' = cached \cup {i}
      BY DEF Deref, Multi
    <2> QED
      BY <1>2, <1>3, <1>5, <2>1, <2>2 DEF CachedOK
  <1>12. ValueOK'
    BY <1>2, <1>5, <1>6, <1>7, <1>8, <1>9 DEF ValueOK, Counts
  <1> QED
    BY <1>5, <1>10, <1>11, <1>12 DEF CountsOK

(* An iteration ends.                                                       *)
LEMMA AdvanceFacts ==
  ASSUME IInv, NumbersOK, CountsOK, NEW i \in Cpus, pc[i] = "work", at[i] # "enter", left[i] > 0,
         at' = [at EXCEPT ![i] = "loop"], left' = [left EXCEPT ![i] = @ - 1], vars' = vars,
         kind' = kind, made' = made, gone' = gone, reps' = reps, cached' = cached
  PROVE  /\ i \in Workers /\ Op(i) = SiteOf(call)
         /\ at' \in [Cpus -> {"enter", "loop", "store", "gather"}] /\ left' \in [Cpus -> 0 .. cnt]
         /\ \A j \in Cpus \ {i} : Progress(j)' = Progress(j)
         /\ Progress(i)' = Progress(i) + 1 /\ Progress(i) + 1 <= cnt
         /\ Cardinality(Ops)' = Cardinality(Ops) + 1
         /\ pc' = pc /\ mine' = mine /\ SiteOf(call)' = SiteOf(call) /\ (Multi' <=> Multi)
         /\ LifeOK' /\ RcOK' /\ CachedOK'
  <1>1. i \in Workers /\ mine[i] = call /\ Op(i) = SiteOf(call) /\ Workers \subseteq Cpus
    BY AtWork, Sizes
  <1>2. /\ LoopOK /\ CachedOK /\ cnt \in Nat
        /\ at \in [Cpus -> {"enter", "loop", "store", "gather"}]
        /\ left \in [Cpus -> 0 .. cnt] /\ left[i] \in 0 .. cnt
    BY CtrFacts DEF CountsOK, LoopOK
  <1>3. left[i] - 1 \in 0 .. cnt
    BY <1>2
  <1>4. at' \in [Cpus -> {"enter", "loop", "store", "gather"}] /\ left' \in [Cpus -> 0 .. cnt]
    BY <1>2, <1>3
  <1>5. \A j \in Cpus \ {i} : at'[j] = at[j] /\ left'[j] = left[j]
    BY <1>2
  <1>6. /\ \A j \in Cpus \ {i} : (Entered(j)' <=> Entered(j)) /\ Progress(j)' = Progress(j)
        /\ call' = call /\ pc' = pc /\ mine' = mine /\ SiteOf(call)' = SiteOf(call)
        /\ (Multi' <=> Multi) /\ LifeOK' /\ RcOK'
    BY <1>5, LoopElse
  <1>7. Entered(i) /\ Progress(i) = cnt - left[i]
    BY <1>1 DEF Entered, Progress
  <1>8. Entered(i)' /\ Progress(i)' = cnt - (left[i] - 1)
    <2>1. at'[i] = "loop" /\ left'[i] = left[i] - 1
      BY <1>2
    <2> QED
      BY <1>1, <1>6, <2>1 DEF Entered, Progress
  <1>9. Progress(i)' = Progress(i) + 1 /\ Progress(i) + 1 <= cnt
    BY <1>2, <1>7, <1>8
  <1>10. Cardinality(Ops)' = Cardinality(Ops) + 1
    BY <1>1, <1>6, <1>9, OneMore
  <1>11. CachedOK'
    BY <1>1, <1>2, <1>6, <1>7 DEF CachedOK
  <1> QED
    BY <1>1, <1>4, <1>6, <1>9, <1>10, <1>11

LEMMA AtomicOpCounts ==
  ASSUME IInv, NumbersOK, CountsOK, NEW i \in Cpus, AtomicOp(i)
  PROVE  CountsOK'
  <1>1. /\ pc[i] = "work" /\ at[i] = "loop" /\ left[i] > 0 /\ ~Multi /\ Op(i) \in {Inc, Dec}
        /\ val' = [val EXCEPT ![0] = Changed(i, @)] /\ left' = [left EXCEPT ![i] = @ - 1]
        /\ vars' = vars /\ kind' = kind /\ made' = made /\ gone' = gone /\ reps' = reps
        /\ cached' = cached /\ at' = at /\ reg' = reg /\ sum' = sum
    BY DEF AtomicOp, Working, Atomic, RepOf
  <1>2. /\ LoopOK /\ ValueOK /\ 0 \in Cpus /\ val \in [Cpus -> Int]
        /\ Cardinality(Ops) \in Nat /\ n * cnt \in Nat
    BY Sizes, OpsFacts DEF CountsOK, NumbersOK
  <1>3. at' = [at EXCEPT ![i] = "loop"]
    BY <1>1, <1>2 DEF LoopOK
  <1>4. /\ i \in Workers /\ Op(i) = SiteOf(call)
        /\ at' \in [Cpus -> {"enter", "loop", "store", "gather"}] /\ left' \in [Cpus -> 0 .. cnt]
        /\ Cardinality(Ops)' = Cardinality(Ops) + 1
        /\ pc' = pc /\ mine' = mine /\ SiteOf(call)' = SiteOf(call) /\ (Multi' <=> Multi)
        /\ LifeOK' /\ RcOK' /\ CachedOK'
    BY <1>1, <1>3, AdvanceFacts
  <1>5. LoopOK'
    <2>1. \A j \in Cpus : Op(j)' = Op(j)
      BY <1>4 DEF Op, SiteOf
    <2> QED
      BY <1>1, <1>2, <1>4, <2>1 DEF LoopOK
  <1>6. ValueOK'
    <2>1. val'[0] = Changed(i, val[0]) /\ \A j \in Cpus \ {0} : val'[j] = val[j]
      BY <1>1, <1>2
    <2>2. CASE Op(i) = Inc
      <3>1. val[0] = Cardinality(Ops) /\ val'[0] = val[0] + 1
        BY <1>1, <1>2, <1>4, <2>1, <2>2 DEF ValueOK, Counts, Changed, Inc, Dec
      <3>2. val'[0] = Cardinality(Ops) + 1
        BY <3>1
      <3> QED
        BY <1>1, <1>2, <1>4, <2>1, <2>2, <3>2 DEF ValueOK, Counts, Inc, Dec
    <2>3. CASE Op(i) = Dec
      <3>1. val[0] = n * cnt - Cardinality(Ops) /\ val'[0] = val[0] - 1
        BY <1>1, <1>2, <1>4, <2>1, <2>3 DEF ValueOK, Counts, Changed, Inc, Dec
      <3>2. val'[0] = n * cnt - (Cardinality(Ops) + 1)
        BY <1>2, <3>1
      <3> QED
        BY <1>1, <1>2, <1>4, <2>1, <2>3, <3>2 DEF ValueOK, Counts, Inc, Dec
    <2> QED
      BY <1>1, <2>2, <2>3
  <1> QED
    BY <1>4, <1>5, <1>6 DEF CountsOK

LEMMA ReadValCounts ==
  ASSUME IInv, NumbersOK, CountsOK, NEW i \in Cpus, ReadVal(i)
  PROVE  CountsOK'
  <1>1. /\ pc[i] = "work" /\ at[i] = "loop" /\ left[i] > 0 /\ ~Multi /\ Op(i) = Val
        /\ sum' = [sum EXCEPT ![i] = @ + val[0]] /\ left' = [left EXCEPT ![i] = @ - 1]
        /\ vars' = vars /\ kind' = kind /\ made' = made /\ gone' = gone /\ reps' = reps
        /\ cached' = cached /\ at' = at /\ reg' = reg /\ val' = val
    BY DEF ReadVal, Working
  <1>2. /\ LoopOK /\ ValueOK /\ sum \in [Cpus -> Int]
    BY DEF CountsOK, NumbersOK
  <1>3. at' = [at EXCEPT ![i] = "loop"]
    BY <1>1, <1>2 DEF LoopOK
  <1>4. /\ Op(i) = SiteOf(call)
        /\ at' \in [Cpus -> {"enter", "loop", "store", "gather"}] /\ left' \in [Cpus -> 0 .. cnt]
        /\ pc' = pc /\ mine' = mine /\ SiteOf(call)' = SiteOf(call) /\ (Multi' <=> Multi)
        /\ LifeOK' /\ RcOK' /\ CachedOK'
    BY <1>1, <1>3, AdvanceFacts
  <1>5. SiteOf(call) = Val /\ Val # Inc /\ Val # Dec
    BY <1>1, <1>4 DEF Val, Inc, Dec
  <1>6. val[0] = 0
    BY <1>1, <1>2, <1>5 DEF ValueOK, Counts
  <1>7. LoopOK'
    <2>1. \A j \in Cpus : Op(j)' = Op(j)
      BY <1>4 DEF Op, SiteOf
    <2>2. sum' = [sum EXCEPT ![i] = 0]
      <3>1. sum[i] = 0
        BY <1>1, <1>2 DEF LoopOK
      <3>2. sum[i] + val[0] = 0
        BY <1>6, <3>1
      <3> QED
        BY <1>1, <3>2
    <2> QED
      BY <1>1, <1>2, <1>4, <2>1, <2>2 DEF LoopOK
  <1>8. ValueOK'
    BY <1>1, <1>2, <1>4, <1>5 DEF ValueOK, Counts
  <1> QED
    BY <1>4, <1>7, <1>8 DEF CountsOK

(* The store puts back what was loaded and changed: no other core writes to  *)
(* this representative.                                                     *)
LEMMA StoreValCounts ==
  ASSUME IInv, NumbersOK, CountsOK, NEW i \in Cpus, StoreVal(i)
  PROVE  CountsOK'
  <1>1. /\ pc[i] = "work" /\ at[i] = "store" /\ val' = [val EXCEPT ![RepOf(i)] = reg[i]]
        /\ left' = [left EXCEPT ![i] = @ - 1] /\ at' = [at EXCEPT ![i] = "loop"]
        /\ vars' = vars /\ kind' = kind /\ made' = made /\ gone' = gone /\ reps' = reps
        /\ cached' = cached /\ reg' = reg /\ sum' = sum
    BY DEF StoreVal, Working
  <1>2. /\ LoopOK /\ ValueOK /\ val \in [Cpus -> Int] /\ cnt \in Nat
        /\ at \in [Cpus -> {"enter", "loop", "store", "gather"}] /\ left \in [Cpus -> 0 .. cnt]
    BY CtrFacts DEF CountsOK, LoopOK, NumbersOK
  <1>3. Multi /\ Op(i) \in {Inc, Dec} /\ left[i] > 0 /\ reg[i] = Changed(i, val[i])
    BY <1>1, <1>2 DEF LoopOK
  <1>4. /\ i \in Workers /\ Op(i) = SiteOf(call)
        /\ at' \in [Cpus -> {"enter", "loop", "store", "gather"}] /\ left' \in [Cpus -> 0 .. cnt]
        /\ \A j \in Cpus \ {i} : Progress(j)' = Progress(j)
        /\ Progress(i)' = Progress(i) + 1 /\ Progress(i) + 1 <= cnt
        /\ pc' = pc /\ mine' = mine /\ SiteOf(call)' = SiteOf(call) /\ (Multi' <=> Multi)
        /\ LifeOK' /\ RcOK' /\ CachedOK'
    BY <1>1, <1>3, AdvanceFacts
  <1>5. /\ val'[i] = Changed(i, val[i]) /\ \A j \in Cpus \ {i} : val'[j] = val[j]
    BY <1>1, <1>2, <1>3 DEF RepOf
  <1>6. LoopOK'
    <2>1. \A j \in Cpus : Op(j)' = Op(j) /\ \A v : Changed(j, v)' = Changed(j, v)
      BY <1>4 DEF Op, SiteOf, Changed
    <2>2. ASSUME NEW j \in Cpus
          PROVE  /\ at'[j] # "enter" => pc'[j] = "work"
                 /\ at'[j] = "store" => /\ Multi /\ Op(j) \in {Inc, Dec} /\ left'[j] > 0
                                        /\ reg'[j] = Changed(j, val'[j])
                 /\ at'[j] = "gather" => Multi /\ Op(j) = Val /\ left'[j] > 0 /\ reg'[j] = 0
                 /\ at'[j] # "enter" /\ Op(j) = Val => sum'[j] = 0
      BY <1>1, <1>2, <1>4, <1>5 DEF LoopOK
    <2> QED
      BY <1>4, <2>1, <2>2 DEF LoopOK, Changed
  <1>7. ValueOK'
    <2>1. Workers \subseteq Cpus /\ Progress(i) \in 0 .. cnt
      BY Sizes, <1>4, CtrFacts
    <2>2. val'[i] = Counts(Progress(i), cnt)'
      <3>1. CASE Op(i) = Inc
        <4>1. val[i] = Progress(i) /\ val'[i] = val[i] + 1
          BY <1>2, <1>3, <1>4, <1>5, <3>1 DEF ValueOK, Counts, Changed, Inc, Dec
        <4> QED
          BY <1>4, <3>1, <4>1 DEF Counts, Inc, Dec
      <3>2. CASE Op(i) = Dec
        <4>1. val[i] = cnt - Progress(i) /\ val'[i] = val[i] - 1
          BY <1>2, <1>3, <1>4, <1>5, <3>2 DEF ValueOK, Counts, Changed, Inc, Dec
        <4>2. val'[i] = cnt - (Progress(i) + 1)
          BY <1>2, <2>1, <4>1
        <4> QED
          BY <1>4, <3>2, <4>2 DEF Counts, Inc, Dec
      <3> QED
        BY <1>3, <3>1, <3>2
    <2> QED
      BY <1>2, <1>3, <1>4, <1>5, <2>1, <2>2 DEF ValueOK, Counts
  <1> QED
    BY <1>4, <1>6, <1>7 DEF CountsOK

(* A step within an iteration.                                              *)
LEMMA WithinFacts ==
  ASSUME IInv, NumbersOK, CountsOK, NEW i \in Cpus, pc[i] = "work", at[i] # "enter",
         at' \in [Cpus -> {"enter", "loop", "store", "gather"}], at'[i] # "enter",
         \A j \in Cpus \ {i} : at'[j] = at[j], left' = left, vars' = vars,
         kind' = kind, made' = made, gone' = gone, reps' = reps, cached' = cached, val' = val
  PROVE  /\ Op(i) = SiteOf(call)
         /\ pc' = pc /\ mine' = mine /\ SiteOf(call)' = SiteOf(call) /\ (Multi' <=> Multi)
         /\ LifeOK' /\ RcOK' /\ CachedOK' /\ ValueOK'
  <1>1. i \in Workers /\ mine[i] = call /\ Op(i) = SiteOf(call) /\ Workers \subseteq Cpus
    BY AtWork, Sizes
  <1>2. /\ \A j \in Cpus \ {i} : (Entered(j)' <=> Entered(j)) /\ Progress(j)' = Progress(j)
        /\ call' = call /\ pc' = pc /\ mine' = mine /\ SiteOf(call)' = SiteOf(call)
        /\ (Multi' <=> Multi) /\ LifeOK' /\ RcOK'
    BY LoopElse
  <1>3. (Entered(i)' <=> Entered(i)) /\ Progress(i)' = Progress(i)
    BY <1>1, <1>2 DEF Entered, Progress
  <1>4. \A j \in Cpus : (Entered(j)' <=> Entered(j)) /\ Progress(j)' = Progress(j)
    BY <1>2, <1>3
  <1>5. CachedOK'
    BY <1>1, <1>2, <1>4 DEF CountsOK, CachedOK
  <1>6. Ops' = Ops
    BY <1>1, <1>4 DEF Ops
  <1>7. ValueOK'
    BY <1>1, <1>2, <1>4, <1>6 DEF CountsOK, ValueOK, Counts
  <1> QED
    BY <1>1, <1>2, <1>5, <1>7

LEMMA LoadCounts ==
  ASSUME IInv, NumbersOK, CountsOK, NEW i \in Cpus, Load(i)
  PROVE  CountsOK'
  <1>1. /\ pc[i] = "work" /\ at[i] = "loop" /\ left[i] > 0 /\ Multi /\ Op(i) \in {Inc, Dec}
        /\ reg' = [reg EXCEPT ![i] = Changed(i, val[i])] /\ at' = [at EXCEPT ![i] = "store"]
        /\ vars' = vars /\ kind' = kind /\ made' = made /\ gone' = gone /\ reps' = reps
        /\ cached' = cached /\ left' = left /\ sum' = sum /\ val' = val
    BY DEF Load, Working, Atomic, RepOf
  <1>2. /\ LoopOK /\ reg \in [Cpus -> Int] /\ left \in [Cpus -> 0 .. cnt]
        /\ at \in [Cpus -> {"enter", "loop", "store", "gather"}]
    BY DEF CountsOK, LoopOK, NumbersOK
  <1>3. at' \in [Cpus -> {"enter", "loop", "store", "gather"}] /\ at'[i] = "store"
        /\ \A j \in Cpus \ {i} : at'[j] = at[j] /\ reg'[j] = reg[j]
    BY <1>1, <1>2
  <1>4. /\ Op(i) = SiteOf(call)
        /\ pc' = pc /\ mine' = mine /\ SiteOf(call)' = SiteOf(call) /\ (Multi' <=> Multi)
        /\ LifeOK' /\ RcOK' /\ CachedOK' /\ ValueOK'
    BY <1>1, <1>3, WithinFacts
  <1>5. LoopOK'
    <2>1. \A j \in Cpus : Op(j)' = Op(j) /\ \A v : Changed(j, v)' = Changed(j, v)
      BY <1>4 DEF Op, SiteOf, Changed
    <2>2. reg'[i] = Changed(i, val[i])
      BY <1>1, <1>2
    <2>3. Inc # Val /\ Dec # Val
      BY DEF Inc, Dec, Val
    <2>4. ASSUME NEW j \in Cpus
          PROVE  /\ at'[j] # "enter" => pc'[j] = "work"
                 /\ at'[j] = "store" => /\ Multi /\ Op(j) \in {Inc, Dec} /\ left'[j] > 0
                                        /\ reg'[j] = Changed(j, val'[j])
                 /\ at'[j] = "gather" => Multi /\ Op(j) = Val /\ left'[j] > 0 /\ reg'[j] = 0
                 /\ at'[j] # "enter" /\ Op(j) = Val => sum'[j] = 0
      BY <1>1, <1>2, <1>3, <1>4, <2>2, <2>3 DEF LoopOK
    <2> QED
      BY <1>1, <1>2, <1>3, <1>4, <2>1, <2>4 DEF LoopOK, Changed
  <1> QED
    BY <1>4, <1>5 DEF CountsOK

LEMMA GatherCounts ==
  ASSUME IInv, NumbersOK, CountsOK, NEW i \in Cpus, GatherStart(i) \/ GatherStep(i)
  PROVE  CountsOK'
  <1>1. /\ pc[i] = "work" /\ at[i] \in {"loop", "gather"} /\ at' = [at EXCEPT ![i] = "gather"]
        /\ vars' = vars /\ kind' = kind /\ made' = made /\ gone' = gone /\ reps' = reps
        /\ cached' = cached /\ left' = left /\ sum' = sum /\ val' = val
    BY DEF GatherStart, GatherStep, Working, CountsOK, LoopOK
  <1>2. /\ LoopOK /\ ValueOK /\ reg \in [Cpus -> Int] /\ left \in [Cpus -> 0 .. cnt]
        /\ at \in [Cpus -> {"enter", "loop", "store", "gather"}]
    BY DEF CountsOK, LoopOK, NumbersOK
  <1>3. Multi /\ Op(i) = Val /\ left[i] > 0
    BY <1>2 DEF GatherStart, GatherStep, Working, LoopOK
  <1>4. at' \in [Cpus -> {"enter", "loop", "store", "gather"}] /\ at'[i] = "gather"
        /\ \A j \in Cpus \ {i} : at'[j] = at[j]
    BY <1>1, <1>2
  <1>5. /\ Op(i) = SiteOf(call)
        /\ pc' = pc /\ mine' = mine /\ SiteOf(call)' = SiteOf(call) /\ (Multi' <=> Multi)
        /\ LifeOK' /\ RcOK' /\ CachedOK' /\ ValueOK'
    BY <1>1, <1>4, WithinFacts
  <1>6. \A j \in Cpus : val[j] = 0
    BY <1>2, <1>3, <1>5 DEF ValueOK, Counts, Inc, Dec, Val
  <1>7. reg' = [reg EXCEPT ![i] = 0]
    <2>1. CASE GatherStart(i)
      BY <2>1 DEF GatherStart
    <2>2. CASE GatherStep(i)
      <3>1. reg[i] = 0
        BY <1>2, <2>2 DEF GatherStep, Working, LoopOK
      <3>2. slotAt[i] \in Cpus
        <4>1. slotAt[i] \in 0 .. NumCpus /\ slotAt[i] < NumCpus /\ NumCpus \in Nat
          BY <2>2, CpusAssumption DEF GatherStep, NumbersOK
        <4> QED
          BY <4>1 DEF Cpus
      <3>3. (IF slotAt[i] \in reps THEN val[slotAt[i]] ELSE reg[i]) = 0
        BY <1>6, <3>1, <3>2
      <3> QED
        BY <2>2, <3>3 DEF GatherStep
    <2> QED
      BY <2>1, <2>2
  <1>8. LoopOK'
    <2>1. \A j \in Cpus : Op(j)' = Op(j) /\ \A v : Changed(j, v)' = Changed(j, v)
      BY <1>5 DEF Op, SiteOf, Changed
    <2>2. reg'[i] = 0 /\ \A j \in Cpus \ {i} : reg'[j] = reg[j]
      BY <1>2, <1>7
    <2>3. ASSUME NEW j \in Cpus
          PROVE  /\ at'[j] # "enter" => pc'[j] = "work"
                 /\ at'[j] = "store" => /\ Multi /\ Op(j) \in {Inc, Dec} /\ left'[j] > 0
                                        /\ reg'[j] = Changed(j, val'[j])
                 /\ at'[j] = "gather" => Multi /\ Op(j) = Val /\ left'[j] > 0 /\ reg'[j] = 0
                 /\ at'[j] # "enter" /\ Op(j) = Val => sum'[j] = 0
      BY <1>1, <1>2, <1>3, <1>4, <1>5, <2>2 DEF LoopOK
    <2> QED
      BY <1>1, <1>2, <1>4, <1>5, <2>1, <2>3 DEF LoopOK, Changed
  <1> QED
    BY <1>5, <1>8 DEF CountsOK

LEMMA GatherEndCounts ==
  ASSUME IInv, NumbersOK, CountsOK, NEW i \in Cpus, GatherEnd(i)
  PROVE  CountsOK'
  <1>1. /\ pc[i] = "work" /\ at[i] = "gather" /\ sum' = [sum EXCEPT ![i] = @ + reg[i]]
        /\ left' = [left EXCEPT ![i] = @ - 1] /\ at' = [at EXCEPT ![i] = "loop"]
        /\ vars' = vars /\ kind' = kind /\ made' = made /\ gone' = gone /\ reps' = reps
        /\ cached' = cached /\ reg' = reg /\ val' = val
    BY DEF GatherEnd, Working
  <1>2. /\ LoopOK /\ ValueOK /\ sum \in [Cpus -> Int]
        /\ at \in [Cpus -> {"enter", "loop", "store", "gather"}] /\ left \in [Cpus -> 0 .. cnt]
    BY DEF CountsOK, LoopOK, NumbersOK
  <1>3. Multi /\ Op(i) = Val /\ left[i] > 0 /\ reg[i] = 0 /\ sum[i] = 0
    BY <1>1, <1>2 DEF LoopOK
  <1>4. /\ i \in Workers /\ Op(i) = SiteOf(call)
        /\ at' \in [Cpus -> {"enter", "loop", "store", "gather"}] /\ left' \in [Cpus -> 0 .. cnt]
        /\ pc' = pc /\ mine' = mine /\ SiteOf(call)' = SiteOf(call) /\ (Multi' <=> Multi)
        /\ LifeOK' /\ RcOK' /\ CachedOK'
    BY <1>1, <1>3, AdvanceFacts
  <1>5. sum' = [sum EXCEPT ![i] = 0]
    <2>1. sum[i] + reg[i] = 0
      BY <1>3
    <2> QED
      BY <1>1, <2>1
  <1>6. LoopOK'
    <2>1. \A j \in Cpus : Op(j)' = Op(j) /\ \A v : Changed(j, v)' = Changed(j, v)
      BY <1>4 DEF Op, SiteOf, Changed
    <2>2. ASSUME NEW j \in Cpus
          PROVE  /\ at'[j] # "enter" => pc'[j] = "work"
                 /\ at'[j] = "store" => /\ Multi /\ Op(j) \in {Inc, Dec} /\ left'[j] > 0
                                        /\ reg'[j] = Changed(j, val'[j])
                 /\ at'[j] = "gather" => Multi /\ Op(j) = Val /\ left'[j] > 0 /\ reg'[j] = 0
                 /\ at'[j] # "enter" /\ Op(j) = Val => sum'[j] = 0
      BY <1>1, <1>2, <1>4, <1>5 DEF LoopOK
    <2> QED
      BY <1>4, <2>1, <2>2 DEF LoopOK, Changed
  <1>7. ValueOK'
    <2>1. SiteOf(call) # Inc /\ SiteOf(call) # Dec
      BY <1>3, <1>4 DEF Inc, Dec, Val
    <2> QED
      BY <1>1, <1>2, <1>3, <1>4, <2>1 DEF ValueOK, Counts
  <1> QED
    BY <1>4, <1>6, <1>7 DEF CountsOK

(* The loop returns with all its operations done.                           *)
LEMMA LoopEndCounts ==
  ASSUME IInv, NumbersOK, CountsOK, NEW i \in Cpus, LoopEnd(i)
  PROVE  CountsOK'
  <1>1. /\ pc[i] = "work" /\ at[i] = "loop" /\ left[i] = 0
        /\ at' = [at EXCEPT ![i] = "enter"] /\ pc' = [pc EXCEPT ![i] = "arrive2"]
        /\ rc' = [rc EXCEPT ![i] = IF Op(i) = Val THEN sum[i] ELSE cnt]
        /\ call' = call /\ mine' = mine /\ results' = results
        /\ kind' = kind /\ made' = made /\ gone' = gone /\ reps' = reps
        /\ cached' = cached /\ left' = left /\ reg' = reg /\ sum' = sum /\ val' = val
    BY DEF LoopEnd, Working, WorkReturns, Goto, callerVars
  <1>2. /\ LifeOK /\ LoopOK /\ CachedOK /\ ValueOK /\ RcOK /\ cnt \in Nat
        /\ at \in [Cpus -> {"enter", "loop", "store", "gather"}]
        /\ pc \in [Cpus -> {"idle", "arrive1", "wait1", "work", "arrive2", "wait2", "store",
                            "count", "spin"}]
        /\ rc \in [Cpus -> Int] /\ Workers \subseteq Cpus
    BY CtrFacts, Sizes DEF CountsOK, LoopOK, IInv, TypeOK
  <1>3. i \in Workers /\ mine[i] = call /\ Op(i) = SiteOf(call)
    BY <1>1, AtWork
  <1>4. \A j \in Cpus \ {i} : at'[j] = at[j] /\ pc'[j] = pc[j] /\ rc'[j] = rc[j]
    BY <1>1, <1>2
  <1>5. at'[i] = "enter" /\ pc'[i] = "arrive2"
    BY <1>1, <1>2
  <1>6. SiteOf(call)' = SiteOf(call) /\ (Multi' <=> Multi) /\ Returned' = Returned
    BY <1>1 DEF SiteOf, Multi, Returned
  <1>7. \A j \in Cpus : (Entered(j)' <=> Entered(j)) /\ Progress(j)' = Progress(j)
    <2>1. \A j \in Cpus \ {i} : (Entered(j)' <=> Entered(j)) /\ Progress(j)' = Progress(j)
      BY <1>1, <1>4 DEF Entered, Progress
    <2>2. Entered(i) /\ Progress(i) = cnt
      BY <1>1, <1>2, <1>3 DEF Entered, Progress
    <2>3. Entered(i)' /\ Progress(i)' = cnt
      BY <1>1, <1>3, <1>5 DEF Entered, Progress
    <2> QED
      BY <2>1, <2>2, <2>3
  <1>8. LifeOK'
    BY <1>1, <1>2 DEF LifeOK
  <1>9. LoopOK'
    <2>1. \A j \in Cpus : Op(j)' = Op(j) /\ \A v : Changed(j, v)' = Changed(j, v)
      BY <1>1 DEF Op, SiteOf, Changed
    <2>2. at' \in [Cpus -> {"enter", "loop", "store", "gather"}]
      BY <1>1, <1>2
    <2>3. ASSUME NEW j \in Cpus
          PROVE  /\ at'[j] # "enter" => pc'[j] = "work"
                 /\ at'[j] = "store" => /\ Multi /\ Op(j) \in {Inc, Dec} /\ left[j] > 0
                                        /\ reg[j] = Changed(j, val[j])
                 /\ at'[j] = "gather" => Multi /\ Op(j) = Val /\ left[j] > 0 /\ reg[j] = 0
                 /\ at'[j] # "enter" /\ Op(j) = Val => sum[j] = 0
      <3>1. CASE j = i
        BY <1>5, <3>1
      <3>2. CASE j # i
        BY <1>2, <1>4, <3>2 DEF LoopOK
      <3> QED
        BY <3>1, <3>2
    <2> QED
      BY <1>1, <1>2, <1>6, <2>1, <2>2, <2>3 DEF LoopOK, Changed
  <1>10. CachedOK'
    BY <1>1, <1>2, <1>6, <1>7 DEF CachedOK
  <1>11. Ops' = Ops
    BY <1>2, <1>7 DEF Ops
  <1>12. ValueOK'
    BY <1>1, <1>2, <1>6, <1>7, <1>11 DEF ValueOK, Counts
  <1>13. RcOK'
    <2>1. rc'[i] = Returned
      <3>1. Op(i) = Val => sum[i] = 0
        BY <1>1, <1>2 DEF LoopOK
      <3> QED
        BY <1>1, <1>2, <1>3, <3>1 DEF Returned
    <2> QED
      BY <1>1, <1>2, <1>4, <1>5, <1>6, <2>1 DEF RcOK
  <1> QED
    BY <1>8, <1>9, <1>10, <1>12, <1>13 DEF CountsOK

LEMMA CtrInitCounts == CtrInit => CountsOK
  <1> SUFFICES ASSUME CtrInit PROVE CountsOK
    OBVIOUS
  <1>1. /\ call = 0 /\ pc = [i \in Cpus |-> "idle"] /\ mine = [i \in Cpus |-> 0]
        /\ results = [i \in Cpus |-> [call |-> 0, rc |-> 0]]
        /\ kind \in Kinds /\ made = 0 /\ gone = 0 /\ val = [i \in Cpus |-> 0]
        /\ reps = {} /\ cached = {}
        /\ at = [i \in Cpus |-> "enter"] /\ left = [i \in Cpus |-> 0]
    BY DEF CtrInit, Init
  <1>2. SiteOf(0) = Val
    <2>1. SiteOf(3 * 0) = Val
      BY SiteNext
    <2> QED
      BY <2>1
  <1>3. Workers \subseteq Cpus /\ 0 \in Cpus /\ cnt \in Nat /\ Calls \in Nat
    BY Sizes, CpusAssumption
  <1>4. LifeOK
    BY <1>1, <1>3 DEF LifeOK
  <1>5. LoopOK
    BY <1>1, <1>3 DEF LoopOK
  <1>6. CachedOK
    BY <1>1, <1>2 DEF CachedOK, Inc, Dec, Val
  <1>7. ValueOK
    BY <1>1, <1>2, <1>3 DEF ValueOK, Counts, Inc, Dec, Val
  <1>8. RcOK
    BY <1>1, <1>2, <1>3 DEF RcOK, Returned
  <1> QED
    BY <1>4, <1>5, <1>6, <1>7, <1>8 DEF CountsOK

LEMMA CtrWorkCounts ==
  ASSUME IInv, NumbersOK, CountsOK, NEW i \in Cpus, CtrWork(i)
  PROVE  CountsOK'
  BY HarnessCounts, DerefCounts, AtomicOpCounts, LoadCounts, StoreValCounts, ReadValCounts,
     GatherCounts, GatherEndCounts, LoopEndCounts DEF CtrWork

LEMMA StutterCounts ==
  ASSUME CountsOK, UNCHANGED allVars
  PROVE  CountsOK'
  <1>1. /\ call' = call /\ pc' = pc /\ mine' = mine /\ rc' = rc /\ results' = results
        /\ UNCHANGED ctrVars
    BY DEF allVars, vars, callerVars, workerVars
  <1>2. \A i \in Cpus : Aside(i)
    BY <1>1 DEF Aside
  <1>3. RcOK'
    BY <1>1 DEF CountsOK, RcOK, Returned
  <1> QED
    BY <1>1, <1>2, <1>3, AsideSame DEF CountsOK

(* The counters' inductive invariant.                                       *)
THEOREM CountsInvariance == CtrSpec => [](IInv /\ NumbersOK /\ CountsOK)
  <1>1. CtrInit => CountsOK
    BY CtrInitCounts
  <1>2. IInv /\ NumbersOK /\ CountsOK /\ [CtrNext]_allVars => CountsOK'
    BY CallMPTestCounts, CreateCounts, DestroyCounts, CtrWorkCounts, StutterCounts
       DEF CtrNext, CtrCaller
  <1> QED
    BY <1>1, <1>2, CtrInvariance, PTL DEF CtrSpec

(* A set of natural numbers that is not empty has a least element.          *)
LEMMA Least ==
  ASSUME NEW T \in SUBSET Nat, T # {}
  PROVE  \E x \in T : \A y \in T : x <= y
  <1> DEFINE R == OpToRel(<, Nat)
  <1>1. IsWellFoundedOn(R, Nat)
    BY NatLessThanWellFounded
  <1>2. \A x, y \in Nat : x < y => <<x, y>> \in R
    BY DEF OpToRel
  <1> HIDE DEF R
  <1>3. PICK x \in T : \A y \in T : ~ (<<y, x>> \in R)
    BY <1>1, WFMin
  <1>4. ASSUME NEW y \in T PROVE x <= y
    <2>1. ~(y < x)
      BY <1>2, <1>3
    <2>2. x \in Nat /\ y \in Nat
      OBVIOUS
    <2> QED
      BY <2>1, <2>2
  <1> QED
    BY <1>4

(* Total is the last of the partial sums, and only one function of the cores *)
(* adds the representatives up: where another would differ from it first,    *)
(* its predecessor does not.                                                *)
LEMMA TotalIs ==
  ASSUME NEW g \in [Cpus -> Int],
         \A i \in Cpus : g[i] = val[i] + IF i = 0 THEN 0 ELSE g[i - 1]
  PROVE  Total = g[NumCpus - 1]
  <1> DEFINE P(u) == u = [i \in Cpus |-> val[i] + IF i = 0 THEN 0 ELSE u[i - 1]]
             v == CHOOSE u : P(u)
  <1>1. P(g)
    OBVIOUS
  <1>2. P(v)
    BY <1>1
  <1>3. \A i \in Cpus : v[i] = val[i] + IF i = 0 THEN 0 ELSE v[i - 1]
    BY <1>2
  <1>4. Total = v[NumCpus - 1]
    BY DEF Total
  <1> HIDE DEF P, v
  <1> DEFINE T == {i \in Cpus : v[i] # g[i]}
  <1>5. T = {}
    <2> SUFFICES ASSUME T # {} PROVE FALSE
      OBVIOUS
    <2>1. T \subseteq Nat
      BY CpusAssumption DEF Cpus
    <2>2. PICK x \in T : \A y \in T : x <= y
      BY <2>1, Least
    <2>3. x \in Cpus /\ v[x] # g[x]
      OBVIOUS
    <2>4. x # 0
      BY <1>3, <2>3
    <2>5. x - 1 \in Cpus /\ x - 1 \notin T
      BY <2>2, <2>3, <2>4, CpusAssumption DEF Cpus
    <2>6. v[x - 1] = g[x - 1]
      BY <2>5
    <2> QED
      BY <1>3, <2>3, <2>4, <2>6
  <1>6. NumCpus - 1 \in Cpus
    BY CpusAssumption DEF Cpus
  <1> QED
    BY <1>4, <1>5, <1>6

(* All operations of a call are done when it is reported.                   *)
LEMMA AllDone ==
  ASSUME IInv, NumbersOK, CountsOK, main = "report"
  PROVE  /\ \A i \in Workers : Progress(i) = cnt /\ results[i].rc = Returned
         /\ Cardinality(Ops) = n * cnt
  <1>1. \A i \in Workers : mine[i] = call /\ pc[i] \in {"spin", "idle"}
    BY DEF IInv, CallerOK, Counted, Arrived2, Arrived1
  <1>2. \A i \in Workers : Progress(i) = cnt
    BY <1>1 DEF Progress, Entered
  <1>3. \A i \in Workers : results[i].rc = Returned
    BY <1>1 DEF CountsOK, RcOK
  <1> QED
    BY <1>2, <1>3, OpsFacts

(* The sum over the representatives of a counter that holds v on each of     *)
(* the workers' cores.                                                      *)
LEMMA SumOfWorkers ==
  ASSUME NEW v \in Nat, \A i \in Workers : val[i] = v, \A i \in Cpus \ Workers : val[i] = 0
  PROVE  Total = n * v
  <1>1. n \in Nat /\ n <= NumCpus /\ NumCpus \in Nat \ {0}
    BY Sizes, CpusAssumption
  <1>2. \A a, b \in Nat : a * b \in Nat /\ (a + 1) * b = a * b + b /\ 0 * b = 0 /\ 1 * b = b
    OBVIOUS
  <1> DEFINE g == [i \in Cpus |-> IF i < n THEN (i + 1) * v ELSE n * v]
  <1>3. \A i \in Cpus : i \in Nat /\ (i # 0 => i - 1 \in Cpus /\ i - 1 \in Nat)
    BY <1>1 DEF Cpus
  <1>4. g \in [Cpus -> Int]
    <2>1. \A i \in Cpus : i + 1 \in Nat /\ (i + 1) * v \in Int
      BY <1>2, <1>3
    <2>2. n * v \in Int
      BY <1>1, <1>2
    <2> QED
      BY <2>1, <2>2
  <1>5. ASSUME NEW i \in Cpus PROVE g[i] = val[i] + IF i = 0 THEN 0 ELSE g[i - 1]
    <2>1. CASE i = 0 /\ i < n
      <3>1. val[0] = v /\ g[0] = (0 + 1) * v
        BY <1>1, <2>1, <1>5 DEF Workers
      <3> QED
        BY <2>1, <3>1, <1>2
    <2>2. CASE i = 0 /\ ~(i < n)
      <3>1. n = 0 /\ val[0] = 0 /\ g[0] = 0 * v
        BY <1>1, <2>2, <1>5 DEF Workers
      <3> QED
        BY <2>2, <3>1, <1>2
    <2>3. CASE i # 0 /\ i < n
      <3>1. val[i] = v /\ g[i] = (i + 1) * v
        BY <1>1, <1>3, <2>3, <1>5 DEF Workers
      <3>2. i - 1 \in Cpus /\ i - 1 \in Nat /\ i - 1 < n /\ i - 1 + 1 = i
        BY <1>1, <1>3, <2>3
      <3>3. g[i - 1] = i * v
        BY <3>2
      <3>4. (i + 1) * v = i * v + v /\ i * v \in Nat
        BY <1>2, <1>3
      <3> HIDE DEF g
      <3> QED
        BY <2>3, <3>1, <3>3, <3>4
    <2>4. CASE i # 0 /\ ~(i < n)
      <3>1. val[i] = 0 /\ g[i] = n * v
        BY <1>1, <1>3, <2>4, <1>5 DEF Workers
      <3>2. i - 1 \in Cpus /\ i - 1 \in Nat
        BY <1>3, <2>4
      <3>3. g[i - 1] = n * v
        <4>1. CASE i - 1 < n
          <5>1. i = n
            BY <1>1, <1>3, <2>4, <4>1
          <5>2. g[i - 1] = (i - 1 + 1) * v /\ i - 1 + 1 = i
            BY <3>2, <4>1, <1>3
          <5> QED
            BY <5>1, <5>2
        <4>2. CASE ~(i - 1 < n)
          BY <3>2, <4>2
        <4> QED
          BY <4>1, <4>2
      <3>4. n * v \in Nat
        BY <1>1, <1>2
      <3> HIDE DEF g
      <3> QED
        BY <2>4, <3>1, <3>3, <3>4
    <2> QED
      BY <2>1, <2>2, <2>3, <2>4
  <1>6. NumCpus - 1 \in Cpus
    BY <1>1 DEF Cpus
  <1>7. g[NumCpus - 1] = n * v
    <2>1. CASE NumCpus - 1 < n
      <3>1. NumCpus - 1 + 1 = n
        BY <1>1, <2>1
      <3> QED
        BY <1>6, <2>1, <3>1
    <2>2. CASE ~(NumCpus - 1 < n)
      BY <1>6, <2>2
    <2> QED
      BY <2>1, <2>2
  <1> HIDE DEF g
  <1>8. Total = g[NumCpus - 1]
    BY <1>4, <1>5, TotalIs
  <1> QED
    BY <1>7, <1>8

(* And of one that is all in the representative of core 0.                  *)
LEMMA SumOfOne ==
  ASSUME NEW v \in Int, val[0] = v, \A i \in Cpus \ {0} : val[i] = 0
  PROVE  Total = v
  <1> DEFINE g == [i \in Cpus |-> v]
  <1>1. g \in [Cpus -> Int]
    OBVIOUS
  <1>2. \A i \in Cpus : i # 0 => i - 1 \in Cpus
    BY CpusAssumption DEF Cpus
  <1>3. \A i \in Cpus : g[i] = val[i] + IF i = 0 THEN 0 ELSE g[i - 1]
    BY <1>2
  <1>4. g[NumCpus - 1] = v
    BY CpusAssumption DEF Cpus
  <1> HIDE DEF g
  <1> QED
    BY <1>1, <1>3, <1>4, TotalIs

(* Whatever is reported adds up.                                            *)
LEMMA AddsUp == IInv /\ NumbersOK /\ CountsOK => CountsAddUp
  <1> SUFFICES ASSUME IInv, NumbersOK, CountsOK, main = "report"
      PROVE  /\ Total = IF SiteOf(call) = Inc THEN n * cnt ELSE 0
             /\ \A i \in Workers : results[i].rc = IF SiteOf(call) = Val THEN 0 ELSE cnt
    BY DEF CountsAddUp
  <1>1. \A i \in Workers : Progress(i) = cnt /\ results[i].rc = Returned
    BY AllDone
  <1>2. Cardinality(Ops) = n * cnt /\ n * cnt \in Nat /\ cnt \in Nat /\ n \in Nat
    BY AllDone, OpsFacts, CtrFacts, Sizes
  <1>3. ValueOK /\ SiteOf(call) \in {Inc, Dec, Val}
    BY CtrFacts DEF CountsOK
  <1>4. \A a \in Nat : a * 0 = 0 /\ a - a = 0
    OBVIOUS
  <1>5. Counts(cnt, cnt) = IF SiteOf(call) = Inc THEN cnt ELSE 0
    BY <1>2, <1>3, <1>4 DEF Counts, Inc, Dec, Val
  <1>6. Counts(n * cnt, n * cnt) = IF SiteOf(call) = Inc THEN n * cnt ELSE 0
    BY <1>2, <1>3, <1>4 DEF Counts, Inc, Dec, Val
  <1>7. Total = IF SiteOf(call) = Inc THEN n * cnt ELSE 0
    <2>1. CASE Multi
      <3> DEFINE v == Counts(cnt, cnt)
      <3>1. v \in Nat
        BY <1>2, <1>5
      <3>2. \A i \in Workers : val[i] = v
        BY <1>1, <1>3, <2>1 DEF ValueOK
      <3>3. \A i \in Cpus \ Workers : val[i] = 0
        BY <1>3, <2>1 DEF ValueOK
      <3>4. Total = n * v
        BY <3>1, <3>2, <3>3, SumOfWorkers
      <3> QED
        BY <3>4, <1>2, <1>4, <1>5
    <2>2. CASE ~Multi
      <3> DEFINE v == Counts(n * cnt, n * cnt)
      <3>1. v \in Int
        BY <1>2, <1>6
      <3>2. val[0] = v /\ \A i \in Cpus \ {0} : val[i] = 0
        BY <1>2, <1>3, <2>2 DEF ValueOK
      <3>3. Total = v
        BY <3>1, <3>2, SumOfOne
      <3> QED
        BY <3>3, <1>6
    <2> QED
      BY <2>1, <2>2
  <1>8. \A i \in Workers : results[i].rc = IF SiteOf(call) = Val THEN 0 ELSE cnt
    BY <1>1 DEF Returned
  <1> QED
    BY <1>7, <1>8

(* No count passes what all cores together can do.                          *)
LEMMA InBounds == IInv /\ NumbersOK /\ CountsOK => CtrTypeOK
  <1> SUFFICES ASSUME IInv, NumbersOK, CountsOK PROVE CtrTypeOK
    OBVIOUS
  <1>1. TypeOK /\ LifeOK /\ LoopOK /\ CachedOK /\ ValueOK
    BY DEF IInv, CountsOK
  <1>2. /\ n \in Nat /\ cnt \in Nat /\ n * cnt \in Nat /\ Workers \subseteq Cpus
        /\ Cardinality(Ops) \in Nat /\ Cardinality(Ops) <= n * cnt
        /\ \A i \in Cpus : Progress(i) \in 0 .. cnt
    BY OpsFacts, CtrFacts, Sizes
  <1>3. \A done, all \in Nat : done <= all => Counts(done, all) \in 0 .. all
    BY DEF Counts
  <1>4. \A i \in Workers : cnt <= n * cnt
    <2>1. \A a, b \in Nat : a >= 1 => b <= a * b
      OBVIOUS
    <2>2. \A i \in Workers : n >= 1
      BY <1>2 DEF Workers
    <2> QED
      BY <1>2, <2>1, <2>2
  <1>5. ASSUME NEW i \in Cpus PROVE val[i] \in 0 .. n * cnt
    <2>1. CASE Multi
      <3>1. CASE i \in Workers
        <4>1. Progress(i) \in Nat /\ Progress(i) <= cnt
          BY <1>2
        <4>2. Counts(Progress(i), cnt) \in 0 .. cnt
          BY <1>2, <1>3, <4>1
        <4>3. val[i] = Counts(Progress(i), cnt)
          BY <1>1, <2>1, <3>1 DEF ValueOK
        <4> QED
          BY <1>2, <1>4, <3>1, <4>2, <4>3
      <3>2. CASE i \notin Workers
        <4>1. val[i] = 0
          BY <1>1, <2>1, <3>2, <1>5 DEF ValueOK
        <4> QED
          BY <1>2, <4>1
      <3> QED
        BY <3>1, <3>2
    <2>2. CASE ~Multi
      <3>1. CASE i = 0
        <4>1. Counts(Cardinality(Ops), n * cnt) \in 0 .. n * cnt
          BY <1>2, <1>3
        <4> QED
          BY <1>1, <2>2, <3>1, <4>1 DEF ValueOK
      <3>2. CASE i # 0
        <4>1. val[i] = 0
          BY <1>1, <2>2, <3>2, <1>5 DEF ValueOK
        <4> QED
          BY <1>2, <4>1
      <3> QED
        BY <3>1, <3>2
    <2> QED
      BY <2>1, <2>2
  <1>6. val \in [Cpus -> -(n * cnt) .. n * cnt]
    <2>1. \A a \in Nat : 0 .. a \subseteq -a .. a
      OBVIOUS
    <2>2. 0 .. n * cnt \subseteq -(n * cnt) .. n * cnt
      BY <1>2, <2>1
    <2> QED
      BY <1>5, <2>2 DEF NumbersOK
  <1>7. /\ at \in [Cpus -> {"enter", "loop", "store", "gather"}] /\ left \in [Cpus -> 0 .. cnt]
        /\ \A i \in Cpus : at[i] # "enter" => pc[i] = "work"
    BY <1>1 DEF LoopOK
  <1> QED
    BY <1>1, <1>6, <1>7 DEF CtrTypeOK, LifeOK, CachedOK, NumbersOK

(* Every variable of the counter tests stays in its type.                   *)
THEOREM CtrTypeCorrect == CtrSpec => []CtrTypeOK
  BY InBounds, CountsInvariance, PTL

(* However the cores race, no increment is lost: every counter adds up.      *)
THEOREM CountsAddUpAlways == CtrSpec => []CountsAddUp
  BY AddsUp, CountsInvariance, PTL
==============================================================================
