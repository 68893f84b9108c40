------------------------- MODULE PrinterFault_proofs -------------------------
(***************************************************************************)
(* PrinterFault's safety, for any number of events, cores and classes.      *)
(*                                                                         *)
(* SameObject and NoLeak are not inductive: that deleting the own object     *)
(* never deletes the one in use needs to know that an event which lost the  *)
(* race is not the one that won an earlier one (LosersOK), and that holds   *)
(* because the core of a winner has cached the object and never faults on   *)
(* the class again (WinnersOK).                                             *)
(*                                                                         *)
(* At the end: the same node with the front end that boots it, Launcher.     *)
(***************************************************************************)
EXTENDS Launcher, TLAPS

(* An event whose object is in use has returned from that fault for good.   *)
WinnersOK ==
  \A e \in Ebbs : \A t \in Events :
    entry[e] = t => /\ cache[CoreOf[t]][e] # NoOne
                    /\ pc[t] = "idle" \/ ebb[t] # e

(* An event whose lambda has run holds its own object, and no other does.   *)
LosersOK ==
  \A t \in Events :
    /\ pc[t] \in {"ready", "insert", "lose", "lost"} => p[t] = t /\ <<ebb[t], t>> \in live
    /\ pc[t] = "lose" => entry[ebb[t]] # NoOne

IInv == TypeOK /\ SameObject /\ NoLeak /\ WinnersOK /\ LosersOK
(* The initial states satisfy the inductive invariant.                      *)
LEMMA InitIInv == Init => IInv
  <1> SUFFICES ASSUME Init PROVE IInv
    OBVIOUS
  <1>1. (CHOOSE e \in Ebbs : TRUE) \in Ebbs
    BY EbbsAssumption
  <1>2. ebb \in [Events -> Ebbs]
    BY <1>1 DEF Init
  <1>3. TypeOK
    BY <1>2, NoOneAssumption DEF Init, TypeOK, PCs
  <1>4. SameObject
    BY DEF Init, SameObject
  <1>5. NoLeak
    BY DEF Init, NoLeak
  <1>6. WinnersOK
    BY NoOneAssumption DEF Init, WinnersOK
  <1>7. LosersOK
    BY DEF Init, LosersOK
  <1> QED
    BY <1>3, <1>4, <1>5, <1>6, <1>7 DEF IInv

(* Deref preserves the inductive invariant.                                   *)
LEMMA DerefStep ==
  ASSUME IInv, NEW t \in Events, NEW e \in Ebbs, Deref(t, e)
  PROVE  IInv'
  <1> USE CoresAssumption, NoOneAssumption DEF Deref, Goto
  <1>1. TypeOK'
    BY DEF IInv, TypeOK, PCs, LosersOK, SameObject
  <1>2. SameObject'
    BY DEF IInv, TypeOK, SameObject, WinnersOK, LosersOK
  <1>3. NoLeak'
    BY DEF IInv, TypeOK, NoLeak, WinnersOK, LosersOK
  <1>4. WinnersOK'
    BY DEF IInv, TypeOK, WinnersOK, LosersOK, SameObject
  <1>5. LosersOK'
    BY DEF IInv, TypeOK, PCs, LosersOK, WinnersOK, SameObject
  <1> QED
    BY <1>1, <1>2, <1>3, <1>4, <1>5 DEF IInv

(* What Return does to the cache, the cores and the places of the events.   *)
LEMMA ReturnFacts ==
  ASSUME TypeOK, NEW t \in Events, NEW e \in Ebbs, NEW o \in Events, Return(t, e, o)
  PROVE  /\ cache' \in [Cores -> [Ebbs -> Events \cup {NoOne}]]
         /\ \A c \in Cores, f \in Ebbs :
              cache'[c][f] = IF c = CoreOf[t] /\ f = e THEN o ELSE cache[c][f]
         /\ running' \in [Cores -> Events \cup {NoOne}]
         /\ \A c \in Cores : running'[c] # NoOne => CoreOf[running'[c]] = c
         /\ pc' \in [Events -> PCs]
         /\ \A u \in Events : pc'[u] = IF u = t THEN "idle" ELSE pc[u]
  <1> USE CoresAssumption, NoOneAssumption DEF Return, Goto
  <1>1. CoreOf[t] \in Cores
    OBVIOUS
  <1>2. [cache[CoreOf[t]] EXCEPT ![e] = o] \in [Ebbs -> Events \cup {NoOne}]
    BY <1>1 DEF TypeOK
  <1>3. cache' = [cache EXCEPT ![CoreOf[t]] = [cache[CoreOf[t]] EXCEPT ![e] = o]]
    OBVIOUS
  <1>4. cache' \in [Cores -> [Ebbs -> Events \cup {NoOne}]]
    BY <1>1, <1>2, <1>3 DEF TypeOK
  <1>5. \A c \in Cores, f \in Ebbs :
          cache'[c][f] = IF c = CoreOf[t] /\ f = e THEN o ELSE cache[c][f]
    BY <1>1, <1>3 DEF TypeOK
  <1>6. /\ running' \in [Cores -> Events \cup {NoOne}]
        /\ \A c \in Cores : running'[c] # NoOne => CoreOf[running'[c]] = c
    BY <1>1 DEF TypeOK
  <1>7. pc' \in [Events -> PCs] /\ \A u \in Events : pc'[u] = IF u = t THEN "idle" ELSE pc[u]
    BY DEF TypeOK, PCs
  <1> QED
    BY <1>4, <1>5, <1>6, <1>7

(* Find preserves the inductive invariant.                                   *)
LEMMA FindStep ==
  ASSUME IInv, NEW t \in Events, NEW e \in Ebbs, ebb[t] = e, Find(t, e)
  PROVE  IInv'
  <1> USE CoresAssumption, NoOneAssumption DEF Find, Goto
  <1>1. CASE entry[e] # NoOne
    <2>1. entry[e] \in Events /\ Return(t, e, entry[e]) /\ TypeOK
      BY <1>1 DEF IInv, TypeOK, LosersOK
    <2>2. live' = live /\ p' = p /\ ebb' = ebb
      OBVIOUS
    <2>3. /\ entry' \in [Ebbs -> Events \cup {NoOne}]
          /\ \A f \in Ebbs : entry'[f] = IF f = e THEN entry[e] ELSE entry[f]
      BY <1>1, <2>1 DEF TypeOK
    <2>4. pc[t] = "find"
      OBVIOUS
    <2> HIDE DEF Find, Goto
    <2>5. \A c \in Cores, f \in Ebbs :
             cache'[c][f] = IF c = CoreOf[t] /\ f = e THEN entry[e] ELSE cache[c][f]
      BY <2>1, ReturnFacts
    <2>6. \A u \in Events : pc'[u] = IF u = t THEN "idle" ELSE pc[u]
      BY <2>1, ReturnFacts
    <2>7. TypeOK'
      BY <2>1, <2>2, <2>3, ReturnFacts DEF TypeOK
    <2>8. SameObject'
      <3>1. <<e, entry[e]>> \in live
        BY <1>1, <2>1, <2>4 DEF IInv, SameObject, LosersOK
      <3>2. ASSUME NEW f \in Ebbs, NEW c \in Cores, cache'[c][f] # NoOne
            PROVE  cache'[c][f] = entry'[f]
        <4>1. CASE c = CoreOf[t] /\ f = e
          BY <2>3, <2>5, <4>1
        <4>2. CASE ~(c = CoreOf[t] /\ f = e)
          <5>1. cache'[c][f] = cache[c][f]
            BY <2>5, <4>2
          <5>2. cache[c][f] = entry[f]
            BY <3>2, <5>1 DEF IInv, SameObject
          <5> QED
            BY <1>1, <2>3, <3>2, <5>1, <5>2
        <4> QED
          BY <4>1, <4>2
      <3> QED
        BY <2>2, <2>3, <3>1, <3>2 DEF IInv, SameObject
    <2>9. NoLeak'
      <3> SUFFICES ASSUME NEW f \in Ebbs, NEW u \in Events, <<f, u>> \in live
                   PROVE  \/ entry'[f] = u
                          \/ /\ ebb[u] = f /\ p[u] = u
                             /\ pc'[u] \in {"ready", "insert", "lose", "lost"}
        BY <2>2 DEF NoLeak
      <3>1. \/ entry[f] = u
            \/ ebb[u] = f /\ p[u] = u /\ pc[u] \in {"ready", "insert", "lose", "lost"}
        BY DEF IInv, NoLeak
      <3>2. CASE entry[f] = u
        BY <1>1, <2>1, <2>3, <3>2
      <3>3. CASE u = t /\ ebb[u] = f /\ p[u] = u /\ pc[u] \in {"ready", "insert", "lose", "lost"}
        BY <1>1, <2>1, <2>3, <2>4, <3>3
      <3>4. CASE u # t /\ ebb[u] = f /\ p[u] = u /\ pc[u] \in {"ready", "insert", "lose", "lost"}
        BY <2>6, <3>4
      <3> QED
        BY <3>1, <3>2, <3>3, <3>4
    <2>10. WinnersOK'
      <3> SUFFICES ASSUME NEW f \in Ebbs, NEW u \in Events, entry'[f] = u
                   PROVE  cache'[CoreOf[u]][f] # NoOne /\ (pc'[u] = "idle" \/ ebb[u] # f)
        BY <2>2 DEF WinnersOK
      <3>1. CASE entry[f] = u
        <4>1. cache[CoreOf[u]][f] # NoOne /\ (pc[u] = "idle" \/ ebb[u] # f)
          BY <3>1 DEF IInv, WinnersOK
        <4> QED
          BY <2>1, <2>5, <2>6, <4>1
      <3>2. CASE entry[f] # u
        <4>1. f = e /\ u = entry[e] /\ entry'[f] = entry[e] /\ entry[f] # entry[e]
          BY <2>3, <3>2
        <4>2. u = t
          BY <1>1, <2>4, <4>1 DEF IInv, LosersOK
        <4> QED
          BY <2>1, <2>5, <2>6, <4>1, <4>2
      <3> QED
        BY <3>1, <3>2
    <2>11. LosersOK'
      BY <2>1, <2>2, <2>3, <2>6 DEF IInv, TypeOK, LosersOK
    <2> QED
      BY <2>7, <2>8, <2>9, <2>10, <2>11 DEF IInv
  <1>2. CASE entry[e] = NoOne
    <2>1. /\ entry' = entry /\ live' = live /\ ebb' = ebb /\ p' = p
          /\ running' = running /\ cache' = cache
      BY <1>2
    <2>2. pc' \in [Events -> PCs]
      BY <1>2 DEF IInv, TypeOK, PCs
    <2>3. \A u \in Events : pc'[u] = IF u = t THEN "get" ELSE pc[u]
      BY <1>2 DEF IInv, TypeOK
    <2>4. pc[t] = "find"
      OBVIOUS
    <2> HIDE DEF Find, Goto
    <2>5. TypeOK' /\ SameObject'
      BY <2>1, <2>2 DEF IInv, TypeOK, SameObject
    <2>6. NoLeak'
      BY <2>1, <2>3, <2>4 DEF IInv, NoLeak
    <2>7. WinnersOK'
      BY <2>1, <2>3, <2>4 DEF IInv, WinnersOK
    <2>8. LosersOK'
      BY <1>2, <2>1, <2>3, <2>4 DEF IInv, LosersOK
    <2> QED
      BY <2>5, <2>6, <2>7, <2>8 DEF IInv
  <1> QED
    BY <1>1, <1>2

(* Get preserves the inductive invariant.                                   *)
LEMMA GetStep ==
  ASSUME IInv, NEW t \in Events, NEW e \in Ebbs, ebb[t] = e, Get(t, e)
  PROVE  IInv'
  <1> USE CoresAssumption, NoOneAssumption DEF Get, Goto
  <1>1. TypeOK'
    BY DEF IInv, TypeOK, PCs, LosersOK, SameObject
  <1>2. SameObject'
    BY DEF IInv, TypeOK, SameObject, WinnersOK, LosersOK
  <1>3. NoLeak'
    BY DEF IInv, TypeOK, NoLeak, WinnersOK, LosersOK
  <1>4. WinnersOK'
    BY DEF IInv, TypeOK, WinnersOK, LosersOK, SameObject
  <1>5. LosersOK'
    BY DEF IInv, TypeOK, PCs, LosersOK, WinnersOK, SameObject
  <1> QED
    BY <1>1, <1>2, <1>3, <1>4, <1>5 DEF IInv

(* SaveContext preserves the inductive invariant.                                   *)
LEMMA SaveContextStep ==
  ASSUME IInv, NEW t \in Events, NEW e \in Ebbs, ebb[t] = e, SaveContext(t, e)
  PROVE  IInv'
  <1> USE CoresAssumption, NoOneAssumption DEF SaveContext, Goto
  <1>1. TypeOK'
    BY DEF IInv, TypeOK, PCs, LosersOK, SameObject
  <1>2. SameObject'
    BY DEF IInv, TypeOK, SameObject, WinnersOK, LosersOK
  <1>3. NoLeak'
    BY DEF IInv, TypeOK, NoLeak, WinnersOK, LosersOK
  <1>4. WinnersOK'
    BY DEF IInv, TypeOK, WinnersOK, LosersOK, SameObject
  <1>5. LosersOK'
    BY DEF IInv, TypeOK, PCs, LosersOK, WinnersOK, SameObject
  <1> QED
    BY <1>1, <1>2, <1>3, <1>4, <1>5 DEF IInv

(* Answer preserves the inductive invariant.                                   *)
LEMMA AnswerStep ==
  ASSUME IInv, NEW t \in Events, NEW e \in Ebbs, ebb[t] = e, Answer(t, e)
  PROVE  IInv'
  <1> USE CoresAssumption, NoOneAssumption DEF Answer, Goto
  <1>1. TypeOK'
    <2>1. p' \in [Events -> Events \cup {NoOne}] /\ live' \subseteq Ebbs \X Events
      BY DEF IInv, TypeOK
    <2>2. pc' = [pc EXCEPT ![t] = "ready"] \/ pc' = [pc EXCEPT ![t] = "lost"]
      OBVIOUS
    <2>3. pc' \in [Events -> PCs]
      BY <2>2 DEF IInv, TypeOK, PCs
    <2>4. /\ running' \in [Cores -> Events \cup {NoOne}]
          /\ \A c \in Cores : running'[c] # NoOne => CoreOf[running'[c]] = c
      BY DEF IInv, TypeOK
    <2>5. entry' = entry /\ ebb' = ebb /\ cache' = cache
      OBVIOUS
    <2> QED
      BY <2>1, <2>3, <2>4, <2>5 DEF IInv, TypeOK
  <1>2. SameObject'
    BY DEF IInv, TypeOK, SameObject, WinnersOK, LosersOK
  <1>3. NoLeak'
    BY DEF IInv, TypeOK, NoLeak, WinnersOK, LosersOK
  <1>4. WinnersOK'
    BY DEF IInv, TypeOK, WinnersOK, LosersOK, SameObject
  <1>5. LosersOK'
    BY DEF IInv, TypeOK, PCs, LosersOK, WinnersOK, SameObject
  <1> QED
    BY <1>1, <1>2, <1>3, <1>4, <1>5 DEF IInv

(* AnswerFails preserves the inductive invariant.                                   *)
LEMMA AnswerFailsStep ==
  ASSUME IInv, NEW t \in Events, NEW e \in Ebbs, ebb[t] = e, AnswerFails(t, e)
  PROVE  IInv'
  <1> USE CoresAssumption, NoOneAssumption DEF AnswerFails, Goto
  <1>1. TypeOK'
    BY DEF IInv, TypeOK, PCs, LosersOK, SameObject
  <1>2. SameObject'
    BY DEF IInv, TypeOK, SameObject, WinnersOK, LosersOK
  <1>3. NoLeak'
    BY DEF IInv, TypeOK, NoLeak, WinnersOK, LosersOK
  <1>4. WinnersOK'
    BY DEF IInv, TypeOK, WinnersOK, LosersOK, SameObject
  <1>5. LosersOK'
    BY DEF IInv, TypeOK, PCs, LosersOK, WinnersOK, SameObject
  <1> QED
    BY <1>1, <1>2, <1>3, <1>4, <1>5 DEF IInv

(* Resume preserves the inductive invariant.                                   *)
LEMMA ResumeStep ==
  ASSUME IInv, NEW t \in Events, NEW e \in Ebbs, ebb[t] = e, Resume(t, e)
  PROVE  IInv'
  <1> USE CoresAssumption, NoOneAssumption DEF Resume, Goto
  <1>1. TypeOK'
    BY DEF IInv, TypeOK, PCs, LosersOK, SameObject
  <1>2. SameObject'
    BY DEF IInv, TypeOK, SameObject, WinnersOK, LosersOK
  <1>3. NoLeak'
    BY DEF IInv, TypeOK, NoLeak, WinnersOK, LosersOK
  <1>4. WinnersOK'
    BY DEF IInv, TypeOK, WinnersOK, LosersOK, SameObject
  <1>5. LosersOK'
    BY DEF IInv, TypeOK, PCs, LosersOK, WinnersOK, SameObject
  <1> QED
    BY <1>1, <1>2, <1>3, <1>4, <1>5 DEF IInv

(* Insert preserves the inductive invariant.                                   *)
LEMMA InsertStep ==
  ASSUME IInv, NEW t \in Events, NEW e \in Ebbs, ebb[t] = e, Insert(t, e)
  PROVE  IInv'
  <1> USE CoresAssumption, NoOneAssumption DEF Insert, Goto
  <1>1. CASE entry[e] = NoOne
    <2>1. p[t] \in Events /\ Return(t, e, p[t]) /\ TypeOK
      BY <1>1 DEF IInv, TypeOK, LosersOK
    <2>2. live' = live /\ p' = p /\ ebb' = ebb
      OBVIOUS
    <2>3. /\ entry' \in [Ebbs -> Events \cup {NoOne}]
          /\ \A f \in Ebbs : entry'[f] = IF f = e THEN p[t] ELSE entry[f]
      BY <1>1, <2>1 DEF TypeOK
    <2>4. pc[t] = "insert"
      OBVIOUS
    <2> HIDE DEF Insert, Goto
    <2>5. \A c \in Cores, f \in Ebbs :
             cache'[c][f] = IF c = CoreOf[t] /\ f = e THEN p[t] ELSE cache[c][f]
      BY <2>1, ReturnFacts
    <2>6. \A u \in Events : pc'[u] = IF u = t THEN "idle" ELSE pc[u]
      BY <2>1, ReturnFacts
    <2>7. TypeOK'
      BY <2>1, <2>2, <2>3, ReturnFacts DEF TypeOK
    <2>8. SameObject'
      <3>1. <<e, p[t]>> \in live
        BY <1>1, <2>1, <2>4 DEF IInv, SameObject, LosersOK
      <3>2. ASSUME NEW f \in Ebbs, NEW c \in Cores, cache'[c][f] # NoOne
            PROVE  cache'[c][f] = entry'[f]
        <4>1. CASE c = CoreOf[t] /\ f = e
          BY <2>3, <2>5, <4>1
        <4>2. CASE ~(c = CoreOf[t] /\ f = e)
          <5>1. cache'[c][f] = cache[c][f]
            BY <2>5, <4>2
          <5>2. cache[c][f] = entry[f]
            BY <3>2, <5>1 DEF IInv, SameObject
          <5> QED
            BY <1>1, <2>3, <3>2, <5>1, <5>2
        <4> QED
          BY <4>1, <4>2
      <3> QED
        BY <2>2, <2>3, <3>1, <3>2 DEF IInv, SameObject
    <2>9. NoLeak'
      <3> SUFFICES ASSUME NEW f \in Ebbs, NEW u \in Events, <<f, u>> \in live
                   PROVE  \/ entry'[f] = u
                          \/ /\ ebb[u] = f /\ p[u] = u
                             /\ pc'[u] \in {"ready", "insert", "lose", "lost"}
        BY <2>2 DEF NoLeak
      <3>1. \/ entry[f] = u
            \/ ebb[u] = f /\ p[u] = u /\ pc[u] \in {"ready", "insert", "lose", "lost"}
        BY DEF IInv, NoLeak
      <3>2. CASE entry[f] = u
        BY <1>1, <2>1, <2>3, <3>2
      <3>3. CASE u = t /\ ebb[u] = f /\ p[u] = u /\ pc[u] \in {"ready", "insert", "lose", "lost"}
        BY <1>1, <2>1, <2>3, <2>4, <3>3
      <3>4. CASE u # t /\ ebb[u] = f /\ p[u] = u /\ pc[u] \in {"ready", "insert", "lose", "lost"}
        BY <2>6, <3>4
      <3> QED
        BY <3>1, <3>2, <3>3, <3>4
    <2>10. WinnersOK'
      <3> SUFFICES ASSUME NEW f \in Ebbs, NEW u \in Events, entry'[f] = u
                   PROVE  cache'[CoreOf[u]][f] # NoOne /\ (pc'[u] = "idle" \/ ebb[u] # f)
        BY <2>2 DEF WinnersOK
      <3>1. CASE entry[f] = u
        <4>1. cache[CoreOf[u]][f] # NoOne /\ (pc[u] = "idle" \/ ebb[u] # f)
          BY <3>1 DEF IInv, WinnersOK
        <4> QED
          BY <2>1, <2>5, <2>6, <4>1
      <3>2. CASE entry[f] # u
        <4>1. f = e /\ u = p[t] /\ entry'[f] = p[t] /\ entry[f] # p[t]
          BY <2>3, <3>2
        <4>2. u = t
          BY <1>1, <2>4, <4>1 DEF IInv, LosersOK
        <4> QED
          BY <2>1, <2>5, <2>6, <4>1, <4>2
      <3> QED
        BY <3>1, <3>2
    <2>11. LosersOK'
      BY <2>1, <2>2, <2>3, <2>6 DEF IInv, TypeOK, LosersOK
    <2> QED
      BY <2>7, <2>8, <2>9, <2>10, <2>11 DEF IInv
  <1>2. CASE entry[e] # NoOne
    <2>1. /\ entry' = entry /\ live' = live /\ ebb' = ebb /\ p' = p
          /\ running' = running /\ cache' = cache
      BY <1>2
    <2>2. pc' \in [Events -> PCs]
      BY <1>2 DEF IInv, TypeOK, PCs
    <2>3. \A u \in Events : pc'[u] = IF u = t THEN "lose" ELSE pc[u]
      BY <1>2 DEF IInv, TypeOK
    <2>4. pc[t] = "insert"
      OBVIOUS
    <2> HIDE DEF Insert, Goto
    <2>5. TypeOK' /\ SameObject'
      BY <2>1, <2>2 DEF IInv, TypeOK, SameObject
    <2>6. NoLeak'
      BY <2>1, <2>3, <2>4 DEF IInv, NoLeak
    <2>7. WinnersOK'
      BY <2>1, <2>3, <2>4 DEF IInv, WinnersOK
    <2>8. LosersOK'
      BY <1>2, <2>1, <2>3, <2>4 DEF IInv, LosersOK
    <2> QED
      BY <2>5, <2>6, <2>7, <2>8 DEF IInv
  <1> QED
    BY <1>1, <1>2

(* Lose preserves the inductive invariant.                                   *)
LEMMA LoseStep ==
  ASSUME IInv, NEW t \in Events, NEW e \in Ebbs, ebb[t] = e, Lose(t, e)
  PROVE  IInv'
  <1> USE CoresAssumption, NoOneAssumption DEF Lose, Goto, Return
  <1>1. TypeOK'
    BY DEF IInv, TypeOK, PCs, LosersOK, SameObject
  <1>2. /\ pc[t] = "lose" /\ p[t] = t /\ entry[e] \in Events
        /\ live' = live \ {<<e, t>>} /\ entry' = entry /\ ebb' = ebb /\ p' = p
        /\ pc' = [pc EXCEPT ![t] = "idle"] /\ cache' = [cache EXCEPT ![CoreOf[t]][e] = entry[e]]
    <2>1. pc[t] = "lose" /\ p[t] = t /\ entry[e] # NoOne
      BY DEF IInv, LosersOK
    <2>2. entry[e] \in Events
      BY <2>1 DEF IInv, TypeOK
    <2> QED
      BY <2>1, <2>2
  <1>3. entry[e] # t
    BY <1>2 DEF IInv, WinnersOK
  <1>4. \A f \in Ebbs, u \in Events :
          <<f, u>> \in live' <=> <<f, u>> \in live /\ ~(f = e /\ u = t)
    BY <1>2
  <1>5. \A u \in Events : u # t => pc'[u] = pc[u]
    BY <1>2 DEF IInv, TypeOK
  <1>6. pc'[t] = "idle"
    BY <1>2 DEF IInv, TypeOK
  <1>7. /\ \A c \in Cores, f \in Ebbs :
             cache'[c][f] = IF c = CoreOf[t] /\ f = e THEN entry[e] ELSE cache[c][f]
        /\ CoreOf[t] \in Cores
    <2>1. CoreOf[t] \in Cores
      OBVIOUS
    <2>2. cache \in [Cores -> [Ebbs -> Events \cup {NoOne}]]
      BY DEF IInv, TypeOK
    <2>3. cache' = [cache EXCEPT ![CoreOf[t]][e] = entry[e]]
      BY <1>2
    <2> HIDE DEF Lose, Goto, Return
    <2> QED
      BY <2>1, <2>2, <2>3
  <1> HIDE DEF Lose, Goto, Return
  <1>8. SameObject'
    <2>1. \A f \in Ebbs : entry[f] # NoOne => entry[f] \in Events /\ <<f, entry[f]>> \in live
      BY DEF IInv, TypeOK, SameObject
    <2>2. \A f \in Ebbs : entry'[f] # NoOne => <<f, entry'[f]>> \in live'
      BY <1>2, <1>3, <1>4, <2>1
    <2>3. \A f \in Ebbs, c \in Cores : cache'[c][f] # NoOne => cache'[c][f] = entry'[f]
      <3>1. \A f \in Ebbs, c \in Cores : cache[c][f] # NoOne => cache[c][f] = entry[f]
        BY DEF IInv, SameObject
      <3>2. entry' = entry
        BY <1>2
      <3> QED
        BY <1>7, <3>1, <3>2
    <2> QED
      BY <2>2, <2>3 DEF SameObject
  <1>9. NoLeak'
    BY <1>2, <1>4, <1>5 DEF IInv, NoLeak
  <1>10. WinnersOK'
    BY <1>2, <1>5, <1>6, <1>7 DEF IInv, WinnersOK
  <1>11. LosersOK'
    <2> SUFFICES ASSUME NEW u \in Events
        PROVE  /\ pc'[u] \in {"ready", "insert", "lose", "lost"} =>
                    p'[u] = u /\ <<ebb'[u], u>> \in live'
               /\ pc'[u] = "lose" => entry'[ebb'[u]] # NoOne
      BY DEF LosersOK
    <2>1. CASE u = t
      BY <1>6, <2>1
    <2>2. CASE u # t
      <3>1. pc'[u] = pc[u] /\ ebb[u] \in Ebbs
        BY <1>5, <2>2 DEF IInv, TypeOK
      <3> QED
        BY <1>2, <1>4, <2>2, <3>1 DEF IInv, LosersOK
    <2> QED
      BY <2>1, <2>2
  <1> QED
    BY <1>1, <1>8, <1>9, <1>10, <1>11 DEF IInv

(* Every step preserves the inductive invariant.                            *)
LEMMA NextIInv == IInv /\ [Next]_vars => IInv'
  <1> SUFFICES ASSUME IInv, [Next]_vars PROVE IInv'
    OBVIOUS
  <1>1. ASSUME NEW t \in Events, NEW e \in Ebbs, Own(t, e) PROVE IInv'
    BY <1>1, FindStep, GetStep, SaveContextStep, ResumeStep, InsertStep, LoseStep DEF Own
  <1>2. ASSUME NEW t \in Events, NEW e \in Ebbs, Answered(t, e) PROVE IInv'
    BY <1>2, AnswerStep, AnswerFailsStep DEF Answered
  <1>3. ASSUME NEW t \in Events, NEW e \in Ebbs, Deref(t, e) PROVE IInv'
    BY <1>3, DerefStep
  <1>4. CASE Next
    BY <1>1, <1>2, <1>3, <1>4 DEF Next, CmdServerFault, PrinterFault
  <1>5. CASE UNCHANGED vars
    BY <1>5 DEF vars, IInv, TypeOK, SameObject, NoLeak, WinnersOK, LosersOK
  <1> QED
    BY <1>4, <1>5

(* The inductive invariant holds in every reachable state.                  *)
THEOREM Invariance == Spec => []IInv
  BY InitIInv, NextIInv, PTL DEF Spec

(* Every variable keeps its type and cores run only their own events, for    *)
(* any events, cores and classes.                                           *)
THEOREM TypeCorrect == Spec => []TypeOK
  <1>1. IInv => TypeOK
    BY DEF IInv
  <1> QED
    BY <1>1, Invariance, PTL

(* HandleFault, although it takes no lock between Find and Insert, gives     *)
(* every core of a node the same object, and never deletes it.              *)
THEOREM SameObjectAlways == Spec => []SameObject
  <1>1. IInv => SameObject
    BY DEF IInv
  <1> QED
    BY <1>1, Invariance, PTL

(* The objects that lose the race to Insert are all deleted.                *)
THEOREM NoLeakAlways == Spec => []NoLeak
  <1>1. IInv => NoLeak
    BY DEF IInv
  <1> QED
    BY <1>1, Invariance, PTL

(* HandleFault never inserts or deletes through its uninitialised pointer.  *)
THEOREM ConstructedFirstAlways == Spec => []ConstructedFirst
  <1>1. IInv => ConstructedFirst
    BY NoOneAssumption DEF IInv, LosersOK, ConstructedFirst
  <1> QED
    BY <1>1, Invariance, PTL

----------------------------------------------------------------------------
(* The refinement of OneObject, by the same invariant: the object appears    *)
(* when the first event inserts its own, which is also when that event       *)
(* returns; losing, answering and waiting are invisible.                    *)

(* A step to another place of HandleFault moves one event's abstract state.  *)
LEMMA GotoState ==
  ASSUME TypeOK, NEW t \in Events, NEW label, Goto(t, label)
  PROVE  [u \in Events |-> StateOf(pc[u])]'
           = [[u \in Events |-> StateOf(pc[u])] EXCEPT ![t] = StateOf(label)]
  BY DEF Goto, TypeOK

(* The steps that OneObject does not see.                                   *)
LEMMA HiddenStutters ==
  ASSUME IInv, NEW t \in Events, StateOf(pc[t]) = "asking", UNCHANGED <<entry, cache, ebb>>,
         NEW label, Goto(t, label), StateOf(label) = "asking"
  PROVE  UNCHANGED Object!vars
  <1>1. [u \in Events |-> StateOf(pc[u])]' = [u \in Events |-> StateOf(pc[u])]
    BY GotoState DEF IInv
  <1> QED
    BY <1>1 DEF Object!vars

(* A return of the object that is there, or of the first one.                *)
LEMMA ReturnMaps ==
  ASSUME IInv, NEW t \in Events, NEW o \in Events, StateOf(pc[t]) = "asking",
         entry[ebb[t]] \in {NoOne, o}, entry' = [entry EXCEPT ![ebb[t]] = o],
         Return(t, ebb[t], o), ebb' = ebb
  PROVE  Object!Return(t, o)
  <1>1. StateOf("idle") = "idle"
    BY DEF StateOf
  <1>2. [u \in Events |-> StateOf(pc[u])]'
          = [[u \in Events |-> StateOf(pc[u])] EXCEPT ![t] = "idle"]
    BY <1>1, GotoState DEF Return, IInv
  <1>3. cache' = [cache EXCEPT ![CoreOf[t]][ebb[t]] = o]
    BY DEF Return
  <1> QED
    BY <1>2, <1>3 DEF Object!Return

LEMMA FindMaps ==
  ASSUME IInv, NEW t \in Events, NEW e \in Ebbs, ebb[t] = e, Find(t, e)
  PROVE  (\E o \in Events : Object!Return(t, o)) \/ UNCHANGED Object!vars
  <1>1. StateOf(pc[t]) = "asking" /\ StateOf("get") = "asking"
    BY DEF Find, StateOf
  <1>2. CASE entry[e] # NoOne
    <2>1. entry[e] \in Events
      BY <1>2 DEF IInv, TypeOK
    <2>2. entry' = [entry EXCEPT ![e] = entry[e]]
      BY DEF Find, IInv, TypeOK
    <2>3. Return(t, ebb[t], entry[e]) /\ ebb' = ebb
      BY <1>2 DEF Find
    <2> QED
      BY <1>1, <2>1, <2>2, <2>3, ReturnMaps
  <1>3. CASE entry[e] = NoOne
    BY <1>1, <1>3, HiddenStutters DEF Find
  <1> QED
    BY <1>2, <1>3

LEMMA InsertMaps ==
  ASSUME IInv, NEW t \in Events, NEW e \in Ebbs, ebb[t] = e, Insert(t, e)
  PROVE  (\E o \in Events : Object!Return(t, o)) \/ UNCHANGED Object!vars
  <1>1. StateOf(pc[t]) = "asking" /\ StateOf("lose") = "asking"
    BY DEF Insert, StateOf
  <1>2. CASE entry[e] = NoOne
    <2>1. p[t] = t
      BY DEF Insert, IInv, LosersOK
    <2>2. entry' = [entry EXCEPT ![e] = t] /\ Return(t, ebb[t], t) /\ ebb' = ebb
      BY <1>2, <2>1 DEF Insert
    <2> QED
      BY <1>1, <1>2, <2>2, ReturnMaps
  <1>3. CASE entry[e] # NoOne
    BY <1>1, <1>3, HiddenStutters DEF Insert
  <1> QED
    BY <1>2, <1>3

(* The loser deletes its own object and returns the one in use.             *)
LEMMA LoseMaps ==
  ASSUME IInv, NEW t \in Events, NEW e \in Ebbs, ebb[t] = e, Lose(t, e)
  PROVE  \E o \in Events : Object!Return(t, o)
  <1>1. StateOf(pc[t]) = "asking"
    BY DEF Lose, StateOf
  <1>2. entry[e] \in Events
    <2>1. entry[e] # NoOne
      BY DEF Lose, IInv, LosersOK
    <2> QED
      BY <2>1 DEF IInv, TypeOK
  <1>3. entry' = [entry EXCEPT ![e] = entry[e]]
    BY DEF Lose, IInv, TypeOK
  <1>4. Return(t, ebb[t], entry[e]) /\ ebb' = ebb
    BY DEF Lose
  <1> QED
    BY <1>1, <1>2, <1>3, <1>4, ReturnMaps

LEMMA OwnMaps ==
  ASSUME IInv, NEW t \in Events, NEW e \in Ebbs, Own(t, e)
  PROVE  Object!Next \/ UNCHANGED Object!vars
  <1>1. ebb[t] = e
    BY DEF Own
  <1>2. CASE Find(t, e)
    BY <1>1, <1>2, FindMaps DEF Object!Next
  <1>3. CASE Get(t, e)
    <2>1. StateOf(pc[t]) = "asking" /\ StateOf("save") = "asking"
      BY <1>3 DEF Get, StateOf
    <2> QED
      BY <1>3, <2>1, HiddenStutters DEF Get
  <1>4. CASE SaveContext(t, e)
    <2>1. StateOf(pc[t]) = "asking" /\ StateOf("saved") = "asking"
      BY <1>4 DEF SaveContext, StateOf
    <2> QED
      BY <1>4, <2>1, HiddenStutters DEF SaveContext
  <1>5. CASE Resume(t, e)
    <2>1. StateOf(pc[t]) = "asking" /\ StateOf("insert") = "asking"
      BY <1>5 DEF Resume, StateOf
    <2> QED
      BY <1>5, <2>1, HiddenStutters DEF Resume
  <1>6. CASE Insert(t, e)
    BY <1>1, <1>6, InsertMaps DEF Object!Next
  <1>7. CASE Lose(t, e)
    BY <1>1, <1>7, LoseMaps DEF Object!Next
  <1> QED
    BY <1>2, <1>3, <1>4, <1>5, <1>6, <1>7 DEF Own

LEMMA AnsweredMaps ==
  ASSUME IInv, NEW t \in Events, NEW e \in Ebbs, Answered(t, e)
  PROVE  Object!Next \/ UNCHANGED Object!vars
  <1>1. CASE Answer(t, e)
    <2>1. StateOf(pc[t]) = "asking" /\ StateOf("ready") = "asking" /\ StateOf("lost") = "asking"
      BY <1>1 DEF Answer, StateOf
    <2>2. Goto(t, "ready") \/ Goto(t, "lost")
      BY <1>1 DEF Answer
    <2> QED
      BY <1>1, <2>1, <2>2, HiddenStutters DEF Answer
  <1>2. CASE AnswerFails(t, e)
    <2>1. StateOf(pc[t]) = "asking" /\ StateOf("failed") = "failed"
      BY <1>2 DEF AnswerFails, StateOf
    <2>2. [u \in Events |-> StateOf(pc[u])]'
            = [[u \in Events |-> StateOf(pc[u])] EXCEPT ![t] = "failed"]
      BY <1>2, <2>1, GotoState DEF AnswerFails, IInv
    <2>3. Object!Fail(t)
      BY <1>2, <2>1, <2>2 DEF AnswerFails, Object!Fail
    <2> QED
      BY <2>3 DEF Object!Next
  <1> QED
    BY <1>1, <1>2 DEF Answered

LEMMA DerefMaps ==
  ASSUME IInv, NEW t \in Events, NEW e \in Ebbs, Deref(t, e)
  PROVE  Object!Ask(t, e)
  <1>1. StateOf(pc[t]) = "idle" /\ StateOf("find") = "asking"
    BY DEF Deref, StateOf
  <1>2. [u \in Events |-> StateOf(pc[u])]'
          = [[u \in Events |-> StateOf(pc[u])] EXCEPT ![t] = "asking"]
    BY <1>1, GotoState DEF Deref, IInv
  <1> QED
    BY <1>1, <1>2 DEF Deref, Object!Ask

(* Every step of a node is a step of OneObject or invisible to it.           *)
LEMMA NextMaps == IInv /\ [Next]_vars => [Object!Next]_(Object!vars)
  <1> SUFFICES ASSUME IInv, [Next]_vars PROVE Object!Next \/ UNCHANGED Object!vars
    OBVIOUS
  <1>1. CASE UNCHANGED vars
    BY <1>1 DEF vars, Object!vars
  <1>2. ASSUME NEW t \in Events, CmdServerFault(t) \/ PrinterFault(t)
        PROVE  Object!Next \/ UNCHANGED Object!vars
    BY <1>2, OwnMaps, AnsweredMaps DEF CmdServerFault, PrinterFault
  <1>3. ASSUME NEW t \in Events, NEW e \in Ebbs, Deref(t, e) PROVE Object!Next
    BY <1>3, DerefMaps DEF Object!Next
  <1> QED
    BY <1>1, <1>2, <1>3 DEF Next

LEMMA InitMaps == Init => Object!Init
  <1> SUFFICES ASSUME Init PROVE Object!Init
    OBVIOUS
  <1>1. TypeOK
    BY InitIInv DEF IInv
  <1>2. [t \in Events |-> StateOf(pc[t])] = [t \in Events |-> "idle"]
    BY DEF Init, StateOf
  <1> QED
    BY <1>1, <1>2 DEF Init, TypeOK, Object!Init

(* A back-end node keeps OneObject's promise without a lock: a class has no   *)
(* object, then one for ever, and every dereference that ends returns and    *)
(* caches that one or fails.                                                *)
THEOREM RefinesOneObject == Spec => ImplementsOneObject
  BY InitMaps, NextMaps, Invariance, PTL DEF Spec, Object!Spec, ImplementsOneObject
----------------------------------------------------------------------------
(* The node with its front end (Launcher): no node boots before the address  *)
(* is published, and all of the above still holds.                          *)

(* Until the loop has run there is no node, and it allocates at most what    *)
(* was asked for, once the address has been published.                      *)
NodesOK ==
  /\ front \in {"AppMain", "setting", "allocate"} => nodes = 0
  /\ nodes <= IF NumNodes > 0 THEN NumNodes ELSE 0
  /\ front = "allocate" \/ nodes > 0 => published

FrontTypeOK ==
  /\ NumNodes \in Requests
  /\ front \in {"AppMain", "setting", "allocate", "serving", "threw", "exited"}
  /\ published \in BOOLEAN
  /\ nodes \in Nat
  /\ ALLOCATED_NODES \in 0 .. nodes

(* The time is printed by the node that completes the number.               *)
ReportsOK == reports = IF ALLOCATED_NODES = NumNodes /\ NumNodes > 0 THEN 1 ELSE 0

FrontOK == FrontTypeOK /\ NodesOK /\ ReportsOK

LaunchIInv == FrontOK /\ PrinterFound

LEMMA LaunchInitIInv == LaunchInit => LaunchIInv
  <1> SUFFICES ASSUME LaunchInit PROVE LaunchIInv
    OBVIOUS
  <1>1. NumNodes \in Int
    BY RequestsAssumption DEF LaunchInit
  <1>2. FrontOK
    <2>1. FrontTypeOK
      <3>1. /\ NumNodes \in Requests /\ front = "AppMain" /\ published = FALSE
            /\ nodes = 0 /\ ALLOCATED_NODES = 0
        BY DEF LaunchInit
      <3>2. 0 \in Nat /\ ALLOCATED_NODES \in 0 .. nodes
        BY <3>1
      <3> QED
        BY <3>1, <3>2 DEF FrontTypeOK
    <2>2. NodesOK
      BY <1>1 DEF LaunchInit, NodesOK
    <2>3. ReportsOK
      BY <1>1 DEF LaunchInit, ReportsOK
    <2> QED
      BY <2>1, <2>2, <2>3 DEF FrontOK
  <1>3. PrinterFound
    BY DEF LaunchInit, Init, PrinterFound
  <1> QED
    BY <1>2, <1>3 DEF LaunchIInv

LEMMA AllocateNodesStep ==
  ASSUME FrontOK, AllocateNodes
  PROVE  FrontOK'
  <1>1. /\ NumNodes \in Int /\ NumNodes' = NumNodes /\ published' = published
        /\ published /\ nodes = 0 /\ ALLOCATED_NODES = 0 /\ reports = 0
        /\ ALLOCATED_NODES' = 0 /\ reports' = 0
        /\ front' \in {"serving", "exited", "threw"}
    BY RequestsAssumption DEF AllocateNodes, FrontOK, FrontTypeOK, NodesOK, ReportsOK
  <1>2. nodes' \in Nat /\ nodes' <= IF NumNodes > 0 THEN NumNodes ELSE 0
    BY <1>1 DEF AllocateNodes
  <1>3. FrontTypeOK'
    BY <1>1, <1>2 DEF FrontOK, FrontTypeOK
  <1>4. NodesOK'
    BY <1>1, <1>2 DEF NodesOK
  <1>5. ReportsOK'
    BY <1>1 DEF ReportsOK
  <1> QED
    BY <1>3, <1>4, <1>5 DEF FrontOK

LEMMA NodeUpStep ==
  ASSUME FrontOK, NodeUp
  PROVE  FrontOK'
  <1>1. /\ NumNodes \in Int /\ NumNodes \in Requests /\ nodes \in Nat
        /\ ALLOCATED_NODES \in Nat /\ ALLOCATED_NODES < nodes
        /\ ALLOCATED_NODES' = ALLOCATED_NODES + 1
        /\ NumNodes' = NumNodes /\ front' = front /\ published' = published /\ nodes' = nodes
        /\ reports' = IF ALLOCATED_NODES' = NumNodes THEN reports + 1 ELSE reports
        /\ nodes <= IF NumNodes > 0 THEN NumNodes ELSE 0
        /\ reports = IF ALLOCATED_NODES = NumNodes /\ NumNodes > 0 THEN 1 ELSE 0
    BY RequestsAssumption DEF NodeUp, FrontOK, FrontTypeOK, NodesOK, ReportsOK
  <1>2. NumNodes > 0 /\ ALLOCATED_NODES < NumNodes /\ reports = 0
    BY <1>1
  <1>3. FrontTypeOK'
    BY <1>1 DEF FrontOK, FrontTypeOK
  <1>4. NodesOK'
    BY <1>1 DEF FrontOK, NodesOK
  <1>5. ReportsOK'
    BY <1>1, <1>2 DEF ReportsOK
  <1> QED
    BY <1>3, <1>4, <1>5 DEF FrontOK

LEMMA FrontEndStep ==
  ASSUME LaunchIInv, FrontEnd
  PROVE  LaunchIInv'
  <1>1. FrontOK'
    <2>1. CASE PrinterInit \/ SetDone \/ SetFails \/ Interrupt
      <3>1. /\ NumNodes' = NumNodes /\ nodes' = nodes /\ ALLOCATED_NODES' = ALLOCATED_NODES
            /\ reports' = reports
        BY <2>1 DEF PrinterInit, SetDone, SetFails, Interrupt
      <3>2. FrontTypeOK'
        BY <2>1, <3>1 DEF LaunchIInv, FrontOK, FrontTypeOK, PrinterInit, SetDone, SetFails,
                          Interrupt
      <3>3. NodesOK'
        BY <2>1, <3>1 DEF LaunchIInv, FrontOK, NodesOK, PrinterInit, SetDone, SetFails,
                          Interrupt
      <3>4. ReportsOK'
        BY <3>1 DEF LaunchIInv, FrontOK, ReportsOK
      <3> QED
        BY <3>2, <3>3, <3>4 DEF FrontOK
    <2>2. CASE AllocateNodes
      BY <2>2, AllocateNodesStep DEF LaunchIInv
    <2>3. CASE NodeUp
      BY <2>3, NodeUpStep DEF LaunchIInv
    <2> QED
      BY <2>1, <2>2, <2>3 DEF FrontEnd
  <1>2. PrinterFound'
    <2>1. pc' = pc /\ (front = "exited" => front' = "exited") /\ (published => published')
      BY DEF FrontEnd, vars, PrinterInit, SetDone, SetFails, AllocateNodes, NodeUp, Interrupt
    <2> QED
      BY <2>1 DEF LaunchIInv, PrinterFound
  <1> QED
    BY <1>1, <1>2 DEF LaunchIInv

(* A node exists, so the address is published: only a front end that is gone *)
(* makes a fault fail.                                                      *)
LEMMA NodeStep ==
  ASSUME LaunchIInv, Node
  PROVE  LaunchIInv'
  <1>1. /\ NumNodes' = NumNodes /\ front' = front /\ published' = published /\ nodes' = nodes
        /\ ALLOCATED_NODES' = ALLOCATED_NODES /\ reports' = reports
        /\ nodes > 0 /\ AsPublished
    BY DEF Node, frontVars
  <1>2. FrontOK'
    BY <1>1 DEF LaunchIInv, FrontOK, FrontTypeOK, NodesOK, ReportsOK
  <1>3. published
    BY <1>1 DEF LaunchIInv, FrontOK, NodesOK
  <1>4. ASSUME NEW t \in Events, pc'[t] = "failed"
        PROVE  published' /\ front' = "exited"
    <2>1. CASE pc[t] = "failed"
      BY <1>1, <2>1 DEF LaunchIInv, PrinterFound
    <2>2. CASE pc[t] # "failed"
      BY <1>1, <1>3, <1>4, <2>2 DEF AsPublished
    <2> QED
      BY <2>1, <2>2
  <1>5. PrinterFound'
    BY <1>4 DEF PrinterFound
  <1> QED
    BY <1>2, <1>5 DEF LaunchIInv

(* The front end and its nodes keep the invariant of both.                  *)
THEOREM LaunchInvariance == LaunchSpec => [](LaunchIInv /\ IInv)
  <1>1. LaunchInit => LaunchIInv /\ IInv
    BY LaunchInitIInv, InitIInv DEF LaunchInit
  <1>2. LaunchIInv /\ IInv /\ [LaunchNext]_allVars => (LaunchIInv /\ IInv)'
    <2> SUFFICES ASSUME LaunchIInv, IInv, [LaunchNext]_allVars
                 PROVE  LaunchIInv' /\ IInv'
      OBVIOUS
    <2>1. CASE FrontEnd
      BY <2>1, FrontEndStep, NextIInv DEF FrontEnd
    <2>2. CASE Node
      BY <2>2, NodeStep, NextIInv DEF Node
    <2>3. CASE UNCHANGED allVars
      <3>1. LaunchIInv'
        BY <2>3 DEF allVars, vars, frontVars, LaunchIInv, FrontOK, FrontTypeOK, NodesOK,
                    ReportsOK, PrinterFound
      <3> QED
        BY <2>3, <3>1, NextIInv DEF allVars
    <2> QED
      BY <2>1, <2>2, <2>3 DEF LaunchNext
  <1> QED
    BY <1>1, <1>2, PTL DEF LaunchSpec

(* LaunchTypeOK: no more nodes come up than were allocated, and the time is   *)
(* reported at most once, when all are up, whatever number was asked for.   *)
THEOREM LaunchTypeCorrect == LaunchSpec => []LaunchTypeOK
  <1>1. LaunchIInv /\ IInv => LaunchTypeOK
    BY DEF LaunchIInv, FrontOK, FrontTypeOK, ReportsOK, LaunchTypeOK, IInv
  <1> QED
    BY <1>1, LaunchInvariance, PTL

(* PrinterFound: a fault of a node only fails if the front end is gone,      *)
(* because no node boots before the Printer's address is published.         *)
THEOREM PrinterFoundAlways == LaunchSpec => []PrinterFound
  <1>1. LaunchIInv => PrinterFound
    BY DEF LaunchIInv
  <1> QED
    BY <1>1, LaunchInvariance, PTL

(* What a front end answers is one of the ways a node can be answered, so    *)
(* that every theorem about a node is one about a launched node:            *)
(* SameObject, NoLeak and the refinement of OneObject among them.           *)
THEOREM LaunchedNode == LaunchSpec => Spec
  <1>1. LaunchInit => Init
    BY DEF LaunchInit
  <1>2. [LaunchNext]_allVars => [Next]_vars
    BY DEF LaunchNext, FrontEnd, Node, allVars
  <1> QED
    BY <1>1, <1>2, PTL DEF LaunchSpec, Spec

(* The Printer of a launched node: one object for all its cores and events,  *)
(* the losers of the race deleted, and OneObject's promise kept.            *)
THEOREM LaunchRefinesOneObject == LaunchSpec => []SameObject /\ []NoLeak /\ ImplementsOneObject
  BY LaunchedNode, SameObjectAlways, NoLeakAlways, RefinesOneObject
=============================================================================
