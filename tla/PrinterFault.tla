----------------------------- MODULE PrinterFault -----------------------------
(***************************************************************************)
(* How a back-end node of cmdserver, helloworld or newbuildhelloworld       *)
(* obtains the one object behind the Ebbs printer and cmdServer.            *)
(*                                                                         *)
(* HandleFault looks for the object in local_id_map; if there is none it    *)
(* asks global_id_map for the Ebb's data and saves its context; the answer's *)
(* lambda, in an event of its own, constructs an object and activates the    *)
(* context; the resumed event inserts the object, or deletes it and takes   *)
(* the one that was inserted meanwhile.  There is no lock between the Find  *)
(* and the Insert.  Printer and CmdServer carry copies of this code that    *)
(* differ in one thing: CmdServer's lambda never looks at the answer.       *)
(*                                                                         *)
(* An event constructs at most one object of a class, so that an object is   *)
(* named by the event that constructed it.                                  *)
(***************************************************************************)
CONSTANTS
  Ebbs,        \* the classes in use: a subset of Classes
  Events,      \* the events that dereference them
  Cores,
  CoreOf,      \* CoreOf[t]: the core the event t runs on
  AnswerCore,  \* the core that runs the answers of global_id_map
  NoOne        \* no event, no object

Classes == {"CmdServer", "Printer"}

ASSUME EbbsAssumption == Ebbs \subseteq Classes /\ Ebbs # {}
ASSUME CoresAssumption == CoreOf \in [Events -> Cores] /\ AnswerCore \in Cores
ASSUME NoOneAssumption == NoOne \notin Events

VARIABLES
  entry,    \* entry[e]: the object in local_id_map, or NoOne
  live,     \* the objects constructed and not deleted: <<class, event>>
  pc,       \* pc[t]: where the event t is
  ebb,      \* ebb[t]: the class it dereferences
  p,        \* p[t]: its local p, NoOne while uninitialised
  running,  \* running[c]: the event that owns the core
  cache     \* cache[c][e]: the object cached for the core

vars == <<entry, live, pc, ebb, p, running, cache>>

PCs == {"idle", "find", "get", "save", "saved", "ready", "insert", "lose", "lost", "failed"}

Init ==
  /\ entry = [e \in Ebbs |-> NoOne]
  /\ live = {}
  /\ pc = [t \in Events |-> "idle"]
  /\ ebb = [t \in Events |-> CHOOSE e \in Ebbs : TRUE]
  /\ p = [t \in Events |-> NoOne]
  /\ running = [c \in Cores |-> NoOne]
  /\ cache = [c \in Cores |-> [e \in Ebbs |-> NoOne]]

Goto(t, label) == pc' = [pc EXCEPT ![t] = label]

----------------------------------------------------------------------------
Deref(t, e) ==
  /\ pc[t] = "idle"
  /\ running[CoreOf[t]] = NoOne
  /\ cache[CoreOf[t]][e] = NoOne
  /\ running' = [running EXCEPT ![CoreOf[t]] = t]
  /\ ebb' = [ebb EXCEPT ![t] = e]
  /\ Goto(t, "find")
  /\ UNCHANGED <<entry, live, p, cache>>

(* CacheRef and the return of the object o; the event goes on and ends.      *)
Return(t, e, o) ==
  /\ cache' = [cache EXCEPT ![CoreOf[t]][e] = o]
  /\ running' = [running EXCEPT ![CoreOf[t]] = NoOne]
  /\ Goto(t, "idle")

Find(t, e) ==
  /\ pc[t] = "find"
  /\ IF entry[e] # NoOne
       THEN Return(t, e, entry[e])
       ELSE Goto(t, "get") /\ UNCHANGED <<running, cache>>
  /\ UNCHANGED <<entry, live, ebb, p>>

(* global_id_map->Get and Then: from here on the lambda may run.            *)
Get(t, e) ==
  /\ pc[t] = "get"
  /\ p' = [p EXCEPT ![t] = NoOne]
  /\ Goto(t, "save")
  /\ UNCHANGED <<entry, live, ebb, running, cache>>

SaveContext(t, e) ==
  /\ pc[t] = "save"
  /\ Goto(t, "saved")
  /\ running' = [running EXCEPT ![CoreOf[t]] = NoOne]
  /\ UNCHANGED <<entry, live, ebb, p, cache>>

(* Printer's lambda calls inner.Get(), which throws what went wrong.        *)
AnswerThrows(e) == e = "Printer"

(* A seeded fault: the context is not activated.                            *)
Answer_NoActivate(t, e) ==
  /\ pc[t] = "saved"
  /\ p[t] = NoOne
  /\ running[AnswerCore] = NoOne
  /\ p' = [p EXCEPT ![t] = t]
  /\ live' = live \cup {<<e, t>>}
  /\ UNCHANGED <<entry, pc, ebb, running, cache>>

(* The lambda runs, as an event of AnswerCore.  On another core than t's it  *)
(* may activate the context before t has saved it: undefined, here the      *)
(* activation is lost.                                                      *)
Answer(t, e) ==
  /\ pc[t] \in {"save", "saved"}
  /\ p[t] = NoOne
  /\ running[AnswerCore] = NoOne
  /\ p' = [p EXCEPT ![t] = t]
  /\ live' = live \cup {<<e, t>>}
  /\ IF pc[t] = "saved"
       THEN Goto(t, "ready") /\ UNCHANGED running
       ELSE /\ Goto(t, "lost")
            /\ running' = [running EXCEPT ![CoreOf[t]] = NoOne]
  /\ UNCHANGED <<entry, ebb, cache>>

(* An answer that is an error: nobody activates the context.                *)
AnswerFails(t, e) ==
  /\ AnswerThrows(e)
  /\ pc[t] = "saved"
  /\ running[AnswerCore] = NoOne
  /\ Goto(t, "failed")
  /\ UNCHANGED <<entry, live, ebb, p, running, cache>>

(* A seeded fault: the context is resumed on the core of the answer.         *)
Resume_OnAnswerCore(t, e) ==
  /\ pc[t] = "ready"
  /\ running[AnswerCore] = NoOne
  /\ running' = [running EXCEPT ![AnswerCore] = t]
  /\ Goto(t, "insert")
  /\ UNCHANGED <<entry, live, ebb, p, cache>>

(* The saved context continues on the core it was saved on.                 *)
Resume(t, e) ==
  /\ pc[t] = "ready"
  /\ running[CoreOf[t]] = NoOne
  /\ running' = [running EXCEPT ![CoreOf[t]] = t]
  /\ Goto(t, "insert")
  /\ UNCHANGED <<entry, live, ebb, p, cache>>

(* A seeded fault: the object replaces the one that is there.               *)
Insert_Replaces(t, e) ==
  /\ pc[t] = "insert"
  /\ entry' = [entry EXCEPT ![e] = p[t]]
  /\ Return(t, e, p[t])
  /\ UNCHANGED <<live, ebb, p>>

(* The Insert wins and the own object is returned, or it finds the key taken. *)
Insert(t, e) ==
  /\ pc[t] = "insert"
  /\ IF entry[e] = NoOne
       THEN /\ entry' = [entry EXCEPT ![e] = p[t]]
            /\ Return(t, e, p[t])
       ELSE /\ Goto(t, "lose")
            /\ UNCHANGED <<entry, running, cache>>
  /\ UNCHANGED <<live, ebb, p>>

(* A seeded fault: the own object is not deleted.                           *)
Lose_KeepsOwn(t, e) ==
  /\ pc[t] = "lose"
  /\ Return(t, e, entry[e])
  /\ UNCHANGED <<entry, live, ebb, p>>

(* delete p, and the object that was inserted first is read and returned.   *)
Lose(t, e) ==
  /\ pc[t] = "lose"
  /\ live' = live \ {<<e, p[t]>>}
  /\ Return(t, e, entry[e])
  /\ UNCHANGED <<entry, ebb, p>>

----------------------------------------------------------------------------
Own(t, e) ==
  ebb[t] = e /\ (Find(t, e) \/ Get(t, e) \/ SaveContext(t, e) \/ Resume(t, e)
                   \/ Insert(t, e) \/ Lose(t, e))

Answered(t, e) == ebb[t] = e /\ (Answer(t, e) \/ AnswerFails(t, e))

CmdServerFault(t) ==
  "CmdServer" \in Ebbs /\ (Own(t, "CmdServer") \/ Answered(t, "CmdServer"))
PrinterFault(t) ==
  "Printer" \in Ebbs /\ (Own(t, "Printer") \/ Answered(t, "Printer"))

Next ==
  \E t \in Events :
    CmdServerFault(t) \/ PrinterFault(t) \/ \E e \in Ebbs : Deref(t, e)

Spec == Init /\ [][Next]_vars

(* Cores run their events, and global_id_map answers.                       *)
FairSpec ==
  /\ Spec
  /\ \A t \in Events : \A e \in Ebbs : WF_vars(Own(t, e)) /\ WF_vars(Answered(t, e))

----------------------------------------------------------------------------
(* Every variable stays in its type, and a core only runs its own events.    *)
TypeOK ==
  /\ entry \in [Ebbs -> Events \cup {NoOne}]
  /\ live \subseteq Ebbs \X Events
  /\ pc \in [Events -> PCs]
  /\ ebb \in [Events -> Ebbs]
  /\ p \in [Events -> Events \cup {NoOne}]
  /\ running \in [Cores -> Events \cup {NoOne}]
  /\ \A c \in Cores : running[c] # NoOne => CoreOf[running[c]] = c
  /\ cache \in [Cores -> [Ebbs -> Events \cup {NoOne}]]

(* However many events fault at once, on however many cores, a class has    *)
(* one object for ever: the one in local_id_map, which exists, and no core  *)
(* has cached another one.                                                  *)
SameObject ==
  \A e \in Ebbs :
    /\ entry[e] # NoOne => <<e, entry[e]>> \in live
    /\ \A c \in Cores : cache[c][e] # NoOne => cache[c][e] = entry[e]

(* Every object constructed is the one in use, or its event has yet to       *)
(* insert or delete it: the ones that lose the race are not leaked.  (Only   *)
(* an event that is never resumed keeps its object for ever.)               *)
NoLeak ==
  \A e \in Ebbs, t \in Events :
    <<e, t>> \in live =>
      \/ entry[e] = t
      \/ ebb[t] = e /\ p[t] = t /\ pc[t] \in {"ready", "insert", "lose", "lost"}

(* p is a local variable without an initialiser, written by another event:  *)
(* it is only inserted or deleted once it points to an object.               *)
ConstructedFirst ==
  \A t \in Events :
    pc[t] \in {"insert", "lose"} => p[t] # NoOne /\ <<ebb[t], p[t]>> \in live

(* The same promise as EbbRoot's (OneObject), kept without a lock: the object *)
(* is the one in local_id_map.  Deleting a loser changes nobody's object.   *)
StateOf(label) ==
  CASE label = "idle" -> "idle" [] label = "failed" -> "failed" [] OTHER -> "asking"

Object == INSTANCE OneObject WITH
  Objects <- Events,
  NoObject <- NoOne,
  object <- entry,
  cached <- cache,
  wants <- ebb,
  state <- [t \in Events |-> StateOf(pc[t])]

ImplementsOneObject == Object!Spec

(* Every fault of the core that runs the answers ends, unless the answer is  *)
(* an error that Printer's lambda throws; on other cores an answer may come  *)
(* before the context is saved.                                             *)
FaultEnds ==
  \A t \in Events :
    (pc[t] = "find" /\ CoreOf[t] = AnswerCore) ~> pc[t] \in {"idle", "failed"}
===============================================================================
