------------------------------ MODULE OneObject ------------------------------
(***************************************************************************)
(* What a node promises to an event that dereferences an Ebb, whichever of   *)
(* the two fault protocols of this repository is behind it: a class has no  *)
(* object on the node, then one for ever, and every dereference returns that *)
(* one and caches it for the core, or fails.  How the object is found, who   *)
(* builds it, what is locked meanwhile and who loses a race is left to the   *)
(* protocol.                                                               *)
(***************************************************************************)
CONSTANTS
  Ebbs,      \* the classes
  Events,    \* the events that dereference them
  Cores,
  CoreOf,    \* CoreOf[t]: the core the event t runs on
  Objects,   \* what an object can be
  NoObject

VARIABLES
  object,    \* object[e]: the node's object of class e, or NoObject
  cached,    \* cached[c][e]: what core c has cached for it
  state,     \* state[t]: "idle", "asking" or "failed"
  wants      \* wants[t]: the class that t dereferences, or dereferenced last

vars == <<object, cached, state, wants>>

Init ==
  /\ object = [e \in Ebbs |-> NoObject]
  /\ cached = [c \in Cores |-> [e \in Ebbs |-> NoObject]]
  /\ state = [t \in Events |-> "idle"]
  /\ wants \in [Events -> Ebbs]

(* Only a core that has cached nothing asks.                                *)
Ask(t, e) ==
  /\ state[t] = "idle"
  /\ cached[CoreOf[t]][e] = NoObject
  /\ state' = [state EXCEPT ![t] = "asking"]
  /\ wants' = [wants EXCEPT ![t] = e]
  /\ UNCHANGED <<object, cached>>

(* The one object of a class appears while somebody asks for it, before its  *)
(* event returns it ...                                                     *)
Provide(t, o) ==
  /\ state[t] = "asking"
  /\ object[wants[t]] = NoObject
  /\ object' = [object EXCEPT ![wants[t]] = o]
  /\ UNCHANGED <<cached, state, wants>>

(* ... or as it does.  An event returns the object that is there.           *)
Return(t, o) ==
  /\ state[t] = "asking"
  /\ object[wants[t]] \in {NoObject, o}
  /\ object' = [object EXCEPT ![wants[t]] = o]
  /\ cached' = [cached EXCEPT ![CoreOf[t]][wants[t]] = o]
  /\ state' = [state EXCEPT ![t] = "idle"]
  /\ UNCHANGED wants

Fail(t) ==
  /\ state[t] = "asking"
  /\ state' = [state EXCEPT ![t] = "failed"]
  /\ UNCHANGED <<object, cached, wants>>

Next ==
  \E t \in Events :
    \/ \E e \in Ebbs : Ask(t, e)
    \/ \E o \in Objects : Provide(t, o) \/ Return(t, o)
    \/ Fail(t)

Spec == Init /\ [][Next]_vars
============================================================================
