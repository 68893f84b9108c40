-------------------------------- MODULE Stream --------------------------------
(***************************************************************************)
(* What a UNIX::InputStream promises to its reader: between a start and the  *)
(* end of a reading the reader is given the chunks of the input in order,    *)
(* none twice and none left out; a reading ends when the input does or with  *)
(* the chunk the reader stops at.  Buffers, messages and the place of the    *)
(* reader are left out: a chunk is its number in the input.                 *)
(***************************************************************************)
EXTENDS Naturals, Sequences

VARIABLES
  session, \* the input and its reader, fixed: see SessionType
  got,     \* what the reader was given
  reading, \* a reading has started and not ended
  late     \* the reader was called between two readings

vars == <<session, got, reading, late>>

(* The chunks of the input; those the reader stops at; whether chunks may be *)
(* lost; whether chunks can be on their way to the reader when it stops.     *)
SessionType == [len : Nat, stops : SUBSET Nat, lossy : BOOLEAN, delayed : BOOLEAN]

Last == IF got = << >> THEN 0 ELSE got[Len(got)]

Init ==
  /\ session \in SessionType
  /\ got = << >>
  /\ reading = FALSE
  /\ late = FALSE

Start ==
  /\ ~reading
  /\ reading' = TRUE
  /\ UNCHANGED <<session, got, late>>

Follows(d) ==
  /\ d \in Last + 1 .. session.len
  /\ session.lossy \/ d = Last + 1

(* The reading ends with the chunk the reader stops at, or with the last one *)
(* of the input, if the end is known by then.                               *)
Give(d) ==
  /\ reading
  /\ Follows(d)
  /\ got' = Append(got, d)
  /\ reading' \in {b \in BOOLEAN : IF d \in session.stops THEN ~b ELSE b \/ d = session.len}
  /\ UNCHANGED <<session, late>>

End ==
  /\ reading
  /\ session.lossy \/ Last = session.len
  /\ reading' = FALSE
  /\ UNCHANGED <<session, got, late>>

(* What was on its way.                                                     *)
GiveLate(d) ==
  /\ session.delayed /\ ~reading
  /\ Follows(d)
  /\ got' = Append(got, d)
  /\ late' = TRUE
  /\ UNCHANGED <<session, reading>>

Next ==
  \/ Start \/ End
  \/ \E d \in Last + 1 .. session.len : Give(d) \/ GiveLate(d)

Spec == Init /\ [][Next]_vars
===============================================================================
