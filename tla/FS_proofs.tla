------------------------------ MODULE FS_proofs ------------------------------
(***************************************************************************)
(* FS's safety, for any calls and paths.                                    *)
(*                                                                         *)
(* RightStream and OnePromise are not inductive: the messages name no call,  *)
(* and only as there is one request at a time does the answer that comes     *)
(* belong to the promise p_ points to.  The request moves along a pipeline   *)
(* (the message, the publication, the unwritten and the written answer); the *)
(* inductive invariant says that it is in one place (OneAtATime) and is      *)
(* always that of p_ (ForThePromise).                                       *)
(***************************************************************************)
EXTENDS FS, SequenceTheorems, TLAPS

(* The open requests among the messages on their way to the FE.             *)
Opens == {i \in 1 .. Len(toFE) : toFE[i] # Exit}

(* The one request is in one place of the pipeline.                         *)
OneAtATime ==
  /\ \A i, j \in Opens : i = j
  /\ \A id, jd \in setting : id = jd
  /\ Len(outFE) <= 1 /\ Len(toBE) <= 1
  /\ Opens # {} => setting = {} /\ outFE = << >> /\ toBE = << >>
  /\ setting # {} => outFE = << >> /\ toBE = << >>
  /\ outFE # << >> => toBE = << >>

(* Wherever it is, it is the request of the call that p_ points to, and an   *)
(* answer that is not written yet finds its own id in stream_id_msg_.        *)
ForThePromise ==
  /\ \A i \in Opens : toFE[i].call = p_
  /\ \A id \in setting : streams[id].call = p_
  /\ outFE # << >> => idMsg \in Ids /\ streams[idMsg].call = p_
  /\ toBE # << >> => streams[Head(toBE)].call = p_

(* A call that is done got the id of a stream, the one opened for it.        *)
DoneOK == \A c \in Calls : pc[c] = "done" => got[c] \in Ids /\ streams[got[c]].call = c

IInv == TypeOK /\ OnePromise /\ OneAtATime /\ ForThePromise /\ DoneOK

Message == [call : Calls, path : Paths] \cup {Exit}

(* The initial states satisfy the inductive invariant.                      *)
LEMMA InitIInv == Init => IInv
  <1> SUFFICES ASSUME Init PROVE IInv
    OBVIOUS
  <1>1. TypeOK
    BY EmptySeq DEF Init, TypeOK, Ids
  <1>2. OneAtATime /\ ForThePromise
    BY DEF Init, OneAtATime, ForThePromise, Opens
  <1>3. OnePromise /\ DoneOK
    BY CallsAssumption DEF Init, OnePromise, DoneOK
  <1> QED
    BY <1>1, <1>2, <1>3 DEF IInv

(* A message is an Exit or names a call; what can be opened gives a stream.  *)
LEMMA Messages ==
  ASSUME NEW m \in Message
  PROVE  m # Exit => /\ m \in [call : Calls, path : Paths]
                     /\ m.call \in Calls
                     /\ m.path \in Openable => m \in [call : Calls, path : Openable]
  BY DEF Message

(* An open request is an Exit or not by its call alone.                     *)
LEMMA NotExit ==
  ASSUME NEW c \in Calls, NEW path \in Paths
  PROVE  [call |-> c, path |-> path] \in Message /\ [call |-> c, path |-> path] # Exit
  <1>1. [call |-> c, path |-> path].call = c /\ Exit.call = NoCall
    BY DEF Exit
  <1> QED
    BY <1>1, CallsAssumption DEF Message

(* What appending to toFE, and taking its head, does to the open requests.  *)
LEMMA AppendOpens ==
  ASSUME TypeOK, NEW m \in Message, toFE' = Append(toFE, m)
  PROVE  /\ toFE' \in Seq(Message)
         /\ Opens' = IF m = Exit THEN Opens ELSE Opens \cup {Len(toFE) + 1}
         /\ \A i \in Opens : toFE'[i] = toFE[i]
         /\ toFE'[Len(toFE) + 1] = m
  <1>1. toFE \in Seq(Message)
    BY DEF TypeOK, Message
  <1>2. /\ toFE' \in Seq(Message) /\ Len(toFE') = Len(toFE) + 1 /\ Len(toFE) \in Nat
        /\ \A i \in 1 .. Len(toFE) : toFE'[i] = toFE[i]
        /\ toFE'[Len(toFE) + 1] = m
    BY <1>1, AppendProperties, LenProperties
  <1> QED
    BY <1>2 DEF Opens

LEMMA TakeOpens ==
  ASSUME TypeOK, toFE # << >>, toFE' = Tail(toFE)
  PROVE  /\ toFE' \in Seq(Message)
         /\ Head(toFE) \in Message
         /\ Head(toFE) # Exit <=> 1 \in Opens
         /\ Head(toFE) = toFE[1]
         /\ \A i \in Opens' : i + 1 \in Opens /\ i + 1 # 1 /\ toFE'[i] = toFE[i + 1]
  <1>1. toFE \in Seq(Message) /\ Head(toFE) = toFE[1]
    BY DEF TypeOK, Message
  <1>2. /\ toFE' \in Seq(Message) /\ Len(toFE') = Len(toFE) - 1 /\ Len(toFE) \in Nat \ {0}
        /\ Head(toFE) \in Message
        /\ \A i \in 1 .. Len(toFE') : toFE'[i] = toFE[i + 1]
    BY <1>1, HeadTailProperties, EmptySeq
  <1> QED
    BY <1>1, <1>2 DEF Opens

(* Every stream was opened for a call.                                      *)
LEMMA StreamCalls ==
  ASSUME TypeOK, NEW id \in Ids
  PROVE  streams[id] \in [call : Calls, path : Openable] /\ streams[id].call \in Calls
  <1>1. streams \in Seq([call : Calls, path : Openable])
    BY DEF TypeOK
  <1>2. streams[id] \in [call : Calls, path : Openable]
    BY <1>1, ElementOfSeq DEF Ids
  <1> QED
    BY <1>2

(* OpenStream preserves the inductive invariant.                            *)
LEMMA OpenStreamStep ==
  ASSUME IInv, NEW c \in Calls, OpenStream(c)
  PROVE  IInv'
  <1> USE CallsAssumption DEF feVars
  <1>1. CASE p_ # NoCall
    <2>1. /\ pc' = [pc EXCEPT ![c] = "threw"] /\ pc[c] = "new"
          /\ UNCHANGED <<p_, toFE, got, crashed, toBE, feVars>>
      BY <1>1 DEF OpenStream
    <2> QED
      BY <2>1 DEF IInv, TypeOK, OnePromise, OneAtATime, ForThePromise, DoneOK, Opens, Ids
  <1>2. CASE p_ = NoCall
    <2>1. PICK path \in Paths :
            /\ toFE' = Append(toFE, [call |-> c, path |-> path])
            /\ pc' = [pc EXCEPT ![c] = "waiting"] /\ pc[c] = "new" /\ p_' = c
            /\ UNCHANGED <<got, crashed, toBE, feVars>>
      BY <1>2 DEF OpenStream
    <2> DEFINE m == [call |-> c, path |-> path]
    <2>2. m \in Message /\ m # Exit /\ m.call = c
      BY NotExit
    <2> HIDE DEF m
    <2>3. /\ toFE' \in Seq(Message) /\ Opens' = Opens \cup {Len(toFE) + 1}
          /\ toFE'[Len(toFE) + 1] = m
      BY <2>1, <2>2, AppendOpens DEF IInv, m
    <2>4. Opens = {} /\ setting = {} /\ outFE = << >> /\ toBE = << >>
      <3>1. \A i \in Opens : toFE[i].call \in Calls
        BY Messages, ElementOfSeq DEF IInv, TypeOK, Opens, Message
      <3>2. \A id \in Ids : streams[id].call \in Calls
        BY StreamCalls DEF IInv
      <3>3. toBE # << >> => Head(toBE) \in Ids
        BY HeadTailProperties DEF IInv, TypeOK
      <3> QED
        BY <1>2, <3>1, <3>2, <3>3 DEF IInv, TypeOK, ForThePromise
    <2>5. TypeOK'
      BY <2>1, <2>3 DEF IInv, TypeOK, Message, Ids
    <2>6. OnePromise'
      BY <1>2, <2>1 DEF IInv, TypeOK, OnePromise
    <2>7. OneAtATime' /\ ForThePromise'
      BY <2>1, <2>2, <2>3, <2>4 DEF IInv, OneAtATime, ForThePromise
    <2>8. DoneOK'
      BY <2>1 DEF IInv, TypeOK, DoneOK, Ids
    <2> QED
      BY <2>5, <2>6, <2>7, <2>8 DEF IInv
  <1> QED
    BY <1>1, <1>2

(* ProcessExit and FEExit add and take a message that is not an open.       *)
LEMMA ProcessExitStep ==
  ASSUME IInv, ProcessExit
  PROVE  IInv'
  <1>1. /\ toFE' = Append(toFE, Exit) /\ UNCHANGED <<beVars, toBE, feVars>>
        /\ Exit \in Message
    BY DEF ProcessExit, Message
  <1>2. toFE' \in Seq(Message) /\ Opens' = Opens /\ \A i \in Opens : toFE'[i] = toFE[i]
    BY <1>1, AppendOpens DEF IInv
  <1>3. TypeOK'
    BY <1>1, <1>2 DEF IInv, TypeOK, Message, Ids, beVars, feVars
  <1> QED
    BY <1>1, <1>2, <1>3
    DEF IInv, OnePromise, OneAtATime, ForThePromise, DoneOK, Ids, beVars, feVars

LEMMA FEExitStep ==
  ASSUME IInv, FEExit
  PROVE  IInv'
  <1>1. /\ toFE # << >> /\ toFE' = Tail(toFE) /\ Head(toFE) = Exit /\ fe' = "down"
        /\ UNCHANGED <<beVars, streams, setting, idMsg, outFE, toBE, failed>>
    BY DEF FEExit
  <1>2. /\ toFE' \in Seq(Message) /\ 1 \notin Opens
        /\ \A i \in Opens' : i + 1 \in Opens /\ toFE'[i] = toFE[i + 1]
    BY <1>1, TakeOpens DEF IInv
  <1>3. TypeOK'
    BY <1>1, <1>2 DEF IInv, TypeOK, Message, Ids, beVars
  <1>4. OneAtATime'
    <2>1. ASSUME NEW i \in Opens', NEW j \in Opens'
          PROVE  i = j
      <3>1. i \in Int /\ j \in Int
        BY DEF Opens
      <3>2. i + 1 = j + 1
        BY <1>2 DEF IInv, OneAtATime
      <3> QED
        BY <3>1, <3>2
    <2> QED
      BY <1>1, <1>2, <2>1 DEF IInv, OneAtATime
  <1>5. OnePromise' /\ DoneOK'
    BY <1>1 DEF IInv, OnePromise, DoneOK, Ids, beVars
  <1>6. ForThePromise'
    <2>1. \A i \in Opens' : toFE'[i].call = p_
      BY <1>2 DEF IInv, ForThePromise
    <2> QED
      BY <1>1, <2>1 DEF IInv, ForThePromise, Ids, beVars
  <1> QED
    BY <1>3, <1>4, <1>5, <1>6 DEF IInv

(* The first of at most one answers, and what is left of them.              *)
LEMMA OnlyAnswer ==
  ASSUME NEW S, NEW s \in Seq(S), s # << >>, Len(s) <= 1
  PROVE  /\ Head(s) = s[1] /\ Head(s) \in S
         /\ Tail(s) = << >>
  BY HeadTailProperties, EmptySeq, LenProperties

(* StreamId preserves the inductive invariant: it never meets a NULL.       *)
LEMMA StreamIdStep ==
  ASSUME IInv, StreamId
  PROVE  IInv'
  <1>1. /\ toBE # << >> /\ toBE' = Tail(toBE) /\ UNCHANGED <<toFE, feVars>>
    BY DEF StreamId
  <1>2. /\ Head(toBE) \in Ids /\ streams[Head(toBE)].call = p_ /\ toBE' = << >>
    BY <1>1, OnlyAnswer DEF IInv, TypeOK, OneAtATime, ForThePromise
  <1>3. p_ \in Calls
    BY <1>2, StreamCalls DEF IInv
  <1>4. /\ pc' = [pc EXCEPT ![p_] = "done"]
        /\ got' = [got EXCEPT ![p_] = Head(toBE)]
        /\ p_' = NoCall /\ crashed' = crashed
    BY <1>3, CallsAssumption DEF StreamId
  <1>5. Opens = {} /\ setting = {} /\ outFE = << >>
    BY <1>1 DEF IInv, OneAtATime
  <1>6. Opens' = Opens
    BY <1>1 DEF Opens
  <1>7. TypeOK'
    BY <1>1, <1>2, <1>3, <1>4, EmptySeq DEF IInv, TypeOK, Ids, feVars
  <1>8. OnePromise'
    BY <1>3, <1>4, CallsAssumption DEF IInv, TypeOK, OnePromise
  <1>9. OneAtATime' /\ ForThePromise'
    BY <1>1, <1>2, <1>5, <1>6 DEF IInv, OneAtATime, ForThePromise, feVars
  <1>10. DoneOK'
    BY <1>1, <1>2, <1>3, <1>4 DEF IInv, TypeOK, DoneOK, Ids, feVars
  <1> QED
    BY <1>7, <1>8, <1>9, <1>10 DEF IInv

(* FEOpen preserves the inductive invariant.                                *)
LEMMA FEOpenStep ==
  ASSUME IInv, FEOpen
  PROVE  IInv'
  <1> DEFINE m == Head(toFE)
  <1>1. /\ toFE # << >> /\ m # Exit /\ toFE' = Tail(toFE)
        /\ UNCHANGED <<beVars, idMsg, outFE, toBE>>
    BY DEF FEOpen
  <1>2. /\ toFE' \in Seq(Message) /\ m \in Message /\ 1 \in Opens /\ m = toFE[1]
        /\ \A i \in Opens' : i + 1 \in Opens /\ i + 1 # 1
    BY <1>1, TakeOpens DEF IInv
  <1>3. m.call = p_ /\ m.call \in Calls /\ p_ \in Calls
    BY <1>1, <1>2, Messages DEF IInv, ForThePromise
  <1>4. setting = {} /\ outFE = << >> /\ toBE = << >>
    BY <1>2 DEF IInv, OneAtATime
  <1>5. Opens' = {}
    BY <1>2 DEF IInv, OneAtATime
  <1>6. CASE CanOpen(m.path)
    <2> DEFINE new == Len(streams) + 1
    <2>1. /\ streams' = Append(streams, m) /\ setting' = {new}
          /\ UNCHANGED <<fe, failed>>
      BY <1>4, <1>6 DEF FEOpen
    <2>2. m \in [call : Calls, path : Openable]
      BY <1>1, <1>2, <1>6, Messages DEF CanOpen
    <2> HIDE DEF m
    <2>3. /\ streams \in Seq([call : Calls, path : Openable]) /\ Len(streams) \in Nat
          /\ streams' \in Seq([call : Calls, path : Openable])
          /\ Len(streams') = Len(streams) + 1 /\ streams'[new] = m
          /\ \A id \in Ids : streams'[id] = streams[id]
      BY <2>1, <2>2, AppendProperties, LenProperties DEF IInv, TypeOK, Ids
    <2>4. Ids \subseteq Ids' /\ new \in Ids' /\ NoId \notin Ids'
      BY <2>3 DEF Ids, NoId
    <2>5. TypeOK'
      <3>1. outFE' \in Seq(Ids') /\ toBE' \in Seq(Ids')
        BY <1>1, <1>4, EmptySeq
      <3>2. /\ idMsg' \in Ids' \cup {NoId} /\ setting' \subseteq Ids'
            /\ got' \in [Calls -> Ids' \cup {NoId}]
        BY <1>1, <2>1, <2>4 DEF IInv, TypeOK, beVars
      <3> QED
        BY <1>1, <1>2, <2>1, <2>3, <3>1, <3>2 DEF IInv, TypeOK, Message, beVars
    <2>6. OnePromise'
      BY <1>1 DEF IInv, OnePromise, beVars
    <2>7. OneAtATime' /\ ForThePromise'
      BY <1>1, <1>3, <1>4, <1>5, <2>1, <2>3, EmptySeq DEF IInv, OneAtATime, ForThePromise, beVars
    <2>8. DoneOK'
      BY <1>1, <2>3, <2>4 DEF IInv, DoneOK, beVars
    <2> QED
      BY <2>5, <2>6, <2>7, <2>8 DEF IInv
  <1>7. CASE ~CanOpen(m.path)
    <2>1. /\ failed' = failed \cup {m.call} /\ fe' \in {"up", "down"}
          /\ UNCHANGED <<streams, setting>>
      BY <1>7 DEF FEOpen
    <2> HIDE DEF m
    <2>2. TypeOK'
      BY <1>1, <1>2, <1>3, <2>1 DEF IInv, TypeOK, Message, Ids, beVars
    <2>3. OnePromise' /\ DoneOK'
      BY <1>1, <2>1 DEF IInv, OnePromise, DoneOK, Ids, beVars
    <2>4. OneAtATime' /\ ForThePromise'
      BY <1>1, <1>4, <1>5, <2>1, EmptySeq DEF IInv, OneAtATime, ForThePromise, beVars
    <2> QED
      BY <2>2, <2>3, <2>4 DEF IInv
  <1> QED
    BY <1>6, <1>7

(* The answer of global_id_map: SetDone and SetFails.                       *)
LEMMA SetDoneStep ==
  ASSUME IInv, NEW id \in setting, SetDone(id)
  PROVE  IInv'
  <1>1. /\ setting' = setting \ {id} /\ idMsg' = id /\ outFE' = Append(outFE, id)
        /\ UNCHANGED <<beVars, toFE, fe, streams, toBE, failed>>
    BY DEF SetDone
  <1>2. id \in Ids /\ streams[id].call = p_
    BY DEF IInv, TypeOK, ForThePromise
  <1>3. Opens = {} /\ outFE = << >> /\ toBE = << >> /\ setting' = {}
    BY <1>1 DEF IInv, OneAtATime
  <1>4. outFE' \in Seq(Ids) /\ Len(outFE') = 1 /\ outFE' # << >>
    BY <1>1, <1>2, <1>3, EmptySeq, AppendProperties
  <1>5. Opens' = Opens /\ Ids' = Ids
    BY <1>1 DEF Opens, Ids
  <1>6. TypeOK'
    BY <1>1, <1>2, <1>3, <1>4, <1>5 DEF IInv, TypeOK, beVars
  <1>7. OnePromise' /\ DoneOK'
    BY <1>1, <1>5 DEF IInv, OnePromise, DoneOK, beVars
  <1>8. OneAtATime' /\ ForThePromise'
    BY <1>1, <1>2, <1>3, <1>4, <1>5, EmptySeq DEF IInv, OneAtATime, ForThePromise, beVars
  <1> QED
    BY <1>6, <1>7, <1>8 DEF IInv

LEMMA SetFailsStep ==
  ASSUME IInv, NEW id \in setting, SetFails(id)
  PROVE  IInv'
  <1>1. /\ setting' = setting \ {id} /\ failed' = failed \cup {streams[id].call}
        /\ UNCHANGED <<beVars, toFE, fe, streams, idMsg, outFE, toBE>>
    BY DEF SetFails
  <1>2. streams[id].call \in Calls
    BY StreamCalls DEF IInv, TypeOK
  <1>3. Opens' = Opens /\ Ids' = Ids
    BY <1>1 DEF Opens, Ids
  <1>4. TypeOK'
    BY <1>1, <1>2, <1>3 DEF IInv, TypeOK, beVars
  <1>5. OnePromise' /\ DoneOK'
    BY <1>1, <1>3 DEF IInv, OnePromise, DoneOK, beVars
  <1>6. OneAtATime' /\ ForThePromise'
    BY <1>1, <1>3 DEF IInv, OneAtATime, ForThePromise, beVars
  <1> QED
    BY <1>4, <1>5, <1>6 DEF IInv

(* Written preserves the inductive invariant: stream_id_msg_ still holds the *)
(* id that was stored when the answer was sent.                             *)
LEMMA WrittenStep ==
  ASSUME IInv, Written
  PROVE  IInv'
  <1>1. /\ outFE # << >> /\ outFE' = Tail(outFE) /\ toBE' = Append(toBE, idMsg)
        /\ UNCHANGED <<beVars, toFE, fe, streams, setting, idMsg, failed>>
    BY DEF Written
  <1>2. Opens = {} /\ setting = {} /\ toBE = << >>
    BY <1>1 DEF IInv, OneAtATime
  <1>3. idMsg \in Ids /\ streams[idMsg].call = p_
    BY <1>1 DEF IInv, ForThePromise
  <1>4. outFE' = << >>
    BY <1>1, OnlyAnswer DEF IInv, TypeOK, OneAtATime
  <1>5. toBE' \in Seq(Ids) /\ Len(toBE') = 1 /\ Head(toBE') = idMsg
    BY <1>1, <1>2, <1>3, EmptySeq, AppendProperties, HeadTailAppend
  <1>6. Opens' = Opens /\ Ids' = Ids
    BY <1>1 DEF Opens, Ids
  <1>7. TypeOK'
    BY <1>1, <1>4, <1>5, <1>6, EmptySeq DEF IInv, TypeOK, beVars
  <1>8. OnePromise' /\ DoneOK'
    BY <1>1, <1>6 DEF IInv, OnePromise, DoneOK, beVars
  <1>9. OneAtATime' /\ ForThePromise'
    BY <1>1, <1>2, <1>3, <1>4, <1>5, <1>6, EmptySeq DEF IInv, OneAtATime, ForThePromise, beVars
  <1> QED
    BY <1>7, <1>8, <1>9 DEF IInv

(* Every step preserves the inductive invariant.                            *)
LEMMA NextIInv == IInv /\ [Next]_vars => IInv'
  <1> SUFFICES ASSUME IInv, [Next]_vars PROVE IInv'
    OBVIOUS
  <1>1. CASE FEStep
    BY <1>1, FEOpenStep, FEExitStep, SetDoneStep, SetFailsStep, WrittenStep
    DEF FEStep, SetAnswered
  <1>2. CASE \E c \in Calls : OpenStream(c)
    BY <1>2, OpenStreamStep
  <1>3. CASE StreamId \/ ProcessExit
    BY <1>3, StreamIdStep, ProcessExitStep
  <1>4. CASE UNCHANGED vars
    BY <1>4
    DEF vars, IInv, TypeOK, OnePromise, OneAtATime, ForThePromise, DoneOK, Opens, Ids
  <1> QED
    BY <1>1, <1>2, <1>3, <1>4 DEF Next

(* The inductive invariant holds in every reachable state.                  *)
THEOREM Invariance == Spec => []IInv
  BY InitIInv, NextIInv, PTL DEF Spec

(* Every variable keeps its type, and only ids of streams travel.           *)
THEOREM TypeCorrect == Spec => []TypeOK
  <1>1. IInv => TypeOK
    BY DEF IInv
  <1> QED
    BY <1>1, Invariance, PTL

(* RightStream: a call gets the stream the FE opened for that very call.    *)
THEOREM RightStreamAlways == Spec => []RightStream
  <1>1. IInv => RightStream
    BY DEF IInv, DoneOK, RightStream
  <1> QED
    BY <1>1, Invariance, PTL

(* OnePromise: an answer never finds p_ NULL, and p_ is the promise of the   *)
(* one call that waits.                                                     *)
THEOREM OnePromiseAlways == Spec => []OnePromise
  <1>1. IInv => OnePromise
    BY DEF IInv
  <1> QED
    BY <1>1, Invariance, PTL
=============================================================================
