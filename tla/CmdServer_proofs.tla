--------------------------- MODULE CmdServer_proofs ---------------------------
(* The command server for any set of clients, any buffer and window size    *)
(* and any initial bufLen_ within the buffer.                              *)
EXTENDS CmdServer, SequenceTheorems, TLAPS

Waits == {"waitconnect", "waitsend"}

(* state_ is BLOCKED exactly while the event is blocked and nobody has      *)
(* activated it, and only an abort leaves ERROR in it.                      *)
WaitingOf(a) ==
  /\ (out[a].state = "BLOCKED") <=> (pc[a] \in Waits /\ a \notin ready)
  /\ a \in ready => pc[a] \in Waits /\ out[a].state \in {"SUCCESS", "ERROR"}
  /\ out[a].state = "ERROR" => a \in aborted

WaitingOK == \A a \in Acts : WaitingOf(a)

(* How far the Do of a client is: what went out is what sent counts, and    *)
(* the window in flight; a Do that ends without an abort has sent all it    *)
(* set out to send.                                                         *)
SentOf(c) ==
  /\ pc[c] # "next"
  /\ pc[c] = "new" => recv[c] = 0 /\ before[c] = << >>
  /\ pc[c] \in {"new", "open", "reset"} => delivered[c] = << >>
  /\ pc[c] \in {"connect", "waitconnect", "window"} => Len(delivered[c]) = out[c].sent
  /\ pc[c] \in {"output", "waitsend"} => Len(delivered[c]) = out[c].sent + Window(c)
  /\ pc[c] = "shutdown" =>
       /\ Len(delivered[c]) <= out[c].sent + out[c].len
       /\ c \notin aborted => out[c].len = 0 /\ Len(delivered[c]) = out[c].sent
  /\ Doing(c) => out[c].sent + out[c].len < BUFSIZE

SentOK == \A c \in Conns : SentOf(c)

ControlOK == TypeOK /\ WaitingOK /\ SentOK

(* Place p of the buffer holds a byte that some client sent.                *)
Real(p) == buffer_[p][1] \in Conns /\ buffer_[p][2] \in 1 .. recv[buffer_[p][1]]

(* How much of the buffer a Do sends, from its start.                      *)
ToSend(c) == out[c].sent + out[c].len

(* Once the first Do has ended, what bufLen_ claims was received from a      *)
(* client that is still served or that reset its connection, as the Do of   *)
(* one that closes empties the buffer; and what a later Do still reads from *)
(* the buffer was received, though bufLen_ may be 0.                        *)
Owned(p) == LET d == buffer_[p][1] IN Served(d) \/ pc[d] = "reset"

RealOK ==
  /\ dirty # Conns => \A p \in 1 .. bufLen_ : Real(p) /\ Owned(p)
  /\ \A c \in Conns \ dirty : Doing(c) => \A p \in 1 .. ToSend(c) : Real(p)

(* A client served alone finds its command in the buffer, and only that.     *)
AloneOf(c) ==
  /\ \A d \in Conns \ {c} : ~Served(d)
  /\ ~halted =>
       /\ pc[c] = "open" => bufLen_ = CommandLen(c)
       /\ Doing(c) => ToSend(c) = CommandLen(c)
       /\ \A i \in 1 .. CommandLen(c) : buffer_[i] = CommandByte(c, i)

AloneOK == \A c \in Conns \ mixed : Served(c) => AloneOf(c)

(* <<c, i>> lies in the buffer where every Do in progress has yet to send.  *)
Pending(b) ==
  \E j \in 1 .. bufLen_ :
    /\ buffer_[j] = b
    /\ \A a \in Conns : Doing(a) =>
         Len(delivered[a]) < j /\ j <= ToSend(a)

(* A byte that arrived alone and has not been sent is still to be sent.     *)
PendingOK ==
  ~halted /\ aborted \cap Conns = {} =>
    \A c \in Conns : \A i \in 1 .. recv[c] :
      <<c, i>> \in overlap \/ Delivered(<<c, i>>) \/ Pending(<<c, i>>)

DataOK ==
  /\ RealOK /\ NoJunkSent
  /\ AloneOK /\ CommandIntact
  /\ PendingOK /\ NothingLostAlone

IInv == ControlOK /\ DataOK

Labels == InSend \cup {"new", "open", "next", "done", "reset"}
States == {"NONE", "BLOCKED", "SUCCESS", "ERROR"}
Outs == [state : States, len : Nat, sent : Nat]

----------------------------------------------------------------------------
(* A segment that Buffer accepts leaves the last byte of the buffer free.   *)
LEMMA FitsBound ==
  ASSUME bufLen_ \in 0 .. BUFSIZE - 1, NEW n \in Nat, Fits(n)
  PROVE  bufLen_ + n \in 0 .. BUFSIZE - 1
BY SizesAssumption DEF Fits

(* The fields of an OutConnection, and the window it would send.            *)
LEMMA OutFields ==
  ASSUME TypeOK, NEW a \in Acts
  PROVE  /\ out[a].state \in States
         /\ out[a].len \in Nat /\ out[a].sent \in Nat
         /\ Window(a) \in Nat /\ Window(a) <= out[a].len
         /\ out[a].len # 0 => Window(a) # 0
<1>1. out[a] \in Outs
  BY DEF TypeOK, Outs, States
<1>2. /\ out[a].state \in States
      /\ out[a].len \in Nat /\ out[a].sent \in Nat
  BY <1>1 DEF Outs
<1> QED
  BY <1>2, SizesAssumption DEF Window

(* What a change of state_ leaves alone.                                    *)
LEMMA SetState ==
  ASSUME TypeOK, NEW a \in Acts, NEW s \in States,
         out' = [out EXCEPT ![a].state = s]
  PROVE  /\ out' \in [Acts -> Outs]
         /\ out'[a].state = s
         /\ \A b \in Acts : b # a => out'[b].state = out[b].state
         /\ \A b \in Acts : out'[b].len = out[b].len /\ out'[b].sent = out[b].sent
         /\ \A b \in Acts : Window(b)' = Window(b)
<1>1. out \in [Acts -> Outs]
  BY DEF TypeOK, Outs, States
<1>2. \A b \in Acts : out[b] \in Outs
  BY <1>1
<1>3. out' = [out EXCEPT ![a] = [out[a] EXCEPT !.state = s]]
  OBVIOUS
<1>4. [out[a] EXCEPT !.state = s] \in Outs
  BY <1>2 DEF Outs
<1>5. out' \in [Acts -> Outs]
  BY <1>1, <1>3, <1>4
<1>6. /\ out'[a].state = s
      /\ \A b \in Acts : b # a => out'[b].state = out[b].state
  BY <1>1, <1>2, <1>3 DEF Outs
<1>7. \A b \in Acts : out'[b].len = out[b].len /\ out'[b].sent = out[b].sent
  <2>1. out'[a].len = out[a].len /\ out'[a].sent = out[a].sent
    BY <1>1, <1>2, <1>3 DEF Outs
  <2>2. \A b \in Acts : b # a => out'[b] = out[b]
    BY <1>1, <1>3
  <2> QED
    BY <2>1, <2>2
<1>8. \A b \in Acts : Window(b)' = Window(b)
  BY <1>7 DEF Window
<1> QED
  BY <1>5, <1>6, <1>7, <1>8

(* A new OutConnection.                                                     *)
LEMMA NewOut ==
  ASSUME TypeOK, NEW a \in Acts, NEW len \in Nat, Connect(a, len)
  PROVE  /\ out' \in [Acts -> Outs]
         /\ out'[a].state = "NONE" /\ out'[a].len = len /\ out'[a].sent = 0
         /\ \A b \in Acts : b # a => out'[b] = out[b] /\ Window(b)' = Window(b)
         /\ pc' = [pc EXCEPT ![a] = "connect"]
         /\ core' = a
<1>1. out \in [Acts -> Outs]
  BY DEF TypeOK, Outs, States
<1> DEFINE o == [state |-> "NONE", len |-> len, sent |-> 0]
<1>2. o \in Outs
  BY DEF Outs, States
<1>3. out' = [out EXCEPT ![a] = o]
  BY DEF Connect
<1>4. o.state = "NONE" /\ o.len = len /\ o.sent = 0
  OBVIOUS
<1> HIDE DEF o
<1>5. out' \in [Acts -> Outs] /\ out'[a] = o
  BY <1>1, <1>2, <1>3
<1>6. \A b \in Acts : b # a => out'[b] = out[b]
  BY <1>1, <1>3
<1>7. \A b \in Acts : b # a => Window(b)' = Window(b)
  BY <1>6 DEF Window
<1> QED
  BY <1>4, <1>5, <1>6, <1>7 DEF Connect, Goto

(* TypeOK, part by part.                                                    *)
LEMMA Typed ==
  ASSUME TypeOK
  PROVE  /\ pc \in [Acts -> Labels] /\ out \in [Acts -> Outs]
         /\ core \in Acts \cup {NoAct} /\ ready \subseteq Acts
         /\ mainLeft \in 0 .. MainSends /\ aborted \subseteq Acts
         /\ recv \in [Conns -> 0 .. MaxBytes] /\ delivered \in [Acts -> Seq(Bytes)]
         /\ before \in [Conns -> Seq(Bytes)] /\ bufLen_ \in 0 .. BUFSIZE - 1 /\ buffer_ \in [1 .. BUFSIZE -> Bytes]
         /\ \A c \in Conns : recv[c] \in Nat /\ recv[c] <= MaxBytes
         /\ \A a \in Acts : delivered[a] \in Seq(Bytes) /\ Len(delivered[a]) \in Nat
         /\ \A c \in Conns : Len(before[c]) \in Nat
<1>1. /\ pc \in [Acts -> Labels] /\ out \in [Acts -> Outs]
      /\ core \in Acts \cup {NoAct} /\ ready \subseteq Acts
      /\ mainLeft \in 0 .. MainSends /\ aborted \subseteq Acts
      /\ recv \in [Conns -> 0 .. MaxBytes] /\ delivered \in [Acts -> Seq(Bytes)]
      /\ before \in [Conns -> Seq(Bytes)]
      /\ bufLen_ \in 0 .. BUFSIZE - 1 /\ buffer_ \in [1 .. BUFSIZE -> Bytes]
  BY DEF TypeOK, Labels, Outs, States
<1>2. \A c \in Conns : recv[c] \in 0 .. MaxBytes
  BY <1>1
<1>3. \A c \in Conns : recv[c] \in Nat /\ recv[c] <= MaxBytes
  <2> TAKE c \in Conns
  <2>1. MaxBytes \in Nat
    BY SizesAssumption
  <2> QED
    BY <1>2, <2>1
<1>4. \A a \in Acts : delivered[a] \in Seq(Bytes) /\ Len(delivered[a]) \in Nat
  BY <1>1, LenProperties
<1>5. \A c \in Conns : Len(before[c]) \in Nat
  BY <1>1, LenProperties
<1> QED
  BY <1>1, <1>3, <1>4, <1>5
----------------------------------------------------------------------------
(* The control of the sends, action by action.  First what a step leaves    *)
(* alone, for the activities it is not about.                               *)
LEMMA WaitingFrame ==
  ASSUME NEW a \in Acts, WaitingOf(a),
         pc'[a] = pc[a], out'[a].state = out[a].state,
         a \in ready' <=> a \in ready, a \in aborted => a \in aborted'
  PROVE  WaitingOf(a)'
BY DEF WaitingOf

LEMMA SentFrame ==
  ASSUME NEW c \in Conns, SentOf(c),
         pc'[c] = pc[c], delivered'[c] = delivered[c],
         out'[c].len = out[c].len, out'[c].sent = out[c].sent, Window(c)' = Window(c),
         pc[c] = "new" => recv'[c] = recv[c] /\ before'[c] = before[c],
         c \in aborted => c \in aborted'
  PROVE  SentOf(c)'
BY DEF SentOf, Doing

(* What a client finds in the buffer when it connects.                      *)
LEMMA FrontTyped ==
  ASSUME TypeOK, NEW c \in Conns,
         before' = [before EXCEPT ![c] = [i \in 1 .. bufLen_ |-> buffer_[i]]]
  PROVE  /\ before' \in [Conns -> Seq(Bytes)]
         /\ Len(before'[c]) = bufLen_
         /\ \A i \in 1 .. bufLen_ : before'[c][i] = buffer_[i]
         /\ \A d \in Conns : d # c => before'[d] = before[d]
<1> DEFINE front == [i \in 1 .. bufLen_ |-> buffer_[i]]
<1>1. /\ before \in [Conns -> Seq(Bytes)] /\ bufLen_ \in 0 .. BUFSIZE - 1
      /\ buffer_ \in [1 .. BUFSIZE -> Bytes]
  BY Typed
<1>2. bufLen_ \in Nat /\ \A i \in 1 .. bufLen_ : buffer_[i] \in Bytes
  BY <1>1, SizesAssumption
<1>3. /\ front \in Seq(Bytes) /\ Len(front) = bufLen_
      /\ \A i \in 1 .. bufLen_ : front[i] = buffer_[i]
  BY <1>2
<1>4. before' = [before EXCEPT ![c] = front]
  OBVIOUS
<1> HIDE DEF front
<1> QED
  BY <1>1, <1>3, <1>4

LEMMA AcceptControl ==
  ASSUME ControlOK, NEW c \in Conns, Accept(c)
  PROVE  ControlOK'
<1>1. /\ pc' = [pc EXCEPT ![c] = "open"] /\ pc[c] = "new"
      /\ buffer_' = buffer_ /\ bufLen_' = bufLen_ /\ recv' = recv /\ overlap' = overlap
      /\ dirty' = dirty /\ halted' = halted /\ core' = core /\ out' = out
      /\ ready' = ready /\ mainLeft' = mainLeft /\ delivered' = delivered
      /\ aborted' = aborted
  BY DEF Accept, Goto
<1>2. TypeOK /\ WaitingOK /\ SentOK /\ c \in Acts
  BY DEF ControlOK, Acts
<1>3. pc \in [Acts -> Labels]
  BY <1>2, Typed
<1>4. pc'[c] = "open" /\ \A a \in Acts : a # c => pc'[a] = pc[a]
  BY <1>1, <1>2, <1>3
<1>5. TypeOK'
  <2>1. mixed' \subseteq Conns
    BY DEF Accept, ControlOK, TypeOK
  <2>2. pc' \in [Acts -> InSend \cup {"new", "open", "next", "done", "reset"}]
    BY <1>1, <1>2, <1>3 DEF Labels
  <2>3. before' \in [Conns -> Seq(Bytes)]
    BY <1>2, FrontTyped DEF Accept
  <2> QED
    BY <1>1, <1>2, <2>1, <2>2, <2>3 DEF TypeOK
<1>6. WaitingOK'
  <2> SUFFICES ASSUME NEW a \in Acts PROVE WaitingOf(a)'
    BY DEF WaitingOK
  <2>1. CASE a # c
    BY <1>1, <1>2, <1>4, <2>1, WaitingFrame DEF WaitingOK
  <2>2. CASE a = c
    BY <1>1, <1>2, <1>4, <2>2 DEF WaitingOK, WaitingOf, Waits
  <2> QED
    BY <2>1, <2>2
<1>7. SentOK'
  <2> SUFFICES ASSUME NEW d \in Conns PROVE SentOf(d)'
    BY DEF SentOK
  <2>0. d \in Acts /\ Window(d)' = Window(d)
    BY <1>1 DEF Acts, Window
  <2>1. CASE d # c
    <3>1. before'[d] = before[d]
      BY <1>2, <2>1, FrontTyped DEF Accept
    <3> QED
      BY <1>1, <1>2, <1>4, <2>0, <2>1, <3>1, SentFrame DEF SentOK
  <2>2. CASE d = c
    BY <1>1, <1>2, <1>4, <2>2 DEF SentOK, SentOf, Doing, InSend
  <2> QED
    BY <2>1, <2>2
<1> QED
  BY <1>5, <1>6, <1>7 DEF ControlOK

LEMMA BufferTyped ==
  ASSUME ControlOK, NEW c \in Conns, NEW n \in 1 .. MaxBytes - recv[c], Buffer(c, n)
  PROVE  /\ buffer_' \in [1 .. BUFSIZE -> Bytes] /\ bufLen_' \in 0 .. BUFSIZE - 1
         /\ halted' \in BOOLEAN
<1>1. /\ buffer_ \in [1 .. BUFSIZE -> Bytes] /\ bufLen_ \in 0 .. BUFSIZE - 1
      /\ recv[c] \in Nat /\ recv[c] <= MaxBytes /\ n \in Nat /\ halted \in BOOLEAN
      /\ MaxBytes \in Nat /\ BUFSIZE \in Nat
  <2>1. recv[c] \in Nat /\ recv[c] <= MaxBytes
    BY Typed DEF ControlOK
  <2>2. MaxBytes \in Nat /\ BUFSIZE \in Nat
    BY SizesAssumption
  <2>3. n \in Nat
    BY <2>1, <2>2
  <2>4. /\ buffer_ \in [1 .. BUFSIZE -> Bytes] /\ bufLen_ \in 0 .. BUFSIZE - 1
        /\ halted \in BOOLEAN
    BY DEF ControlOK, TypeOK
  <2> QED
    BY <2>1, <2>2, <2>3, <2>4
<1>2. CASE Fits(n)
  <2>1. bufLen_' \in 0 .. BUFSIZE - 1
    BY <1>1, <1>2, FitsBound DEF Buffer
  <2>2. buffer_' = [i \in 1 .. BUFSIZE |->
                      IF i \in bufLen_ + 1 .. bufLen_ + n
                        THEN <<c, recv[c] + i - bufLen_>> ELSE buffer_[i]]
    BY <1>2 DEF Buffer
  <2>3. ASSUME NEW i \in 1 .. BUFSIZE
        PROVE  (IF i \in bufLen_ + 1 .. bufLen_ + n
                  THEN <<c, recv[c] + i - bufLen_>> ELSE buffer_[i]) \in Bytes
    <3>1. CASE i \in bufLen_ + 1 .. bufLen_ + n
      <4>1. recv[c] + i - bufLen_ \in Nat
        BY <1>1, <3>1
      <4>2. c \in Acts \cup {NoAct}
        BY DEF Acts
      <4> QED
        BY <3>1, <4>1, <4>2 DEF Bytes
    <3>2. CASE i \notin bufLen_ + 1 .. bufLen_ + n
      BY <1>1, <3>2
    <3> QED
      BY <3>1, <3>2
  <2> QED
    BY <1>1, <1>2, <2>1, <2>2, <2>3 DEF Buffer
<1>3. CASE ~Fits(n)
  BY <1>1, <1>3 DEF Buffer
<1> QED
  BY <1>2, <1>3

LEMMA InReceiveControl ==
  ASSUME ControlOK, NEW c \in Conns, InReceive(c)
  PROVE  ControlOK'
<1>1. /\ pc' = pc /\ pc[c] = "open" /\ mixed' = mixed
      /\ dirty' = dirty /\ core' = core /\ out' = out
      /\ ready' = ready /\ mainLeft' = mainLeft /\ delivered' = delivered
      /\ aborted' = aborted /\ before' = before
  BY DEF InReceive
<1>2. TypeOK /\ WaitingOK /\ SentOK /\ c \in Acts
  BY DEF ControlOK, Acts
<1>3. PICK n \in 1 .. MaxBytes - recv[c] :
        /\ Buffer(c, n)
        /\ recv' = [recv EXCEPT ![c] = @ + n]
        /\ overlap' = IF \E d \in Conns : Doing(d)
                        THEN overlap \cup {<<c, recv[c] + i>> : i \in 1 .. n}
                        ELSE overlap
  BY DEF InReceive
<1>4. /\ recv \in [Conns -> 0 .. MaxBytes] /\ recv[c] \in Nat /\ recv[c] <= MaxBytes
      /\ MaxBytes \in Nat
  BY <1>2, Typed, SizesAssumption
<1>5. TypeOK'
  <2>1. recv[c] + n \in 0 .. MaxBytes
    BY <1>3, <1>4
  <2>2. recv' \in [Conns -> 0 .. MaxBytes]
    BY <1>3, <1>4, <2>1
  <2>3. overlap' \subseteq Bytes
    <3>1. ASSUME NEW i \in 1 .. n PROVE <<c, recv[c] + i>> \in Bytes
      BY <1>2, <1>3, <1>4 DEF Bytes
    <3> QED
      BY <1>2, <1>3, <3>1 DEF TypeOK
  <2>4. /\ buffer_' \in [1 .. BUFSIZE -> Bytes] /\ bufLen_' \in 0 .. BUFSIZE - 1
        /\ halted' \in BOOLEAN
    BY <1>3, BufferTyped
  <2> QED
    BY <1>1, <1>2, <2>2, <2>3, <2>4 DEF TypeOK
<1>6. WaitingOK'
  BY <1>1, <1>2 DEF WaitingOK, WaitingOf
<1>7. SentOK'
  <2> SUFFICES ASSUME NEW d \in Conns PROVE SentOf(d)'
    BY DEF SentOK
  <2>1. Window(d)' = Window(d)
    BY <1>1 DEF Window
  <2>2. pc[d] = "new" => recv'[d] = recv[d] /\ before'[d] = before[d]
    BY <1>1, <1>3, <1>4
  <2> QED
    BY <1>1, <1>2, <2>1, <2>2, SentFrame DEF SentOK
<1> QED
  BY <1>5, <1>6, <1>7 DEF ControlOK

(* A client that resets changes where it is, and nothing else.              *)
LEMMA InAbortControl ==
  ASSUME ControlOK, NEW c \in Conns, InAbort(c)
  PROVE  ControlOK'
<1>1. /\ pc[c] = "open" /\ pc' = [pc EXCEPT ![c] = "reset"] /\ UNCHANGED bufVars
      /\ core' = core /\ out' = out /\ ready' = ready /\ mainLeft' = mainLeft
      /\ delivered' = delivered /\ aborted' = aborted
  BY DEF InAbort, Goto
<1>2. TypeOK /\ WaitingOK /\ SentOK /\ c \in Acts /\ pc \in [Acts -> Labels]
  BY Typed DEF ControlOK, Acts
<1>3. pc'[c] = "reset" /\ \A a \in Acts : a # c => pc'[a] = pc[a]
  BY <1>1, <1>2
<1>4. TypeOK'
  <2>1. pc' \in [Acts -> InSend \cup {"new", "open", "next", "done", "reset"}]
    BY <1>1, <1>2 DEF Labels
  <2> QED
    BY <1>1, <1>2, <2>1 DEF TypeOK, bufVars
<1>5. WaitingOK'
  <2> SUFFICES ASSUME NEW a \in Acts PROVE WaitingOf(a)'
    BY DEF WaitingOK
  <2>1. CASE a # c
    BY <1>1, <1>2, <1>3, <2>1, WaitingFrame DEF WaitingOK
  <2>2. CASE a = c
    BY <1>1, <1>2, <1>3, <2>2 DEF WaitingOK, WaitingOf, Waits
  <2> QED
    BY <2>1, <2>2
<1>6. SentOK'
  <2> SUFFICES ASSUME NEW d \in Conns PROVE SentOf(d)'
    BY DEF SentOK
  <2>0. d \in Acts /\ recv' = recv /\ before' = before /\ Window(d)' = Window(d)
    BY <1>1 DEF Acts, bufVars, Window
  <2>1. CASE d # c
    BY <1>1, <1>2, <1>3, <2>0, <2>1, SentFrame DEF SentOK
  <2>2. CASE d = c
    BY <1>1, <1>2, <1>3, <2>2 DEF SentOK, SentOf, Doing, InSend
  <2> QED
    BY <2>1, <2>2
<1> QED
  BY <1>4, <1>5, <1>6 DEF ControlOK

(* Nothing of the buffer and of its clients changes.                        *)
BufSame ==
  /\ buffer_' = buffer_ /\ bufLen_' = bufLen_ /\ recv' = recv /\ mixed' = mixed
  /\ overlap' = overlap /\ before' = before /\ dirty' = dirty /\ halted' = halted

LEMMA BufVarsSame ==
  ASSUME UNCHANGED bufVars
  PROVE  BufSame
BY DEF bufVars, BufSame

(* A new OutConnection, of a client that closed or of AppMain.              *)
LEMMA ConnectControl ==
  ASSUME ControlOK, NEW a \in Acts, NEW len \in Nat, Connect(a, len), BufSame,
         ready' = ready, delivered' = delivered, aborted' = aborted,
         mainLeft' \in 0 .. MainSends,
         a \notin ready,
         a \in Conns => delivered[a] = << >> /\ len < BUFSIZE
  PROVE  ControlOK'
<1>1. TypeOK /\ WaitingOK /\ SentOK
  BY DEF ControlOK
<1>2. /\ out' \in [Acts -> Outs]
      /\ out'[a].state = "NONE" /\ out'[a].len = len /\ out'[a].sent = 0
      /\ \A b \in Acts : b # a => out'[b] = out[b] /\ Window(b)' = Window(b)
      /\ pc' = [pc EXCEPT ![a] = "connect"]
      /\ core' = a
  BY <1>1, NewOut
<1>3. pc \in [Acts -> Labels]
  BY <1>1, Typed
<1>4. pc'[a] = "connect" /\ \A b \in Acts : b # a => pc'[b] = pc[b]
  BY <1>2, <1>3
<1>5. TypeOK'
  <2>1. pc' \in [Acts -> InSend \cup {"new", "open", "next", "done", "reset"}]
    BY <1>2, <1>3 DEF Labels, InSend
  <2> QED
    BY <1>1, <1>2, <2>1 DEF TypeOK, BufSame, Outs, States
<1>6. WaitingOK'
  <2> SUFFICES ASSUME NEW b \in Acts PROVE WaitingOf(b)'
    BY DEF WaitingOK
  <2>1. CASE b # a
    BY <1>1, <1>2, <1>4, <2>1, WaitingFrame DEF WaitingOK
  <2>2. CASE b = a
    BY <1>1, <1>2, <1>4, <2>2 DEF WaitingOf, Waits
  <2> QED
    BY <2>1, <2>2
<1>7. SentOK'
  <2> SUFFICES ASSUME NEW d \in Conns PROVE SentOf(d)'
    BY DEF SentOK
  <2>0. d \in Acts /\ recv' = recv /\ before' = before
    BY DEF Acts, BufSame
  <2>1. CASE d # a
    BY <1>1, <1>2, <1>4, <2>0, <2>1, SentFrame DEF SentOK
  <2>2. CASE d = a
    <3>1. Len(delivered'[d]) = 0 /\ out'[d].sent = 0 /\ out'[d].len < BUFSIZE
      BY <1>2, <2>2, EmptySeq
    <3> QED
      BY <1>2, <1>4, <2>2, <3>1 DEF SentOf, Doing, InSend
  <2> QED
    BY <2>1, <2>2
<1> QED
  BY <1>5, <1>6, <1>7 DEF ControlOK

LEMMA InCloseControl ==
  ASSUME ControlOK, NEW c \in Conns, InClose(c)
  PROVE  ControlOK'
<1>1. TypeOK /\ WaitingOK /\ SentOK /\ c \in Acts
  BY DEF ControlOK, Acts
<1>2. BufSame
  BY BufVarsSame DEF InClose
<1>3. bufLen_ \in Nat /\ bufLen_ < BUFSIZE
  BY <1>1, Typed, SizesAssumption
<1>4. c \notin ready /\ delivered[c] = << >>
  BY <1>1 DEF InClose, WaitingOK, WaitingOf, Waits, SentOK, SentOf
<1>5. mainLeft' \in 0 .. MainSends
  BY <1>1, Typed DEF InClose
<1> QED
  BY <1>1, <1>2, <1>3, <1>4, <1>5, ConnectControl DEF InClose

LEMMA AppMainControl ==
  ASSUME ControlOK, AppMain
  PROVE  ControlOK'
<1>1. TypeOK /\ WaitingOK /\ SentOK /\ Main \in Acts /\ Main \notin Conns
  BY ActsAssumption DEF ControlOK, Acts
<1>2. BufSame /\ ready' = ready /\ delivered' = delivered /\ aborted' = aborted
  BY BufVarsSame DEF AppMain
<1>3. Main \notin ready /\ pc[Main] \in {"new", "next"}
  BY <1>1 DEF AppMain, WaitingOK, WaitingOf, Waits
<1>4. mainLeft \in 0 .. MainSends /\ pc \in [Acts -> Labels]
  BY <1>1, Typed
<1>5. CASE mainLeft > 0
  <2>1. mainLeft' = mainLeft - 1 /\ Connect(Main, 1)
    BY <1>5 DEF AppMain
  <2>2. mainLeft' \in 0 .. MainSends
    BY <1>4, <1>5, <2>1, SizesAssumption
  <2> QED
    BY <1>1, <1>2, <1>3, <2>1, <2>2, ConnectControl
<1>6. CASE ~(mainLeft > 0)
  <2>1. /\ pc' = [pc EXCEPT ![Main] = "done"] /\ core' = NoAct
        /\ mainLeft' = mainLeft /\ out' = out
    BY <1>6 DEF AppMain, Goto
  <2>2. pc'[Main] = "done" /\ \A b \in Acts : b # Main => pc'[b] = pc[b]
    BY <1>1, <1>4, <2>1
  <2>3. TypeOK'
    <3>1. pc' \in [Acts -> InSend \cup {"new", "open", "next", "done", "reset"}]
      BY <1>4, <2>1 DEF Labels
    <3> QED
      BY <1>1, <1>2, <2>1, <3>1 DEF TypeOK, BufSame
  <2>4. WaitingOK'
    <3> SUFFICES ASSUME NEW b \in Acts PROVE WaitingOf(b)'
      BY DEF WaitingOK
    <3>1. CASE b # Main
      BY <1>1, <1>2, <2>1, <2>2, <3>1, WaitingFrame DEF WaitingOK
    <3>2. CASE b = Main
      BY <1>1, <1>2, <1>3, <2>1, <2>2, <3>2 DEF WaitingOK, WaitingOf, Waits
    <3> QED
      BY <3>1, <3>2
  <2>5. SentOK'
    <3> SUFFICES ASSUME NEW d \in Conns PROVE SentOf(d)'
      BY DEF SentOK
    <3>0. d \in Acts /\ d # Main /\ recv' = recv /\ before' = before /\ Window(d)' = Window(d)
      BY <1>1, <1>2, <2>1 DEF Acts, BufSame, Window
    <3> QED
      BY <1>1, <1>2, <2>1, <2>2, <3>0, SentFrame DEF SentOK
  <2> QED
    BY <2>3, <2>4, <2>5 DEF ControlOK
<1> QED
  BY <1>5, <1>6
(* An event blocks, at the connect or after a window.                       *)
LEMMA BlockControl ==
  ASSUME ControlOK, NEW a \in Acts, NEW label \in Waits,
         SaveContext(a, label), BufSame,
         \/ pc[a] = "connect" /\ label = "waitconnect"
         \/ pc[a] = "output" /\ label = "waitsend",
         ready' = ready, mainLeft' = mainLeft, delivered' = delivered,
         aborted' = aborted
  PROVE  ControlOK'
<1>1. TypeOK /\ WaitingOK /\ SentOK
  BY DEF ControlOK
<1>2. pc \in [Acts -> Labels] /\ out \in [Acts -> Outs]
  BY <1>1, Typed
<1>3. /\ out' = [out EXCEPT ![a].state = "BLOCKED"] /\ core' = NoAct
      /\ pc' = [pc EXCEPT ![a] = label]
  BY DEF SaveContext, Goto
<1>4. pc'[a] = label /\ \A b \in Acts : b # a => pc'[b] = pc[b]
  BY <1>2, <1>3
<1>5. /\ out' \in [Acts -> Outs]
      /\ out'[a].state = "BLOCKED"
      /\ \A b \in Acts : b # a => out'[b].state = out[b].state
      /\ \A b \in Acts : out'[b].len = out[b].len /\ out'[b].sent = out[b].sent
      /\ \A b \in Acts : Window(b)' = Window(b)
  <2>1. "BLOCKED" \in States
    BY DEF States
  <2> QED
    BY <1>1, <1>3, <2>1, SetState
<1>6. TypeOK'
  <2>1. pc' \in [Acts -> InSend \cup {"new", "open", "next", "done", "reset"}]
    BY <1>2, <1>3 DEF Labels, InSend, Waits
  <2> QED
    BY <1>1, <1>3, <1>5, <2>1 DEF TypeOK, BufSame, Outs, States
<1>7. WaitingOK'
  <2> SUFFICES ASSUME NEW b \in Acts PROVE WaitingOf(b)'
    BY DEF WaitingOK
  <2>1. CASE b # a
    BY <1>1, <1>4, <1>5, <2>1, WaitingFrame DEF WaitingOK
  <2>2. CASE b = a
    <3>1. a \notin ready
      BY <1>1 DEF WaitingOK, WaitingOf, Waits
    <3> QED
      BY <1>4, <1>5, <2>2, <3>1 DEF WaitingOf
  <2> QED
    BY <2>1, <2>2
<1>8. SentOK'
  <2> SUFFICES ASSUME NEW d \in Conns PROVE SentOf(d)'
    BY DEF SentOK
  <2>0. d \in Acts /\ recv' = recv /\ before' = before
    BY DEF Acts, BufSame
  <2>1. CASE d # a
    BY <1>1, <1>4, <1>5, <2>0, <2>1, SentFrame DEF SentOK
  <2>2. CASE d = a
    BY <1>1, <1>4, <1>5, <2>0, <2>2 DEF SentOK, SentOf, Doing, InSend
  <2> QED
    BY <2>1, <2>2
<1> QED
  BY <1>6, <1>7, <1>8 DEF ControlOK

LEMMA BlockOnConnectControl ==
  ASSUME ControlOK, NEW a \in Acts, BlockOnConnect(a)
  PROVE  ControlOK'
<1>1. BufSame /\ "waitconnect" \in Waits
  BY BufVarsSame DEF BlockOnConnect, Waits
<1> QED
  BY <1>1, BlockControl DEF BlockOnConnect

LEMMA BlockOnSendControl ==
  ASSUME ControlOK, NEW a \in Acts, BlockOnSend(a)
  PROVE  ControlOK'
<1>1. BufSame /\ "waitsend" \in Waits
  BY BufVarsSame DEF BlockOnSend, Waits
<1> QED
  BY <1>1, BlockControl DEF BlockOnSend

(* A blocked event is told how its wait ended.                              *)
LEMMA ActivateControl ==
  ASSUME ControlOK, NEW a \in Acts, NEW s \in {"SUCCESS", "ERROR"},
         Activate(a, s), BufSame, out[a].state = "BLOCKED",
         core' = core, pc' = pc, mainLeft' = mainLeft,
         delivered' = delivered,
         aborted' \subseteq Acts, aborted \subseteq aborted',
         s = "ERROR" => a \in aborted'
  PROVE  ControlOK'
<1>1. TypeOK /\ WaitingOK /\ SentOK
  BY DEF ControlOK
<1>2. ready' = ready \cup {a} /\ out' = [out EXCEPT ![a].state = s]
  BY DEF Activate
<1>3. /\ out' \in [Acts -> Outs]
      /\ out'[a].state = s
      /\ \A b \in Acts : b # a => out'[b].state = out[b].state
      /\ \A b \in Acts : out'[b].len = out[b].len /\ out'[b].sent = out[b].sent
      /\ \A b \in Acts : Window(b)' = Window(b)
  <2>1. s \in States
    BY DEF States
  <2> QED
    BY <1>1, <1>2, <2>1, SetState
<1>4. TypeOK'
  BY <1>1, <1>2, <1>3 DEF TypeOK, BufSame, Outs, States
<1>5. WaitingOK'
  <2> SUFFICES ASSUME NEW b \in Acts PROVE WaitingOf(b)'
    BY DEF WaitingOK
  <2>1. CASE b # a
    <3>1. b \in ready' <=> b \in ready
      BY <1>2, <2>1
    <3> QED
      BY <1>1, <1>3, <2>1, <3>1, WaitingFrame DEF WaitingOK
  <2>2. CASE b = a
    BY <1>1, <1>2, <1>3, <2>2 DEF WaitingOK, WaitingOf
  <2> QED
    BY <2>1, <2>2
<1>6. SentOK'
  <2> SUFFICES ASSUME NEW d \in Conns PROVE SentOf(d)'
    BY DEF SentOK
  <2>0. d \in Acts /\ recv' = recv /\ before' = before
    BY DEF Acts, BufSame
  <2> QED
    BY <1>1, <1>3, <2>0, SentFrame DEF SentOK
<1> QED
  BY <1>4, <1>5, <1>6 DEF ControlOK

LEMMA ConnectedControl ==
  ASSUME ControlOK, NEW a \in Acts, Connected(a)
  PROVE  ControlOK'
<1>1. out[a].state = "BLOCKED"
  BY DEF Connected, ControlOK, WaitingOK, WaitingOf, Waits
<1>2. BufSame /\ aborted \subseteq Acts
  BY BufVarsSame DEF Connected, ControlOK, TypeOK
<1> QED
  BY <1>1, <1>2, ActivateControl DEF Connected

LEMMA FreedControl ==
  ASSUME ControlOK, NEW a \in Acts, Freed(a)
  PROVE  ControlOK'
<1>1. BufSame /\ aborted \subseteq Acts
  BY BufVarsSame DEF Freed, ControlOK, TypeOK
<1> QED
  BY <1>1, ActivateControl DEF Freed

LEMMA AbortControl ==
  ASSUME ControlOK, NEW a \in Acts, Abort(a)
  PROVE  ControlOK'
<1>1. TypeOK /\ WaitingOK /\ SentOK
  BY DEF ControlOK
<1>2. /\ BufSame /\ aborted' = aborted \cup {a}
      /\ core' = core /\ pc' = pc /\ mainLeft' = mainLeft
      /\ delivered' = delivered
  BY BufVarsSame DEF Abort
<1>3. aborted' \subseteq Acts /\ aborted \subseteq aborted' /\ a \in aborted'
  BY <1>1, <1>2 DEF TypeOK
<1>4. CASE out[a].state = "BLOCKED"
  BY <1>2, <1>3, <1>4, ActivateControl DEF Abort
<1>5. CASE out[a].state # "BLOCKED"
  <2>1. out' = out /\ ready' = ready
    BY <1>5 DEF Abort
  <2>2. TypeOK'
    BY <1>1, <1>2, <1>3, <2>1 DEF TypeOK, BufSame
  <2>3. WaitingOK'
    BY <1>1, <1>2, <1>3, <2>1, WaitingFrame DEF WaitingOK
  <2>4. SentOK'
    <3> SUFFICES ASSUME NEW d \in Conns PROVE SentOf(d)'
      BY DEF SentOK
    <3>0. d \in Acts /\ recv' = recv /\ before' = before /\ Window(d)' = Window(d)
      BY <1>2, <2>1 DEF Acts, BufSame, Window
    <3> QED
      BY <1>1, <1>2, <1>3, <2>1, <3>0, SentFrame DEF SentOK
  <2> QED
    BY <2>2, <2>3, <2>4 DEF ControlOK
<1> QED
  BY <1>4, <1>5
LEMMA WindowSame ==
  ASSUME NEW b, out'[b] = out[b]
  PROVE  Window(b)' = Window(b)
BY DEF Window

(* What a resumed Send adds to sent it takes from len.                      *)
LEMMA Advance ==
  ASSUME TypeOK, NEW a \in Acts,
         out' = [out EXCEPT ![a].sent = @ + Window(a), ![a].len = @ - Window(a)]
  PROVE  /\ out' \in [Acts -> Outs]
         /\ out'[a].state = out[a].state
         /\ out'[a].sent = out[a].sent + Window(a) /\ out'[a].len = out[a].len - Window(a)
         /\ \A b \in Acts : b # a => out'[b] = out[b] /\ Window(b)' = Window(b)
<1>1. out \in [Acts -> Outs] /\ out[a] \in Outs
  BY DEF TypeOK, Outs, States
<1>2. /\ out[a].len \in Nat /\ out[a].sent \in Nat
      /\ Window(a) \in Nat /\ Window(a) <= out[a].len
  BY OutFields
<1>3. out[a].sent + Window(a) \in Nat /\ out[a].len - Window(a) \in Nat
  BY <1>2
<1> DEFINE o == [out[a] EXCEPT !.sent = @ + Window(a), !.len = @ - Window(a)]
<1>4. out' = [out EXCEPT ![a] = o]
  BY <1>1 DEF Outs
<1>5. /\ o.state = out[a].state
      /\ o.sent = out[a].sent + Window(a) /\ o.len = out[a].len - Window(a)
  BY <1>1 DEF Outs
<1>6. o \in Outs
  BY <1>1, <1>3 DEF Outs
<1> HIDE DEF o
<1>7. out' \in [Acts -> Outs] /\ out'[a] = o
  BY <1>1, <1>4, <1>6
<1>8. \A b \in Acts : b # a => out'[b] = out[b]
  BY <1>1, <1>4
<1>9. \A b \in Acts : b # a => Window(b)' = Window(b)
  BY <1>8, WindowSame
<1> QED
  BY <1>5, <1>7, <1>8, <1>9

LEMMA ResumeControl ==
  ASSUME ControlOK, NEW a \in Acts, Resume(a)
  PROVE  ControlOK'
<1>1. TypeOK /\ WaitingOK /\ SentOK
  BY DEF ControlOK
<1>2. pc \in [Acts -> Labels] /\ out \in [Acts -> Outs]
  BY <1>1, Typed
<1>3. /\ BufSame /\ a \in ready /\ ready' = ready \ {a} /\ core' = a
      /\ mainLeft' = mainLeft /\ delivered' = delivered
      /\ aborted' = aborted
  BY BufVarsSame DEF Resume
<1>4. pc[a] \in Waits /\ out[a].state \in {"SUCCESS", "ERROR"}
      /\ (out[a].state = "ERROR" => a \in aborted)
  BY <1>1, <1>3 DEF WaitingOK, WaitingOf
<1>5. PICK l \in {"window", "shutdown"} : pc' = [pc EXCEPT ![a] = l]
  BY DEF Resume, Goto
<1>6. pc'[a] = l /\ \A b \in Acts : b # a => pc'[b] = pc[b]
  BY <1>2, <1>5
<1>7. \/ out' = out
      \/ out' = [out EXCEPT ![a].sent = @ + Window(a), ![a].len = @ - Window(a)]
  BY DEF Resume
<1>8. /\ out' \in [Acts -> Outs] /\ out'[a].state = out[a].state
      /\ \A b \in Acts : b # a => out'[b] = out[b] /\ Window(b)' = Window(b)
  <2>1. CASE out' = out
    BY <1>2, <2>1 DEF Window
  <2>2. CASE out' = [out EXCEPT ![a].sent = @ + Window(a), ![a].len = @ - Window(a)]
    BY <1>1, <2>2, Advance
  <2> QED
    BY <1>7, <2>1, <2>2
<1>9. TypeOK'
  <2>1. pc' \in [Acts -> InSend \cup {"new", "open", "next", "done", "reset"}]
    BY <1>2, <1>5 DEF Labels, InSend
  <2>2. ready' \subseteq Acts
    BY <1>1, <1>3 DEF TypeOK
  <2> QED
    BY <1>1, <1>3, <1>8, <2>1, <2>2 DEF TypeOK, BufSame, Outs, States
<1>10. WaitingOK'
  <2> SUFFICES ASSUME NEW b \in Acts PROVE WaitingOf(b)'
    BY DEF WaitingOK
  <2>1. CASE b # a
    <3>1. b \in ready' <=> b \in ready
      BY <1>3, <2>1
    <3> QED
      BY <1>1, <1>3, <1>6, <1>8, <2>1, <3>1, WaitingFrame DEF WaitingOK
  <2>2. CASE b = a
    BY <1>3, <1>4, <1>5, <1>6, <1>8, <2>2 DEF WaitingOf, Waits
  <2> QED
    BY <2>1, <2>2
<1>11. SentOK'
  <2> SUFFICES ASSUME NEW d \in Conns PROVE SentOf(d)'
    BY DEF SentOK
  <2>0. d \in Acts /\ recv' = recv /\ before' = before
    BY <1>3 DEF Acts, BufSame
  <2>1. CASE d # a
    BY <1>1, <1>3, <1>6, <1>8, <2>0, <2>1, SentFrame DEF SentOK
  <2>2. CASE d = a
    <3> DEFINE n == Len(delivered[a])
    <3>1. /\ out[a].len \in Nat /\ out[a].sent \in Nat
          /\ Window(a) \in Nat /\ Window(a) <= out[a].len
      BY <1>1, OutFields
    <3>2. /\ pc[a] = "waitconnect" => n = out[a].sent
          /\ pc[a] = "waitsend" => n = out[a].sent + Window(a)
          /\ out[a].sent + out[a].len < BUFSIZE
      BY <1>1, <1>4, <2>2 DEF SentOK, SentOf, Doing, InSend, Waits
    <3>3. /\ out'[a].sent + out'[a].len = out[a].sent + out[a].len
          /\ pc'[a] = "window" => n = out'[a].sent
          /\ pc'[a] = "shutdown" => out[a].state # "SUCCESS" /\ out' = out
      <4>1. CASE out[a].state # "SUCCESS"
        BY <1>6, <4>1, <1>2 DEF Resume, Goto
      <4>2. CASE out[a].state = "SUCCESS" /\ pc[a] = "waitconnect"
        BY <1>2, <3>2, <4>2 DEF Resume, Goto
      <4>3. CASE out[a].state = "SUCCESS" /\ pc[a] = "waitsend"
        <5>1. /\ out' = [out EXCEPT ![a].sent = @ + Window(a), ![a].len = @ - Window(a)]
              /\ pc' = [pc EXCEPT ![a] = "window"]
          BY <4>3 DEF Resume, Goto
        <5>2. out'[a].sent = out[a].sent + Window(a) /\ out'[a].len = out[a].len - Window(a)
          BY <1>1, <5>1, Advance
        <5>3. pc'[a] = "window"
          BY <1>2, <5>1
        <5> QED
          BY <3>1, <3>2, <4>3, <5>2, <5>3
      <4> QED
        BY <1>4, <4>1, <4>2, <4>3 DEF Waits
    <3>4. pc'[a] = "shutdown" => a \in aborted /\ n <= out'[a].sent + out'[a].len
      BY <1>4, <3>1, <3>2, <3>3 DEF Waits
    <3> QED
      BY <1>3, <1>5, <1>6, <2>2, <3>2, <3>3, <3>4 DEF SentOf, Doing, InSend
  <2> QED
    BY <2>1, <2>2
<1> QED
  BY <1>9, <1>10, <1>11 DEF ControlOK
(* A window that goes out is appended to what was delivered.                *)
LEMMA Delivers ==
  ASSUME ControlOK, NEW a \in Acts, SendWindow(a), out[a].len # 0
  PROVE  LET n == Len(delivered[a])
         IN  /\ delivered' \in [Acts -> Seq(Bytes)]
             /\ \A b \in Acts : b # a => delivered'[b] = delivered[b]
             /\ Len(delivered'[a]) = n + Window(a)
             /\ \A i \in 1 .. n : delivered'[a][i] = delivered[a][i]
             /\ \A i \in n + 1 .. n + Window(a) :
                  delivered'[a][i] = Byte(a, out[a].sent + (i - n))
<1> DEFINE n == Len(delivered[a])
           w == [i \in 1 .. Window(a) |-> Byte(a, out[a].sent + i)]
<1>1. TypeOK /\ SentOK
  BY DEF ControlOK
<1>2. /\ out[a].len \in Nat /\ out[a].sent \in Nat
      /\ Window(a) \in Nat /\ Window(a) <= out[a].len
  BY <1>1, OutFields
<1>3. /\ delivered \in [Acts -> Seq(Bytes)] /\ delivered[a] \in Seq(Bytes) /\ n \in Nat
      /\ buffer_ \in [1 .. BUFSIZE -> Bytes] /\ mainLeft \in 0 .. MainSends
  BY <1>1, Typed
<1>4. delivered' = [delivered EXCEPT ![a] = @ \o w]
  BY DEF SendWindow
<1>5. ASSUME NEW i \in 1 .. Window(a) PROVE Byte(a, out[a].sent + i) \in Bytes
  <2>1. CASE a = Main
    <3>1. MainSends - mainLeft \in Nat
      BY <1>3, SizesAssumption
    <3> QED
      BY <2>1, <3>1 DEF Byte, Bytes, Acts
  <2>2. CASE a # Main
    <3>1. out[a].sent + out[a].len < BUFSIZE /\ BUFSIZE \in Nat
      BY <1>1, <2>2, SizesAssumption DEF Acts, SentOK, SentOf, Doing, InSend, SendWindow
    <3>2. out[a].sent + i \in 1 .. BUFSIZE
      BY <1>2, <3>1
    <3> QED
      BY <1>3, <2>2, <3>2 DEF Byte
  <2> QED
    BY <2>1, <2>2
<1>6. w \in Seq(Bytes) /\ Len(w) = Window(a)
  BY <1>2, <1>5
<1>7. \A i \in 1 .. Window(a) : w[i] = Byte(a, out[a].sent + i)
  OBVIOUS
<1> HIDE DEF w
<1>8. /\ delivered[a] \o w \in Seq(Bytes)
      /\ Len(delivered[a] \o w) = n + Window(a)
      /\ \A i \in 1 .. n + Window(a) : (delivered[a] \o w)[i] =
                     IF i <= n THEN delivered[a][i] ELSE w[i - n]
  BY <1>3, <1>6, ConcatProperties
<1>9. /\ delivered' \in [Acts -> Seq(Bytes)]
      /\ \A b \in Acts : b # a => delivered'[b] = delivered[b]
      /\ delivered'[a] = delivered[a] \o w
  BY <1>3, <1>4, <1>8
<1>10. Len(delivered'[a]) = n + Window(a)
  BY <1>8, <1>9
<1>11. ASSUME NEW i \in 1 .. n PROVE delivered'[a][i] = delivered[a][i]
  <2>1. i \in 1 .. n + Window(a) /\ i <= n
    BY <1>2, <1>3
  <2> QED
    BY <1>8, <1>9, <2>1
<1>12. ASSUME NEW i \in n + 1 .. n + Window(a)
       PROVE  delivered'[a][i] = Byte(a, out[a].sent + (i - n))
  <2>1. i \in 1 .. n + Window(a) /\ ~(i <= n) /\ i - n \in 1 .. Window(a)
    BY <1>2, <1>3
  <2> QED
    BY <1>7, <1>8, <1>9, <2>1
<1> QED
  BY <1>9, <1>10, <1>11, <1>12

LEMMA SendWindowControl ==
  ASSUME ControlOK, NEW a \in Acts, SendWindow(a)
  PROVE  ControlOK'
<1>1. TypeOK /\ WaitingOK /\ SentOK
  BY DEF ControlOK
<1>2. pc \in [Acts -> Labels] /\ delivered \in [Acts -> Seq(Bytes)]
  BY <1>1, Typed
<1>3. /\ BufSame /\ pc[a] = "window" /\ ready' = ready /\ core' = core
      /\ out' = out /\ mainLeft' = mainLeft /\ aborted' = aborted
  BY BufVarsSame DEF SendWindow
<1>4. /\ out[a].len \in Nat /\ out[a].sent \in Nat
      /\ Window(a) \in Nat /\ Window(a) <= out[a].len
  BY <1>1, OutFields
<1>5. PICK l \in {"output", "shutdown"} :
        /\ pc' = [pc EXCEPT ![a] = l]
        /\ l = "shutdown" => out[a].len = 0 /\ delivered' = delivered
        /\ l = "output" => out[a].len # 0
  BY DEF SendWindow, Goto
<1>6. pc'[a] = l /\ \A b \in Acts : b # a => pc'[b] = pc[b]
  BY <1>2, <1>5
<1>7. \A b \in Acts : Window(b)' = Window(b)
  BY <1>3, WindowSame
<1>8. /\ delivered' \in [Acts -> Seq(Bytes)]
      /\ \A b \in Acts : b # a => delivered'[b] = delivered[b]
      /\ l = "output" => Len(delivered'[a]) = Len(delivered[a]) + Window(a)
  <2>1. CASE l = "shutdown"
    BY <1>2, <1>5, <2>1
  <2>2. CASE l = "output"
    BY <1>5, <2>2, Delivers
  <2> QED
    BY <2>1, <2>2
<1>9. TypeOK'
  <2>1. pc' \in [Acts -> InSend \cup {"new", "open", "next", "done", "reset"}]
    BY <1>2, <1>5 DEF Labels, InSend
  <2> QED
    BY <1>1, <1>3, <1>8, <2>1 DEF TypeOK, BufSame
<1>10. WaitingOK'
  <2> SUFFICES ASSUME NEW b \in Acts PROVE WaitingOf(b)'
    BY DEF WaitingOK
  <2>1. CASE b # a
    BY <1>1, <1>3, <1>6, <2>1, WaitingFrame DEF WaitingOK
  <2>2. CASE b = a
    BY <1>1, <1>3, <1>5, <1>6, <2>2 DEF WaitingOK, WaitingOf, Waits
  <2> QED
    BY <2>1, <2>2
<1>11. SentOK'
  <2> SUFFICES ASSUME NEW d \in Conns PROVE SentOf(d)'
    BY DEF SentOK
  <2>0. d \in Acts /\ recv' = recv /\ before' = before
    BY <1>3 DEF Acts, BufSame
  <2>1. CASE d # a
    BY <1>1, <1>3, <1>6, <1>7, <1>8, <2>0, <2>1, SentFrame DEF SentOK
  <2>2. CASE d = a
    <3>1. Len(delivered[a]) = out[a].sent /\ out[a].sent + out[a].len < BUFSIZE
      BY <1>1, <1>3, <2>2 DEF SentOK, SentOf, Doing, InSend
    <3>2. CASE l = "shutdown"
      BY <1>3, <1>4, <1>5, <1>6, <2>2, <3>1, <3>2 DEF SentOf, Doing, InSend
    <3>3. CASE l = "output"
      BY <1>3, <1>4, <1>5, <1>6, <1>7, <1>8, <2>2, <3>1, <3>3 DEF SentOf, Doing, InSend
    <3> QED
      BY <3>2, <3>3
  <2> QED
    BY <2>1, <2>2
<1> QED
  BY <1>9, <1>10, <1>11 DEF ControlOK

LEMMA FinishControl ==
  ASSUME ControlOK, NEW a \in Acts, Finish(a)
  PROVE  ControlOK'
<1>1. TypeOK /\ WaitingOK /\ SentOK
  BY DEF ControlOK
<1>2. pc \in [Acts -> Labels] /\ out \in [Acts -> Outs]
  BY <1>1, Typed
<1>3. /\ pc[a] = "shutdown" /\ out' = [out EXCEPT ![a] = NoConnection]
      /\ buffer_' = buffer_ /\ recv' = recv /\ mixed' = mixed /\ overlap' = overlap
      /\ before' = before
      /\ halted' = halted /\ ready' = ready /\ mainLeft' = mainLeft
      /\ delivered' = delivered
  BY DEF Finish
<1>4. PICK l \in {"next", "done"} :
        pc' = [pc EXCEPT ![a] = l] /\ (l = "next" => a = Main)
  BY DEF Finish, Goto
<1>5. pc'[a] = l /\ \A b \in Acts : b # a => pc'[b] = pc[b]
  BY <1>2, <1>4
<1>6. /\ out' \in [Acts -> Outs] /\ out'[a].state = "NONE"
      /\ \A b \in Acts : b # a => out'[b] = out[b]
  <2>1. NoConnection \in Outs
    BY DEF NoConnection, Outs, States
  <2>2. NoConnection.state = "NONE"
    BY DEF NoConnection
  <2> QED
    BY <1>2, <1>3, <2>1, <2>2
<1>7. \A b \in Acts : b # a => Window(b)' = Window(b)
  BY <1>6, WindowSame
<1>8. /\ aborted' \in {aborted, aborted \ {a}} /\ core' \in {core, NoAct}
      /\ bufLen_' \in {bufLen_, 0} /\ dirty' \subseteq dirty
  BY DEF Finish
<1>9. TypeOK'
  <2>1. pc' \in [Acts -> InSend \cup {"new", "open", "next", "done", "reset"}]
    BY <1>2, <1>4 DEF Labels
  <2>2. bufLen_' \in 0 .. BUFSIZE - 1
    <3>1. bufLen_ \in 0 .. BUFSIZE - 1
      BY <1>1 DEF TypeOK
    <3>2. 0 \in 0 .. BUFSIZE - 1
      BY SizesAssumption
    <3> QED
      BY <1>8, <3>1, <3>2
  <2>3. aborted' \subseteq Acts /\ core' \in Acts \cup {NoAct} /\ dirty' \subseteq Conns
    BY <1>1, <1>8 DEF TypeOK
  <2> QED
    BY <1>1, <1>3, <1>6, <2>1, <2>2, <2>3 DEF TypeOK, Outs, States
<1>10. WaitingOK'
  <2> SUFFICES ASSUME NEW b \in Acts PROVE WaitingOf(b)'
    BY DEF WaitingOK
  <2>1. CASE b # a
    BY <1>1, <1>3, <1>5, <1>6, <1>8, <2>1, WaitingFrame DEF WaitingOK
  <2>2. CASE b = a
    BY <1>1, <1>3, <1>4, <1>5, <1>6, <2>2 DEF WaitingOK, WaitingOf, Waits
  <2> QED
    BY <2>1, <2>2
<1>11. SentOK'
  <2> SUFFICES ASSUME NEW d \in Conns PROVE SentOf(d)'
    BY DEF SentOK
  <2>0. d \in Acts /\ d # Main
    BY ActsAssumption DEF Acts
  <2>1. CASE d # a
    BY <1>1, <1>3, <1>5, <1>6, <1>7, <1>8, <2>0, <2>1, SentFrame DEF SentOK
  <2>2. CASE d = a
    BY <1>4, <1>5, <2>0, <2>2 DEF SentOf, Doing, InSend
  <2> QED
    BY <2>1, <2>2
<1> QED
  BY <1>9, <1>10, <1>11 DEF ControlOK
----------------------------------------------------------------------------
(* The bytes.  Most steps of a send change nothing that a statement about   *)
(* bytes mentions.                                                          *)
Quiet ==
  /\ BufSame
  /\ \A c \in Conns :
       /\ delivered'[c] = delivered[c]
       /\ pc'[c] = pc[c] \/ (pc[c] \in InSend /\ pc'[c] \in InSend)
       /\ out'[c].sent + out'[c].len = out[c].sent + out[c].len
       /\ c \in aborted => c \in aborted'

(* A byte of the buffer keeps its owner while no client leaves but by a     *)
(* reset.                                                                   *)
LEMMA OwnedFrame ==
  ASSUME NEW p, Real(p), Owned(p), buffer_'[p] = buffer_[p],
         \A c \in Conns : Served(c) \/ pc[c] = "reset" => (Served(c) \/ pc[c] = "reset")'
  PROVE  Owned(p)'
<1>1. PICK d \in Conns : d = buffer_[p][1]
  BY DEF Real
<1>2. (Served(d) \/ pc[d] = "reset")'
  BY <1>1 DEF Owned
<1>3. d = buffer_'[p][1]
  BY <1>1
<1> QED
  BY <1>2, <1>3 DEF Owned, Served

(* What a step leaves alone of a client, and of those that reset.            *)
LEMMA IntactFrame ==
  ASSUME NEW c \in Conns, Intact(c),
         delivered'[c] = delivered[c], before'[c] = before[c], recv'[c] = recv[c],
         pc'[c] = "done" => pc[c] = "done",
         c \in aborted => c \in aborted', c \in dirty => c \in dirty',
         \A d \in Conns : pc[d] = "reset" => pc'[d] = "reset"
  PROVE  Intact(c)'
<1>1. CommandLen(c)' = CommandLen(c) /\ \A i : CommandByte(c, i)' = CommandByte(c, i)
  BY DEF CommandLen, CommandByte
<1>2. (c \notin dirty => \A i \in 1 .. Len(before[c]) :
         before[c][i][1] \in {d \in Conns : pc[d] = "reset"})'
  BY DEF Intact
<1> QED
  BY <1>1, <1>2 DEF Intact

LEMMA QuietData ==
  ASSUME DataOK, Quiet
  PROVE  DataOK'
<1>1. /\ RealOK /\ NoJunkSent /\ AloneOK /\ CommandIntact
      /\ PendingOK /\ NothingLostAlone
  BY DEF DataOK
<1>2. /\ buffer_' = buffer_ /\ bufLen_' = bufLen_ /\ recv' = recv /\ mixed' = mixed
      /\ overlap' = overlap /\ before' = before /\ dirty' = dirty /\ halted' = halted
  BY DEF Quiet, BufSame
<1>3. \A c \in Conns : /\ Doing(c)' <=> Doing(c)
                       /\ Served(c)' <=> Served(c)
                       /\ (pc'[c] = "open") <=> (pc[c] = "open")
                       /\ (pc'[c] = "done") <=> (pc[c] = "done")
                       /\ (pc'[c] = "reset") <=> (pc[c] = "reset")
                       /\ ToSend(c)' = ToSend(c)
                       /\ CommandLen(c)' = CommandLen(c)
                       /\ c \in aborted => c \in aborted'
                       /\ delivered'[c] = delivered[c]
  BY <1>2 DEF Quiet, Doing, Served, ToSend, InSend, CommandLen
<1>4. \A p : Real(p)' <=> Real(p)
  BY <1>2 DEF Real
<1>5. \A p : Real(p) /\ Owned(p) => Owned(p)'
  BY <1>2, <1>3, OwnedFrame
<1>6. RealOK'
  BY <1>1, <1>2, <1>3, <1>4, <1>5 DEF RealOK
<1>7. NoJunkSent'
  BY <1>1, <1>2, <1>3 DEF NoJunkSent
<1>8. AloneOK'
  <2> SUFFICES ASSUME NEW c \in Conns \ mixed', Served(c)' PROVE AloneOf(c)'
    BY DEF AloneOK
  <2>1. AloneOf(c)
    BY <1>1, <1>2, <1>3 DEF AloneOK
  <2>2. \A i : CommandByte(c, i)' = CommandByte(c, i)
    BY <1>2 DEF CommandByte
  <2> QED
    BY <1>2, <1>3, <2>1, <2>2 DEF AloneOf
<1>9. CommandIntact'
  BY <1>1, <1>2, <1>3, IntactFrame DEF CommandIntact
<1>10. \A b : (Delivered(b)' <=> Delivered(b)) /\ (Pending(b)' <=> Pending(b))
  BY <1>2, <1>3 DEF Delivered, Pending
<1>11. aborted' \cap Conns = {} => aborted \cap Conns = {}
  BY <1>3
<1>12. PendingOK'
  BY <1>1, <1>2, <1>10, <1>11 DEF PendingOK
<1>13. NothingLostAlone'
  BY <1>1, <1>2, <1>3, <1>10, <1>11 DEF NothingLostAlone
<1> QED
  BY <1>6, <1>7, <1>8, <1>9, <1>12, <1>13 DEF DataOK

LEMMA QuietSteps ==
  ASSUME ControlOK, NEW a \in Acts,
         \/ BlockOnConnect(a) \/ BlockOnSend(a) \/ Connected(a) \/ Freed(a)
         \/ Abort(a) \/ Resume(a)
  PROVE  Quiet
<1>1. TypeOK /\ pc \in [Acts -> Labels] /\ Conns \subseteq Acts
  BY Typed DEF ControlOK, Acts
<1>2. CASE BlockOnConnect(a) \/ BlockOnSend(a)
  <2>1. BufSame /\ delivered' = delivered /\ aborted' = aborted
    BY <1>2, BufVarsSame DEF BlockOnConnect, BlockOnSend
  <2>2. PICK l \in Waits : SaveContext(a, l) /\ pc[a] \in {"connect", "output"}
    BY <1>2 DEF BlockOnConnect, BlockOnSend, Waits
  <2>3. \A b \in Acts : out'[b].len = out[b].len /\ out'[b].sent = out[b].sent
    <3>1. "BLOCKED" \in States
      BY DEF States
    <3> QED
      BY <1>1, <2>2, <3>1, SetState DEF SaveContext
  <2>4. pc'[a] \in InSend /\ pc[a] \in InSend /\ \A b \in Acts : b # a => pc'[b] = pc[b]
    BY <1>1, <2>2 DEF SaveContext, Goto, Waits, InSend
  <2> QED
    BY <1>1, <2>1, <2>3, <2>4 DEF Quiet
<1>3. CASE Connected(a) \/ Freed(a) \/ Abort(a)
  <2>1. BufSame /\ delivered' = delivered /\ aborted \subseteq aborted' /\ pc' = pc
    BY <1>3, BufVarsSame DEF Connected, Freed, Abort
  <2>2. out' = out \/ \E s \in {"SUCCESS", "ERROR"} : out' = [out EXCEPT ![a].state = s]
    BY <1>3 DEF Connected, Freed, Abort, Activate
  <2>3. \A b \in Acts : out'[b].len = out[b].len /\ out'[b].sent = out[b].sent
    <3>1. {"SUCCESS", "ERROR"} \subseteq States
      BY DEF States
    <3>2. ASSUME NEW s \in States, out' = [out EXCEPT ![a].state = s]
          PROVE  \A b \in Acts : out'[b].len = out[b].len /\ out'[b].sent = out[b].sent
      BY <1>1, <3>2, SetState
    <3> QED
      BY <2>2, <3>1, <3>2
  <2> QED
    BY <1>1, <2>1, <2>3 DEF Quiet
<1>4. CASE Resume(a)
  <2>1. BufSame /\ delivered' = delivered /\ aborted' = aborted
    BY <1>4, BufVarsSame DEF Resume
  <2>2. pc[a] \in Waits
    BY <1>4 DEF ControlOK, WaitingOK, WaitingOf, Resume
  <2>3. PICK l \in {"window", "shutdown"} : pc' = [pc EXCEPT ![a] = l]
    BY <1>4 DEF Resume, Goto
  <2>4. pc'[a] \in InSend /\ pc[a] \in InSend /\ \A b \in Acts : b # a => pc'[b] = pc[b]
    BY <1>1, <2>2, <2>3 DEF Waits, InSend
  <2>5. \A b \in Acts : out'[b].sent + out'[b].len = out[b].sent + out[b].len
    <3>1. CASE out' = out
      BY <3>1
    <3>2. CASE out' = [out EXCEPT ![a].sent = @ + Window(a), ![a].len = @ - Window(a)]
      <4>1. out'[a].sent + out'[a].len = out[a].sent + out[a].len
        <5>1. /\ out[a].len \in Nat /\ out[a].sent \in Nat
              /\ Window(a) \in Nat /\ Window(a) <= out[a].len
          BY <1>1, OutFields
        <5>2. /\ out'[a].sent = out[a].sent + Window(a)
              /\ out'[a].len = out[a].len - Window(a)
          BY <1>1, <3>2, Advance
        <5> QED
          BY <5>1, <5>2
      <4>2. \A b \in Acts : b # a => out'[b] = out[b]
        BY <1>1, <3>2, Advance
      <4> QED
        BY <4>1, <4>2
    <3> QED
      BY <1>4, <3>1, <3>2 DEF Resume
  <2> QED
    BY <1>1, <2>1, <2>4, <2>5 DEF Quiet
<1> QED
  BY <1>2, <1>3, <1>4

LEMMA QuietAppMain ==
  ASSUME ControlOK, AppMain
  PROVE  Quiet
<1>1. /\ TypeOK /\ pc \in [Acts -> Labels] /\ Conns \subseteq Acts
      /\ Main \in Acts /\ Main \notin Conns
  BY Typed, ActsAssumption DEF ControlOK, Acts
<1>2. BufSame /\ delivered' = delivered /\ aborted' = aborted
  BY BufVarsSame DEF AppMain
<1>3. PICK l \in {"connect", "done"} : pc' = [pc EXCEPT ![Main] = l]
  BY DEF AppMain, Goto, Connect
<1>4. \A b \in Conns : out'[b] = out[b]
  <2>1. CASE Connect(Main, 1)
    BY <1>1, <2>1, NewOut
  <2>2. CASE out' = out
    BY <2>2
  <2> QED
    BY <2>1, <2>2 DEF AppMain
<1>5. \A b \in Conns : pc'[b] = pc[b]
  BY <1>1, <1>3
<1> QED
  BY <1>2, <1>4, <1>5 DEF Quiet

LEMMA AcceptData ==
  ASSUME ControlOK, DataOK, NEW c \in Conns, Accept(c)
  PROVE  DataOK'
<1>1. /\ RealOK /\ NoJunkSent /\ AloneOK /\ CommandIntact
      /\ PendingOK /\ NothingLostAlone
  BY DEF DataOK
<1>2. /\ buffer_' = buffer_ /\ bufLen_' = bufLen_ /\ recv' = recv
      /\ overlap' = overlap /\ dirty' = dirty /\ halted' = halted /\ out' = out
      /\ delivered' = delivered /\ aborted' = aborted
      /\ pc[c] = "new" /\ pc' = [pc EXCEPT ![c] = "open"]
  BY DEF Accept, Goto
<1>3. /\ pc'[c] = "open" /\ pc[c] = "new" /\ recv[c] = 0 /\ delivered[c] = << >>
      /\ \A d \in Conns : d # c => pc'[d] = pc[d]
  BY <1>2, Typed DEF ControlOK, SentOK, SentOf, Acts
<1>4. /\ ~Served(c) /\ Served(c)' /\ ~Doing(c)'
      /\ \A d \in Conns : d # c => (Served(d)' <=> Served(d))
      /\ \A d \in Conns : Doing(d)' <=> Doing(d)
      /\ \A d \in Conns : (pc'[d] = "done") <=> (pc[d] = "done")
      /\ \A d \in Conns : (pc'[d] = "reset") <=> (pc[d] = "reset")
      /\ \A d \in Conns : ToSend(d)' = ToSend(d)
  <2>1. ~Served(c) /\ Served(c)' /\ ~Doing(c)'
    BY <1>3 DEF Doing, Served, InSend
  <2>2. \A d \in Conns : d # c => (Served(d)' <=> Served(d))
    BY <1>3 DEF Served
  <2>3. \A d \in Conns : Doing(d)' <=> Doing(d)
    <3> SUFFICES ASSUME NEW d \in Conns PROVE Doing(d)' <=> Doing(d)
      OBVIOUS
    <3> QED
      BY <1>3 DEF Doing, InSend
  <2>4. \A d \in Conns : /\ (pc'[d] = "done") <=> (pc[d] = "done")
                         /\ (pc'[d] = "reset") <=> (pc[d] = "reset")
    BY <1>3
  <2>5. \A d \in Conns : ToSend(d)' = ToSend(d)
    BY <1>2 DEF ToSend
  <2> QED
    BY <2>1, <2>2, <2>3, <2>4, <2>5
<1>5. /\ mixed \subseteq mixed'
      /\ \/ \A d \in Conns : ~Served(d)
         \/ c \in mixed' /\ \A d \in Conns : Served(d) => d \in mixed'
  BY DEF Accept, Served
<1>6. \A p : Real(p)' <=> Real(p)
  BY <1>2 DEF Real
<1>7. RealOK'
  <2>1. \A p : Real(p) /\ Owned(p) => Owned(p)'
    BY <1>2, <1>4, OwnedFrame
  <2> QED
    BY <1>1, <1>2, <1>4, <1>6, <2>1 DEF RealOK
<1>8. NoJunkSent'
  BY <1>1, <1>2 DEF NoJunkSent
<1>9. /\ Len(before'[c]) = bufLen_ /\ bufLen_ \in Nat
      /\ \A i \in 1 .. bufLen_ : before'[c][i] = buffer_[i]
      /\ \A d \in Conns : d # c => before'[d] = before[d]
  BY Typed, FrontTyped, SizesAssumption DEF ControlOK, Accept
<1>10. AloneOK'
  <2> SUFFICES ASSUME NEW d \in Conns \ mixed', Served(d)' PROVE AloneOf(d)'
    BY DEF AloneOK
  <2>1. d = c /\ \A e \in Conns : ~Served(e)
    BY <1>4, <1>5
  <2>2. CommandLen(c)' = bufLen_
    BY <1>2, <1>3, <1>9 DEF CommandLen
  <2>3. \A i \in 1 .. bufLen_ : CommandByte(c, i)' = buffer_[i]
    BY <1>9 DEF CommandByte
  <2> QED
    BY <1>2, <1>4, <2>1, <2>2, <2>3 DEF AloneOf
<1>11. CommandIntact'
  <2> SUFFICES ASSUME NEW d \in Conns \ mixed' PROVE Intact(d)'
    BY DEF CommandIntact
  <2>1. CASE d # c
    BY <1>1, <1>2, <1>4, <1>5, <1>9, <2>1, IntactFrame DEF CommandIntact
  <2>2. CASE d = c
    <3>1. \A e \in Conns : ~Served(e)
      BY <1>5, <2>2
    <3>2. ASSUME c \notin dirty, NEW i \in 1 .. bufLen_
          PROVE  before'[c][i][1] \in {e \in Conns : pc'[e] = "reset"}
      <4>1. Real(i) /\ Owned(i)
        BY <1>1, <3>2 DEF RealOK
      <4>2. buffer_[i][1] \in Conns /\ pc[buffer_[i][1]] = "reset"
        BY <3>1, <4>1 DEF Real, Owned
      <4> QED
        BY <1>4, <1>9, <3>2, <4>2
    <3>3. Len(delivered'[c]) = 0 /\ pc'[c] # "done" /\ CommandLen(c)' = bufLen_
      BY <1>2, <1>3, <1>9, EmptySeq DEF CommandLen
    <3> QED
      BY <1>2, <1>9, <2>2, <3>2, <3>3 DEF Intact
  <2> QED
    BY <2>1, <2>2
<1>12. \A b : (Delivered(b)' <=> Delivered(b)) /\ (Pending(b)' <=> Pending(b))
  BY <1>2, <1>4 DEF Delivered, Pending
<1>13. PendingOK'
  BY <1>1, <1>2, <1>12 DEF PendingOK
<1>14. NothingLostAlone'
  BY <1>1, <1>2, <1>4, <1>12 DEF NothingLostAlone
<1> QED
  BY <1>7, <1>8, <1>10, <1>11, <1>13, <1>14 DEF DataOK

(* A client that resets leaves its bytes where they are.                    *)
LEMMA InAbortData ==
  ASSUME ControlOK, DataOK, NEW c \in Conns, InAbort(c)
  PROVE  DataOK'
<1>1. /\ RealOK /\ NoJunkSent /\ AloneOK /\ CommandIntact
      /\ PendingOK /\ NothingLostAlone
  BY DEF DataOK
<1>2. /\ buffer_' = buffer_ /\ bufLen_' = bufLen_ /\ recv' = recv /\ mixed' = mixed
      /\ overlap' = overlap /\ before' = before /\ dirty' = dirty /\ halted' = halted
      /\ out' = out /\ delivered' = delivered /\ aborted' = aborted
      /\ pc[c] = "open" /\ pc' = [pc EXCEPT ![c] = "reset"]
  BY DEF InAbort, Goto, bufVars
<1>3. pc'[c] = "reset" /\ \A d \in Conns : d # c => pc'[d] = pc[d]
  BY <1>2, Typed DEF ControlOK, Acts
<1>4. /\ \A d \in Conns : Doing(d)' <=> Doing(d)
      /\ \A d \in Conns : (pc'[d] = "done") <=> (pc[d] = "done")
      /\ \A d \in Conns : pc[d] = "reset" => pc'[d] = "reset"
      /\ \A d \in Conns : Served(d)' => Served(d) /\ d # c /\ pc'[d] = pc[d]
      /\ \A d \in Conns : Served(d) => Served(d)' \/ pc'[d] = "reset"
      /\ \A d \in Conns : ToSend(d)' = ToSend(d)
  <2> SUFFICES ASSUME NEW d \in Conns
               PROVE  /\ Doing(d)' <=> Doing(d)
                      /\ (pc'[d] = "done") <=> (pc[d] = "done")
                      /\ pc[d] = "reset" => pc'[d] = "reset"
                      /\ Served(d)' => Served(d) /\ d # c /\ pc'[d] = pc[d]
                      /\ Served(d) => Served(d)' \/ pc'[d] = "reset"
                      /\ ToSend(d)' = ToSend(d)
    OBVIOUS
  <2> QED
    BY <1>2, <1>3 DEF Doing, Served, ToSend, InSend
<1>5. \A p : Real(p)' <=> Real(p)
  BY <1>2 DEF Real
<1>6. \A p : Real(p) /\ Owned(p) => Owned(p)'
  BY <1>2, <1>4, OwnedFrame
<1>7. RealOK'
  BY <1>1, <1>2, <1>4, <1>5, <1>6 DEF RealOK
<1>8. NoJunkSent'
  BY <1>1, <1>2 DEF NoJunkSent
<1>9. AloneOK'
  <2> SUFFICES ASSUME NEW d \in Conns \ mixed', Served(d)' PROVE AloneOf(d)'
    BY DEF AloneOK
  <2>1. AloneOf(d) /\ Served(d) /\ d # c
    BY <1>1, <1>2, <1>4 DEF AloneOK
  <2>2. Served(c)
    BY <1>2 DEF Served
  <2> QED
    BY <2>1, <2>2 DEF AloneOf
<1>10. CommandIntact'
  BY <1>1, <1>2, <1>4, IntactFrame DEF CommandIntact
<1>11. \A b : (Delivered(b)' <=> Delivered(b)) /\ (Pending(b)' <=> Pending(b))
  BY <1>2, <1>4 DEF Delivered, Pending
<1>12. PendingOK'
  BY <1>1, <1>2, <1>11 DEF PendingOK
<1>13. NothingLostAlone'
  BY <1>1, <1>2, <1>4, <1>11 DEF NothingLostAlone
<1> QED
  BY <1>7, <1>8, <1>9, <1>10, <1>12, <1>13 DEF DataOK

(* What Buffer does to each place of the buffer.                            *)
LEMMA Buffered ==
  ASSUME ControlOK, NEW c \in Conns, NEW n \in Nat, Buffer(c, n)
  PROVE  /\ Fits(n) =>
              /\ halted' = halted /\ bufLen_' = bufLen_ + n /\ bufLen_ + n < BUFSIZE
              /\ \A p \in 1 .. bufLen_ : buffer_'[p] = buffer_[p]
              /\ \A k \in 1 .. n : buffer_'[bufLen_ + k] = <<c, recv[c] + k>>
              /\ \A p \in 1 .. BUFSIZE :
                   \/ buffer_'[p] = buffer_[p]
                   \/ \E k \in 1 .. n : buffer_'[p] = <<c, recv[c] + k>>
         /\ ~Fits(n) => halted' = TRUE /\ buffer_' = buffer_ /\ bufLen_' = bufLen_
<1>1. ASSUME Fits(n)
      PROVE  /\ halted' = halted /\ bufLen_' = bufLen_ + n /\ bufLen_ + n < BUFSIZE
             /\ \A p \in 1 .. bufLen_ : buffer_'[p] = buffer_[p]
             /\ \A k \in 1 .. n : buffer_'[bufLen_ + k] = <<c, recv[c] + k>>
             /\ \A p \in 1 .. BUFSIZE :
                  \/ buffer_'[p] = buffer_[p]
                  \/ \E k \in 1 .. n : buffer_'[p] = <<c, recv[c] + k>>
  <2>1. bufLen_ \in 0 .. BUFSIZE - 1 /\ recv[c] \in Nat
    BY Typed DEF ControlOK
  <2>2. bufLen_ + n \in 0 .. BUFSIZE - 1
    BY <1>1, <2>1, FitsBound
  <2>3. bufLen_ \in Nat /\ BUFSIZE \in Nat /\ bufLen_ + n < BUFSIZE
    BY <2>1, <2>2, SizesAssumption
  <2>4. /\ buffer_' = [i \in 1 .. BUFSIZE |->
                        IF i \in bufLen_ + 1 .. bufLen_ + n
                          THEN <<c, recv[c] + i - bufLen_>> ELSE buffer_[i]]
        /\ bufLen_' = bufLen_ + n /\ halted' = halted
    BY <1>1 DEF Buffer
  <2>5. ASSUME NEW p \in 1 .. bufLen_ PROVE buffer_'[p] = buffer_[p]
    <3>1. p \in 1 .. BUFSIZE /\ p \notin bufLen_ + 1 .. bufLen_ + n
      BY <2>3
    <3> QED
      BY <2>4, <3>1
  <2>6. ASSUME NEW k \in 1 .. n PROVE buffer_'[bufLen_ + k] = <<c, recv[c] + k>>
    <3>1. bufLen_ + k \in 1 .. BUFSIZE /\ bufLen_ + k \in bufLen_ + 1 .. bufLen_ + n
      BY <2>3
    <3>2. recv[c] + (bufLen_ + k) - bufLen_ = recv[c] + k
      BY <2>1, <2>3
    <3> QED
      BY <2>4, <3>1, <3>2
  <2>7. ASSUME NEW p \in 1 .. BUFSIZE
        PROVE  \/ buffer_'[p] = buffer_[p]
               \/ \E k \in 1 .. n : buffer_'[p] = <<c, recv[c] + k>>
    <3>1. CASE p \in bufLen_ + 1 .. bufLen_ + n
      <4>1. p - bufLen_ \in 1 .. n /\ bufLen_ + (p - bufLen_) = p
        BY <2>3, <3>1
      <4> QED
        BY <2>6, <4>1
    <3>2. CASE p \notin bufLen_ + 1 .. bufLen_ + n
      BY <2>4, <3>2
    <3> QED
      BY <3>1, <3>2
  <2> QED
    BY <2>3, <2>4, <2>5, <2>6, <2>7
<1>2. ASSUME ~Fits(n)
      PROVE  halted' = TRUE /\ buffer_' = buffer_ /\ bufLen_' = bufLen_
  BY <1>2 DEF Buffer
<1> QED
  BY <1>1, <1>2

LEMMA InReceiveData ==
  ASSUME ControlOK, DataOK, NEW c \in Conns, InReceive(c)
  PROVE  DataOK'
<1>1. /\ RealOK /\ NoJunkSent /\ AloneOK /\ CommandIntact
      /\ PendingOK /\ NothingLostAlone
  BY DEF DataOK
<1>2. /\ pc' = pc /\ pc[c] = "open" /\ mixed' = mixed /\ before' = before /\ dirty' = dirty /\ out' = out
      /\ delivered' = delivered /\ aborted' = aborted
  BY DEF InReceive
<1>3. PICK n \in 1 .. MaxBytes - recv[c] :
        /\ Buffer(c, n)
        /\ recv' = [recv EXCEPT ![c] = @ + n]
        /\ overlap' = IF \E d \in Conns : Doing(d)
                        THEN overlap \cup {<<c, recv[c] + i>> : i \in 1 .. n}
                        ELSE overlap
  BY DEF InReceive
<1>4. /\ recv \in [Conns -> 0 .. MaxBytes] /\ recv[c] \in Nat /\ recv[c] <= MaxBytes
      /\ MaxBytes \in Nat /\ bufLen_ \in Nat /\ BUFSIZE \in Nat /\ bufLen_ < BUFSIZE
  <2>1. /\ recv \in [Conns -> 0 .. MaxBytes] /\ recv[c] \in Nat /\ recv[c] <= MaxBytes
        /\ bufLen_ \in 0 .. BUFSIZE - 1
    BY Typed DEF ControlOK
  <2>2. MaxBytes \in Nat /\ BUFSIZE \in Nat
    BY SizesAssumption
  <2> QED
    BY <2>1, <2>2
<1>5. n \in Nat /\ n > 0
  BY <1>3, <1>4
<1>6. \A d \in Conns : recv[d] \in Nat
  BY Typed DEF ControlOK
<1>7. /\ recv'[c] = recv[c] + n
      /\ \A d \in Conns : d # c => recv'[d] = recv[d]
      /\ \A d \in Conns : recv'[d] \in Nat /\ recv[d] <= recv'[d]
  <2>1. recv'[c] = recv[c] + n /\ \A d \in Conns : d # c => recv'[d] = recv[d]
    BY <1>3, <1>4
  <2>2. recv[c] + n \in Nat /\ recv[c] <= recv[c] + n
    BY <1>4, <1>5
  <2> QED
    BY <1>6, <2>1, <2>2
<1>8. \A d \in Conns : /\ Doing(d)' <=> Doing(d)
                       /\ Served(d)' <=> Served(d)
                       /\ ToSend(d)' = ToSend(d)
  BY <1>2 DEF Doing, Served, ToSend
<1>9. ~Doing(c) /\ Served(c)
  BY <1>2 DEF Doing, Served, InSend
<1>10. /\ Fits(n) =>
              /\ halted' = halted /\ bufLen_' = bufLen_ + n /\ bufLen_ + n < BUFSIZE
              /\ \A p \in 1 .. bufLen_ : buffer_'[p] = buffer_[p]
              /\ \A k \in 1 .. n : buffer_'[bufLen_ + k] = <<c, recv[c] + k>>
              /\ \A p \in 1 .. BUFSIZE :
                   \/ buffer_'[p] = buffer_[p]
                   \/ \E k \in 1 .. n : buffer_'[p] = <<c, recv[c] + k>>
       /\ ~Fits(n) => halted' = TRUE /\ buffer_' = buffer_ /\ bufLen_' = bufLen_
  BY <1>3, <1>5, Buffered
<1>11. ASSUME NEW p, NEW k \in 1 .. n, buffer_'[p] = <<c, recv[c] + k>>
       PROVE  Real(p)'
  <2>1. recv[c] + k \in 1 .. recv'[c]
    BY <1>4, <1>5, <1>7
  <2> QED
    BY <1>11, <2>1 DEF Real
<1>12. ASSUME NEW p, buffer_'[p] = buffer_[p], Real(p)
       PROVE  Real(p)'
  <2>1. PICK d \in Conns : d = buffer_[p][1] /\ buffer_[p][2] \in 1 .. recv[d]
    BY <1>12 DEF Real
  <2>2. buffer_[p][2] \in 1 .. recv'[d]
    BY <1>6, <1>7, <2>1
  <2> QED
    BY <1>12, <2>1, <2>2 DEF Real
<1>13. ASSUME NEW p \in 1 .. BUFSIZE, Real(p)
       PROVE  Real(p)' /\ (Owned(p) => Owned(p)')
  <2>1. CASE buffer_'[p] = buffer_[p]
    BY <1>2, <1>8, <1>12, <1>13, <2>1, OwnedFrame
  <2>2. CASE \E k \in 1 .. n : buffer_'[p] = <<c, recv[c] + k>>
    BY <1>2, <1>8, <1>9, <1>11, <2>2 DEF Owned
  <2> QED
    BY <1>10, <2>1, <2>2
<1>14. RealOK'
  <2>1. ASSUME dirty' # Conns, NEW p \in 1 .. bufLen_' PROVE Real(p)' /\ Owned(p)'
    <3>1. CASE p \in 1 .. bufLen_
      <4>1. p \in 1 .. BUFSIZE /\ Real(p) /\ Owned(p)
        BY <1>1, <1>2, <1>4, <2>1, <3>1 DEF RealOK
      <4> QED
        BY <1>13, <4>1
    <3>2. CASE p \notin 1 .. bufLen_
      <4>1. Fits(n) /\ bufLen_' = bufLen_ + n
        BY <1>10, <2>1, <3>2
      <4>2. p - bufLen_ \in 1 .. n /\ bufLen_ + (p - bufLen_) = p
        BY <1>4, <1>5, <2>1, <3>2, <4>1
      <4>3. buffer_'[p] = <<c, recv[c] + (p - bufLen_)>>
        BY <1>10, <4>1, <4>2
      <4>4. Owned(p)'
        BY <1>8, <1>9, <4>3 DEF Owned
      <4> QED
        BY <1>11, <4>2, <4>3, <4>4
    <3> QED
      BY <3>1, <3>2
  <2>2. ASSUME NEW d \in Conns \ dirty', Doing(d)', NEW p \in 1 .. ToSend(d)'
        PROVE  Real(p)'
    <3>1. Doing(d) /\ d \in Conns \ dirty /\ ToSend(d)' = ToSend(d) /\ p \in 1 .. ToSend(d)
      BY <1>2, <1>8, <2>2
    <3>2. d \in Acts /\ ToSend(d) < BUFSIZE
      BY <3>1 DEF ControlOK, SentOK, SentOf, ToSend, Acts
    <3>3. ToSend(d) \in Nat
      BY <3>2, OutFields DEF ControlOK, ToSend
    <3>4. p \in 1 .. BUFSIZE
      BY <1>4, <3>1, <3>2, <3>3
    <3>5. Real(p)
      BY <1>1, <3>1 DEF RealOK
    <3> QED
      BY <1>13, <3>4, <3>5
  <2> QED
    BY <2>1, <2>2 DEF RealOK
<1>15. NoJunkSent'
  <2> SUFFICES ASSUME NEW d \in Conns \ dirty, NEW i \in 1 .. Len(delivered[d])
               PROVE  /\ delivered[d][i][1] \in Conns
                      /\ delivered[d][i][2] \in 1 .. recv'[delivered[d][i][1]]
    BY <1>2 DEF NoJunkSent
  <2>1. PICK e \in Conns : e = delivered[d][i][1] /\ delivered[d][i][2] \in 1 .. recv[e]
    BY <1>1 DEF NoJunkSent
  <2>2. delivered[d][i][2] \in 1 .. recv'[e]
    BY <1>6, <1>7, <2>1
  <2> QED
    BY <2>1, <2>2
<1>16. AloneOK'
  <2> SUFFICES ASSUME NEW d \in Conns \ mixed', Served(d)' PROVE AloneOf(d)'
    BY DEF AloneOK
  <2>1. AloneOf(d) /\ d \in Conns
    BY <1>1, <1>2, <1>8 DEF AloneOK
  <2>2. d = c
    BY <1>9, <2>1 DEF AloneOf
  <2>3. \A e \in Conns \ {c} : ~Served(e)'
    BY <1>8, <2>1, <2>2 DEF AloneOf
  <2>4. /\ CommandLen(c) \in Nat /\ CommandLen(c)' = CommandLen(c) + n
        /\ Len(before[c]) \in Nat
    <3>1. Len(before[c]) \in Nat
      BY Typed DEF ControlOK
    <3>2. CommandLen(c) = Len(before[c]) + recv[c]
      BY DEF CommandLen
    <3>3. CommandLen(c)' = Len(before[c]) + (recv[c] + n)
      BY <1>2, <1>7 DEF CommandLen
    <3> QED
      BY <1>4, <1>5, <3>1, <3>2, <3>3
  <2>5. ASSUME ~halted'
        PROVE  /\ bufLen_' = CommandLen(c)'
               /\ \A i \in 1 .. CommandLen(c)' : buffer_'[i] = CommandByte(c, i)'
    <3>1. Fits(n) /\ ~halted
      BY <1>10, <2>5
    <3>2. bufLen_ = CommandLen(c) /\ \A i \in 1 .. bufLen_ : buffer_[i] = CommandByte(c, i)
      BY <1>2, <2>1, <2>2, <3>1 DEF AloneOf
    <3>3. ASSUME NEW i \in 1 .. bufLen_ + n PROVE buffer_'[i] = CommandByte(c, i)'
      <4>1. CASE i \in 1 .. bufLen_
        BY <1>2, <1>10, <3>1, <3>2, <4>1 DEF CommandByte
      <4>2. CASE i \notin 1 .. bufLen_
        <5> DEFINE k == i - bufLen_
        <5>1. k \in 1 .. n /\ bufLen_ + k = i
          BY <1>4, <1>5, <4>2
        <5>2. buffer_'[i] = <<c, recv[c] + k>>
          BY <1>10, <3>1, <5>1
        <5>3. ~(i <= Len(before[c])) /\ recv[c] + k = i - Len(before[c])
          <6>1. bufLen_ = Len(before[c]) + recv[c]
            BY <3>2 DEF CommandLen
          <6>2. \A f, q, m \in Nat : m > 0 =>
                  ~(f + q + m <= f) /\ q + m = (f + q + m) - f
            OBVIOUS
          <6>3. k \in Nat /\ k > 0 /\ i = Len(before[c]) + recv[c] + k
            BY <1>5, <5>1, <6>1
          <6> HIDE DEF k
          <6> QED
            BY <1>4, <2>4, <6>2, <6>3
        <5> HIDE DEF k
        <5> QED
          BY <1>2, <5>2, <5>3 DEF CommandByte
      <4> QED
        BY <4>1, <4>2
    <3> QED
      BY <1>10, <2>4, <3>1, <3>2, <3>3
  <2>6. ~Doing(c)'
    BY <1>8, <1>9
  <2> QED
    BY <2>2, <2>3, <2>5, <2>6 DEF AloneOf
<1>18. CommandIntact'
  <2> SUFFICES ASSUME NEW d \in Conns \ mixed PROVE Intact(d)'
    BY <1>2 DEF CommandIntact
  <2>1. Intact(d)
    BY <1>1 DEF CommandIntact
  <2>2. CASE d # c
    BY <1>2, <1>7, <2>1, <2>2, IntactFrame
  <2>3. CASE d = c
    <3>1. Len(delivered[c]) = 0
      BY <1>2, EmptySeq DEF ControlOK, SentOK, SentOf
    <3>2. CommandLen(c)' \in Nat
      BY <1>2, <1>7, Typed DEF ControlOK, CommandLen
    <3> QED
      BY <1>2, <2>1, <2>3, <3>1, <3>2 DEF Intact
  <2> QED
    BY <2>2, <2>3
<1>19. \A b : Delivered(b)' <=> Delivered(b)
  BY <1>2 DEF Delivered
<1>20. overlap \subseteq overlap'
  BY <1>3
<1>21. PendingOK'
  <2> SUFFICES ASSUME ~halted', aborted \cap Conns = {},
                      NEW d \in Conns, NEW i \in 1 .. recv'[d],
                      <<d, i>> \notin overlap', ~Delivered(<<d, i>>)
               PROVE  Pending(<<d, i>>)'
    BY <1>2, <1>19 DEF PendingOK
  <2>1. Fits(n) /\ ~halted
    BY <1>10
  <2>2. bufLen_' = bufLen_ + n
    BY <1>10, <2>1
  <2>3. CASE i \in 1 .. recv[d]
    <3>1. Pending(<<d, i>>)
      BY <1>1, <1>20, <2>1, <2>3 DEF PendingOK
    <3>2. PICK j \in 1 .. bufLen_ :
            /\ buffer_[j] = <<d, i>>
            /\ \A a \in Conns : Doing(a) => Len(delivered[a]) < j /\ j <= ToSend(a)
      BY <3>1 DEF Pending
    <3>3. j \in 1 .. bufLen_' /\ buffer_'[j] = <<d, i>>
      BY <1>4, <1>5, <1>10, <2>1, <2>2, <3>2
    <3> QED
      BY <1>2, <1>8, <3>2, <3>3 DEF Pending
  <2>4. CASE i \notin 1 .. recv[d]
    <3>1. d = c
      BY <1>7, <2>4
    <3>2. i - recv[c] \in 1 .. n /\ recv[c] + (i - recv[c]) = i
      BY <1>4, <1>5, <1>7, <2>4, <3>1
    <3>3. \A e \in Conns : ~Doing(e)
      BY <1>3, <3>1, <3>2
    <3>4. buffer_'[bufLen_ + (i - recv[c])] = <<c, i>>
      BY <1>10, <2>1, <3>2
    <3>5. bufLen_ + (i - recv[c]) \in 1 .. bufLen_'
      BY <1>4, <1>5, <2>2, <3>2
    <3>6. \A e \in Conns : ~Doing(e)'
      BY <1>8, <3>3
    <3> QED
      BY <3>1, <3>4, <3>5, <3>6 DEF Pending
  <2> QED
    BY <2>3, <2>4
<1>22. NothingLostAlone'
  <2>1. \A d \in Conns : pc[d] = "done" => recv'[d] = recv[d]
    BY <1>2, <1>7
  <2> QED
    BY <1>1, <1>2, <1>19, <1>20, <2>1 DEF NothingLostAlone
<1> QED
  BY <1>14, <1>15, <1>16, <1>18, <1>21, <1>22 DEF DataOK
LEMMA InCloseData ==
  ASSUME ControlOK, DataOK, NEW c \in Conns, InClose(c)
  PROVE  DataOK'
<1>1. /\ RealOK /\ NoJunkSent /\ AloneOK /\ CommandIntact
      /\ PendingOK /\ NothingLostAlone
  BY DEF DataOK
<1>2. /\ buffer_' = buffer_ /\ bufLen_' = bufLen_ /\ recv' = recv /\ mixed' = mixed
      /\ overlap' = overlap /\ before' = before /\ dirty' = dirty /\ halted' = halted
      /\ delivered' = delivered /\ aborted' = aborted
  BY DEF InClose, bufVars
<1>3. TypeOK /\ c \in Acts /\ pc[c] = "open" /\ Connect(c, bufLen_) /\ bufLen_ \in Nat
  BY Typed, SizesAssumption DEF ControlOK, Acts, InClose
<1>4. /\ out'[c].len = bufLen_ /\ out'[c].sent = 0
      /\ \A d \in Acts : d # c => out'[d] = out[d]
      /\ pc' = [pc EXCEPT ![c] = "connect"]
  BY <1>3, NewOut
<1>5. pc'[c] = "connect" /\ \A d \in Conns : d # c => pc'[d] = pc[d]
  BY <1>3, <1>4, Typed DEF Acts
<1>6. ToSend(c)' = bufLen_
  BY <1>3, <1>4 DEF ToSend
<1>7. \A d \in Conns : d # c => ToSend(d)' = ToSend(d) /\ (Doing(d)' <=> Doing(d))
  BY <1>4, <1>5 DEF Acts, ToSend, Doing
<1>8. \A d \in Conns : /\ Served(d)' <=> Served(d)
                       /\ pc'[d] = "open" => pc[d] = "open"
                       /\ (pc'[d] = "done") <=> (pc[d] = "done")
                       /\ (pc'[d] = "reset") <=> (pc[d] = "reset")
  BY <1>3, <1>5 DEF Served
<1>9. Len(delivered[c]) = 0
  BY <1>3, EmptySeq DEF ControlOK, SentOK, SentOf
<1>10. \A p : Real(p)' <=> Real(p)
  BY <1>2 DEF Real
<1>11. RealOK'
  <2>0. \A p : Real(p) /\ Owned(p) => Owned(p)'
    BY <1>2, <1>8, OwnedFrame
  <2>1. dirty' # Conns => \A p \in 1 .. bufLen_' : Real(p)' /\ Owned(p)'
    BY <1>1, <1>2, <1>10, <2>0 DEF RealOK
  <2>2. ASSUME NEW d \in Conns \ dirty', Doing(d)' PROVE \A p \in 1 .. ToSend(d)' : Real(p)'
    <3>1. CASE d = c
      <4>1. dirty' # Conns
        BY <2>2
      <4> QED
        BY <1>2, <1>6, <2>1, <3>1, <4>1
    <3>2. CASE d # c
      BY <1>1, <1>2, <1>7, <1>10, <2>2, <3>2 DEF RealOK
    <3> QED
      BY <3>1, <3>2
  <2> QED
    BY <2>1, <2>2 DEF RealOK
<1>12. NoJunkSent'
  BY <1>1, <1>2 DEF NoJunkSent
<1>13. AloneOK'
  <2> SUFFICES ASSUME NEW d \in Conns \ mixed', Served(d)' PROVE AloneOf(d)'
    BY DEF AloneOK
  <2>1. AloneOf(d)
    BY <1>1, <1>2, <1>8 DEF AloneOK
  <2>2. Served(c)
    BY <1>3 DEF Served
  <2>3. d = c
    BY <2>1, <2>2 DEF AloneOf
  <2>4. pc'[c] # "open"
    BY <1>5
  <2>5. CommandLen(c)' = CommandLen(c) /\ \A i : CommandByte(c, i)' = CommandByte(c, i)
    BY <1>2 DEF CommandLen, CommandByte
  <2> QED
    BY <1>2, <1>3, <1>6, <1>8, <2>1, <2>3, <2>4, <2>5 DEF AloneOf
<1>15. CommandIntact'
  BY <1>1, <1>2, <1>8, IntactFrame DEF CommandIntact
<1>16. \A b : Delivered(b)' <=> Delivered(b)
  BY <1>2 DEF Delivered
<1>17. ASSUME NEW b, Pending(b) PROVE Pending(b)'
  <2>1. PICK j \in 1 .. bufLen_ :
          /\ buffer_[j] = b
          /\ \A a \in Conns : Doing(a) => Len(delivered[a]) < j /\ j <= ToSend(a)
    BY <1>17 DEF Pending
  <2>2. Len(delivered[c]) < j /\ j <= ToSend(c)'
    BY <1>3, <1>6, <1>9, <2>1
  <2>3. ASSUME NEW a \in Conns, Doing(a)'
        PROVE  Len(delivered'[a]) < j /\ j <= ToSend(a)'
    <3>1. CASE a = c
      BY <1>2, <2>2, <3>1
    <3>2. CASE a # c
      BY <1>2, <1>7, <2>1, <2>3, <3>2
    <3> QED
      BY <3>1, <3>2
  <2> QED
    BY <1>2, <2>1, <2>3 DEF Pending
<1>18. PendingOK'
  BY <1>1, <1>2, <1>16, <1>17 DEF PendingOK
<1>19. NothingLostAlone'
  BY <1>1, <1>2, <1>8, <1>16 DEF NothingLostAlone
<1> QED
  BY <1>11, <1>12, <1>13, <1>15, <1>18, <1>19 DEF DataOK

LEMMA QuietSends ==
  ASSUME ControlOK, NEW a \in Acts, SendWindow(a), a = Main \/ out[a].len = 0
  PROVE  Quiet
<1>1. pc \in [Acts -> Labels] /\ Conns \subseteq Acts /\ Main \notin Conns
  BY Typed, ActsAssumption DEF ControlOK, Acts
<1>2. BufSame /\ out' = out /\ aborted' = aborted /\ pc[a] = "window"
  BY BufVarsSame DEF SendWindow
<1>3. PICK l \in {"output", "shutdown"} : pc' = [pc EXCEPT ![a] = l]
  BY DEF SendWindow, Goto
<1>4. pc'[a] \in InSend /\ pc[a] \in InSend /\ \A b \in Acts : b # a => pc'[b] = pc[b]
  BY <1>1, <1>2, <1>3 DEF InSend
<1>5. \A c \in Conns : delivered'[c] = delivered[c]
  <2>1. CASE out[a].len = 0
    BY <2>1 DEF SendWindow
  <2>2. CASE out[a].len # 0
    BY <1>1, <2>2, Delivers
  <2> QED
    BY <2>1, <2>2
<1> QED
  BY <1>1, <1>2, <1>4, <1>5 DEF Quiet

LEMMA SendWindowData ==
  ASSUME ControlOK, DataOK, ~halted, NEW a \in Conns, SendWindow(a), out[a].len # 0
  PROVE  DataOK'
<1> DEFINE n == Len(delivered[a])
<1>1. /\ RealOK /\ NoJunkSent /\ AloneOK /\ CommandIntact
      /\ PendingOK /\ NothingLostAlone
  BY DEF DataOK
<1>2. /\ buffer_' = buffer_ /\ bufLen_' = bufLen_ /\ recv' = recv /\ mixed' = mixed
      /\ overlap' = overlap /\ before' = before /\ dirty' = dirty /\ halted' = halted
      /\ out' = out /\ aborted' = aborted
  BY DEF SendWindow, bufVars
<1>3. /\ TypeOK /\ a \in Acts /\ pc[a] = "window" /\ pc' = [pc EXCEPT ![a] = "output"]
      /\ pc \in [Acts -> Labels] /\ Conns \subseteq Acts /\ a # Main
  BY Typed, ActsAssumption DEF ControlOK, Acts, SendWindow, Goto
<1>4. /\ out[a].len \in Nat /\ out[a].sent \in Nat
      /\ Window(a) \in Nat /\ Window(a) <= out[a].len
  BY <1>3, OutFields
<1>5. n = out[a].sent /\ n + out[a].len = ToSend(a)
  BY <1>3, <1>4 DEF ControlOK, SentOK, SentOf, ToSend
<1>6. /\ \A b \in Acts : b # a => delivered'[b] = delivered[b]
      /\ Len(delivered'[a]) = n + Window(a)
      /\ \A i \in 1 .. n : delivered'[a][i] = delivered[a][i]
      /\ \A i \in n + 1 .. n + Window(a) :
           delivered'[a][i] = Byte(a, out[a].sent + (i - n))
  BY <1>3, Delivers
<1>7. \A i \in n + 1 .. n + Window(a) : delivered'[a][i] = buffer_[i]
  <2> SUFFICES ASSUME NEW i \in n + 1 .. n + Window(a) PROVE delivered'[a][i] = buffer_[i]
    OBVIOUS
  <2>1. delivered'[a][i] = Byte(a, out[a].sent + (i - n))
    BY <1>6
  <2>2. out[a].sent + (i - n) = i
    BY <1>4, <1>5
  <2> QED
    BY <1>3, <2>1, <2>2 DEF Byte
<1>8. \A c \in Conns : /\ Served(c)' <=> Served(c)
                       /\ Doing(c)' <=> Doing(c)
                       /\ (pc'[c] = "open") <=> (pc[c] = "open")
                       /\ (pc'[c] = "done") <=> (pc[c] = "done")
                       /\ (pc'[c] = "reset") <=> (pc[c] = "reset")
                       /\ ToSend(c)' = ToSend(c)
  <2>1. pc'[a] = "output" /\ \A c \in Conns : c # a => pc'[c] = pc[c]
    BY <1>3
  <2> QED
    BY <1>2, <1>3, <2>1 DEF Served, Doing, ToSend, InSend
<1>9. Doing(a) /\ Served(a) /\ pc[a] # "done"
  BY <1>3 DEF Doing, Served, InSend
<1>10. \A p : Real(p)' <=> Real(p)
  BY <1>2 DEF Real
<1>11. RealOK'
  <2>1. \A p : Real(p) /\ Owned(p) => Owned(p)'
    BY <1>2, <1>8, OwnedFrame
  <2> QED
    BY <1>1, <1>2, <1>8, <1>10, <2>1 DEF RealOK
<1>12. \A i \in n + 1 .. n + Window(a) : i \in 1 .. ToSend(a)
  BY <1>4, <1>5
<1>13. ASSUME NEW i \in 1 .. Len(delivered'[a]), i \notin 1 .. n
       PROVE  i \in n + 1 .. n + Window(a)
  BY <1>4, <1>5, <1>6, <1>13
<1>14. NoJunkSent'
  <2> SUFFICES ASSUME NEW c \in Conns \ dirty, NEW i \in 1 .. Len(delivered'[c])
               PROVE  /\ delivered'[c][i][1] \in Conns
                      /\ delivered'[c][i][2] \in 1 .. recv[delivered'[c][i][1]]
    BY <1>2 DEF NoJunkSent
  <2>1. CASE c # a
    BY <1>1, <1>3, <1>6, <2>1 DEF NoJunkSent
  <2>2. CASE c = a /\ i \in 1 .. n
    BY <1>1, <1>6, <2>2 DEF NoJunkSent
  <2>3. CASE c = a /\ i \notin 1 .. n
    <3>1. delivered'[a][i] = buffer_[i] /\ i \in 1 .. ToSend(a)
      BY <1>7, <1>12, <1>13, <2>3
    <3>2. Real(i)
      BY <1>1, <1>9, <2>3, <3>1 DEF RealOK
    <3> QED
      BY <2>3, <3>1, <3>2 DEF Real
  <2> QED
    BY <2>1, <2>2, <2>3
<1>15. \A c \in Conns : /\ CommandLen(c)' = CommandLen(c)
                        /\ \A i : CommandByte(c, i)' = CommandByte(c, i)
  BY <1>2 DEF CommandLen, CommandByte
<1>16. AloneOK'
  BY <1>1, <1>2, <1>8, <1>15 DEF AloneOK, AloneOf
<1>17. CommandIntact'
  <2> SUFFICES ASSUME NEW c \in Conns \ mixed PROVE Intact(c)'
    BY <1>2 DEF CommandIntact
  <2>0. Intact(c)
    BY <1>1 DEF CommandIntact
  <2>1. CASE c # a
    BY <1>2, <1>3, <1>6, <1>8, <2>0, <2>1, IntactFrame
  <2>2. CASE c = a
    <3>1. /\ ToSend(a) = CommandLen(a)
          /\ \A i \in 1 .. CommandLen(a) : buffer_[i] = CommandByte(a, i)
      BY <1>1, <1>9, <2>2 DEF AloneOK, AloneOf
    <3>2. Len(delivered'[a]) <= CommandLen(a)
      BY <1>4, <1>5, <1>6, <3>1
    <3>3. ASSUME NEW i \in 1 .. Len(delivered'[a])
          PROVE  delivered'[a][i] = CommandByte(a, i)
      <4>1. CASE i \in 1 .. n
        BY <1>6, <2>0, <2>2, <4>1 DEF Intact
      <4>2. CASE i \notin 1 .. n
        BY <1>7, <1>12, <1>13, <3>1, <4>2
      <4> QED
        BY <4>1, <4>2
    <3>4. (c \notin dirty => \A i \in 1 .. Len(before[c]) :
             before[c][i][1] \in {d \in Conns : pc[d] = "reset"})'
      BY <1>2, <1>8, <2>0 DEF Intact
    <3> QED
      BY <1>8, <1>9, <1>15, <2>2, <3>2, <3>3, <3>4 DEF Intact
  <2> QED
    BY <2>1, <2>2
<1>18. ASSUME NEW b, Delivered(b) PROVE Delivered(b)'
  <2>0. PICK c \in Conns : \E i \in 1 .. Len(delivered[c]) : delivered[c][i] = b
    BY <1>18 DEF Delivered
  <2>1. PICK i \in 1 .. Len(delivered[c]) : delivered[c][i] = b
    BY <2>0
  <2>2. CASE c # a
    BY <1>3, <1>6, <2>1, <2>2 DEF Delivered
  <2>3. CASE c = a
    <3>1. i \in 1 .. Len(delivered'[a]) /\ delivered'[a][i] = b
      BY <1>4, <1>5, <1>6, <2>1, <2>3
    <3> QED
      BY <3>1 DEF Delivered
  <2> QED
    BY <2>2, <2>3
<1>19. ASSUME NEW b, Pending(b) PROVE Delivered(b)' \/ Pending(b)'
  <2>1. PICK j \in 1 .. bufLen_ :
          /\ buffer_[j] = b
          /\ \A c \in Conns : Doing(c) => Len(delivered[c]) < j /\ j <= ToSend(c)
    BY <1>19 DEF Pending
  <2>2. n < j /\ j <= ToSend(a) /\ j \in Nat
    BY <1>3, <1>9, <2>1, Typed
  <2>3. CASE j <= n + Window(a)
    <3>1. j \in n + 1 .. n + Window(a)
      BY <1>4, <1>5, <2>2, <2>3
    <3>2. j \in 1 .. Len(delivered'[a])
      BY <1>4, <1>5, <1>6, <2>2, <2>3
    <3> QED
      BY <1>7, <2>1, <3>1, <3>2 DEF Delivered
  <2>4. CASE ~(j <= n + Window(a))
    <3>1. Len(delivered'[a]) < j
      BY <1>4, <1>5, <1>6, <2>2, <2>4
    <3>2. ASSUME NEW c \in Conns, Doing(c)'
          PROVE  Len(delivered'[c]) < j /\ j <= ToSend(c)'
      <4>1. Doing(c) /\ ToSend(c)' = ToSend(c)
        BY <1>8, <3>2
      <4> QED
        BY <1>3, <1>6, <2>1, <3>1, <4>1
    <3> QED
      BY <1>2, <2>1, <3>2 DEF Pending
  <2> QED
    BY <2>3, <2>4
<1>20. PendingOK'
  BY <1>1, <1>2, <1>18, <1>19 DEF PendingOK
<1>21. NothingLostAlone'
  BY <1>1, <1>2, <1>8, <1>18 DEF NothingLostAlone
<1> QED
  BY <1>11, <1>14, <1>15, <1>16, <1>17, <1>20, <1>21 DEF DataOK

LEMMA QuietFinish ==
  ASSUME ControlOK, Finish(Main)
  PROVE  Quiet
<1>1. /\ pc \in [Acts -> Labels] /\ Conns \subseteq Acts /\ Main \in Acts \ Conns
      /\ out \in [Acts -> Outs]
  BY Typed, ActsAssumption DEF ControlOK, Acts
<1>2. /\ BufSame /\ delivered' = delivered /\ aborted' = aborted \ {Main}
      /\ pc' = [pc EXCEPT ![Main] = "next"] /\ out' = [out EXCEPT ![Main] = NoConnection]
  BY DEF Finish, BufSame, Goto
<1>3. \A c \in Conns : pc'[c] = pc[c] /\ out'[c] = out[c]
  BY <1>1, <1>2
<1> QED
  BY <1>1, <1>2, <1>3 DEF Quiet

(* The end of a Do empties the buffer for everyone: whatever was still to   *)
(* be sent by the others has to have gone out by then.                      *)
LEMMA FinishData ==
  ASSUME ControlOK, DataOK, ~halted, NEW a \in Conns, Finish(a)
  PROVE  DataOK'
<1>1. /\ RealOK /\ NoJunkSent /\ AloneOK /\ CommandIntact
      /\ PendingOK /\ NothingLostAlone
  BY DEF DataOK
<1>2. /\ pc \in [Acts -> Labels] /\ Conns \subseteq Acts /\ a \in Acts /\ a # Main
      /\ out \in [Acts -> Outs]
  BY Typed, ActsAssumption DEF ControlOK, Acts
<1>3. /\ pc[a] = "shutdown" /\ out' = [out EXCEPT ![a] = NoConnection]
      /\ pc' = [pc EXCEPT ![a] = "done"] /\ bufLen_' = 0
      /\ dirty' = {c \in dirty : pc[c] \notin {"new", "open"}} /\ aborted' = aborted
      /\ buffer_' = buffer_ /\ recv' = recv /\ mixed' = mixed /\ overlap' = overlap
      /\ before' = before /\ halted' = halted /\ delivered' = delivered
  BY <1>2 DEF Finish, Goto
<1>4. /\ pc'[a] = "done"
      /\ \A c \in Conns : c # a => (pc'[c] = pc[c] /\ out'[c] = out[c])
  BY <1>2, <1>3
<1>5. /\ Doing(a) /\ ~Doing(a)' /\ Served(a) /\ ~Served(a)'
      /\ \A c \in Conns : c # a => /\ Doing(c)' <=> Doing(c)
                                  /\ Served(c)' <=> Served(c)
                                  /\ ToSend(c)' = ToSend(c)
  BY <1>3, <1>4 DEF Doing, Served, ToSend, InSend
<1>6. ASSUME NEW c \in Conns, c \in dirty, c \notin dirty'
      PROVE  c # a /\ pc[c] \in {"new", "open"} /\ Len(delivered[c]) = 0
  <2>1. pc[c] \in {"new", "open"}
    BY <1>3, <1>6
  <2>2. delivered[c] = << >>
    BY <2>1 DEF ControlOK, SentOK, SentOf
  <2> QED
    BY <1>3, <2>1, <2>2, EmptySeq
<1>7. \A p : Real(p)' <=> Real(p)
  BY <1>3 DEF Real
<1>8. RealOK'
  <2>1. \A p \in 1 .. bufLen_' : FALSE
    BY <1>3
  <2>2. ASSUME NEW c \in Conns \ dirty', Doing(c)' PROVE \A p \in 1 .. ToSend(c)' : Real(p)'
    <3>1. c # a /\ Doing(c) /\ ToSend(c)' = ToSend(c)
      <4>1. c # a
        BY <1>4, <2>2 DEF Doing, InSend
      <4> QED
        BY <1>4, <2>2, <4>1 DEF Doing, ToSend
    <3>2. c \notin dirty
      BY <1>6, <2>2, <3>1 DEF Doing, InSend
    <3> QED
      BY <1>1, <1>7, <3>1, <3>2 DEF RealOK
  <2> QED
    BY <2>1, <2>2 DEF RealOK
<1>9. NoJunkSent'
  <2> SUFFICES ASSUME NEW c \in Conns \ dirty', NEW i \in 1 .. Len(delivered[c])
               PROVE  /\ delivered[c][i][1] \in Conns
                      /\ delivered[c][i][2] \in 1 .. recv[delivered[c][i][1]]
    BY <1>3 DEF NoJunkSent
  <2>1. c \notin dirty
    BY <1>6
  <2> QED
    BY <1>1, <2>1 DEF NoJunkSent
<1>10. AloneOK'
  <2> SUFFICES ASSUME NEW c \in Conns \ mixed', Served(c)' PROVE FALSE
    BY DEF AloneOK
  <2>0. c # a
    BY <1>4 DEF Served
  <2>1. c # a /\ Served(c) /\ c \in Conns \ mixed
    BY <1>3, <1>4, <2>0 DEF Served
  <2> QED
    BY <1>1, <1>5, <2>1 DEF AloneOK, AloneOf
<1>11. /\ CommandLen(a)' = CommandLen(a)
       /\ \A i : CommandByte(a, i)' = CommandByte(a, i)
       /\ \A d \in Conns : pc[d] = "reset" => pc'[d] = "reset"
  BY <1>3, <1>4 DEF CommandLen, CommandByte
<1>12. CommandIntact'
  <2> SUFFICES ASSUME NEW c \in Conns \ mixed PROVE Intact(c)'
    BY <1>3 DEF CommandIntact
  <2>0. Intact(c)
    BY <1>1 DEF CommandIntact
  <2>1. CASE c \in dirty /\ c \notin dirty'
    <3>1. pc[c] = "new"
      <4>1. pc[c] # "open"
        <5>1. ASSUME pc[c] = "open" PROVE AloneOf(c)
          BY <1>1, <5>1 DEF AloneOK, Served
        <5> QED
          BY <1>5, <1>6, <2>1, <5>1 DEF AloneOf
      <4> QED
        BY <1>6, <2>1, <4>1
    <3>2. before[c] = << >> /\ delivered[c] = << >> /\ recv[c] = 0
      BY <3>1 DEF ControlOK, SentOK, SentOf
    <3>3. Len(before[c]) = 0 /\ Len(delivered[c]) = 0
      BY <3>2, EmptySeq
    <3>4. CommandLen(c)' = 0
      BY <1>3, <3>2, <3>3 DEF CommandLen
    <3>5. pc'[c] # "done"
      BY <1>4, <1>6, <2>1, <3>1
    <3> QED
      BY <1>3, <3>3, <3>4, <3>5 DEF Intact
  <2>2. CASE (c \in dirty => c \in dirty') /\ c # a
    BY <1>3, <1>4, <1>11, <2>0, <2>2, IntactFrame
  <2>3. CASE (c \in dirty => c \in dirty') /\ c = a
    <3>1. ToSend(a) = CommandLen(a)
      BY <1>1, <1>5, <2>3 DEF AloneOK, AloneOf
    <3>2. c \notin aborted => out[a].len = 0 /\ Len(delivered[a]) = out[a].sent
      BY <1>3, <2>3 DEF ControlOK, SentOK, SentOf
    <3>3. out[a].sent \in Nat
      BY <1>2, OutFields DEF ControlOK
    <3>4. c \notin aborted => Len(delivered[a]) = CommandLen(a)
      BY <3>1, <3>2, <3>3 DEF ToSend
    <3>5. (c \notin dirty => \A i \in 1 .. Len(before[c]) :
             before[c][i][1] \in {d \in Conns : pc[d] = "reset"})'
      BY <1>3, <1>11, <2>0, <2>3 DEF Intact
    <3> QED
      BY <1>3, <1>11, <2>0, <2>3, <3>4, <3>5 DEF Intact
  <2> QED
    BY <2>1, <2>2, <2>3
<1>13. \A b : Delivered(b)' <=> Delivered(b)
  BY <1>3 DEF Delivered
<1>14. ASSUME NEW b, aborted \cap Conns = {} PROVE ~Pending(b)
  <2>1. out[a].len = 0 /\ Len(delivered[a]) = out[a].sent /\ out[a].sent \in Nat
    BY <1>2, <1>3, <1>14, OutFields DEF ControlOK, SentOK, SentOf
  <2>2. Len(delivered[a]) = ToSend(a) /\ ToSend(a) \in Nat
    BY <2>1 DEF ToSend
  <2>3. SUFFICES ASSUME NEW j \in 1 .. bufLen_, Len(delivered[a]) < j, j <= ToSend(a)
                 PROVE  FALSE
    BY <1>5 DEF Pending
  <2> QED
    BY <2>2, <2>3
<1>15. ASSUME aborted \cap Conns = {}, NEW c \in Conns, NEW i \in 1 .. recv[c]
       PROVE  <<c, i>> \in overlap \/ Delivered(<<c, i>>)
  BY <1>1, <1>14, <1>15 DEF PendingOK
<1>16. PendingOK'
  BY <1>3, <1>13, <1>15 DEF PendingOK
<1>17. NothingLostAlone'
  BY <1>3, <1>13, <1>15 DEF NothingLostAlone
<1> QED
  BY <1>8, <1>9, <1>10, <1>12, <1>16, <1>17 DEF DataOK
----------------------------------------------------------------------------
LEMMA InitInv ==
  ASSUME Init
  PROVE  IInv
<1>1. /\ buffer_ = [i \in 1 .. BUFSIZE |-> Junk] /\ bufLen_ \in Uninitialised
      /\ dirty = (IF bufLen_ = 0 THEN {} ELSE Conns) /\ core = NoAct
      /\ pc = [a \in Acts |-> "new"] /\ out = [a \in Acts |-> NoConnection] /\ ready = {}
      /\ halted = FALSE /\ mainLeft = MainSends /\ recv = [c \in Conns |-> 0]
      /\ mixed = {} /\ overlap = {} /\ before = [c \in Conns |-> << >>]
      /\ delivered = [a \in Acts |-> << >>] /\ aborted = {}
  BY DEF Init
<1>2. Conns \subseteq Acts /\ \A a \in Acts : pc[a] = "new"
  BY <1>1 DEF Acts
<1>3. \A c \in Conns : recv[c] = 0 /\ before[c] = << >> /\ delivered[c] = << >> /\ ~Doing(c) /\ ~Served(c)
  BY <1>1, <1>2 DEF Doing, Served, InSend
<1>4. TypeOK
  <2>1. NoConnection \in [state : {"NONE", "BLOCKED", "SUCCESS", "ERROR"},
                          len : Nat, sent : Nat]
    BY DEF NoConnection
  <2>2. before \in [Conns -> Seq(Bytes)]
    BY <1>1, EmptySeq
  <2>3. buffer_ \in [1 .. BUFSIZE -> Bytes]
    BY <1>1 DEF Junk, Bytes
  <2>4. bufLen_ \in 0 .. BUFSIZE - 1
    BY <1>1, MemoryAssumption
  <2>5. mainLeft \in 0 .. MainSends /\ recv \in [Conns -> 0 .. MaxBytes]
    BY <1>1, SizesAssumption
  <2>6. delivered \in [Acts -> Seq(Bytes)]
    BY <1>1, EmptySeq
  <2> QED
    BY <1>1, <2>1, <2>2, <2>3, <2>4, <2>5, <2>6 DEF TypeOK
<1>5. WaitingOK
  <2>1. \A a \in Acts : out[a].state = "NONE"
    BY <1>1 DEF NoConnection
  <2> QED
    BY <1>1, <1>2, <2>1 DEF WaitingOK, WaitingOf, Waits
<1>6. SentOK
  BY <1>2, <1>3 DEF SentOK, SentOf
<1>7. RealOK
  <2>1. dirty # Conns => bufLen_ = 0
    BY <1>1
  <2> QED
    BY <1>3, <2>1 DEF RealOK
<1>8. \A c \in Conns : Len(delivered[c]) = 0 /\ Len(before[c]) = 0
  BY <1>3, EmptySeq
<1>9. NoJunkSent /\ CommandIntact
  <2>1. \A c \in Conns : CommandLen(c) = 0
    <3>1. \A c \in Conns : Len(before[c]) = 0 /\ recv[c] = 0
      BY <1>3, <1>8
    <3>2. \A c \in Conns : CommandLen(c) = 0 + 0
      BY <3>1, Zenon DEF CommandLen
    <3>3. 0 + 0 = 0
      OBVIOUS
    <3> QED
      BY <3>2, <3>3, Zenon
  <2> QED
    BY <1>2, <1>8, <2>1 DEF NoJunkSent, CommandIntact, Intact
<1>10. AloneOK
  BY <1>3 DEF AloneOK
<1>11. PendingOK /\ NothingLostAlone
  BY <1>2, <1>3 DEF PendingOK, NothingLostAlone
<1> QED
  BY <1>4, <1>5, <1>6, <1>7, <1>9, <1>10, <1>11 DEF IInv, ControlOK, DataOK

LEMMA NextInv ==
  ASSUME IInv, Next
  PROVE  IInv'
<1>1. ControlOK /\ DataOK /\ ~halted /\ Conns \subseteq Acts
  BY DEF IInv, Next, Acts
<1>2. ASSUME NEW c \in Conns, Accept(c) PROVE IInv'
  BY <1>1, <1>2, AcceptControl, AcceptData DEF IInv
<1>3. ASSUME NEW c \in Conns, InReceive(c) PROVE IInv'
  BY <1>1, <1>3, InReceiveControl, InReceiveData DEF IInv
<1>4. ASSUME NEW c \in Conns, InClose(c) PROVE IInv'
  BY <1>1, <1>4, InCloseControl, InCloseData DEF IInv
<1>14. ASSUME NEW c \in Conns, InAbort(c) PROVE IInv'
  BY <1>1, <1>14, InAbortControl, InAbortData DEF IInv
<1>5. CASE AppMain
  BY <1>1, <1>5, AppMainControl, QuietAppMain, QuietData DEF IInv
<1>6. ASSUME NEW a \in Acts, BlockOnConnect(a) PROVE IInv'
  BY <1>1, <1>6, BlockOnConnectControl, QuietSteps, QuietData DEF IInv
<1>7. ASSUME NEW a \in Acts, Resume(a) PROVE IInv'
  BY <1>1, <1>7, ResumeControl, QuietSteps, QuietData DEF IInv
<1>8. ASSUME NEW a \in Acts, SendWindow(a) PROVE IInv'
  <2>1. ControlOK'
    BY <1>1, <1>8, SendWindowControl
  <2>2. CASE a = Main \/ out[a].len = 0
    BY <1>1, <1>8, <2>1, <2>2, QuietSends, QuietData DEF IInv
  <2>3. CASE a # Main /\ out[a].len # 0
    BY <1>1, <1>8, <2>1, <2>3, SendWindowData DEF IInv, Acts
  <2> QED
    BY <2>2, <2>3
<1>9. ASSUME NEW a \in Acts, BlockOnSend(a) PROVE IInv'
  BY <1>1, <1>9, BlockOnSendControl, QuietSteps, QuietData DEF IInv
<1>10. ASSUME NEW a \in Acts, Finish(a) PROVE IInv'
  <2>1. ControlOK'
    BY <1>1, <1>10, FinishControl
  <2>2. CASE a = Main
    BY <1>1, <1>10, <2>1, <2>2, QuietFinish, QuietData DEF IInv
  <2>3. CASE a # Main
    BY <1>1, <1>10, <2>1, <2>3, FinishData DEF IInv, Acts
  <2> QED
    BY <2>2, <2>3
<1>11. ASSUME NEW a \in Acts, Connected(a) PROVE IInv'
  BY <1>1, <1>11, ConnectedControl, QuietSteps, QuietData DEF IInv
<1>12. ASSUME NEW a \in Acts, Abort(a) PROVE IInv'
  BY <1>1, <1>12, AbortControl, QuietSteps, QuietData DEF IInv
<1>13. ASSUME NEW a \in Acts, Freed(a) PROVE IInv'
  BY <1>1, <1>13, FreedControl, QuietSteps, QuietData DEF IInv
<1> QED
  BY <1>2, <1>3, <1>4, <1>5, <1>6, <1>7, <1>8, <1>9, <1>10, <1>11, <1>12, <1>13, <1>14 DEF Next, Step

LEMMA StutterInv ==
  ASSUME IInv, UNCHANGED vars
  PROVE  IInv'
<1>1. Quiet
  BY DEF vars, Quiet, BufSame
<1>2. /\ pc' = pc /\ out' = out /\ ready' = ready /\ aborted' = aborted
      /\ delivered' = delivered /\ recv' = recv /\ before' = before
  BY DEF vars
<1>3. TypeOK'
  BY DEF IInv, ControlOK, TypeOK, vars
<1>4. WaitingOK'
  BY <1>2 DEF IInv, ControlOK, WaitingOK, WaitingOf
<1>5. SentOK'
  BY <1>2 DEF IInv, ControlOK, SentOK, SentOf, Doing, Window
<1> QED
  BY <1>1, <1>3, <1>4, <1>5, QuietData DEF IInv, ControlOK

(* The inductive invariant holds in every reachable state.                  *)
THEOREM Invariance == Spec => []IInv
<1>1. Init => IInv
  BY InitInv
<1>2. IInv /\ [Next]_vars => IInv'
  BY NextInv, StutterInv
<1> QED
  BY <1>1, <1>2, PTL DEF Spec

(* Every variable stays in its type; bufLen_ never reaches BUFSIZE, because *)
(* of what Buffer asserts.                                                  *)
THEOREM TypeCorrect == Spec => []TypeOK
<1>1. IInv => TypeOK
  BY DEF IInv, ControlOK
<1> QED
  BY <1>1, Invariance, PTL

(* No event is activated but one that has saved its context and waits, and  *)
(* none is activated twice: what Connected asserts, and its counterpart for *)
(* the disposal of a window and for Abort.                                  *)
THEOREM ActivatedAlways == Spec => []ActivatedWhenBlocked
<1>1. IInv => ActivatedWhenBlocked
  BY DEF IInv, ControlOK, WaitingOK, WaitingOf, Waits, ActivatedWhenBlocked
<1> QED
  BY <1>1, Invariance, PTL

(* However many clients overlap in the one buffer, once the first Do has     *)
(* ended the front end gets nothing that no client sent.                    *)
THEOREM NoJunkAlways == Spec => []NoJunkSent
<1>1. IInv => NoJunkSent
  BY DEF IInv, DataOK
<1> QED
  BY <1>1, Invariance, PTL

(* Without aborts, a byte that came while no Do was in progress has reached *)
(* the front end when its client is done, whichever Do sent it.             *)
THEOREM NothingLostAlways == Spec => []NothingLostAlone
<1>1. IInv => NothingLostAlone
  BY DEF IInv, DataOK
<1> QED
  BY <1>1, Invariance, PTL

(* A client that no other overlapped: what lay in the buffer when it         *)
(* connected and then its own bytes reach the front end, in order and once,  *)
(* and all of them if its connection is not aborted; and once a Do has       *)
(* ended, what lay there was left by clients that reset.                     *)
THEOREM CommandIntactAlways == Spec => []CommandIntact
<1>1. IInv => CommandIntact
  BY DEF IInv, DataOK
<1> QED
  BY <1>1, Invariance, PTL
============================================================================
