------------------------------ MODULE CmdServer ------------------------------
(***************************************************************************)
(* The command server of a back-end node (cmdserver/src/baremetal).         *)
(*                                                                         *)
(* Clients connect, send bytes and close or reset.  Receive appends to ONE  *)
(* buffer that all connections share; Close runs Do, which sends the buffer *)
(* to the front end over a new OutConnection, blocking its event at the     *)
(* connect and after every window, and then empties the buffer.  AppMain    *)
(* sends two fixed messages the same way.                                  *)
(*                                                                         *)
(* An activity is an event that may block in Send: a client's Close, or     *)
(* AppMain (Main).  EbbRT runs the handlers of one core one at a time; only *)
(* SaveContext lets another run, and ActivateContext makes the saved one    *)
(* runnable again.                                                         *)
(***************************************************************************)
EXTENDS Naturals, Sequences

CONSTANTS
  Conns,       \* the client connections
  Main,        \* the activity of AppMain
  NoAct,       \* no activity
  BUFSIZE,     \* size of buffer_
  SENDWINDOWSIZE,
  Uninitialised, \* what the memory of a new CmdServer may hold in bufLen_
  MaxBytes,    \* the most a client sends
  MainSends    \* the Sends of AppMain, of one window each

ASSUME SizesAssumption ==
  /\ BUFSIZE \in Nat \ {0} /\ SENDWINDOWSIZE \in Nat \ {0}
  /\ MaxBytes \in Nat /\ MainSends \in Nat
ASSUME MemoryAssumption == Uninitialised \subseteq 0 .. BUFSIZE - 1
ASSUME ActsAssumption == Main \notin Conns /\ NoAct \notin Conns \cup {Main}

Acts == Conns \cup {Main}

VARIABLES
  buffer_,    \* the shared bytes; a byte is <<its sender, its number>>
  bufLen_,
  core,       \* the activity that owns the core, or NoAct
  pc,         \* pc[a]: where the activity is
  out,        \* out[a]: its OutConnection
  ready,      \* the activities whose context is activated
  halted,     \* Buffer's assertion failed and the node stopped
  mainLeft,   \* the Sends AppMain has yet to make
  \* environment and history
  recv,       \* recv[c]: how many bytes of c were received
  mixed,      \* the clients that were served while another was
  overlap,    \* the bytes received while some Do was in progress
  before,     \* before[c]: what lay in the buffer when c connected
  dirty,      \* the clients whose Do may send what lay in front of the first command
  delivered,  \* delivered[a]: the bytes a has given to its OutConnection
  aborted     \* the activities whose OutConnection the peer aborted

vars == <<buffer_, bufLen_, core, pc, out, ready, halted, mainLeft,
          recv, mixed, overlap, before, dirty, delivered, aborted>>
bufVars == <<buffer_, bufLen_, recv, mixed, overlap, before, dirty, halted>>

NoConnection == [state |-> "NONE", len |-> 0, sent |-> 0]

InSend == {"connect", "waitconnect", "window", "output", "waitsend", "shutdown"}

Junk == <<NoAct, 0>>

(* The constructor does not set bufLen_: it may claim bytes nobody sent.  A   *)
(* value beyond the buffer is left out: no statement about it is defined.     *)
Init ==
  /\ buffer_ = [i \in 1 .. BUFSIZE |-> Junk]
  /\ bufLen_ \in Uninitialised
  /\ dirty = IF bufLen_ = 0 THEN {} ELSE Conns
  /\ core = NoAct
  /\ pc = [a \in Acts |-> "new"]
  /\ out = [a \in Acts |-> NoConnection]
  /\ ready = {}
  /\ halted = FALSE
  /\ mainLeft = MainSends
  /\ recv = [c \in Conns |-> 0]
  /\ mixed = {}
  /\ overlap = {}
  /\ before = [c \in Conns |-> << >>]
  /\ delivered = [a \in Acts |-> << >>]
  /\ aborted = {}

Goto(a, label) == pc' = [pc EXCEPT ![a] = label]

Doing(c) == pc[c] \in InSend

Served(c) == pc[c] \notin {"new", "done", "reset"}

(* AppMain listens before its first Send.                                   *)
Listening == pc[Main] # "new"

----------------------------------------------------------------------------
(* Client connections                                                       *)

Accept(c) ==
  /\ pc[c] = "new"
  /\ core = NoAct
  /\ Listening
  /\ Goto(c, "open")
  /\ before' = [before EXCEPT ![c] = [i \in 1 .. bufLen_ |-> buffer_[i]]]
  /\ LET served == {d \in Conns : Served(d)}
     IN  mixed' = IF served = {} THEN mixed ELSE mixed \cup served \cup {c}
  /\ UNCHANGED <<buffer_, bufLen_, recv, overlap, dirty, halted, core, out, ready,
                 mainLeft, delivered, aborted>>

(* A seeded fault: nothing is asserted.                                     *)
Fits_Always(n) == TRUE

(* What Buffer asserts of a segment: n < BUFSIZE - bufLen_.  The subtraction *)
(* is on size_t and never wraps, as bufLen_ stays within the buffer.        *)
Fits(n) == bufLen_ + n < BUFSIZE

(* A seeded fault: the segment is copied over the start of the buffer.      *)
Buffer_AtStart(c, n) ==
  IF Fits(n)
    THEN /\ buffer_' = [i \in 1 .. BUFSIZE |->
                          IF i \in 1 .. n THEN <<c, recv[c] + i>> ELSE buffer_[i]]
         /\ bufLen_' = bufLen_ + n
         /\ UNCHANGED halted
    ELSE /\ halted' = TRUE
         /\ UNCHANGED <<buffer_, bufLen_>>

(* Buffer: appends the n bytes of a segment, or stops the node.             *)
Buffer(c, n) ==
  IF Fits(n)
    THEN /\ buffer_' = [i \in 1 .. BUFSIZE |->
                          IF i \in bufLen_ + 1 .. bufLen_ + n
                            THEN <<c, recv[c] + i - bufLen_>> ELSE buffer_[i]]
         /\ bufLen_' = bufLen_ + n
         /\ UNCHANGED halted
    ELSE /\ halted' = TRUE
         /\ UNCHANGED <<buffer_, bufLen_>>

InReceive(c) ==
  /\ pc[c] = "open"
  /\ core = NoAct
  /\ \E n \in 1 .. MaxBytes - recv[c] :
       /\ Buffer(c, n)
       /\ recv' = [recv EXCEPT ![c] = @ + n]
       /\ overlap' = IF \E d \in Conns : Doing(d)
                       THEN overlap \cup {<<c, recv[c] + i>> : i \in 1 .. n}
                       ELSE overlap
  /\ UNCHANGED <<mixed, before, dirty, core, pc, out, ready, mainLeft, delivered, aborted>>

(* InConnection::Abort, which does nothing: the client is gone, no Do runs   *)
(* for it, and what it sent stays in the buffer.  (After a Close it would   *)
(* change nothing either.)                                                  *)
InAbort(c) ==
  /\ pc[c] = "open"
  /\ core = NoAct
  /\ Goto(c, "reset")
  /\ UNCHANGED <<bufVars, core, out, ready, mainLeft, delivered, aborted>>

----------------------------------------------------------------------------
(* CmdServer::Send                                                          *)

(* The OutConnection is made and the connect issued; the port counter is    *)
(* left out.                                                                *)
Connect(a, len) ==
  /\ out' = [out EXCEPT ![a] = [state |-> "NONE", len |-> len, sent |-> 0]]
  /\ Goto(a, "connect")
  /\ core' = a

(* A seeded fault: Do empties the buffer before it sends it.                *)
InClose_EmptiesFirst(c) ==
  /\ pc[c] = "open"
  /\ core = NoAct
  /\ bufLen_' = 0
  /\ Connect(c, 0)
  /\ UNCHANGED <<buffer_, recv, mixed, overlap, before, dirty, halted, ready, mainLeft, delivered,
                 aborted>>

(* InConnection::Close: Do sends what is buffered now.                      *)
InClose(c) ==
  /\ pc[c] = "open"
  /\ core = NoAct
  /\ Connect(c, bufLen_)
  /\ UNCHANGED <<bufVars, ready, mainLeft, delivered, aborted>>

(* AppMain: StartListening, then its messages one after the other.          *)
AppMain ==
  /\ pc[Main] \in {"new", "next"}
  /\ core = IF pc[Main] = "new" THEN NoAct ELSE Main
  /\ IF mainLeft > 0
       THEN /\ mainLeft' = mainLeft - 1
            /\ Connect(Main, 1)
       ELSE /\ Goto(Main, "done")
            /\ core' = NoAct
            /\ UNCHANGED <<mainLeft, out>>
  /\ UNCHANGED <<bufVars, ready, delivered, aborted>>

(* A seeded fault: the event blocks before it has said so in state_.        *)
SaveContext_StateLate(a, label) ==
  /\ Goto(a, label)
  /\ core' = NoAct
  /\ UNCHANGED out

SaveContext(a, label) ==
  /\ out' = [out EXCEPT ![a].state = "BLOCKED"]
  /\ Goto(a, label)
  /\ core' = NoAct

BlockOnConnect(a) ==
  /\ pc[a] = "connect"
  /\ SaveContext(a, "waitconnect")
  /\ UNCHANGED <<bufVars, ready, mainLeft, delivered, aborted>>

Activate(a, state) ==
  /\ out' = [out EXCEPT ![a].state = state]
  /\ ready' = ready \cup {a}

(* OutConnection::Connected, which asserts that the event is blocked.       *)
Connected(a) ==
  /\ pc[a] = "waitconnect"
  /\ core = NoAct
  /\ a \notin aborted \cup ready
  /\ Activate(a, "SUCCESS")
  /\ UNCHANGED <<bufVars, core, pc, mainLeft, delivered, aborted>>

(* OutConnection::Abort: wakes a blocked event with ERROR; otherwise it     *)
(* leaves no trace.                                                         *)
Abort(a) ==
  /\ Doing(a)
  /\ core = NoAct
  /\ a \notin aborted
  /\ aborted' = aborted \cup {a}
  /\ IF out[a].state = "BLOCKED"
       THEN Activate(a, "ERROR")
       ELSE UNCHANGED <<out, ready>>
  /\ UNCHANGED <<bufVars, core, pc, mainLeft, delivered>>

(* The IOBuf of the window is acknowledged and freed: its disposal.  An     *)
(* aborted connection acknowledges nothing.                                 *)
Freed(a) ==
  /\ pc[a] = "waitsend"
  /\ core = NoAct
  /\ a \notin aborted
  /\ out[a].state = "BLOCKED"
  /\ Activate(a, "SUCCESS")
  /\ UNCHANGED <<bufVars, core, pc, mainLeft, delivered, aborted>>

(* The bytes of the next window.                                            *)
Window(a) == IF out[a].len > SENDWINDOWSIZE THEN SENDWINDOWSIZE ELSE out[a].len

(* A seeded fault: sent is not advanced, so the first window goes out again. *)
Resume_NoAdvance(a) ==
  /\ a \in ready
  /\ core = NoAct
  /\ ready' = ready \ {a}
  /\ core' = a
  /\ IF out[a].state # "SUCCESS"
       THEN Goto(a, "shutdown") /\ UNCHANGED out
       ELSE IF pc[a] = "waitconnect"
         THEN Goto(a, "window") /\ UNCHANGED out
         ELSE out' = [out EXCEPT ![a].len = @ - Window(a)] /\ Goto(a, "window")
  /\ UNCHANGED <<bufVars, mainLeft, delivered, aborted>>

(* The saved event continues: after a wait that failed Send gives up.       *)
Resume(a) ==
  /\ a \in ready
  /\ core = NoAct
  /\ ready' = ready \ {a}
  /\ core' = a
  /\ IF out[a].state # "SUCCESS"
       THEN Goto(a, "shutdown") /\ UNCHANGED out
       ELSE IF pc[a] = "waitconnect"
         THEN Goto(a, "window") /\ UNCHANGED out
         ELSE /\ out' = [out EXCEPT ![a].sent = @ + Window(a), ![a].len = @ - Window(a)]
              /\ Goto(a, "window")
  /\ UNCHANGED <<bufVars, mainLeft, delivered, aborted>>

Byte(a, i) == IF a = Main THEN <<Main, MainSends - mainLeft>> ELSE buffer_[i]

(* SendAndBlock's loop: the next window is read from where it lies, without *)
(* a copy, and put on the wire.                                             *)
SendWindow(a) ==
  /\ pc[a] = "window"
  /\ IF out[a].len = 0
       THEN Goto(a, "shutdown") /\ UNCHANGED delivered
       ELSE /\ delivered' = [delivered EXCEPT ![a] =
                               @ \o [i \in 1 .. Window(a) |-> Byte(a, out[a].sent + i)]]
            /\ Goto(a, "output")
  /\ UNCHANGED <<bufVars, core, out, ready, mainLeft, aborted>>

BlockOnSend(a) ==
  /\ pc[a] = "output"
  /\ SaveContext(a, "waitsend")
  /\ UNCHANGED <<bufVars, ready, mainLeft, delivered, aborted>>

(* Shutdown and delete of the OutConnection; then Do empties the buffer and *)
(* Close deletes the client's connection.                                   *)
Finish(a) ==
  /\ pc[a] = "shutdown"
  /\ out' = [out EXCEPT ![a] = NoConnection]
  /\ IF a = Main
       THEN Goto(a, "next") /\ aborted' = aborted \ {a} /\ UNCHANGED <<bufLen_, dirty, core>>
       ELSE /\ Goto(a, "done") /\ bufLen_' = 0 /\ core' = NoAct
            /\ dirty' = {c \in dirty : pc[c] \notin {"new", "open"}}
            /\ UNCHANGED aborted
  /\ UNCHANGED <<buffer_, recv, mixed, overlap, before, halted, ready, mainLeft, delivered>>

Step(a) ==
  BlockOnConnect(a) \/ Resume(a) \/ SendWindow(a) \/ BlockOnSend(a) \/ Finish(a)

Next ==
  /\ ~halted
  /\ \/ \E c \in Conns : Accept(c) \/ InReceive(c) \/ InClose(c) \/ InAbort(c)
     \/ AppMain
     \/ \E a \in Acts : Step(a) \/ Connected(a) \/ Abort(a) \/ Freed(a)

Spec == Init /\ [][Next]_vars

(* The event loop runs something while something is runnable, which counts  *)
(* the front end's TCP: it answers a connect and acknowledges a window       *)
(* unless it aborts the connection.  Nobody is favoured.                    *)
Progress == AppMain \/ \E a \in Acts : Step(a) \/ Connected(a) \/ Freed(a)

Fairness == WF_vars(~halted /\ Progress)

FairSpec == Spec /\ Fairness

----------------------------------------------------------------------------
Bytes == (Acts \cup {NoAct}) \X Nat

(* Every variable stays in its type; by the strict assertion of Buffer the   *)
(* last byte of the buffer is never filled.                                 *)
TypeOK ==
  /\ buffer_ \in [1 .. BUFSIZE -> Bytes]
  /\ bufLen_ \in 0 .. BUFSIZE - 1
  /\ core \in Acts \cup {NoAct}
  /\ pc \in [Acts -> InSend \cup {"new", "open", "next", "done", "reset"}]
  /\ out \in [Acts -> [state : {"NONE", "BLOCKED", "SUCCESS", "ERROR"},
                       len : Nat, sent : Nat]]
  /\ ready \subseteq Acts
  /\ halted \in BOOLEAN
  /\ mainLeft \in 0 .. MainSends
  /\ recv \in [Conns -> 0 .. MaxBytes]
  /\ mixed \subseteq Conns
  /\ overlap \subseteq Bytes
  /\ before \in [Conns -> Seq(Bytes)]
  /\ dirty \subseteq Conns
  /\ delivered \in [Acts -> Seq(Bytes)]
  /\ aborted \subseteq Acts

(* assert(len < (BUFSIZE - bufLen_)) in Buffer never fails.                 *)
SegmentsFit == ~halted

(* assert(state_ == BLOCKED) in Connected, and its counterpart for the      *)
(* other waits: an event is activated exactly when it has saved its context *)
(* and was told how the wait ended; nothing activates it twice.             *)
ActivatedWhenBlocked ==
  \A a \in Acts :
    /\ pc[a] \in {"waitconnect", "waitsend"} /\ a \notin ready => out[a].state = "BLOCKED"
    /\ a \in ready => /\ pc[a] \in {"waitconnect", "waitsend"}
                      /\ out[a].state \in {"SUCCESS", "ERROR"}

(* Only bytes some client sent reach the front end, never what the buffer   *)
(* happened to hold, although it is sent without a copy while others fill    *)
(* and empty it -- once the first Do has disposed of what bufLen_ claimed     *)
(* before the first command.                                                *)
NoJunkSent ==
  \A c \in Conns \ dirty : \A i \in 1 .. Len(delivered[c]) :
    /\ delivered[c][i][1] \in Conns
    /\ delivered[c][i][2] \in 1 .. recv[delivered[c][i][1]]

Delivered(b) ==
  \E a \in Conns : \E i \in 1 .. Len(delivered[a]) : delivered[a][i] = b

(* What the shared buffer does guarantee when clients overlap: a byte that  *)
(* arrived while no Do was in progress has been sent, by whichever Do, once *)
(* its client is done -- unless some connection was aborted.                *)
NothingLostAlone ==
  aborted \cap Conns = {} =>
    \A c \in Conns : pc[c] = "done" =>
      \A i \in 1 .. recv[c] : <<c, i>> \in overlap \/ Delivered(<<c, i>>)

(* What the front end expects of c: what lay in the buffer when c connected, *)
(* and then the bytes of c.                                                 *)
CommandLen(c) == Len(before[c]) + recv[c]
CommandByte(c, i) ==
  IF i <= Len(before[c]) THEN before[c][i] ELSE <<c, i - Len(before[c])>>

Intact(c) ==
  /\ Len(delivered[c]) <= CommandLen(c)
  /\ \A i \in 1 .. Len(delivered[c]) : delivered[c][i] = CommandByte(c, i)
  /\ pc[c] = "done" /\ c \notin aborted => Len(delivered[c]) = CommandLen(c)
  /\ c \notin dirty => \A i \in 1 .. Len(before[c]) :
       before[c][i][1] \in {d \in Conns : pc[d] = "reset"}

(* A client that was never served while another one was: the front end gets *)
(* a prefix of what lay in the buffer when it connected followed by its own *)
(* bytes, in order and once, and all of that if nothing aborted, whatever   *)
(* AppMain sends meanwhile.  Once a Do has ended, what lies there then was  *)
(* sent by clients that reset their connection instead of closing it:       *)
(* nothing is left over of one that closed.                                 *)
CommandIntact == \A c \in Conns \ mixed : Intact(c)

(* Every Do ends, however many run at once, except that of a connection the *)
(* peer aborted (an abort between an activation and its resumption is       *)
(* forgotten) or on a node that stopped: as there are finitely many clients *)
(* and messages, there comes a time from which nobody is left in a send.    *)
SendEnds == <>[](\A a \in Acts : ~Doing(a) \/ a \in aborted \/ halted)
============================================================================
