----------------------------- MODULE InputStream -----------------------------
(***************************************************************************)
(* UNIX::InputStream: reading a file descriptor of the hosted front end (FE) *)
(* as a stream of chunks, either from the front end itself or from a back   *)
(* end (BE) through START, DATA and STOP messages.                          *)
(*                                                                         *)
(* The FE reads into one buffer_ and lends it to the consumer in an IOBuf   *)
(* without a copy: the disposal of that IOBuf is what counts the bytes and  *)
(* starts the next read.  Locally the consumer drops the IOBuf when it      *)
(* returns; remotely the consumer is a relay that appends it to a DATA       *)
(* message, and it is dropped when the message has been written.            *)
(*                                                                         *)
(* Data is abstracted to chunks: one read returns one chunk, numbered by    *)
(* its place in the input; 0 stands for the null IOBuf that signals the end. *)
(***************************************************************************)
EXTENDS Naturals, Sequences

CONSTANTS
  Inputs   \* the descriptors and readers considered: see InputType

(* A regular file, or a terminal, pipe or socket; the chunks its descriptor  *)
(* yields; those a file's len_ amounts to; whether its                      *)
(* writer never closes it; the chunks that begin with '.'; whether the      *)
(* reader is on a back end; whether io_control(bytes_readable) may fail (it *)
(* does on /dev/null); how often the reader starts the stream.              *)
InputType == [kind : {"file", "stream"}, len : Nat, size : Nat, endless : BOOLEAN,
              dots : SUBSET Nat, remote : BOOLEAN, ctlMayFail : BOOLEAN, maxStarts : Nat]

(* len_ is the file's length when the stream was created.  A descriptor that *)
(* was dup'ed at an offset (standard input), or whose file has been cut      *)
(* since, yields less.  Out of the model: a file that grows under the        *)
(* reader, and a read that fails (its -1 is taken for a length: n is        *)
(* unsigned).                                                               *)
ASSUME InputsAssumption == Inputs \subseteq InputType /\ \A i \in Inputs : i.len <= i.size

(* The two tests that read start their stream once.  A front end could also *)
(* take a second start; on a back end it would overtake the first reading's  *)
(* DATA, and no statement below is made about that.                         *)
ASSUME RemoteOnceAssumption == \A i \in Inputs : i.remote => i.maxStarts <= 1

VARIABLES
  input, \* the descriptor and its reader
  fe,    \* the FE's representative and its descriptor
  app,   \* the reader: standardin_test or filein_test
  be,    \* doRead_ of the BE's representative
  outq,  \* DATA messages handed to the FE's Messenger and not yet written
  toBE,  \* written messages, in order
  toFE   \* START and STOP, in order

vars == <<input, fe, app, be, outq, toBE, toFE>>

IsFile == input.kind = "file"

Null == 0

Init ==
  /\ input \in Inputs
  /\ fe = [doRead |-> FALSE,  \* doRead_
           count |-> 0,       \* count_: chunks disposed of
           off |-> 0,         \* the descriptor's offset
           buffer |-> Null,   \* what buffer_ holds
           reads |-> 0,       \* reads outstanding: asio operations, Spawned events
           cancelled |-> 0,   \* asio operations to complete with an error
           avail |-> 0,       \* stream_data_msg_.avail, one for all messages
           crashed |-> FALSE]
  /\ app = [starts |-> 0, waiting |-> FALSE, got |-> << >>, ends |-> 0, late |-> FALSE]
  /\ be = FALSE
  /\ outq = << >>
  /\ toBE = << >>
  /\ toFE = << >>

----------------------------------------------------------------------------
(* InputStream's operations, as functions of the FE's state                 *)

AsyncReadSome(s) ==
  IF s.doRead /\ (~IsFile \/ s.count < input.size)
    THEN [s EXCEPT !.reads = @ + 1]
    ELSE s

(* A start of a stream that is being read is ignored.                       *)
AsyncReadStart(s) ==
  IF s.doRead THEN s ELSE AsyncReadSome([s EXCEPT !.doRead = TRUE])

(* A seeded fault: stopping does not cancel or clear anything.              *)
AsyncReadStop_KeepsReading(s) == s

(* Cancelled operations still complete, with an error; a Spawned read of a  *)
(* file cannot be cancelled.                                                *)
AsyncReadStop(s) ==
  IF ~s.doRead THEN s
  ELSE IF ~IsFile
         THEN [s EXCEPT !.doRead = FALSE, !.reads = 0, !.cancelled = @ + s.reads]
         ELSE [s EXCEPT !.doRead = FALSE]

(* The reader's lambda: the end of the stream, or a line of a terminal that *)
(* begins with '.', ends the test (its context is activated).               *)
Ends(d) == d = Null \/ (~IsFile /\ d \in input.dots)

AppConsume(a, d) ==
  LET b == IF d = Null THEN a ELSE [a EXCEPT !.got = Append(@, d)]
  IN  IF ~a.waiting THEN [b EXCEPT !.late = TRUE]
      ELSE IF Ends(d) THEN [b EXCEPT !.waiting = FALSE, !.ends = @ + 1]
      ELSE b

----------------------------------------------------------------------------
(* The reader on the FE itself: the consumer, its async_read_stop and the    *)
(* disposal of the IOBuf happen in one handler.                             *)

LocalEnd(s, a) == [fe |-> AsyncReadStop(s), app |-> AppConsume(a, Null)]

(* A seeded fault: the end of a file is not signalled.                      *)
LocalDispose_NoEnd(s, a, n) ==
  [fe |-> AsyncReadSome([s EXCEPT !.count = @ + n]), app |-> a]

(* A seeded fault: the bytes are counted once too often.                    *)
LocalDispose_CountsMore(s, a, n) ==
  [fe |-> AsyncReadSome([s EXCEPT !.count = @ + n + 1]), app |-> a]

(* The disposal of an IOBuf of n chunks.  A file of which len_ has been read *)
(* signals the end; it must not have been signalled by then.                *)
LocalDispose(s, a, n) ==
  LET c == [s EXCEPT !.count = @ + n]
  IN  IF IsFile /\ c.count = input.size
        THEN LocalEnd(c, a)
        ELSE [fe |-> AsyncReadSome(c), app |-> a]

LocalData(s, a, d) ==
  LocalDispose(IF Ends(d) THEN AsyncReadStop(s) ELSE s, AppConsume(a, d), 1)

(* A seeded fault: the relay sends the message before it sets avail.        *)
RelayData_StaleAvail(s, d, avail) ==
  /\ fe' = s
  /\ outq' = Append(outq, d)

(* A seeded fault: the next read does not wait for the disposal.            *)
RelayData_ReadsAhead(s, d, avail) ==
  /\ fe' = AsyncReadSome([s EXCEPT !.avail = avail])
  /\ outq' = Append(outq, d)

----------------------------------------------------------------------------
(* The relay that START installs as the consumer on the FE.  It takes the    *)
(* length of the chain before it looks whether there is one: at the end of  *)
(* the stream it dereferences a null pointer.                               *)
RelayData(s, d, avail) ==
  /\ fe' = [s EXCEPT !.avail = avail]
  /\ outq' = Append(outq, d)

RelayEnd(s) ==
  /\ fe' = [s EXCEPT !.crashed = TRUE]
  /\ UNCHANGED outq

(* The disposal when the relay is the consumer.                             *)
RelayDispose(s, n) ==
  LET c == [s EXCEPT !.count = @ + n]
  IN  IF IsFile /\ c.count = input.size
        THEN [c EXCEPT !.crashed = TRUE]
        ELSE AsyncReadSome(c)

(* The consumer of a read that returned a chunk, and of one that failed or  *)
(* met the end.                                                             *)
ConsumeData(s, d, avail) ==
  IF input.remote
    THEN RelayData(s, d, avail) /\ UNCHANGED app
    ELSE LET r == LocalData(s, app, d)
         IN  fe' = r.fe /\ app' = r.app /\ UNCHANGED outq

ConsumeEnd(s) ==
  IF input.remote
    THEN RelayEnd(s) /\ UNCHANGED app
    ELSE LET r == LocalEnd(s, app)
         IN  fe' = r.fe /\ app' = r.app /\ UNCHANGED outq

----------------------------------------------------------------------------
Taken(s) == [s EXCEPT !.reads = @ - 1, !.off = @ + 1, !.buffer = s.off + 1]

(* An asio read completes with data; avail is what can be read then.        *)
StreamRead ==
  /\ ~IsFile
  /\ fe.reads > 0
  /\ fe.off < input.len
  /\ \E avail \in 0 .. 1 : ConsumeData(Taken(fe), fe.off + 1, avail)
  /\ UNCHANGED <<input, be, toBE, toFE>>

(* ... but if io_control fails the handler returns: the data is dropped and *)
(* no read follows.                                                         *)
StreamReadCtlFails ==
  /\ input.ctlMayFail
  /\ ~IsFile
  /\ fe.reads > 0
  /\ fe.off < input.len
  /\ fe' = Taken(fe)
  /\ UNCHANGED <<input, app, be, outq, toBE, toFE>>

StreamReadEnd ==
  /\ ~IsFile
  /\ fe.reads > 0
  /\ fe.off = input.len /\ ~input.endless
  /\ ConsumeEnd([fe EXCEPT !.reads = @ - 1])
  /\ UNCHANGED <<input, be, toBE, toFE>>

StreamReadCancelled ==
  /\ fe.cancelled > 0
  /\ ConsumeEnd([fe EXCEPT !.cancelled = @ - 1])
  /\ UNCHANGED <<input, be, toBE, toFE>>

(* The Spawned read of a file, whether or not doRead_ is still set.         *)
FileRead ==
  /\ IsFile
  /\ fe.reads > 0
  /\ fe.off < input.len
  /\ ConsumeData(Taken(fe), fe.off + 1, input.size - (fe.count + 1))
  /\ UNCHANGED <<input, be, toBE, toFE>>

(* A read of 0 bytes calls no consumer and only disposes of its empty IOBuf: *)
(* short of len_ the next read is spawned, and so for ever.                 *)
FileReadEmpty ==
  /\ IsFile
  /\ fe.reads > 0
  /\ fe.off = input.len
  /\ LET s == [fe EXCEPT !.reads = @ - 1]
         r == IF input.remote THEN [fe |-> RelayDispose(s, 0), app |-> app]
                              ELSE LocalDispose(s, app, 0)
     IN  fe' = r.fe /\ app' = r.app
  /\ UNCHANGED <<input, be, outq, toBE, toFE>>

(* The Messenger has written the first message, from buffer_ and            *)
(* stream_data_msg_ as they are now, and drops it: the disposal.            *)
Written ==
  /\ outq # << >>
  /\ outq' = Tail(outq)
  /\ toBE' = Append(toBE, [data |-> fe.buffer, avail |-> fe.avail, sent |-> Head(outq)])
  /\ fe' = RelayDispose(fe, 1)
  /\ UNCHANGED <<input, app, be, toFE>>

(* process_message on the FE: START and STOP.                               *)
FEReceive ==
  /\ toFE # << >>
  /\ toFE' = Tail(toFE)
  /\ fe' = IF Head(toFE) = "START" THEN AsyncReadStart(fe) ELSE AsyncReadStop(fe)
  /\ UNCHANGED <<input, app, be, outq, toBE>>

FEStep ==
  /\ ~fe.crashed
  /\ \/ StreamRead \/ StreamReadCtlFails \/ StreamReadEnd \/ StreamReadCancelled
     \/ FileRead \/ FileReadEmpty \/ Written \/ FEReceive

----------------------------------------------------------------------------
(* The reader starts the stream and saves its context.                      *)
AppStart ==
  /\ ~app.waiting
  /\ app.starts < input.maxStarts
  /\ app' = [app EXCEPT !.starts = @ + 1, !.waiting = TRUE]
  /\ IF input.remote
       THEN /\ be' = TRUE
            /\ toFE' = IF be THEN toFE ELSE Append(toFE, "START")
            /\ UNCHANGED fe
       ELSE /\ ~fe.crashed
            /\ fe' = AsyncReadStart(fe)
            /\ UNCHANGED <<be, toFE>>
  /\ UNCHANGED <<input, outq, toBE>>

(* process_message on the BE: DATA goes to the consumer, whatever doRead_   *)
(* is; the consumer may stop the stream, which sends STOP once.             *)
BEReceive ==
  /\ toBE # << >>
  /\ toBE' = Tail(toBE)
  /\ LET d == Head(toBE).data
     IN  /\ app' = AppConsume(app, d)
         /\ IF Ends(d) /\ be
              THEN be' = FALSE /\ toFE' = Append(toFE, "STOP")
              ELSE UNCHANGED <<be, toFE>>
  /\ UNCHANGED <<input, fe, outq>>

Next == FEStep \/ AppStart \/ BEReceive

Spec == Init /\ [][Next]_vars

(* The event loops run, messages arrive, and a read that can complete does. *)
FairSpec == Spec /\ WF_vars(FEStep) /\ WF_vars(BEReceive)

----------------------------------------------------------------------------
(* Every variable stays in its type: no count passes the input's length, and *)
(* a reader is told of no more ends than it made starts.                    *)
TypeOK ==
  /\ input \in InputType
  /\ fe \in [doRead : BOOLEAN, count : 0 .. input.len, off : 0 .. input.len,
             buffer : 0 .. input.len, reads : Nat, cancelled : Nat,
             avail : 0 .. input.size, crashed : BOOLEAN]
  /\ app \in [starts : 0 .. input.maxStarts, waiting : BOOLEAN, got : Seq(1 .. input.len),
              ends : 0 .. input.maxStarts, late : BOOLEAN]
  /\ be \in BOOLEAN
  /\ outq \in Seq(1 .. input.len)
  /\ toBE \in Seq([data : 0 .. input.len, avail : 0 .. input.size, sent : 1 .. input.len])
  /\ toFE \in Seq({"START", "STOP"})

(* The reader gets what Stream promises, although every read is started by   *)
(* the disposal of the previous one's buffer, restarts and stops race with   *)
(* reads, and a back end's reader is two messages away: the input in order    *)
(* and each chunk once, an end only where the input or the reader ended; a   *)
(* local reader, whose lambda refers to the context on its starter's stack,  *)
(* is never called between two readings, a remote one only with chunks that  *)
(* were under way.                                                          *)
Reader ==
  INSTANCE Stream WITH
    session <- [len |-> input.len, stops |-> IF IsFile THEN {} ELSE input.dots,
                lossy |-> input.ctlMayFail, delayed |-> input.remote],
    got <- app.got, reading <- app.waiting, late <- app.late

ImplementsStream == Reader!Spec

(* There is one buffer_: a read into it is only outstanding while no IOBuf   *)
(* that points into it is in use, and then there is only one.               *)
OneUseOfBuffer == fe.reads + Len(outq) <= 1

(* What is written to the BE is what was read when it was sent: neither     *)
(* buffer_ nor the shared stream_data_msg_ changed under the message.       *)
WireIntact ==
  \A i \in 1 .. Len(toBE) :
    /\ toBE[i].data = toBE[i].sent
    /\ IsFile => toBE[i].avail = input.size - toBE[i].data

(* "PASSING EOF": the end of the stream is passed on by the FE, not fatal.  *)
EndIsPassedOn == ~fe.crashed

(* A started read ends, with the input's end or a '.', if io_control works. *)
(* A regular file must be read locally, have some bytes, yield all that len_ *)
(* says and be read for the first time: count_ only meets len_ when an IOBuf *)
(* is disposed of, so that an empty file, or a second start at the end of   *)
(* one, waits for ever, and one that yields less is read at its end for      *)
(* ever.  A remote reader must meet a '.': the end of the stream is never    *)
(* passed on.                                                               *)
MeetsDot == \E d \in input.dots : d \in 1 .. input.len

ReadEnds ==
  (/\ app.waiting /\ ~input.ctlMayFail
   /\ IF IsFile
        THEN ~input.remote /\ input.len > 0 /\ input.len = input.size /\ app.starts = 1
        ELSE input.remote => MeetsDot) ~> ~app.waiting
============================================================================
