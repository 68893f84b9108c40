----------------------------------- MODULE FS -----------------------------------
(***************************************************************************)
(* UNIX::FS: opening a file of the hosted front end (FE) from a back end     *)
(* (BE), and ending the front end's process from there.                     *)
(*                                                                         *)
(* open_stream keeps one promise, p_, sends OPEN_STREAM with the path and    *)
(* returns the future.  The FE stats and opens the file, publishes an        *)
(* InputStream with a fresh EbbId and, when that is done, writes the id to   *)
(* stream_id_msg_, one for all answers, which is sent without a copy.  The   *)
(* answer sets the promise's value.  A path that cannot be opened throws in  *)
(* the FE's handler: nobody answers.                                        *)
(*                                                                         *)
(* The callers are events of one core of the BE.  The path is sent from the  *)
(* dead frame of open_stream, so the FE may read any path.                  *)
(***************************************************************************)
EXTENDS Naturals, Sequences

CONSTANTS
  Calls,    \* the calls of openInputStream
  NoCall,   \* p_ is NULL
  Paths,
  Openable  \* the paths the FE can stat and open

ASSUME CallsAssumption == NoCall \notin Calls
ASSUME PathsAssumption == Openable \subseteq Paths

VARIABLES
  pc,       \* pc[c]: where the call is
  p_,       \* the call whose promise p_ points to
  toFE,     \* messages on their way to the FE: [call, path], or Exit
  fe,       \* the FE: up, or down (it exited, or an exception ended it)
  streams,  \* streams[id]: the call and the path an InputStream was made for
  setting,  \* the ids whose global_id_map->Set is not answered yet
  idMsg,    \* stream_id_msg_.id
  outFE,    \* answers handed to the FE's Messenger and not yet written
  toBE,     \* written answers, in order
  got,      \* got[c]: the id the call's future was fulfilled with
  failed,   \* the calls the FE never answers
  crashed   \* the BE used a NULL p_

vars == <<pc, p_, toFE, fe, streams, setting, idMsg, outFE, toBE, got, failed, crashed>>
beVars == <<pc, p_, got, crashed>>
feVars == <<fe, streams, setting, idMsg, outFE, failed>>

NoId == 0

Ids == 1 .. Len(streams)

Exit == [call |-> NoCall]

Init ==
  /\ pc = [c \in Calls |-> "new"]
  /\ p_ = NoCall
  /\ toFE = << >>
  /\ fe = "up"
  /\ streams = << >>
  /\ setting = {}
  /\ idMsg = NoId
  /\ outFE = << >>
  /\ toBE = << >>
  /\ got = [c \in Calls |-> NoId]
  /\ failed = {}
  /\ crashed = FALSE

----------------------------------------------------------------------------
(* The back end                                                             *)

(* A seeded fault: an outstanding open is not noticed.                      *)
OpenStream_NoTest(c) ==
  /\ pc[c] = "new"
  /\ pc' = [pc EXCEPT ![c] = "waiting"]
  /\ p_' = c
  /\ \E path \in Paths : toFE' = Append(toFE, [call |-> c, path |-> path])
  /\ UNCHANGED <<got, crashed, toBE, feVars>>

(* "YIKES": only one open may be outstanding; another one throws.           *)
OpenStream(c) ==
  /\ pc[c] = "new"
  /\ IF p_ # NoCall
       THEN /\ pc' = [pc EXCEPT ![c] = "threw"]
            /\ UNCHANGED <<p_, toFE>>
       ELSE /\ pc' = [pc EXCEPT ![c] = "waiting"]
            /\ p_' = c
            /\ \E path \in Paths : toFE' = Append(toFE, [call |-> c, path |-> path])
  /\ UNCHANGED <<got, crashed, toBE, feVars>>

(* processExit: tells the FE to end its process.  Bound: one such message is *)
(* on its way at a time.                                                     *)
ProcessExit ==
  /\ \A i \in 1 .. Len(toFE) : toFE[i] # Exit
  /\ fe = "up"
  /\ toFE' = Append(toFE, Exit)
  /\ UNCHANGED <<beVars, toBE, feVars>>

(* A seeded fault: p_ still points to the promise that was deleted.         *)
StreamId_KeepsPromise ==
  /\ toBE # << >>
  /\ toBE' = Tail(toBE)
  /\ pc' = [pc EXCEPT ![p_] = "done"]
  /\ got' = [got EXCEPT ![p_] = Head(toBE)]
  /\ UNCHANGED <<p_, crashed, toFE, feVars>>

(* kSTREAM_ID: the promise p_ points to is fulfilled and deleted.           *)
StreamId ==
  /\ toBE # << >>
  /\ toBE' = Tail(toBE)
  /\ IF p_ = NoCall
       THEN crashed' = TRUE /\ UNCHANGED <<pc, got, p_>>
       ELSE /\ pc' = [pc EXCEPT ![p_] = "done"]
            /\ got' = [got EXCEPT ![p_] = Head(toBE)]
            /\ p_' = NoCall
            /\ UNCHANGED crashed
  /\ UNCHANGED <<toFE, feVars>>

----------------------------------------------------------------------------
(* The front end                                                            *)

(* openInputStream throws unless the path can be stat'ed and opened.        *)
CanOpen(path) == path \in Openable

(* kOPEN_STREAM: openInputStream and InputStream::Create, or an exception in *)
(* the handler, which the FE may or may not survive.                        *)
FEOpen ==
  /\ toFE # << >> /\ Head(toFE) # Exit
  /\ toFE' = Tail(toFE)
  /\ LET m == Head(toFE)
     IN  IF CanOpen(m.path)
           THEN /\ streams' = Append(streams, m)
                /\ setting' = setting \cup {Len(streams) + 1}
                /\ UNCHANGED <<fe, failed>>
           ELSE /\ failed' = failed \cup {m.call}
                /\ fe' \in {"up", "down"}
                /\ UNCHANGED <<streams, setting>>
  /\ UNCHANGED <<beVars, idMsg, outFE, toBE>>

(* A seeded fault: the answer is sent before the id is stored in it.        *)
SetDone_SendsFirst(id) ==
  /\ id \in setting
  /\ setting' = setting \ {id}
  /\ outFE' = Append(outFE, id)
  /\ UNCHANGED <<beVars, toFE, fe, streams, idMsg, toBE, failed>>

(* A seeded fault: the id is stored and not sent.                           *)
SetDone_NotSent(id) ==
  /\ id \in setting
  /\ setting' = setting \ {id}
  /\ idMsg' = id
  /\ UNCHANGED <<beVars, toFE, fe, streams, outFE, toBE, failed>>

(* The InputStream is published: its id goes into the message, and that out. *)
SetDone(id) ==
  /\ id \in setting
  /\ setting' = setting \ {id}
  /\ idMsg' = id
  /\ outFE' = Append(outFE, id)
  /\ UNCHANGED <<beVars, toFE, fe, streams, toBE, failed>>

(* The Set failed: f.Get() throws in the continuation.                      *)
SetFails(id) ==
  /\ id \in setting
  /\ setting' = setting \ {id}
  /\ failed' = failed \cup {streams[id].call}
  /\ UNCHANGED <<beVars, toFE, fe, streams, idMsg, outFE, toBE>>

(* The Messenger writes the answer, from stream_id_msg_ as it is then.      *)
Written ==
  /\ outFE # << >>
  /\ outFE' = Tail(outFE)
  /\ toBE' = Append(toBE, idMsg)
  /\ UNCHANGED <<beVars, toFE, fe, streams, setting, idMsg, failed>>

(* kPROCESS_EXIT: Cpu::Exit.                                                *)
FEExit ==
  /\ toFE # << >> /\ Head(toFE) = Exit
  /\ toFE' = Tail(toFE)
  /\ fe' = "down"
  /\ UNCHANGED <<beVars, streams, setting, idMsg, outFE, toBE, failed>>

SetAnswered == \E id \in setting : SetDone(id) \/ SetFails(id)

FEStep == fe = "up" /\ (FEOpen \/ SetAnswered \/ Written \/ FEExit)

Next ==
  /\ ~crashed
  /\ FEStep \/ StreamId \/ ProcessExit \/ \E c \in Calls : OpenStream(c)

Spec == Init /\ [][Next]_vars

(* The event loops run, messages arrive and global_id_map answers.          *)
FairSpec == Spec /\ WF_vars(~crashed /\ FEStep) /\ WF_vars(~crashed /\ StreamId)

----------------------------------------------------------------------------
(* Every variable stays in its type; the ids that travel are ids of streams. *)
TypeOK ==
  /\ pc \in [Calls -> {"new", "waiting", "done", "threw"}]
  /\ p_ \in Calls \cup {NoCall}
  /\ toFE \in Seq([call : Calls, path : Paths] \cup {Exit})
  /\ fe \in {"up", "down"}
  /\ streams \in Seq([call : Calls, path : Openable])
  /\ setting \subseteq Ids
  /\ idMsg \in Ids \cup {NoId}
  /\ outFE \in Seq(Ids)
  /\ toBE \in Seq(Ids)
  /\ got \in [Calls -> Ids \cup {NoId}]
  /\ failed \subseteq Calls
  /\ crashed \in BOOLEAN

(* A call gets the stream the FE opened for that very call, although the     *)
(* messages name no call, every answer uses the same stream_id_msg_ and each *)
(* is read when it is written.                                              *)
RightStream == \A c \in Calls : pc[c] = "done" => streams[got[c]].call = c

(* p_ points to the one outstanding call's promise: an answer never finds    *)
(* NULL, and no open waits for a promise that p_ has forgotten.             *)
OnePromise ==
  /\ ~crashed
  /\ \A c \in Calls : pc[c] = "waiting" <=> p_ = c

(* An open that is sent ends, unless the FE cannot answer it (then p_ is     *)
(* never free again and every later open throws) or is gone.                *)
OpenEnds ==
  \A c \in Calls : pc[c] = "waiting" ~> (pc[c] = "done" \/ c \in failed \/ fe = "down")
==================================================================================
