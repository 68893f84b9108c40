-------------------------- MODULE InputStream_proofs --------------------------
(* InputStream for every descriptor and reader: the one buffer is never in   *)
(* use twice, and what the reader is given is what Stream promises.         *)
EXTENDS InputStream, SequenceTheorems, TLAPS

Lossy == input.ctlMayFail

Last == IF app.got = << >> THEN 0 ELSE app.got[Len(app.got)]

(* A stream that is read locally has no messages, and its reader waits       *)
(* exactly while it is read.                                                *)
LocalOK ==
  ~input.remote =>
    /\ outq = << >> /\ toBE = << >> /\ toFE = << >> /\ ~be
    /\ ~fe.crashed /\ fe.cancelled = 0
    /\ fe.doRead <=> app.waiting
    /\ fe.reads = 0 \/ fe.doRead
    /\ ~app.late

(* A back end sends one START and at most one STOP after it; until START     *)
(* has arrived nothing is read or sent.                                     *)
RemoteOK ==
  input.remote =>
    /\ app.starts <= 1
    /\ toFE \in {<< >>, <<"START">>, <<"STOP">>}
    /\ be <=> app.waiting
    /\ be => app.starts = 1
    /\ app.starts = 0 => toFE = << >>
    /\ toFE = <<"STOP">> => ~be
    /\ app.starts = 0 \/ toFE = <<"START">> =>
         /\ ~fe.doRead /\ fe.reads = 0 /\ outq = << >> /\ toBE = << >>

(* Every start has had an end or is waiting for it.                         *)
EndsOK == app.starts = IF app.waiting THEN app.ends + 1 ELSE app.ends

(* buffer_ holds the last chunk read, what is queued points into it, and     *)
(* each chunk read has been disposed of or is queued; a file is only read    *)
(* while len_ has not been disposed of.                                     *)
BufferOK ==
  /\ fe.buffer = fe.off
  /\ \A i \in 1 .. Len(outq) : outq[i] = fe.off
  /\ fe.count + Len(outq) <= fe.off
  /\ IsFile => /\ fe.count + Len(outq) = fe.off
               /\ outq # << >> => fe.avail = input.size - fe.off
               /\ fe.reads > 0 => fe.count < input.size

(* What lies before the i-th message that was written.                      *)
Before(i) == IF i = 1 THEN Last ELSE toBE[i - 1].data

(* The chunks on their way follow what the reader has, and what is queued    *)
(* follows them.                                                            *)
FlightOK ==
  /\ \A i \in 1 .. Len(toBE) :
       /\ toBE[i].data \in Before(i) + 1 .. fe.off
       /\ Lossy \/ toBE[i].data = Before(i) + 1
  /\ Before(Len(toBE) + 1) + Len(outq) <= fe.off
  /\ Lossy \/ Before(Len(toBE) + 1) + Len(outq) = fe.off

IInv ==
  /\ input \in Inputs /\ TypeOK
  /\ LocalOK /\ RemoteOK /\ EndsOK
  /\ OneUseOfBuffer /\ BufferOK /\ WireIntact /\ FlightOK
----------------------------------------------------------------------------
(* The records without their bounds, and what the operations do to them.    *)
FERec == [doRead : BOOLEAN, count : Nat, off : Nat, buffer : Nat, reads : Nat,
          cancelled : Nat, avail : Nat, crashed : BOOLEAN]
AppRec == [starts : Nat, waiting : BOOLEAN, got : Seq(1 .. input.len), ends : Nat,
           late : BOOLEAN]

More(s) == s.doRead /\ (~IsFile \/ s.count < input.size)

LEMMA SomeFields ==
  ASSUME NEW s \in FERec
  PROVE  LET r == AsyncReadSome(s)
         IN  /\ r \in FERec
             /\ r.reads = IF More(s) THEN s.reads + 1 ELSE s.reads
             /\ r.doRead = s.doRead /\ r.count = s.count /\ r.off = s.off
             /\ r.buffer = s.buffer /\ r.cancelled = s.cancelled
             /\ r.avail = s.avail /\ r.crashed = s.crashed
BY DEF AsyncReadSome, More, FERec

LEMMA StartFields ==
  ASSUME NEW s \in FERec, ~s.doRead
  PROVE  LET r == AsyncReadStart(s)
         IN  /\ r \in FERec
             /\ r.reads = IF ~IsFile \/ s.count < input.size THEN s.reads + 1 ELSE s.reads
             /\ r.doRead = TRUE /\ r.count = s.count /\ r.off = s.off
             /\ r.buffer = s.buffer /\ r.cancelled = s.cancelled
             /\ r.avail = s.avail /\ r.crashed = s.crashed
<1> DEFINE t == [s EXCEPT !.doRead = TRUE]
<1>1. t \in FERec /\ AsyncReadStart(s) = AsyncReadSome(t)
  BY DEF FERec, AsyncReadStart
<1>2. /\ t.doRead = TRUE /\ t.reads = s.reads /\ t.count = s.count /\ t.off = s.off
      /\ t.buffer = s.buffer /\ t.cancelled = s.cancelled /\ t.avail = s.avail
      /\ t.crashed = s.crashed
  BY DEF FERec
<1> HIDE DEF t
<1>3. More(t) <=> ~IsFile \/ s.count < input.size
  BY <1>2 DEF More
<1> QED
  BY <1>1, <1>2, <1>3, SomeFields

LEMMA StopFields ==
  ASSUME NEW s \in FERec
  PROVE  LET r == AsyncReadStop(s)
         IN  /\ r \in FERec
             /\ ~r.doRead
             /\ r.reads = IF s.doRead /\ ~IsFile THEN 0 ELSE s.reads
             /\ r.cancelled = IF s.doRead /\ ~IsFile THEN s.cancelled + s.reads ELSE s.cancelled
             /\ r.count = s.count /\ r.off = s.off /\ r.buffer = s.buffer
             /\ r.avail = s.avail /\ r.crashed = s.crashed
<1>1. CASE ~s.doRead
  BY <1>1 DEF AsyncReadStop, FERec
<1>2. CASE s.doRead /\ ~IsFile
  <2>1. s.cancelled + s.reads \in Nat
    BY DEF FERec
  <2>2. AsyncReadStop(s) =
          [s EXCEPT !.doRead = FALSE, !.reads = 0, !.cancelled = s.cancelled + s.reads]
    BY <1>2 DEF AsyncReadStop, FERec
  <2> DEFINE r == [s EXCEPT !.doRead = FALSE, !.reads = 0, !.cancelled = s.cancelled + s.reads]
  <2>3. r \in FERec
    BY <2>1 DEF FERec
  <2>4. /\ r.doRead = FALSE /\ r.reads = 0 /\ r.cancelled = s.cancelled + s.reads
        /\ r.count = s.count /\ r.off = s.off /\ r.buffer = s.buffer
        /\ r.avail = s.avail /\ r.crashed = s.crashed
    BY DEF FERec
  <2> HIDE DEF r
  <2>5. AsyncReadStop(s) = r
    BY <2>2 DEF r
  <2> QED
    BY <1>2, <2>3, <2>4, <2>5
<1>3. CASE s.doRead /\ IsFile
  <2>1. AsyncReadStop(s) = [s EXCEPT !.doRead = FALSE]
    BY <1>3 DEF AsyncReadStop
  <2> QED
    BY <1>3, <2>1 DEF FERec
<1> QED
  BY <1>1, <1>2, <1>3

LEMMA TakenFields ==
  ASSUME NEW s \in FERec, s.reads > 0
  PROVE  LET r == Taken(s)
         IN  /\ r \in FERec
             /\ r.reads = s.reads - 1 /\ r.off = s.off + 1 /\ r.buffer = s.off + 1
             /\ r.doRead = s.doRead /\ r.count = s.count /\ r.cancelled = s.cancelled
             /\ r.avail = s.avail /\ r.crashed = s.crashed
<1>1. s.reads - 1 \in Nat /\ s.off + 1 \in Nat
  BY DEF FERec
<1> QED
  BY <1>1 DEF Taken, FERec

LEMMA ConsumeFields ==
  ASSUME NEW a \in AppRec, NEW d \in 0 .. input.len
  PROVE  LET r == AppConsume(a, d)
         IN  /\ r \in AppRec
             /\ r.starts = a.starts
             /\ r.got = IF d = Null THEN a.got ELSE Append(a.got, d)
             /\ r.waiting <=> a.waiting /\ ~Ends(d)
             /\ r.ends = IF a.waiting /\ Ends(d) THEN a.ends + 1 ELSE a.ends
             /\ r.late <=> a.late \/ ~a.waiting
<1> DEFINE b == IF d = Null THEN a ELSE [a EXCEPT !.got = Append(@, d)]
<1>1. /\ b \in AppRec /\ b.starts = a.starts /\ b.waiting = a.waiting /\ b.ends = a.ends
      /\ b.late = a.late
      /\ b.got = IF d = Null THEN a.got ELSE Append(a.got, d)
  <2>1. CASE d = Null
    BY <2>1
  <2>2. CASE d # Null
    <3>1. d \in 1 .. input.len
      BY <2>2 DEF Null
    <3>2. Append(a.got, d) \in Seq(1 .. input.len)
      BY <3>1, AppendProperties DEF AppRec
    <3> QED
      BY <2>2, <3>2 DEF AppRec
  <2> QED
    BY <2>1, <2>2
<1>2. AppConsume(a, d) = IF ~a.waiting THEN [b EXCEPT !.late = TRUE]
                         ELSE IF Ends(d) THEN [b EXCEPT !.waiting = FALSE, !.ends = @ + 1]
                         ELSE b
  BY DEF AppConsume
<1> HIDE DEF b
<1>3. CASE ~a.waiting
  BY <1>1, <1>2, <1>3 DEF AppRec
<1>4. CASE a.waiting /\ Ends(d)
  <2> DEFINE r == [b EXCEPT !.waiting = FALSE, !.ends = @ + 1]
  <2>1. r \in AppRec
    <3>1. /\ b \in AppRec /\ b.ends + 1 \in Nat
          /\ r = [b EXCEPT !.waiting = FALSE, !.ends = b.ends + 1]
      BY <1>1 DEF AppRec
    <3> QED
      BY <3>1 DEF AppRec
  <2>2. /\ r.waiting = FALSE /\ r.ends = b.ends + 1 /\ r.starts = b.starts
        /\ r.got = b.got /\ r.late = b.late
    BY <1>1 DEF AppRec
  <2> HIDE DEF r
  <2>3. AppConsume(a, d) = r
    BY <1>2, <1>4 DEF r
  <2> QED
    BY <1>1, <1>4, <2>1, <2>2, <2>3
<1>5. CASE a.waiting /\ ~Ends(d)
  BY <1>1, <1>2, <1>5 DEF AppRec
<1> QED
  BY <1>3, <1>4, <1>5
----------------------------------------------------------------------------
Messages == [data : 0 .. input.len, avail : 0 .. input.size, sent : 1 .. input.len]

LEMMA InputFacts ==
  ASSUME IInv
  PROVE  /\ input \in Inputs /\ input \in InputType
         /\ input.len \in Nat /\ input.size \in Nat /\ input.len <= input.size
         /\ input.maxStarts \in Nat /\ input.dots \subseteq Nat
         /\ input.remote \in BOOLEAN
         /\ input.remote => input.maxStarts <= 1
<1>1. input \in Inputs /\ input \in InputType /\ input.len <= input.size
  BY InputsAssumption DEF IInv
<1>2. /\ input.len \in Nat /\ input.size \in Nat /\ input.maxStarts \in Nat /\ input.dots \subseteq Nat
      /\ input.remote \in BOOLEAN
  BY <1>1 DEF InputType
<1> QED
  BY <1>1, <1>2, RemoteOnceAssumption

LEMMA StateFacts ==
  ASSUME IInv
  PROVE  /\ fe \in FERec /\ fe.off <= input.len /\ fe.count <= fe.off
         /\ fe.avail <= input.size
         /\ app \in AppRec /\ app.starts <= input.maxStarts
         /\ be \in BOOLEAN /\ outq \in Seq(1 .. input.len) /\ toBE \in Seq(Messages)
         /\ toFE \in Seq({"START", "STOP"})
         /\ Len(outq) \in Nat /\ Len(toBE) \in Nat
<1>1. input.len \in Nat /\ input.size \in Nat /\ input.maxStarts \in Nat
  BY InputFacts
<1>2. TypeOK /\ BufferOK
  BY DEF IInv
<1>3. /\ fe \in [doRead : BOOLEAN, count : 0 .. input.len, off : 0 .. input.len,
                 buffer : 0 .. input.len, reads : Nat, cancelled : Nat,
                 avail : 0 .. input.size, crashed : BOOLEAN]
      /\ app \in [starts : 0 .. input.maxStarts, waiting : BOOLEAN, got : Seq(1 .. input.len),
                  ends : 0 .. input.maxStarts, late : BOOLEAN]
  BY <1>2 DEF TypeOK
<1>4. /\ be \in BOOLEAN /\ outq \in Seq(1 .. input.len) /\ toBE \in Seq(Messages)
      /\ toFE \in Seq({"START", "STOP"})
  BY <1>2 DEF TypeOK, Messages
<1>5. Len(outq) \in Nat /\ Len(toBE) \in Nat
  BY <1>4, LenProperties
<1>6. /\ fe \in FERec /\ fe.off <= input.len /\ fe.avail <= input.size
  BY <1>1, <1>3 DEF FERec
<1>7. fe.count \in Nat /\ fe.off \in Nat
  BY <1>6 DEF FERec
<1>8. fe.count <= fe.off
  BY <1>2, <1>5, <1>7 DEF BufferOK
<1>9. app \in AppRec /\ app.starts <= input.maxStarts
  BY <1>1, <1>3 DEF AppRec
<1> QED
  BY <1>4, <1>5, <1>6, <1>8, <1>9

LEMMA Retype ==
  ASSUME IInv, input' = input,
         fe' \in FERec, fe'.off <= input.len, fe'.count <= fe'.off, fe'.avail <= input.size,
         fe'.buffer = fe'.off,
         app' \in AppRec, app'.starts <= input.maxStarts, EndsOK',
         be' \in BOOLEAN, outq' \in Seq(1 .. input.len), toBE' \in Seq(Messages),
         toFE' \in Seq({"START", "STOP"})
  PROVE  TypeOK' /\ input' \in Inputs
<1>1. /\ input.len \in Nat /\ input.size \in Nat /\ input.maxStarts \in Nat
      /\ input \in InputType /\ input \in Inputs
  BY InputFacts
<1>2. /\ fe'.count \in 0 .. input.len /\ fe'.off \in 0 .. input.len
      /\ fe'.buffer \in 0 .. input.len /\ fe'.avail \in 0 .. input.size
  <2>1. fe'.count \in Nat /\ fe'.off \in Nat /\ fe'.avail \in Nat
    BY DEF FERec
  <2> QED
    BY <1>1, <2>1
<1>3. app'.starts \in 0 .. input.maxStarts /\ app'.ends \in 0 .. input.maxStarts
  <2>1. app'.starts \in Nat /\ app'.ends \in Nat
    BY DEF AppRec
  <2>2. app'.ends <= app'.starts
    BY <2>1 DEF EndsOK
  <2> QED
    BY <1>1, <2>1, <2>2
<1>4. fe' \in [doRead : BOOLEAN, count : 0 .. input.len, off : 0 .. input.len,
              buffer : 0 .. input.len, reads : Nat, cancelled : Nat,
              avail : 0 .. input.size, crashed : BOOLEAN]
  BY <1>2 DEF FERec
<1>5. app' \in [starts : 0 .. input.maxStarts, waiting : BOOLEAN, got : Seq(1 .. input.len),
               ends : 0 .. input.maxStarts, late : BOOLEAN]
  BY <1>3 DEF AppRec
<1> QED
  BY <1>1, <1>4, <1>5 DEF TypeOK, Messages

(* Nothing that is on its way moved.                                        *)
LEMMA FlightSame ==
  ASSUME FlightOK, input' = input, toBE' = toBE, app'.got = app.got, fe'.off = fe.off,
         Len(outq') = Len(outq)
  PROVE  FlightOK'
<1>1. Last' = Last /\ (Lossy' <=> Lossy)
  BY DEF Last, Lossy
<1>2. \A i : Before(i)' = Before(i)
  BY <1>1 DEF Before
<1> QED
  BY <1>1, <1>2 DEF FlightOK

LEMMA LastAppended ==
  ASSUME app \in AppRec, NEW d \in 1 .. input.len, app'.got = Append(app.got, d)
  PROVE  Last' = d
<1>1. app.got \in Seq(1 .. input.len)
  BY DEF AppRec
<1>2. app'.got # << >> /\ app'.got[Len(app'.got)] = d
  <2>1. /\ Append(app.got, d) \in Seq(1 .. input.len) /\ Append(app.got, d) # << >>
        /\ Len(Append(app.got, d)) = Len(app.got) + 1
        /\ Append(app.got, d)[Len(app.got) + 1] = d
    BY <1>1, AppendProperties
  <2> QED
    BY <2>1
<1> QED
  BY <1>2 DEF Last

----------------------------------------------------------------------------
(* The reader on the front end.                                             *)
StopsAt(d) == ~IsFile /\ d \in input.dots

(* The handler of a read: the consumer, its stop, the disposal, the next    *)
(* read or the end of the file.                                             *)
LEMMA LocalDataFields ==
  ASSUME NEW s \in FERec, s.doRead, s.reads = 0, s.cancelled = 0,
         NEW a \in AppRec, a.waiting, input.len \in Nat,
         NEW d \in 1 .. input.len
  PROVE  LET r == LocalData(s, a, d)
         IN  /\ r.fe \in FERec /\ r.app \in AppRec
             /\ r.fe.doRead <=> r.app.waiting
             /\ r.fe.reads <= 1 /\ (r.fe.reads = 0 \/ r.fe.doRead) /\ r.fe.cancelled = 0
             /\ r.fe.count = s.count + 1 /\ r.fe.off = s.off /\ r.fe.buffer = s.buffer
             /\ r.fe.avail = s.avail /\ r.fe.crashed = s.crashed
             /\ IsFile /\ r.fe.reads > 0 => r.fe.count < input.size
             /\ r.app.starts = a.starts /\ r.app.got = Append(a.got, d)
             /\ r.app.late <=> a.late
             /\ r.app.ends = IF r.app.waiting THEN a.ends ELSE a.ends + 1
             /\ r.app.waiting <=> ~StopsAt(d) /\ ~(IsFile /\ s.count + 1 = input.size)
<1> DEFINE a1 == AppConsume(a, d)
           s1 == IF Ends(d) THEN AsyncReadStop(s) ELSE s
           c == [s1 EXCEPT !.count = @ + 1]
<1>1. d # Null /\ (Ends(d) <=> StopsAt(d)) /\ d \in 0 .. input.len /\ Ends(Null)
  BY DEF Null, Ends, StopsAt
<1>2. /\ a1 \in AppRec /\ a1.starts = a.starts /\ a1.got = Append(a.got, d)
      /\ a1.waiting <=> ~Ends(d)
      /\ a1.ends = IF Ends(d) THEN a.ends + 1 ELSE a.ends
      /\ a1.late <=> a.late
  BY <1>1, ConsumeFields
<1>3. /\ s1 \in FERec /\ (s1.doRead <=> ~Ends(d)) /\ s1.reads = 0 /\ s1.cancelled = 0
      /\ s1.count = s.count /\ s1.off = s.off /\ s1.buffer = s.buffer
      /\ s1.avail = s.avail /\ s1.crashed = s.crashed
  <2>1. CASE Ends(d)
    BY <2>1, StopFields
  <2>2. CASE ~Ends(d)
    BY <2>2
  <2> QED
    BY <2>1, <2>2
<1>4. LocalData(s, a, d) = IF IsFile /\ c.count = input.size
                             THEN LocalEnd(c, a1)
                             ELSE [fe |-> AsyncReadSome(c), app |-> a1]
  BY DEF LocalData, LocalDispose
<1> HIDE DEF a1, s1
<1>5. /\ c \in FERec /\ (c.doRead <=> ~Ends(d)) /\ c.reads = 0 /\ c.cancelled = 0
      /\ c.count = s.count + 1 /\ c.off = s.off /\ c.buffer = s.buffer
      /\ c.avail = s.avail /\ c.crashed = s.crashed
  BY <1>3 DEF FERec
<1> HIDE DEF c
<1>6. CASE IsFile /\ c.count = input.size
  <2> DEFINE f == AsyncReadStop(c)
             b == AppConsume(a1, Null)
  <2>1. ~StopsAt(d) /\ ~Ends(d) /\ Null \in 0 .. input.len
    BY <1>1, <1>6 DEF StopsAt, Null
  <2>2. /\ f \in FERec /\ ~f.doRead /\ f.reads = 0 /\ f.cancelled = 0
        /\ f.count = c.count /\ f.off = c.off /\ f.buffer = c.buffer
        /\ f.avail = c.avail /\ f.crashed = c.crashed
    BY <1>5, <1>6, StopFields
  <2>3. /\ b \in AppRec /\ b.starts = a1.starts /\ b.got = a1.got /\ ~b.waiting
        /\ b.ends = a1.ends + 1 /\ (b.late <=> a1.late)
    <3>1. a1 \in AppRec /\ a1.waiting /\ Ends(Null)
      BY <1>1, <1>2, <2>1 DEF Ends
    <3> QED
      BY <2>1, <3>1, ConsumeFields
  <2>4. LocalData(s, a, d) = [fe |-> f, app |-> b]
    BY <1>4, <1>6 DEF LocalEnd
  <2> HIDE DEF f, b
  <2> QED
    BY <1>2, <1>5, <1>6, <2>1, <2>2, <2>3, <2>4
<1>7. CASE ~(IsFile /\ c.count = input.size)
  <2> DEFINE f == AsyncReadSome(c)
  <2>1. /\ f \in FERec /\ (f.doRead <=> c.doRead)
        /\ f.reads = (IF More(c) THEN c.reads + 1 ELSE c.reads) /\ f.cancelled = 0
        /\ f.count = c.count /\ f.off = c.off /\ f.buffer = c.buffer
        /\ f.avail = c.avail /\ f.crashed = c.crashed
    BY <1>5, SomeFields
  <2>2. LocalData(s, a, d) = [fe |-> f, app |-> a1]
    BY <1>4, <1>7
  <2> HIDE DEF f
  <2>3. /\ f.reads <= 1 /\ (f.reads = 0 \/ f.doRead)
        /\ IsFile /\ f.reads > 0 => f.count < input.size
    BY <1>5, <2>1 DEF More
  <2> QED
    BY <1>1, <1>2, <1>5, <1>7, <2>1, <2>2, <2>3
<1> QED
  BY <1>6, <1>7

LEMMA LocalReadStep ==
  ASSUME IInv, ~input.remote, StreamRead \/ FileRead
  PROVE  /\ fe.off + 1 <= input.len /\ app.waiting /\ input' = input
         /\ outq' = outq /\ toBE' = toBE /\ toFE' = toFE /\ (be' <=> be) /\ be' \in BOOLEAN
         /\ fe' \in FERec /\ app' \in AppRec
         /\ fe'.doRead <=> app'.waiting
         /\ fe'.reads <= 1 /\ (fe'.reads = 0 \/ fe'.doRead) /\ fe'.cancelled = 0
         /\ fe'.count = fe.count + 1 /\ fe'.off = fe.off + 1 /\ fe'.buffer = fe.off + 1
         /\ fe'.avail = fe.avail /\ fe'.crashed = fe.crashed
         /\ IsFile /\ fe'.reads > 0 => fe'.count < input.size
         /\ app'.starts = app.starts /\ app'.got = Append(app.got, fe.off + 1)
         /\ app'.late <=> app.late
         /\ app'.ends = IF app'.waiting THEN app.ends ELSE app.ends + 1
         /\ app'.waiting <=>
              ~StopsAt(fe.off + 1) /\ ~(IsFile /\ fe.off + 1 = input.size)
<1>1. /\ fe \in FERec /\ app \in AppRec /\ input.len \in Nat /\ be \in BOOLEAN
      /\ Len(outq) \in Nat
  BY StateFacts, InputFacts
<1>2. /\ fe.reads > 0 /\ fe.off < input.len /\ input' = input /\ be' = be
      /\ toBE' = toBE /\ toFE' = toFE
      /\ \E avail : ConsumeData(Taken(fe), fe.off + 1, avail)
  BY DEF StreamRead, FileRead
<1>3. /\ outq = << >> /\ fe.cancelled = 0 /\ (fe.doRead <=> app.waiting)
      /\ (fe.reads = 0 \/ fe.doRead)
  BY DEF IInv, LocalOK
<1>4. fe.reads \in Nat /\ fe.off \in Nat /\ fe.count \in Nat
  BY <1>1 DEF FERec
<1>5. fe.reads = 1 /\ fe.doRead /\ app.waiting
  <2>1. fe.reads + Len(outq) <= 1
    BY DEF IInv, OneUseOfBuffer
  <2> QED
    BY <1>1, <1>2, <1>3, <1>4, <2>1
<1> DEFINE s == Taken(fe)
           r == LocalData(s, app, fe.off + 1)
<1>6. fe' = r.fe /\ app' = r.app /\ outq' = outq
  BY <1>2 DEF ConsumeData
<1>7. /\ s \in FERec /\ s.doRead /\ s.reads = 0 /\ s.cancelled = 0 /\ s.off = fe.off + 1
      /\ s.buffer = fe.off + 1 /\ s.count = fe.count /\ s.avail = fe.avail
      /\ s.crashed = fe.crashed
  BY <1>1, <1>2, <1>3, <1>5, TakenFields
<1>8. fe.off + 1 \in 1 .. input.len /\ fe.off + 1 <= input.len
  BY <1>1, <1>2, <1>4
<1> HIDE DEF s
<1>9. /\ r.fe \in FERec /\ r.app \in AppRec
      /\ r.fe.doRead <=> r.app.waiting
      /\ r.fe.reads <= 1 /\ (r.fe.reads = 0 \/ r.fe.doRead) /\ r.fe.cancelled = 0
      /\ r.fe.count = s.count + 1 /\ r.fe.off = s.off /\ r.fe.buffer = s.buffer
      /\ r.fe.avail = s.avail /\ r.fe.crashed = s.crashed
      /\ IsFile /\ r.fe.reads > 0 => r.fe.count < input.size
      /\ r.app.starts = app.starts /\ r.app.got = Append(app.got, fe.off + 1)
      /\ r.app.late <=> app.late
      /\ r.app.ends = IF r.app.waiting THEN app.ends ELSE app.ends + 1
      /\ r.app.waiting <=>
           ~StopsAt(fe.off + 1) /\ ~(IsFile /\ s.count + 1 = input.size)
  BY <1>1, <1>5, <1>7, <1>8, LocalDataFields
<1> HIDE DEF r
<1>10. IsFile => fe.count = fe.off
  BY <1>1, <1>3, <1>4, EmptySeq DEF IInv, BufferOK
<1> QED
  BY <1>1, <1>2, <1>5, <1>6, <1>7, <1>8, <1>9, <1>10

(* With no message under way FlightOK speaks of the reader alone.           *)
LEMMA FlightLocal ==
  ASSUME toBE' = << >>, Len(outq') = 0, Last' \in Nat,
         Last' <= fe'.off, Lossy' \/ Last' = fe'.off
  PROVE  FlightOK'
<1>1. Len(toBE') = 0
  BY EmptySeq
<1>2. Before(Len(toBE) + 1)' = Last'
  BY <1>1 DEF Before
<1> QED
  BY <1>1, <1>2 DEF FlightOK

LEMMA LastFacts ==
  ASSUME IInv
  PROVE  /\ Last \in Nat /\ Last <= fe.off
         /\ toBE = << >> /\ outq = << >> => Lossy \/ Last = fe.off
<1>1. /\ input.len \in Nat /\ fe \in FERec /\ app.got \in Seq(1 .. input.len)
      /\ Len(outq) \in Nat /\ Len(toBE) \in Nat /\ FlightOK
  BY InputFacts, StateFacts DEF AppRec, IInv
<1>2. Last \in Nat
  <2>1. CASE app.got = << >>
    BY <2>1 DEF Last
  <2>2. CASE app.got # << >>
    <3>1. Len(app.got) \in 1 .. Len(app.got)
      BY <1>1, <2>2, EmptySeq, LenProperties
    <3>2. app.got[Len(app.got)] \in 1 .. input.len
      BY <1>1, <3>1, ElementOfSeq
    <3> QED
      BY <1>1, <2>2, <3>2 DEF Last
  <2> QED
    BY <2>1, <2>2
<1>3. fe.off \in Nat
  BY <1>1 DEF FERec
<1>4. CASE toBE = << >>
  <2>1. Len(toBE) = 0 /\ Before(Len(toBE) + 1) = Last
    BY <1>4, EmptySeq DEF Before
  <2>2. Last + Len(outq) <= fe.off /\ (Lossy \/ Last + Len(outq) = fe.off)
    BY <1>1, <2>1 DEF FlightOK
  <2>3. outq = << >> => Len(outq) = 0
    BY EmptySeq
  <2> QED
    BY <1>1, <1>2, <1>3, <2>2, <2>3
<1>5. CASE toBE # << >>
  <2>1. 1 \in 1 .. Len(toBE) /\ Before(1) = Last
    BY <1>1, <1>5, StateFacts, EmptySeq DEF Before
  <2>2. toBE[1].data \in Last + 1 .. fe.off
    BY <1>1, <2>1 DEF FlightOK
  <2> QED
    BY <1>2, <1>3, <1>5, <2>2
<1> QED
  BY <1>4, <1>5

LEMMA LocalReadInv ==
  ASSUME IInv, ~input.remote, StreamRead \/ FileRead
  PROVE  IInv'
<1>1. /\ fe.off + 1 <= input.len /\ app.waiting /\ input' = input
      /\ outq' = outq /\ toBE' = toBE /\ toFE' = toFE /\ (be' <=> be) /\ be' \in BOOLEAN
      /\ fe' \in FERec /\ app' \in AppRec
      /\ fe'.doRead <=> app'.waiting
      /\ fe'.reads <= 1 /\ (fe'.reads = 0 \/ fe'.doRead) /\ fe'.cancelled = 0
      /\ fe'.count = fe.count + 1 /\ fe'.off = fe.off + 1 /\ fe'.buffer = fe.off + 1
      /\ fe'.avail = fe.avail /\ fe'.crashed = fe.crashed
      /\ IsFile /\ fe'.reads > 0 => fe'.count < input.size
      /\ app'.starts = app.starts /\ app'.got = Append(app.got, fe.off + 1)
      /\ app'.late <=> app.late
      /\ app'.ends = IF app'.waiting THEN app.ends ELSE app.ends + 1
  BY LocalReadStep
<1>2. /\ input.len \in Nat /\ fe \in FERec /\ app \in AppRec
      /\ fe.count <= fe.off /\ fe.avail <= input.size
      /\ app.starts <= input.maxStarts /\ outq \in Seq(1 .. input.len)
      /\ toBE \in Seq(Messages) /\ toFE \in Seq({"START", "STOP"})
  BY InputFacts, StateFacts
<1>3. /\ LocalOK /\ EndsOK /\ BufferOK
  BY DEF IInv
<1>4. /\ outq = << >> /\ toBE = << >> /\ toFE = << >> /\ ~be /\ ~fe.crashed /\ ~app.late
  BY <1>3 DEF LocalOK
<1>5. Len(outq) = 0 /\ Len(toBE) = 0
  BY <1>4, EmptySeq
<1>6. fe.off \in Nat /\ fe.count \in Nat /\ app.ends \in Nat /\ fe'.reads \in Nat
  BY <1>1, <1>2 DEF FERec, AppRec
<1>7. EndsOK'
  BY <1>1, <1>3, <1>6 DEF EndsOK
<1>8. TypeOK' /\ input' \in Inputs
  BY <1>1, <1>2, <1>6, <1>7, Retype
<1>9. LocalOK'
  BY <1>1, <1>4 DEF LocalOK
<1>10. RemoteOK'
  BY <1>1 DEF RemoteOK
<1>11. OneUseOfBuffer'
  BY <1>1, <1>5, <1>6 DEF OneUseOfBuffer
<1>12. BufferOK'
  <2>1. IsFile => fe.count = fe.off
    BY <1>3, <1>5, <1>6 DEF BufferOK
  <2>2. IsFile' <=> IsFile
    BY <1>1 DEF IsFile
  <2> QED
    BY <1>1, <1>2, <1>4, <1>5, <1>6, <2>1, <2>2 DEF BufferOK
<1>13. WireIntact'
  BY <1>1, <1>5 DEF WireIntact
<1>14. FlightOK'
  <2>1. fe.off + 1 \in 1 .. input.len
    <3>1. fe.off + 1 <= input.len
      BY <1>1
    <3>2. fe.off \in Nat /\ input.len \in Nat
      BY <1>2, <1>6
    <3> QED
      BY <3>1, <3>2
  <2>2. Last' = fe.off + 1
    BY <1>1, <1>2, <2>1, LastAppended
  <2> QED
    BY <1>1, <1>4, <1>5, <1>6, <2>2, FlightLocal
<1> QED
  BY <1>7, <1>8, <1>9, <1>10, <1>11, <1>12, <1>13, <1>14 DEF IInv

(* A local read met the end of the stream.                                  *)
LEMMA LocalEndStep ==
  ASSUME IInv, ~input.remote, StreamReadEnd
  PROVE  /\ app.waiting /\ fe.off = input.len /\ input' = input
         /\ outq' = outq /\ toBE' = toBE /\ toFE' = toFE /\ be' = be
         /\ fe' \in FERec /\ app' \in AppRec
         /\ ~fe'.doRead /\ ~app'.waiting /\ fe'.reads = 0 /\ fe'.cancelled = 0
         /\ fe'.count = fe.count /\ fe'.off = fe.off /\ fe'.buffer = fe.buffer
         /\ fe'.avail = fe.avail /\ fe'.crashed = fe.crashed
         /\ app'.starts = app.starts /\ app'.got = app.got /\ (app'.late <=> app.late)
         /\ app'.ends = app.ends + 1
<1>1. /\ fe \in FERec /\ app \in AppRec /\ input.len \in Nat /\ Len(outq) \in Nat
  BY StateFacts, InputFacts
<1>2. /\ fe.reads > 0 /\ fe.off = input.len /\ ~IsFile /\ input' = input /\ be' = be
      /\ toBE' = toBE /\ toFE' = toFE
      /\ ConsumeEnd([fe EXCEPT !.reads = @ - 1])
  BY DEF StreamReadEnd
<1>3. /\ fe.cancelled = 0 /\ (fe.doRead <=> app.waiting) /\ (fe.reads = 0 \/ fe.doRead)
  BY DEF IInv, LocalOK
<1>4. fe.reads \in Nat
  BY <1>1 DEF FERec
<1>5. fe.reads = 1 /\ fe.doRead /\ app.waiting
  <2>1. fe.reads + Len(outq) <= 1
    BY DEF IInv, OneUseOfBuffer
  <2> QED
    BY <1>1, <1>2, <1>3, <1>4, <2>1
<1> DEFINE s == [fe EXCEPT !.reads = @ - 1]
<1>6. /\ s \in FERec /\ s.reads = 0 /\ (s.doRead <=> fe.doRead) /\ s.cancelled = fe.cancelled
      /\ s.count = fe.count /\ s.off = fe.off /\ s.buffer = fe.buffer
      /\ s.avail = fe.avail /\ s.crashed = fe.crashed
  <2>1. fe.reads - 1 = 0
    BY <1>5
  <2> QED
    BY <1>1, <2>1 DEF FERec
<1>7. fe' = AsyncReadStop(s) /\ app' = AppConsume(app, Null) /\ outq' = outq
  BY <1>2 DEF ConsumeEnd, LocalEnd
<1> HIDE DEF s
<1>8. /\ fe' \in FERec /\ ~fe'.doRead /\ fe'.reads = 0 /\ fe'.cancelled = 0
      /\ fe'.count = s.count /\ fe'.off = s.off /\ fe'.buffer = s.buffer
      /\ fe'.avail = s.avail /\ fe'.crashed = s.crashed
  BY <1>2, <1>3, <1>5, <1>6, <1>7, StopFields
<1>9. Null \in 0 .. input.len /\ Ends(Null)
  BY <1>1 DEF Null, Ends
<1>10. /\ app' \in AppRec /\ app'.starts = app.starts /\ app'.got = app.got /\ ~app'.waiting
       /\ app'.ends = app.ends + 1 /\ (app'.late <=> app.late)
  BY <1>1, <1>5, <1>7, <1>9, ConsumeFields
<1> QED
  BY <1>2, <1>5, <1>6, <1>7, <1>8, <1>10

LEMMA LocalEndInv ==
  ASSUME IInv, ~input.remote, StreamReadEnd
  PROVE  IInv'
<1>1. /\ app.waiting /\ input' = input
      /\ outq' = outq /\ toBE' = toBE /\ toFE' = toFE /\ be' = be
      /\ fe' \in FERec /\ app' \in AppRec
      /\ ~fe'.doRead /\ ~app'.waiting /\ fe'.reads = 0 /\ fe'.cancelled = 0
      /\ fe'.count = fe.count /\ fe'.off = fe.off /\ fe'.buffer = fe.buffer
      /\ fe'.avail = fe.avail /\ fe'.crashed = fe.crashed
      /\ app'.starts = app.starts /\ app'.got = app.got /\ (app'.late <=> app.late)
      /\ app'.ends = app.ends + 1
  BY LocalEndStep
<1>2. /\ input.len \in Nat /\ fe \in FERec /\ app \in AppRec
      /\ fe.off <= input.len /\ fe.count <= fe.off /\ fe.avail <= input.size
      /\ app.starts <= input.maxStarts /\ outq \in Seq(1 .. input.len)
      /\ toBE \in Seq(Messages) /\ toFE \in Seq({"START", "STOP"}) /\ be \in BOOLEAN
  BY InputFacts, StateFacts
<1>3. LocalOK /\ EndsOK /\ BufferOK /\ WireIntact /\ FlightOK
  BY DEF IInv
<1>4. /\ outq = << >> /\ toBE = << >> /\ toFE = << >> /\ ~be /\ ~fe.crashed /\ ~app.late
  BY <1>3 DEF LocalOK
<1>5. EndsOK'
  BY <1>1, <1>3 DEF EndsOK
<1>6. fe'.buffer = fe'.off
  BY <1>1, <1>3 DEF BufferOK
<1>7. TypeOK' /\ input' \in Inputs
  BY <1>1, <1>2, <1>5, <1>6, Retype
<1>8. LocalOK'
  BY <1>1, <1>4 DEF LocalOK
<1>9. RemoteOK'
  BY <1>1 DEF RemoteOK
<1>10. OneUseOfBuffer'
  BY <1>1, <1>4, EmptySeq DEF OneUseOfBuffer
<1>11. BufferOK'
  BY <1>1, <1>3 DEF BufferOK, IsFile
<1>12. WireIntact'
  BY <1>1, <1>3 DEF WireIntact, IsFile
<1>13. FlightOK'
  BY <1>1, <1>3, FlightSame
<1> QED
  BY <1>5, <1>7, <1>8, <1>9, <1>10, <1>11, <1>12, <1>13 DEF IInv
----------------------------------------------------------------------------
(* io_control fails: the chunk is lost.  A read that is outstanding has the  *)
(* buffer to itself.                                                        *)
LEMMA ReadAlone ==
  ASSUME IInv, fe.reads > 0
  PROVE  /\ fe.reads = 1 /\ outq = << >> /\ Len(outq) = 0
         /\ input.remote => app.starts # 0 /\ toFE # <<"START">>
<1>1. fe \in FERec /\ Len(outq) \in Nat /\ outq \in Seq(1 .. input.len)
  BY StateFacts
<1>2. fe.reads \in Nat
  BY <1>1 DEF FERec
<1>3. fe.reads + Len(outq) <= 1
  BY DEF IInv, OneUseOfBuffer
<1>4. fe.reads = 1 /\ Len(outq) = 0
  BY <1>1, <1>2, <1>3
<1>5. outq = << >>
  BY <1>1, <1>4, EmptySeq
<1>6. input.remote => app.starts # 0 /\ toFE # <<"START">>
  BY <1>2 DEF IInv, RemoteOK
<1> QED
  BY <1>4, <1>5, <1>6

(* The last chunk on its way, or the last the reader has, was read.         *)
LEMMA BeforeFacts ==
  ASSUME IInv
  PROVE  /\ \A i \in 1 .. Len(toBE) + 1 : Before(i) \in Nat
         /\ Before(Len(toBE) + 1) \in Nat /\ Before(Len(toBE) + 1) <= fe.off
<1>1. /\ input.len \in Nat /\ toBE \in Seq(Messages) /\ Len(toBE) \in Nat
      /\ Last \in Nat /\ Last <= fe.off
  BY InputFacts, StateFacts, LastFacts
<1>2. ASSUME NEW i \in 1 .. Len(toBE) + 1 PROVE Before(i) \in Nat
  <2>1. CASE i = 1
    BY <1>1, <2>1 DEF Before
  <2>2. CASE i # 1
    <3>1. i - 1 \in 1 .. Len(toBE) /\ Before(i) = toBE[i - 1].data
      BY <1>1, <2>2 DEF Before
    <3>2. toBE[i - 1] \in Messages
      BY <1>1, <3>1, ElementOfSeq
    <3> QED
      BY <1>1, <3>1, <3>2 DEF Messages
  <2> QED
    BY <2>1, <2>2
<1>3. Len(toBE) + 1 \in 1 .. Len(toBE) + 1
  BY <1>1
<1>4. Before(Len(toBE) + 1) <= fe.off
  <2>1. CASE Len(toBE) = 0
    BY <1>1, <2>1 DEF Before
  <2>2. CASE Len(toBE) # 0
    <3>1. Len(toBE) \in 1 .. Len(toBE) /\ Before(Len(toBE) + 1) = toBE[Len(toBE)].data
      BY <1>1, <2>2 DEF Before
    <3>2. toBE[Len(toBE)].data \in Before(Len(toBE)) + 1 .. fe.off
      BY <3>1 DEF IInv, FlightOK
    <3>3. Before(Len(toBE)) \in Nat /\ fe.off \in Nat
      BY <1>1, <1>2, <3>1, StateFacts DEF FERec
    <3> QED
      BY <3>1, <3>2, <3>3
  <2> QED
    BY <2>1, <2>2
<1> QED
  BY <1>2, <1>3, <1>4

LEMMA CtlFailsInv ==
  ASSUME IInv, StreamReadCtlFails
  PROVE  IInv'
<1>1. /\ input.len \in Nat /\ fe \in FERec /\ app \in AppRec
      /\ fe.off <= input.len /\ fe.count <= fe.off /\ fe.avail <= input.size
      /\ app.starts <= input.maxStarts /\ outq \in Seq(1 .. input.len)
      /\ toBE \in Seq(Messages) /\ toFE \in Seq({"START", "STOP"}) /\ be \in BOOLEAN
      /\ Len(toBE) \in Nat
  BY InputFacts, StateFacts
<1>2. /\ input.ctlMayFail /\ ~IsFile /\ fe.reads > 0 /\ fe.off < input.len
      /\ fe' = Taken(fe) /\ input' = input /\ app' = app /\ be' = be /\ outq' = outq
      /\ toBE' = toBE /\ toFE' = toFE
  BY DEF StreamReadCtlFails
<1>3. fe.reads = 1 /\ outq = << >> /\ Len(outq) = 0
  BY <1>2, ReadAlone
<1>4. /\ fe' \in FERec /\ fe'.reads = 0 /\ fe'.off = fe.off + 1 /\ fe'.buffer = fe.off + 1
      /\ fe'.doRead = fe.doRead /\ fe'.count = fe.count /\ fe'.cancelled = fe.cancelled
      /\ fe'.avail = fe.avail /\ fe'.crashed = fe.crashed
  BY <1>1, <1>2, <1>3, TakenFields
<1>5. LocalOK /\ RemoteOK /\ EndsOK /\ BufferOK /\ WireIntact /\ FlightOK
  BY DEF IInv
<1>6. fe.off \in Nat /\ fe.count \in Nat
  BY <1>1 DEF FERec
<1>7. EndsOK'
  BY <1>2, <1>5 DEF EndsOK
<1>8. TypeOK' /\ input' \in Inputs
  BY <1>1, <1>2, <1>4, <1>6, <1>7, Retype
<1>9. LocalOK'
  BY <1>2, <1>4, <1>5 DEF LocalOK
<1>10. RemoteOK'
  BY <1>2, <1>4, <1>5 DEF RemoteOK
<1>11. OneUseOfBuffer'
  BY <1>2, <1>3, <1>4 DEF OneUseOfBuffer
<1>12. BufferOK'
  BY <1>1, <1>2, <1>3, <1>4, <1>6 DEF BufferOK, IsFile
<1>13. WireIntact'
  BY <1>2, <1>5 DEF WireIntact, IsFile
<1>14. FlightOK'
  <2>1. Last' = Last /\ Lossy'
    BY <1>2 DEF Last, Lossy
  <2>2. \A i : Before(i)' = Before(i)
    BY <1>2, <2>1 DEF Before
  <2>3. ASSUME NEW i \in 1 .. Len(toBE)
        PROVE  toBE[i].data \in Before(i) + 1 .. fe.off + 1
    <3>1. toBE[i].data \in Before(i) + 1 .. fe.off
      BY <1>5 DEF FlightOK
    <3> QED
      BY <1>6, <3>1
  <2>4. Before(Len(toBE) + 1) + Len(outq) <= fe.off + 1
    <3>1. Before(Len(toBE) + 1) <= fe.off /\ Before(Len(toBE) + 1) \in Nat
      BY BeforeFacts
    <3> QED
      BY <1>3, <1>6, <3>1
  <2> QED
    BY <1>2, <1>4, <2>1, <2>2, <2>3, <2>4 DEF FlightOK
<1> QED
  BY <1>7, <1>8, <1>9, <1>10, <1>11, <1>12, <1>13, <1>14 DEF IInv
----------------------------------------------------------------------------
(* The relay: a chunk is queued, in the buffer it was read into.            *)
LEMMA RemoteReadStep ==
  ASSUME IInv, input.remote, StreamRead \/ FileRead
  PROVE  /\ fe.reads = 1 /\ outq = << >> /\ app.starts # 0 /\ toFE # <<"START">>
         /\ fe.off + 1 \in 1 .. input.len
         /\ input' = input /\ app' = app /\ be' = be /\ toBE' = toBE /\ toFE' = toFE
         /\ outq' = Append(outq, fe.off + 1)
         /\ fe' \in FERec /\ fe'.reads = 0 /\ fe'.off = fe.off + 1 /\ fe'.buffer = fe.off + 1
         /\ fe'.doRead = fe.doRead /\ fe'.count = fe.count
         /\ fe'.avail <= input.size /\ (IsFile => fe'.avail = input.size - (fe.off + 1))
<1>1. /\ fe \in FERec /\ app \in AppRec /\ input.len \in Nat
      /\ input.size \in Nat /\ input.len <= input.size
  BY StateFacts, InputFacts
<1>2. /\ fe.reads > 0 /\ fe.off < input.len /\ input' = input /\ be' = be
      /\ toBE' = toBE /\ toFE' = toFE
  BY DEF StreamRead, FileRead
<1>3. /\ fe.reads = 1 /\ outq = << >> /\ Len(outq) = 0 /\ app.starts # 0
      /\ toFE # <<"START">>
  BY <1>2, ReadAlone
<1>4. fe.off \in Nat /\ fe.count \in Nat
  BY <1>1 DEF FERec
<1>5. IsFile => fe.count = fe.off
  BY <1>3, <1>4 DEF IInv, BufferOK
<1>6. PICK avail \in 0 .. input.size :
        /\ ConsumeData(Taken(fe), fe.off + 1, avail)
        /\ IsFile => avail = input.size - (fe.off + 1)
  <2>1. CASE StreamRead
    <3>1. 0 .. 1 \subseteq 0 .. input.size
      BY <1>1, <1>2, <1>4
    <3> QED
      BY <2>1, <3>1 DEF StreamRead
  <2>2. CASE FileRead
    <3>1. ConsumeData(Taken(fe), fe.off + 1, input.size - (fe.count + 1)) /\ IsFile
      BY <2>2 DEF FileRead
    <3>2. input.size - (fe.count + 1) \in 0 .. input.size
      BY <1>1, <1>2, <1>4, <1>5, <3>1
    <3> QED
      BY <1>5, <3>1, <3>2
  <2> QED
    BY <2>1, <2>2
<1> DEFINE s == Taken(fe)
<1>7. /\ s \in FERec /\ s.reads = 0 /\ s.off = fe.off + 1 /\ s.buffer = fe.off + 1
      /\ s.doRead = fe.doRead /\ s.count = fe.count
  BY <1>1, <1>2, <1>3, TakenFields
<1>8. fe' = [s EXCEPT !.avail = avail] /\ app' = app /\ outq' = Append(outq, fe.off + 1)
  BY <1>6 DEF ConsumeData, RelayData
<1> HIDE DEF s
<1>9. avail \in Nat /\ avail <= input.size
  BY <1>1
<1>10. /\ fe' \in FERec /\ fe'.reads = 0 /\ fe'.off = fe.off + 1 /\ fe'.buffer = fe.off + 1
       /\ fe'.doRead = fe.doRead /\ fe'.count = fe.count /\ fe'.avail = avail
  BY <1>7, <1>8, <1>9 DEF FERec
<1>11. fe.off + 1 \in 1 .. input.len
  BY <1>1, <1>2, <1>4
<1> QED
  BY <1>2, <1>3, <1>6, <1>8, <1>9, <1>10, <1>11

LEMMA RemoteReadInv ==
  ASSUME IInv, input.remote, StreamRead \/ FileRead
  PROVE  IInv'
<1>1. /\ fe.reads = 1 /\ outq = << >> /\ app.starts # 0 /\ toFE # <<"START">>
      /\ fe.off + 1 \in 1 .. input.len
      /\ input' = input /\ app' = app /\ be' = be /\ toBE' = toBE /\ toFE' = toFE
      /\ outq' = Append(outq, fe.off + 1)
      /\ fe' \in FERec /\ fe'.reads = 0 /\ fe'.off = fe.off + 1 /\ fe'.buffer = fe.off + 1
      /\ fe'.doRead = fe.doRead /\ fe'.count = fe.count
      /\ fe'.avail <= input.size /\ (IsFile => fe'.avail = input.size - (fe.off + 1))
  BY RemoteReadStep
<1>2. /\ input.len \in Nat /\ fe \in FERec /\ app \in AppRec
      /\ fe.off <= input.len /\ fe.count <= fe.off /\ outq \in Seq(1 .. input.len)
      /\ app.starts <= input.maxStarts /\ Len(toBE) \in Nat
      /\ toBE \in Seq(Messages) /\ toFE \in Seq({"START", "STOP"}) /\ be \in BOOLEAN
  BY InputFacts, StateFacts
<1>3. RemoteOK /\ EndsOK /\ BufferOK /\ WireIntact /\ FlightOK
  BY DEF IInv
<1>4. fe.off \in Nat /\ fe.count \in Nat
  BY <1>2 DEF FERec
<1>5. /\ outq' \in Seq(1 .. input.len) /\ outq' # << >> /\ Len(outq') = 1
      /\ outq'[1] = fe.off + 1
  <2>1. Len(outq) = 0
    BY <1>1, EmptySeq
  <2> QED
    BY <1>1, <1>2, <2>1, AppendProperties
<1>6. EndsOK'
  BY <1>1, <1>3 DEF EndsOK
<1>7. TypeOK' /\ input' \in Inputs
  <2>1. fe'.off <= input.len /\ fe'.count <= fe'.off
    BY <1>1, <1>2, <1>4
  <2> QED
    BY <1>1, <1>2, <1>5, <1>6, <2>1, Retype
<1>8. LocalOK'
  BY <1>1 DEF LocalOK
<1>9. RemoteOK'
  BY <1>1, <1>3 DEF RemoteOK
<1>10. OneUseOfBuffer'
  BY <1>1, <1>5 DEF OneUseOfBuffer
<1>11. BufferOK'
  <2>1. IsFile => fe.count = fe.off
    BY <1>1, <1>3, <1>4, EmptySeq DEF BufferOK
  <2>2. IsFile' <=> IsFile
    BY <1>1 DEF IsFile
  <2>3. \A i \in 1 .. Len(outq') : outq'[i] = fe'.off
    BY <1>1, <1>5
  <2>4. fe'.count + Len(outq') <= fe'.off
    BY <1>1, <1>2, <1>4, <1>5
  <2>5. IsFile => /\ fe'.count + Len(outq') = fe'.off
                  /\ fe'.avail = input.size - fe'.off
    BY <1>1, <1>4, <1>5, <2>1
  <2> QED
    BY <1>1, <2>2, <2>3, <2>4, <2>5 DEF BufferOK
<1>12. WireIntact'
  BY <1>1, <1>3 DEF WireIntact, IsFile
<1>13. FlightOK'
  <2>1. Last' = Last /\ (Lossy' <=> Lossy)
    BY <1>1 DEF Last, Lossy
  <2>2. \A i : Before(i)' = Before(i)
    BY <1>1, <2>1 DEF Before
  <2>3. ASSUME NEW i \in 1 .. Len(toBE)
        PROVE  toBE[i].data \in Before(i) + 1 .. fe.off + 1
    <3>1. toBE[i].data \in Before(i) + 1 .. fe.off
      BY <1>3 DEF FlightOK
    <3> QED
      BY <1>4, <3>1
  <2>4. /\ Before(Len(toBE) + 1) + 1 <= fe.off + 1
        /\ Lossy \/ Before(Len(toBE) + 1) + 1 = fe.off + 1
    <3>1. Before(Len(toBE) + 1) <= fe.off /\ Before(Len(toBE) + 1) \in Nat
      BY BeforeFacts
    <3>2. Lossy \/ Before(Len(toBE) + 1) + Len(outq) = fe.off
      BY <1>3 DEF FlightOK
    <3>3. Len(outq) = 0
      BY <1>1, EmptySeq
    <3> QED
      BY <1>4, <3>1, <3>2, <3>3
  <2> QED
    BY <1>1, <1>3, <1>5, <2>1, <2>2, <2>3, <2>4 DEF FlightOK
<1> QED
  BY <1>6, <1>7, <1>8, <1>9, <1>10, <1>11, <1>12, <1>13 DEF IInv
----------------------------------------------------------------------------
(* The relay meets the end of the stream: the front end is lost, but what    *)
(* had been sent is still true to what was read.                            *)
LEMMA RemoteEndInv ==
  ASSUME IInv, input.remote, StreamReadEnd \/ StreamReadCancelled
  PROVE  IInv'
<1>1. /\ input.len \in Nat /\ fe \in FERec /\ app \in AppRec
      /\ fe.off <= input.len /\ fe.count <= fe.off /\ fe.avail <= input.size
      /\ app.starts <= input.maxStarts /\ outq \in Seq(1 .. input.len) /\ Len(outq) \in Nat
      /\ toBE \in Seq(Messages) /\ toFE \in Seq({"START", "STOP"}) /\ be \in BOOLEAN
  BY InputFacts, StateFacts
<1>2. PICK s \in FERec :
        /\ ConsumeEnd(s)
        /\ s.doRead = fe.doRead /\ s.count = fe.count /\ s.off = fe.off
        /\ s.buffer = fe.buffer /\ s.avail = fe.avail
        /\ s.reads <= fe.reads
  <2>1. fe.reads \in Nat /\ fe.cancelled \in Nat
    BY <1>1 DEF FERec
  <2>2. CASE StreamReadEnd
    <3>1. fe.reads - 1 \in Nat /\ ConsumeEnd([fe EXCEPT !.reads = fe.reads - 1])
      BY <2>1, <2>2 DEF StreamReadEnd
    <3> DEFINE s == [fe EXCEPT !.reads = fe.reads - 1]
    <3>2. /\ s \in FERec /\ s.doRead = fe.doRead /\ s.count = fe.count /\ s.off = fe.off
          /\ s.buffer = fe.buffer /\ s.avail = fe.avail /\ s.reads = fe.reads - 1
      BY <1>1, <3>1 DEF FERec
    <3>3. ConsumeEnd(s)
      BY <3>1
    <3> HIDE DEF s
    <3>4. s.reads <= fe.reads
      BY <2>1, <3>2
    <3> QED
      BY <3>2, <3>3, <3>4
  <2>3. CASE StreamReadCancelled
    <3>1. /\ fe.cancelled - 1 \in Nat
          /\ ConsumeEnd([fe EXCEPT !.cancelled = fe.cancelled - 1])
      BY <2>1, <2>3 DEF StreamReadCancelled
    <3> DEFINE s == [fe EXCEPT !.cancelled = fe.cancelled - 1]
    <3>2. /\ s \in FERec /\ s.doRead = fe.doRead /\ s.count = fe.count /\ s.off = fe.off
          /\ s.buffer = fe.buffer /\ s.avail = fe.avail /\ s.reads = fe.reads
      BY <1>1, <3>1 DEF FERec
    <3>3. ConsumeEnd(s)
      BY <3>1
    <3> HIDE DEF s
    <3>4. s.reads <= fe.reads
      BY <2>1, <3>2
    <3> QED
      BY <3>2, <3>3, <3>4
  <2> QED
    BY <2>2, <2>3
<1>3. /\ input' = input /\ be' = be /\ toBE' = toBE /\ toFE' = toFE
  BY DEF StreamReadEnd, StreamReadCancelled
<1>4. fe' = [s EXCEPT !.crashed = TRUE] /\ outq' = outq /\ app' = app
  BY <1>2 DEF ConsumeEnd, RelayEnd
<1>5. /\ fe' \in FERec /\ fe'.doRead = fe.doRead /\ fe'.count = fe.count
      /\ fe'.off = fe.off /\ fe'.buffer = fe.buffer /\ fe'.avail = fe.avail
      /\ fe'.reads = s.reads
  BY <1>2, <1>4 DEF FERec
<1>6. RemoteOK /\ EndsOK /\ BufferOK /\ WireIntact /\ FlightOK /\ OneUseOfBuffer
  BY DEF IInv
<1>7. fe.reads \in Nat /\ fe'.reads \in Nat /\ fe'.reads <= fe.reads
  BY <1>1, <1>2, <1>5 DEF FERec
<1>8. EndsOK'
  BY <1>4, <1>6 DEF EndsOK
<1>9. fe'.buffer = fe'.off
  BY <1>5, <1>6 DEF BufferOK
<1>10. TypeOK' /\ input' \in Inputs
  BY <1>1, <1>3, <1>4, <1>5, <1>8, <1>9, Retype
<1>11. LocalOK'
  BY <1>3 DEF LocalOK
<1>12. RemoteOK'
  BY <1>3, <1>4, <1>5, <1>6, <1>7 DEF RemoteOK
<1>13. OneUseOfBuffer'
  BY <1>1, <1>4, <1>6, <1>7 DEF OneUseOfBuffer
<1>14. BufferOK'
  <2>1. fe'.reads > 0 => fe.reads > 0
    BY <1>7
  <2> QED
    BY <1>3, <1>4, <1>5, <1>6, <2>1 DEF BufferOK, IsFile
<1>15. WireIntact'
  BY <1>3, <1>6 DEF WireIntact, IsFile
<1>16. FlightOK'
  BY <1>3, <1>4, <1>5, <1>6, FlightSame
<1> QED
  BY <1>8, <1>10, <1>11, <1>12, <1>13, <1>14, <1>15, <1>16 DEF IInv

----------------------------------------------------------------------------
(* A message is written and dropped, and the next read starts.              *)
LEMMA WrittenStep ==
  ASSUME IInv, Written
  PROVE  /\ input.remote /\ Len(outq) = 1 /\ fe.off \in 1 .. input.len
         /\ app.starts # 0 /\ toFE # <<"START">>
         /\ input' = input /\ app' = app /\ be' = be /\ toFE' = toFE
         /\ outq' = << >>
         /\ toBE' = Append(toBE, [data |-> fe.off, avail |-> fe.avail, sent |-> fe.off])
         /\ fe' \in FERec /\ fe'.reads <= 1 /\ fe'.count = fe.count + 1
         /\ fe'.off = fe.off /\ fe'.buffer = fe.off /\ fe'.doRead = fe.doRead
         /\ fe'.avail = fe.avail
         /\ IsFile /\ fe'.reads > 0 => fe'.count < input.size
<1>1. /\ fe \in FERec /\ input.len \in Nat /\ outq \in Seq(1 .. input.len)
      /\ Len(outq) \in Nat
  BY StateFacts, InputFacts
<1>2. /\ outq # << >> /\ outq' = Tail(outq) /\ input' = input /\ app' = app /\ be' = be
      /\ toFE' = toFE
      /\ toBE' = Append(toBE, [data |-> fe.buffer, avail |-> fe.avail, sent |-> Head(outq)])
  BY DEF Written
<1>3. fe.reads \in Nat /\ fe.count \in Nat
  BY <1>1 DEF FERec
<1>4. Len(outq) = 1 /\ fe.reads = 0
  <2>1. fe.reads + Len(outq) <= 1
    BY DEF IInv, OneUseOfBuffer
  <2>2. Len(outq) # 0 /\ Len(outq) \in Nat
    BY <1>1, <1>2, EmptySeq
  <2>3. \A a, b \in Nat : a + b <= 1 /\ b # 0 => b = 1 /\ a = 0
    OBVIOUS
  <2> QED
    BY <1>3, <2>1, <2>2, <2>3
<1>5. outq' = << >>
  <2>1. Len(outq') = 0 /\ outq' \in Seq(1 .. input.len)
    BY <1>1, <1>2, <1>4, HeadTailProperties
  <2> QED
    BY <2>1, EmptySeq
<1>6. Head(outq) = fe.off /\ fe.buffer = fe.off /\ fe.off \in 1 .. input.len
  <2>1. Head(outq) = outq[1] /\ 1 \in 1 .. Len(outq)
    BY <1>1, <1>2, <1>4, HeadTailProperties
  <2>2. outq[1] \in 1 .. input.len
    BY <1>1, <2>1, ElementOfSeq
  <2>3. fe.buffer = fe.off /\ \A i \in 1 .. Len(outq) : outq[i] = fe.off
    BY DEF IInv, BufferOK
  <2> QED
    BY <2>1, <2>2, <2>3
<1>7. input.remote /\ app.starts # 0 /\ toFE # <<"START">>
  BY <1>2 DEF IInv, LocalOK, RemoteOK
<1> DEFINE c == [fe EXCEPT !.count = @ + 1]
<1>8. /\ c \in FERec /\ c.count = fe.count + 1 /\ c.reads = 0 /\ c.off = fe.off
      /\ c.buffer = fe.buffer /\ c.doRead = fe.doRead /\ c.avail = fe.avail
  <2>1. fe \in FERec /\ fe.reads = 0 /\ fe.count + 1 \in Nat
    BY <1>1, <1>3, <1>4 DEF FERec
  <2>2. c = [fe EXCEPT !.count = fe.count + 1]
    BY <2>1 DEF FERec
  <2> QED
    BY <2>1, <2>2 DEF FERec
<1>9. fe' = IF IsFile /\ c.count = input.size THEN [c EXCEPT !.crashed = TRUE]
                                               ELSE AsyncReadSome(c)
  BY DEF Written, RelayDispose
<1> HIDE DEF c
<1>10. /\ fe' \in FERec /\ fe'.reads <= 1 /\ fe'.count = fe.count + 1
       /\ fe'.off = fe.off /\ fe'.buffer = fe.buffer /\ fe'.doRead = fe.doRead
       /\ fe'.avail = fe.avail
       /\ IsFile /\ fe'.reads > 0 => fe'.count < input.size
  <2>1. CASE IsFile /\ c.count = input.size
    <3>1. fe' = [c EXCEPT !.crashed = TRUE]
      BY <1>9, <2>1
    <3>2. fe' \in FERec
      BY <1>8, <3>1 DEF FERec
    <3>3. /\ fe'.reads = 0 /\ fe'.count = c.count /\ fe'.off = c.off
          /\ fe'.buffer = c.buffer /\ fe'.doRead = c.doRead /\ fe'.avail = c.avail
      BY <1>8, <3>1 DEF FERec
    <3> QED
      BY <1>8, <3>2, <3>3
  <2>2. CASE ~(IsFile /\ c.count = input.size)
    BY <1>8, <1>9, <2>2, SomeFields DEF More
  <2> QED
    BY <2>1, <2>2
<1> QED
  BY <1>2, <1>4, <1>5, <1>6, <1>7, <1>10

LEMMA WrittenInv ==
  ASSUME IInv, Written
  PROVE  IInv'
<1> DEFINE m == [data |-> fe.off, avail |-> fe.avail, sent |-> fe.off]
           w == Len(toBE)
<1>1. /\ input.remote /\ Len(outq) = 1 /\ fe.off \in 1 .. input.len
      /\ app.starts # 0 /\ toFE # <<"START">>
      /\ input' = input /\ app' = app /\ be' = be /\ toFE' = toFE
      /\ outq' = << >> /\ toBE' = Append(toBE, m)
      /\ fe' \in FERec /\ fe'.reads <= 1 /\ fe'.count = fe.count + 1
      /\ fe'.off = fe.off /\ fe'.buffer = fe.off /\ fe'.doRead = fe.doRead
      /\ fe'.avail = fe.avail
      /\ IsFile /\ fe'.reads > 0 => fe'.count < input.size
  BY WrittenStep
<1>2. /\ input.len \in Nat /\ fe \in FERec /\ app \in AppRec
      /\ fe.off <= input.len /\ fe.count <= fe.off /\ fe.avail <= input.size
      /\ app.starts <= input.maxStarts
      /\ toBE \in Seq(Messages) /\ toFE \in Seq({"START", "STOP"}) /\ be \in BOOLEAN
      /\ w \in Nat
  BY InputFacts, StateFacts
<1>3. RemoteOK /\ EndsOK /\ BufferOK /\ WireIntact /\ FlightOK
  BY DEF IInv
<1>4. fe.off \in Nat /\ fe.count \in Nat /\ fe.avail \in 0 .. input.size
  BY <1>2 DEF FERec
<1>5. /\ m \in Messages /\ m.data = fe.off /\ m.sent = fe.off /\ m.avail = fe.avail
  BY <1>1, <1>4 DEF Messages
<1> HIDE DEF m
<1>6. /\ toBE' \in Seq(Messages) /\ Len(toBE') = w + 1
      /\ \A i \in 1 .. w : toBE'[i] = toBE[i]
      /\ toBE'[w + 1] = m
  BY <1>1, <1>2, <1>5, AppendProperties
<1>7. Len(outq') = 0 /\ outq' \in Seq(1 .. input.len)
  BY <1>1, EmptySeq
<1>8. EndsOK'
  BY <1>1, <1>3 DEF EndsOK
<1>9. fe'.count <= fe'.off
  BY <1>1, <1>3, <1>4 DEF BufferOK
<1>10. TypeOK' /\ input' \in Inputs
  BY <1>1, <1>2, <1>6, <1>7, <1>8, <1>9, Retype
<1>11. LocalOK'
  BY <1>1 DEF LocalOK
<1>12. RemoteOK'
  BY <1>1, <1>3 DEF RemoteOK
<1>13. OneUseOfBuffer'
  BY <1>1, <1>7 DEF OneUseOfBuffer, FERec
<1>14. BufferOK'
  BY <1>1, <1>3, <1>4, <1>7 DEF BufferOK, IsFile
<1>15. WireIntact'
  <2>1. ASSUME NEW i \in 1 .. w + 1
        PROVE  /\ toBE'[i].data = toBE'[i].sent
               /\ IsFile => toBE'[i].avail = input.size - toBE'[i].data
    <3>1. CASE i \in 1 .. w
      BY <1>3, <1>6, <3>1 DEF WireIntact
    <3>2. CASE i \notin 1 .. w
      <4>1. i = w + 1
        BY <1>2, <3>2
      <4>2. IsFile => fe.avail = input.size - fe.off
        <5>1. outq # << >>
          BY DEF Written
        <5> QED
          BY <1>3, <5>1 DEF BufferOK
      <4> QED
        BY <1>5, <1>6, <4>1, <4>2
    <3> QED
      BY <3>1, <3>2
  <2> QED
    BY <1>1, <1>6, <2>1 DEF WireIntact, IsFile
<1>16. FlightOK'
  <2>1. Last' = Last /\ (Lossy' <=> Lossy)
    BY <1>1 DEF Last, Lossy
  <2>2. ASSUME NEW i \in 1 .. w + 1 PROVE Before(i)' = Before(i)
    <3>1. CASE i = 1
      BY <2>1, <3>1 DEF Before
    <3>2. CASE i # 1
      <4>1. i - 1 \in 1 .. w
        BY <1>2, <3>2
      <4> QED
        BY <1>6, <2>1, <3>2, <4>1 DEF Before
    <3> QED
      BY <3>1, <3>2
  <2>3. ASSUME NEW i \in 1 .. w + 1
        PROVE  /\ toBE'[i].data \in Before(i)' + 1 .. fe.off
               /\ Lossy \/ toBE'[i].data = Before(i)' + 1
    <3>1. CASE i \in 1 .. w
      BY <1>3, <1>6, <2>2, <3>1 DEF FlightOK
    <3>2. CASE i \notin 1 .. w
      <4>1. i = w + 1
        BY <1>2, <3>2
      <4>2. toBE'[i].data = fe.off /\ Before(i)' = Before(w + 1)
        BY <1>5, <1>6, <2>2, <4>1
      <4>3. /\ Before(w + 1) + 1 <= fe.off /\ Before(w + 1) \in Nat
            /\ Lossy \/ Before(w + 1) + 1 = fe.off
        BY <1>1, <1>3, BeforeFacts DEF FlightOK
      <4> QED
        BY <1>4, <4>2, <4>3
    <3> QED
      BY <3>1, <3>2
  <2>4. Before(Len(toBE) + 1)' = fe.off
    <3>1. (w + 1) + 1 # 1 /\ (w + 1) + 1 - 1 = w + 1
      BY <1>2
    <3> QED
      BY <1>5, <1>6, <3>1 DEF Before
  <2> QED
    BY <1>1, <1>4, <1>6, <1>7, <2>1, <2>3, <2>4 DEF FlightOK
<1> QED
  BY <1>8, <1>10, <1>11, <1>12, <1>13, <1>14, <1>15, <1>16 DEF IInv
----------------------------------------------------------------------------
(* A read of 0 bytes: the disposal falls short of len_ and only reads again. *)
LEMMA EmptyStep ==
  ASSUME IInv, FileReadEmpty
  PROVE  /\ input' = input /\ app' = app /\ be' = be /\ outq' = outq
         /\ toBE' = toBE /\ toFE' = toFE
         /\ fe' \in FERec /\ fe'.reads <= fe.reads /\ fe'.doRead = fe.doRead
         /\ fe'.count = fe.count /\ fe'.off = fe.off /\ fe'.buffer = fe.buffer
         /\ fe'.cancelled = fe.cancelled /\ fe'.avail = fe.avail
         /\ fe'.crashed = fe.crashed
<1>1. fe \in FERec /\ input.size \in Nat
  BY StateFacts, InputFacts
<1>2. IsFile /\ fe.reads > 0 /\ fe.reads \in Nat /\ fe.count \in Nat
  BY <1>1 DEF FileReadEmpty, FERec
<1>3. fe.count < input.size
  BY <1>2 DEF IInv, BufferOK
<1> DEFINE s == [fe EXCEPT !.reads = @ - 1]
           c == [s EXCEPT !.count = @ + 0]
<1>4. /\ c \in FERec /\ c.reads = fe.reads - 1 /\ c.doRead = fe.doRead
      /\ c.count = fe.count /\ c.off = fe.off /\ c.buffer = fe.buffer
      /\ c.cancelled = fe.cancelled /\ c.avail = fe.avail /\ c.crashed = fe.crashed
  <2>1. fe.reads - 1 \in Nat /\ fe.count + 0 = fe.count
    BY <1>2
  <2> QED
    BY <1>1, <2>1 DEF FERec
<1>5. /\ RelayDispose(s, 0) = IF IsFile /\ c.count = input.size
                                THEN [c EXCEPT !.crashed = TRUE] ELSE AsyncReadSome(c)
      /\ LocalDispose(s, app, 0) = IF IsFile /\ c.count = input.size
                                     THEN LocalEnd(c, app)
                                     ELSE [fe |-> AsyncReadSome(c), app |-> app]
  BY DEF RelayDispose, LocalDispose
<1>6. /\ input' = input /\ be' = be /\ outq' = outq /\ toBE' = toBE /\ toFE' = toFE
      /\ LET r == IF input.remote THEN [fe |-> RelayDispose(s, 0), app |-> app]
                                  ELSE LocalDispose(s, app, 0)
         IN  fe' = r.fe /\ app' = r.app
  BY DEF FileReadEmpty
<1> HIDE DEF s, c
<1>7. c.count # input.size
  BY <1>1, <1>2, <1>3, <1>4
<1>8. fe' = AsyncReadSome(c) /\ app' = app
  BY <1>5, <1>6, <1>7
<1>9. fe' \in FERec /\ fe'.reads <= fe.reads
  BY <1>2, <1>4, <1>8, SomeFields
<1> QED
  BY <1>4, <1>6, <1>8, <1>9, SomeFields

LEMMA EmptyInv ==
  ASSUME IInv, FileReadEmpty
  PROVE  IInv'
<1>1. /\ input' = input /\ app' = app /\ be' = be /\ outq' = outq
      /\ toBE' = toBE /\ toFE' = toFE
      /\ fe' \in FERec /\ fe'.reads <= fe.reads /\ fe'.doRead = fe.doRead
      /\ fe'.count = fe.count /\ fe'.off = fe.off /\ fe'.buffer = fe.buffer
      /\ fe'.cancelled = fe.cancelled /\ fe'.avail = fe.avail
      /\ fe'.crashed = fe.crashed
  BY EmptyStep
<1>2. /\ fe \in FERec /\ app \in AppRec /\ fe.off <= input.len /\ fe.count <= fe.off
      /\ fe.avail <= input.size /\ app.starts <= input.maxStarts
      /\ outq \in Seq(1 .. input.len) /\ toBE \in Seq(Messages) /\ be \in BOOLEAN
      /\ toFE \in Seq({"START", "STOP"}) /\ Len(outq) \in Nat
  BY StateFacts
<1>3. /\ LocalOK /\ RemoteOK /\ EndsOK /\ OneUseOfBuffer /\ BufferOK /\ WireIntact
      /\ FlightOK
  BY DEF IInv
<1>4. fe.reads \in Nat /\ fe'.reads \in Nat
  BY <1>1, <1>2 DEF FERec
<1>5. /\ fe.reads = 0 => fe'.reads = 0
      /\ fe'.reads > 0 => fe.reads > 0
      /\ fe.reads + Len(outq) <= 1 => fe'.reads + Len(outq) <= 1
  BY <1>1, <1>2, <1>4
<1>6. EndsOK'
  BY <1>1, <1>3 DEF EndsOK
<1>7. TypeOK' /\ input' \in Inputs
  BY <1>1, <1>2, <1>3, <1>6, Retype DEF BufferOK
<1>8. LocalOK'
  BY <1>1, <1>3, <1>5 DEF LocalOK
<1>9. RemoteOK'
  BY <1>1, <1>3, <1>5 DEF RemoteOK
<1>10. OneUseOfBuffer'
  BY <1>1, <1>3, <1>5 DEF OneUseOfBuffer
<1>11. BufferOK'
  BY <1>1, <1>3, <1>5 DEF BufferOK, IsFile
<1>12. WireIntact'
  BY <1>1, <1>3 DEF WireIntact, IsFile
<1>13. FlightOK'
  BY <1>1, <1>3, FlightSame
<1> QED
  BY <1>6, <1>7, <1>8, <1>9, <1>10, <1>11, <1>12, <1>13 DEF IInv
----------------------------------------------------------------------------
(* The front end takes START or STOP.                                       *)
LEMMA FEReceiveStep ==
  ASSUME IInv, FEReceive
  PROVE  /\ input.remote /\ app.starts # 0 /\ (toFE = <<"STOP">> => ~be)
         /\ input' = input /\ app' = app /\ be' = be /\ outq' = outq /\ toBE' = toBE
         /\ toFE' = << >> /\ fe' \in FERec
         /\ fe'.reads + Len(outq) <= 1 /\ fe'.count = fe.count /\ fe'.off = fe.off
         /\ fe'.buffer = fe.buffer /\ fe'.avail = fe.avail
         /\ IsFile /\ fe'.reads > 0 => fe'.count < input.size
<1>1. fe \in FERec /\ Len(outq) \in Nat
  BY StateFacts
<1>2. /\ toFE # << >> /\ toFE' = Tail(toFE)
      /\ fe' = IF Head(toFE) = "START" THEN AsyncReadStart(fe) ELSE AsyncReadStop(fe)
      /\ input' = input /\ app' = app /\ be' = be /\ outq' = outq /\ toBE' = toBE
  BY DEF FEReceive
<1>3. LocalOK /\ RemoteOK /\ fe.reads + Len(outq) <= 1
  BY DEF IInv, OneUseOfBuffer
<1>4. input.remote
  BY <1>2, <1>3 DEF LocalOK
<1>5. /\ app.starts # 0 /\ (toFE = <<"STOP">> => ~be)
      /\ toFE = <<"START">> \/ toFE = <<"STOP">>
  BY <1>2, <1>3, <1>4 DEF RemoteOK
<1>6. toFE' = << >>
  <2>1. toFE \in Seq({"START", "STOP"}) /\ Len(toFE) = 1
    BY <1>5, StateFacts
  <2>2. toFE' \in Seq({"START", "STOP"}) /\ Len(toFE') = 0
    BY <1>2, <2>1, HeadTailProperties
  <2> QED
    BY <2>2, EmptySeq
<1>7. fe.reads \in Nat
  BY <1>1 DEF FERec
<1>8. CASE toFE = <<"START">>
  <2>1. ~fe.doRead /\ fe.reads = 0 /\ outq = << >>
    BY <1>3, <1>4, <1>8 DEF RemoteOK
  <2>2. Len(outq) = 0
    BY <2>1, EmptySeq
  <2>3. fe' = AsyncReadStart(fe)
    BY <1>2, <1>8
  <2>4. /\ fe' \in FERec
        /\ fe'.reads = IF ~IsFile \/ fe.count < input.size THEN fe.reads + 1 ELSE fe.reads
        /\ fe'.count = fe.count
        /\ fe'.off = fe.off /\ fe'.buffer = fe.buffer /\ fe'.avail = fe.avail
    BY <1>1, <2>1, <2>3, StartFields
  <2>5. /\ fe'.reads + Len(outq) <= 1
        /\ IsFile /\ fe'.reads > 0 => fe'.count < input.size
    BY <2>1, <2>2, <2>4
  <2> QED
    BY <1>2, <1>4, <1>5, <1>6, <2>4, <2>5
<1>9. CASE toFE = <<"STOP">>
  <2>1. Head(toFE) = "STOP" /\ "STOP" # "START"
    BY <1>9
  <2>2. fe' = AsyncReadStop(fe)
    BY <1>2, <2>1
  <2>3. /\ fe' \in FERec /\ fe'.reads \in {0, fe.reads} /\ fe'.count = fe.count
        /\ fe'.off = fe.off /\ fe'.buffer = fe.buffer /\ fe'.avail = fe.avail
    BY <1>1, <2>2, StopFields
  <2>4. /\ fe'.reads + Len(outq) <= 1
        /\ IsFile /\ fe'.reads > 0 => fe'.count < input.size
    BY <1>1, <1>3, <1>7, <2>3 DEF IInv, BufferOK
  <2> QED
    BY <1>2, <1>4, <1>5, <1>6, <2>3, <2>4
<1> QED
  BY <1>5, <1>8, <1>9

LEMMA FEReceiveInv ==
  ASSUME IInv, FEReceive
  PROVE  IInv'
<1>1. /\ input.remote /\ app.starts # 0
      /\ input' = input /\ app' = app /\ be' = be /\ outq' = outq /\ toBE' = toBE
      /\ toFE' = << >> /\ fe' \in FERec
      /\ fe'.reads + Len(outq) <= 1 /\ fe'.count = fe.count /\ fe'.off = fe.off
      /\ fe'.buffer = fe.buffer /\ fe'.avail = fe.avail
      /\ IsFile /\ fe'.reads > 0 => fe'.count < input.size
  BY FEReceiveStep
<1>2. /\ fe \in FERec /\ app \in AppRec /\ fe.off <= input.len /\ fe.count <= fe.off
      /\ fe.avail <= input.size /\ app.starts <= input.maxStarts
      /\ outq \in Seq(1 .. input.len) /\ toBE \in Seq(Messages) /\ be \in BOOLEAN
  BY StateFacts
<1>3. RemoteOK /\ EndsOK /\ BufferOK /\ WireIntact /\ FlightOK
  BY DEF IInv
<1>4. toFE' \in Seq({"START", "STOP"}) /\ << >> # <<"START">> /\ << >> # <<"STOP">>
  BY <1>1
<1>5. EndsOK'
  BY <1>1, <1>3 DEF EndsOK
<1>6. fe'.buffer = fe'.off
  BY <1>1, <1>3 DEF BufferOK
<1>7. TypeOK' /\ input' \in Inputs
  BY <1>1, <1>2, <1>4, <1>5, <1>6, Retype
<1>8. LocalOK'
  BY <1>1 DEF LocalOK
<1>9. RemoteOK'
  BY <1>1, <1>3, <1>4 DEF RemoteOK
<1>10. OneUseOfBuffer'
  BY <1>1 DEF OneUseOfBuffer
<1>11. BufferOK'
  BY <1>1, <1>3 DEF BufferOK, IsFile
<1>12. WireIntact'
  BY <1>1, <1>3 DEF WireIntact, IsFile
<1>13. FlightOK'
  BY <1>1, <1>3, FlightSame
<1> QED
  BY <1>5, <1>7, <1>8, <1>9, <1>10, <1>11, <1>12, <1>13 DEF IInv
----------------------------------------------------------------------------
(* The reader starts: its FE reads at once, a back end sends START.         *)
LEMMA AppStartInv ==
  ASSUME IInv, AppStart
  PROVE  IInv'
<1>1. /\ input.len \in Nat /\ input.maxStarts \in Nat /\ input.remote \in BOOLEAN
      /\ input.remote => input.maxStarts <= 1
      /\ fe \in FERec /\ app \in AppRec /\ fe.off <= input.len /\ fe.count <= fe.off
      /\ fe.avail <= input.size /\ be \in BOOLEAN
      /\ outq \in Seq(1 .. input.len) /\ toBE \in Seq(Messages)
      /\ toFE \in Seq({"START", "STOP"}) /\ Len(outq) \in Nat
  BY InputFacts, StateFacts
<1>2. /\ ~app.waiting /\ app.starts < input.maxStarts
      /\ app' = [app EXCEPT !.starts = @ + 1, !.waiting = TRUE]
      /\ input' = input /\ outq' = outq /\ toBE' = toBE
  BY DEF AppStart
<1>3. /\ LocalOK /\ RemoteOK /\ EndsOK /\ BufferOK /\ WireIntact /\ FlightOK
      /\ fe.reads + Len(outq) <= 1
  BY DEF IInv, OneUseOfBuffer
<1>4. /\ app.starts \in Nat /\ app.ends \in Nat /\ fe.reads \in Nat
  BY <1>1 DEF FERec, AppRec
<1>5. /\ app' \in AppRec
      /\ app'.starts = app.starts + 1 /\ app'.waiting = TRUE /\ app'.got = app.got
      /\ app'.ends = app.ends /\ app'.late = app.late
  <2>1. app.starts + 1 \in Nat
    BY <1>4
  <2>2. app' = [app EXCEPT !.starts = app.starts + 1, !.waiting = TRUE]
    BY <1>2
  <2> QED
    BY <1>1, <2>1, <2>2 DEF AppRec
<1>6. EndsOK'
  BY <1>2, <1>3, <1>4, <1>5 DEF EndsOK
<1>7. app'.starts <= input.maxStarts
  BY <1>1, <1>2, <1>4, <1>5
<1>8. CASE input.remote
  <2>1. app.starts = 0 /\ input.maxStarts = 1
    BY <1>1, <1>2, <1>4, <1>8
  <2>2. ~be /\ toFE = << >> /\ ~fe.doRead /\ fe.reads = 0 /\ outq = << >> /\ toBE = << >>
    BY <1>2, <1>3, <1>8, <2>1 DEF RemoteOK
  <2>3. be' = TRUE /\ toFE' = <<"START">> /\ fe' = fe
    BY <1>8, <2>2 DEF AppStart
  <2>4. toFE' \in Seq({"START", "STOP"}) /\ toFE' # <<"STOP">> /\ app'.starts = 1
    BY <1>5, <2>1, <2>3
  <2>5. TypeOK' /\ input' \in Inputs
    BY <1>1, <1>2, <1>3, <1>5, <1>6, <1>7, <2>3, <2>4, Retype DEF BufferOK
  <2>6. LocalOK'
    BY <1>2, <1>8 DEF LocalOK
  <2>7. RemoteOK'
    BY <1>2, <1>5, <2>2, <2>3, <2>4 DEF RemoteOK
  <2>8. OneUseOfBuffer' /\ BufferOK' /\ WireIntact'
    BY <1>2, <1>3, <2>3 DEF OneUseOfBuffer, BufferOK, WireIntact, IsFile
  <2>9. FlightOK'
    BY <1>2, <1>3, <1>5, <2>3, FlightSame
  <2> QED
    BY <1>6, <2>5, <2>6, <2>7, <2>8, <2>9 DEF IInv
<1>9. CASE ~input.remote
  <2>1. /\ outq = << >> /\ toBE = << >> /\ toFE = << >> /\ ~be /\ ~fe.crashed
        /\ fe.cancelled = 0 /\ ~fe.doRead /\ fe.reads = 0 /\ ~app.late
    BY <1>2, <1>3, <1>9 DEF LocalOK
  <2>2. fe' = AsyncReadStart(fe) /\ be' = be /\ toFE' = toFE
    BY <1>9 DEF AppStart
  <2>3. /\ fe' \in FERec /\ fe'.doRead = TRUE
        /\ fe'.reads = IF ~IsFile \/ fe.count < input.size THEN fe.reads + 1 ELSE fe.reads
        /\ fe'.count = fe.count /\ fe'.off = fe.off /\ fe'.buffer = fe.buffer
        /\ fe'.cancelled = fe.cancelled /\ fe'.avail = fe.avail /\ fe'.crashed = fe.crashed
    BY <1>1, <2>1, <2>2, StartFields
  <2>4. Len(outq) = 0
    BY <2>1, EmptySeq
  <2>5. fe'.buffer = fe'.off
    BY <1>3, <2>3 DEF BufferOK
  <2>6. TypeOK' /\ input' \in Inputs
    BY <1>1, <1>2, <1>5, <1>6, <1>7, <2>2, <2>3, <2>5, Retype
  <2>7. LocalOK'
    BY <1>2, <1>5, <2>1, <2>2, <2>3 DEF LocalOK
  <2>8. RemoteOK'
    BY <1>2, <1>9 DEF RemoteOK
  <2>9. OneUseOfBuffer'
    BY <1>2, <2>1, <2>3, <2>4 DEF OneUseOfBuffer
  <2>10. BufferOK' /\ WireIntact'
    BY <1>2, <1>3, <2>3 DEF BufferOK, WireIntact, IsFile
  <2>11. FlightOK'
    BY <1>2, <1>3, <1>5, <2>3, FlightSame
  <2> QED
    BY <1>6, <2>6, <2>7, <2>8, <2>9, <2>10, <2>11 DEF IInv
<1> QED
  BY <1>8, <1>9
----------------------------------------------------------------------------
(* DATA reaches the back end: the first of the messages under way.          *)
LEMMA BEReceiveStep ==
  ASSUME IInv, BEReceive
  PROVE  /\ input.remote /\ app.starts # 0 /\ toFE # <<"START">> /\ toBE # << >>
         /\ toBE[1].data \in 1 .. input.len
         /\ toBE[1].data \in Last + 1 .. fe.off
         /\ Lossy \/ toBE[1].data = Last + 1
         /\ app' = AppConsume(app, toBE[1].data) /\ app' \in AppRec
         /\ app'.starts = app.starts /\ app'.got = Append(app.got, toBE[1].data)
         /\ app'.waiting <=> app.waiting /\ ~Ends(toBE[1].data)
         /\ app'.ends = IF app.waiting /\ Ends(toBE[1].data) THEN app.ends + 1 ELSE app.ends
         /\ app'.late <=> app.late \/ ~app.waiting
         /\ toBE' = Tail(toBE) /\ input' = input /\ fe' = fe /\ outq' = outq
         /\ be' <=> app'.waiting
         /\ be' \in BOOLEAN
         /\ toFE' \in {<< >>, <<"STOP">>}
         /\ toFE' = <<"STOP">> => ~be'
<1> DEFINE d == toBE[1].data
<1>1. /\ input.len \in Nat /\ fe \in FERec /\ app \in AppRec /\ be \in BOOLEAN
      /\ toBE \in Seq(Messages) /\ Len(toBE) \in Nat /\ Last \in Nat /\ fe.off <= input.len
  BY InputFacts, StateFacts, LastFacts
<1>2. toBE # << >>
  BY DEF BEReceive
<1>3. Head(toBE) = toBE[1] /\ 1 \in 1 .. Len(toBE)
  <2>1. Len(toBE) \in Nat \ {0}
    BY <1>1, <1>2, EmptySeq
  <2> QED
    BY <1>1, <1>2, <2>1, HeadTailProperties
<1>4. /\ app' = AppConsume(app, d) /\ toBE' = Tail(toBE)
      /\ input' = input /\ fe' = fe /\ outq' = outq
      /\ IF Ends(d) /\ be THEN be' = FALSE /\ toFE' = Append(toFE, "STOP")
                          ELSE be' = be /\ toFE' = toFE
  BY <1>3 DEF BEReceive
<1>5. LocalOK /\ RemoteOK /\ FlightOK
  BY DEF IInv
<1>6. input.remote
  BY <1>2, <1>5 DEF LocalOK
<1>7. /\ app.starts # 0 /\ toFE # <<"START">> /\ (be <=> app.waiting)
      /\ toFE \in {<< >>, <<"STOP">>} /\ (toFE = <<"STOP">> => ~be)
  BY <1>2, <1>5, <1>6 DEF RemoteOK
<1>8. d \in Last + 1 .. fe.off /\ (Lossy \/ d = Last + 1)
  <2>1. Before(1) = Last
    BY DEF Before
  <2> QED
    BY <1>3, <1>5, <2>1 DEF FlightOK
<1>9. d \in 1 .. input.len
  <2>1. fe.off \in Nat
    BY <1>1 DEF FERec
  <2> QED
    BY <1>1, <1>8, <2>1
<1> HIDE DEF d
<1>10. d \in 0 .. input.len /\ d # Null
  BY <1>1, <1>9 DEF Null
<1>11. /\ app' \in AppRec /\ app'.starts = app.starts /\ app'.got = Append(app.got, d)
       /\ app'.waiting <=> app.waiting /\ ~Ends(d)
       /\ app'.ends = IF app.waiting /\ Ends(d) THEN app.ends + 1 ELSE app.ends
       /\ app'.late <=> app.late \/ ~app.waiting
  BY <1>1, <1>4, <1>10, ConsumeFields
<1>12. /\ be' <=> app'.waiting
       /\ be' \in BOOLEAN
       /\ toFE' \in {<< >>, <<"STOP">>}
       /\ toFE' = <<"STOP">> => ~be'
  <2>1. CASE Ends(d) /\ be
    <3>1. toFE = << >>
      BY <1>7, <2>1
    <3>2. toFE' = <<"STOP">>
      BY <1>4, <2>1, <3>1
    <3> QED
      BY <1>4, <1>7, <1>11, <2>1, <3>2
  <2>2. CASE ~(Ends(d) /\ be)
    BY <1>1, <1>4, <1>7, <1>11, <2>2
  <2> QED
    BY <2>1, <2>2
<1> QED
  BY <1>2, <1>4, <1>6, <1>7, <1>8, <1>9, <1>11, <1>12 DEF d

LEMMA BEReceiveInv ==
  ASSUME IInv, BEReceive
  PROVE  IInv'
<1> DEFINE d == toBE[1].data
           w == Len(toBE)
<1>1. /\ input.remote /\ app.starts # 0 /\ toBE # << >> /\ d \in 1 .. input.len
      /\ app' \in AppRec /\ app'.starts = app.starts /\ app'.got = Append(app.got, d)
      /\ app'.waiting <=> app.waiting /\ ~Ends(d)
      /\ app'.ends = IF app.waiting /\ Ends(d) THEN app.ends + 1 ELSE app.ends
      /\ toBE' = Tail(toBE) /\ input' = input /\ fe' = fe /\ outq' = outq
      /\ be' <=> app'.waiting
      /\ be' \in BOOLEAN
      /\ toFE' \in {<< >>, <<"STOP">>}
      /\ toFE' = <<"STOP">> => ~be'
  BY BEReceiveStep
<1>2. /\ input.len \in Nat /\ fe \in FERec /\ app \in AppRec
      /\ fe.off <= input.len /\ fe.count <= fe.off /\ fe.avail <= input.size
      /\ app.starts <= input.maxStarts /\ outq \in Seq(1 .. input.len)
      /\ toBE \in Seq(Messages) /\ w \in Nat
  BY InputFacts, StateFacts
<1>3. RemoteOK /\ EndsOK /\ OneUseOfBuffer /\ BufferOK /\ WireIntact /\ FlightOK
  BY DEF IInv
<1>4. /\ toBE' \in Seq(Messages) /\ Len(toBE') = w - 1 /\ w - 1 \in Nat
      /\ \A i \in 1 .. w - 1 : toBE'[i] = toBE[i + 1]
  <2>1. w # 0
    BY <1>1, <1>2, EmptySeq
  <2>2. /\ toBE' \in Seq(Messages) /\ Len(toBE') = w - 1
        /\ \A i \in 1 .. Len(toBE') : toBE'[i] = toBE[i + 1]
    BY <1>1, <1>2, HeadTailProperties
  <2> QED
    BY <1>2, <2>1, <2>2
<1>5. Last' = d
  BY <1>1, <1>2, LastAppended
<1> HIDE DEF w
<1>6. EndsOK'
  <2>1. app.ends \in Nat /\ app.starts \in Nat
    BY <1>2 DEF AppRec
  <2> QED
    BY <1>1, <1>3, <2>1 DEF EndsOK
<1>7. fe'.buffer = fe'.off /\ toFE' \in Seq({"START", "STOP"})
  <2>1. << >> \in Seq({"START", "STOP"}) /\ <<"STOP">> \in Seq({"START", "STOP"})
    OBVIOUS
  <2> QED
    BY <1>1, <1>3, <2>1 DEF BufferOK
<1>8. TypeOK' /\ input' \in Inputs
  BY <1>1, <1>2, <1>4, <1>6, <1>7, Retype
<1>9. LocalOK'
  BY <1>1 DEF LocalOK
<1>10. RemoteOK'
  <2>1. app'.starts <= 1 /\ (be' => app'.starts = 1)
    <3>1. app.starts \in Nat /\ app.starts <= 1
      BY <1>1, <1>2, <1>3 DEF RemoteOK, AppRec
    <3> QED
      BY <1>1, <3>1
  <2>2. <<"START">> # <<"STOP">> /\ <<"START">> # << >>
    OBVIOUS
  <2> QED
    BY <1>1, <2>1, <2>2 DEF RemoteOK
<1>11. OneUseOfBuffer' /\ BufferOK'
  BY <1>1, <1>3 DEF OneUseOfBuffer, BufferOK, IsFile
<1>12. WireIntact'
  <2>1. ASSUME NEW i \in 1 .. w - 1
        PROVE  /\ toBE'[i].data = toBE'[i].sent
               /\ IsFile => toBE'[i].avail = input.size - toBE'[i].data
    <3>1. i + 1 \in 1 .. w
      BY <1>2, <1>4
    <3>2. toBE'[i] = toBE[i + 1]
      BY <1>4
    <3> QED
      BY <1>3, <3>1, <3>2 DEF WireIntact, w
  <2> QED
    BY <1>1, <1>4, <2>1 DEF WireIntact, IsFile
<1>13. FlightOK'
  <2>1. Lossy' <=> Lossy
    BY <1>1 DEF Lossy
  <2>2. ASSUME NEW i \in 1 .. w PROVE Before(i)' = Before(i + 1)
    <3>1. CASE i = 1
      BY <1>5, <3>1 DEF Before
    <3>2. CASE i # 1
      <4>1. /\ i - 1 \in 1 .. w - 1 /\ (i - 1) + 1 = i /\ (i + 1) - 1 = i /\ i + 1 # 1
        BY <1>2, <1>4, <3>2
      <4>2. toBE'[i - 1] = toBE[i]
        BY <1>4, <4>1
      <4> QED
        BY <3>2, <4>1, <4>2 DEF Before
    <3> QED
      BY <3>1, <3>2
  <2>3. ASSUME NEW i \in 1 .. w - 1
        PROVE  /\ toBE'[i].data \in Before(i)' + 1 .. fe.off
               /\ Lossy \/ toBE'[i].data = Before(i)' + 1
    <3>1. i + 1 \in 1 .. w /\ i \in 1 .. w
      BY <1>2, <1>4
    <3>2. toBE'[i] = toBE[i + 1] /\ Before(i)' = Before(i + 1)
      BY <1>4, <2>2, <3>1
    <3> QED
      BY <1>3, <3>1, <3>2 DEF FlightOK, w
  <2>4. Before(Len(toBE) + 1)' = Before(w + 1)
    <3>1. PICK n \in 1 .. w : n = w /\ Len(toBE') + 1 = n
      BY <1>2, <1>4
    <3>2. Before(n)' = Before(w + 1)
      BY <2>2, <3>1
    <3>3. Before(Len(toBE) + 1)' = Before(n)'
      BY <3>1 DEF Before
    <3> QED
      BY <3>2, <3>3
  <2> QED
    BY <1>1, <1>3, <1>4, <2>1, <2>3, <2>4 DEF FlightOK, w
<1> QED
  BY <1>6, <1>8, <1>9, <1>10, <1>11, <1>12, <1>13 DEF IInv
----------------------------------------------------------------------------
LEMMA InitInv == Init => IInv
<1> SUFFICES ASSUME Init PROVE IInv
  OBVIOUS
<1>1. /\ input \in Inputs /\ input \in InputType
      /\ outq = << >> /\ toBE = << >> /\ toFE = << >> /\ be = FALSE
      /\ fe = [doRead |-> FALSE, count |-> 0, off |-> 0, buffer |-> 0, reads |-> 0,
               cancelled |-> 0, avail |-> 0, crashed |-> FALSE]
      /\ app = [starts |-> 0, waiting |-> FALSE, got |-> << >>, ends |-> 0, late |-> FALSE]
  BY InputsAssumption DEF Init, Null
<1>2. input.len \in Nat /\ input.size \in Nat /\ input.maxStarts \in Nat
  BY <1>1 DEF InputType
<1>3. /\ Len(outq) = 0 /\ Len(toBE) = 0 /\ outq \in Seq(1 .. input.len)
      /\ toBE \in Seq(Messages) /\ toFE \in Seq({"START", "STOP"})
      /\ app.got \in Seq(1 .. input.len)
  BY <1>1, EmptySeq
<1>4. 0 \in 0 .. input.len /\ 0 \in 0 .. input.size /\ 0 \in 0 .. input.maxStarts
  BY <1>2
<1>5. TypeOK
  <2>1. fe \in [doRead : BOOLEAN, count : 0 .. input.len, off : 0 .. input.len,
                buffer : 0 .. input.len, reads : Nat, cancelled : Nat,
                avail : 0 .. input.size, crashed : BOOLEAN]
    BY <1>1, <1>4
  <2>2. app \in [starts : 0 .. input.maxStarts, waiting : BOOLEAN,
                 got : Seq(1 .. input.len), ends : 0 .. input.maxStarts, late : BOOLEAN]
    <3>1. << >> \in Seq(1 .. input.len)
      BY EmptySeq
    <3> QED
      BY <1>1, <1>4, <3>1
  <2> QED
    BY <1>1, <1>3, <2>1, <2>2 DEF TypeOK, Messages
<1>6. LocalOK
  BY <1>1 DEF LocalOK
<1>7. RemoteOK
  BY <1>1 DEF RemoteOK
<1>8. EndsOK
  BY <1>1 DEF EndsOK
<1>9. OneUseOfBuffer
  BY <1>1, <1>3 DEF OneUseOfBuffer
<1>10. BufferOK
  BY <1>1, <1>3 DEF BufferOK
<1>11. WireIntact
  BY <1>3 DEF WireIntact
<1>12. FlightOK
  <2>1. Last = 0 /\ Before(Len(toBE) + 1) = 0
    BY <1>1, <1>3 DEF Last, Before
  <2> QED
    BY <1>1, <1>3, <2>1 DEF FlightOK
<1> QED
  BY <1>1, <1>5, <1>6, <1>7, <1>8, <1>9, <1>10, <1>11, <1>12 DEF IInv

LEMMA StutterInv ==
  ASSUME IInv, UNCHANGED vars
  PROVE  IInv'
<1>1. /\ input' = input /\ fe' = fe /\ app' = app /\ be' = be /\ outq' = outq
      /\ toBE' = toBE /\ toFE' = toFE
  BY DEF vars
<1>2. input' \in Inputs /\ TypeOK'
  BY <1>1 DEF IInv, TypeOK
<1>3. LocalOK' /\ RemoteOK' /\ EndsOK'
  BY <1>1 DEF IInv, LocalOK, RemoteOK, EndsOK
<1>4. OneUseOfBuffer' /\ BufferOK' /\ WireIntact'
  BY <1>1 DEF IInv, OneUseOfBuffer, BufferOK, WireIntact, IsFile
<1>5. FlightOK'
  BY <1>1, FlightSame DEF IInv
<1> QED
  BY <1>2, <1>3, <1>4, <1>5 DEF IInv

(* A cancelled read completes only on a remote stream: a local one is not    *)
(* stopped while a read is outstanding.                                     *)
LEMMA CancelledIsRemote ==
  ASSUME IInv, StreamReadCancelled
  PROVE  input.remote
BY DEF StreamReadCancelled, IInv, LocalOK

LEMMA NextInv == IInv /\ [Next]_vars => IInv'
<1> SUFFICES ASSUME IInv, [Next]_vars PROVE IInv'
  OBVIOUS
<1>1. CASE StreamRead \/ FileRead
  BY <1>1, LocalReadInv, RemoteReadInv
<1>2. CASE StreamReadCtlFails
  BY <1>2, CtlFailsInv
<1>3. CASE StreamReadEnd
  BY <1>3, LocalEndInv, RemoteEndInv
<1>4. CASE StreamReadCancelled
  BY <1>4, CancelledIsRemote, RemoteEndInv
<1>5. CASE Written
  BY <1>5, WrittenInv
<1>6. CASE FEReceive
  BY <1>6, FEReceiveInv
<1>7. CASE AppStart
  BY <1>7, AppStartInv
<1>8. CASE BEReceive
  BY <1>8, BEReceiveInv
<1>9. CASE FileReadEmpty
  BY <1>9, EmptyInv
<1>10. CASE UNCHANGED vars
  BY <1>10, StutterInv
<1> QED
  BY <1>1, <1>2, <1>3, <1>4, <1>5, <1>6, <1>7, <1>8, <1>9, <1>10 DEF Next, FEStep

(* The invariant holds in every state of every behaviour.                   *)
THEOREM Invariance == Spec => []IInv
  BY InitInv, NextInv, PTL DEF Spec

(* TypeOK: counts and offsets stay within the input's length, and a reader   *)
(* is told of no more ends than it made starts.                             *)
THEOREM TypeCorrect == Spec => []TypeOK
<1>1. IInv => TypeOK
  BY DEF IInv
<1> QED
  BY <1>1, Invariance, PTL

(* OneUseOfBuffer: buffer_ is read into only while nothing points into it.   *)
THEOREM OneUseAlways == Spec => []OneUseOfBuffer
<1>1. IInv => OneUseOfBuffer
  BY DEF IInv
<1> QED
  BY <1>1, Invariance, PTL

(* WireIntact: a DATA message holds the chunk it was sent for, and, for a    *)
(* file, the count of what was left then.                                   *)
THEOREM WireIntactAlways == Spec => []WireIntact
<1>1. IInv => WireIntact
  BY DEF IInv
<1> QED
  BY <1>1, Invariance, PTL
----------------------------------------------------------------------------
(* The reader is given what Stream promises: each step of the stream is one  *)
(* of Stream's, or none.                                                    *)
Session == [len |-> input.len, stops |-> IF IsFile THEN {} ELSE input.dots,
            lossy |-> input.ctlMayFail, delayed |-> input.remote]

LEMMA SessionFacts ==
  ASSUME IInv
  PROVE  /\ Session.len = input.len /\ (Session.lossy <=> Lossy)
         /\ Session.delayed = input.remote
         /\ \A d : d \in Session.stops <=> StopsAt(d)
         /\ input' = input => Session' = Session
BY DEF Session, Lossy, StopsAt, IsFile

LEMMA InitMaps == Init => Reader!Init
<1> SUFFICES ASSUME Init PROVE Reader!Init
  OBVIOUS
<1>1. input \in InputType
  BY InputsAssumption DEF Init
<1>2. Session \in Reader!SessionType
  BY <1>1 DEF Session, Reader!SessionType, InputType
<1>3. app.got = << >> /\ app.waiting = FALSE /\ app.late = FALSE
  BY DEF Init
<1> QED
  BY <1>2, <1>3 DEF Reader!Init, Session

(* A chunk that comes next is what Follows lets the stream give.            *)
LEMMA GiveMaps ==
  ASSUME IInv, input' = input, app.waiting, app' \in AppRec,
         NEW d \in 1 .. input.len, d \in Last + 1 .. input.len, Lossy \/ d = Last + 1,
         app'.got = Append(app.got, d), app'.late <=> app.late,
         StopsAt(d) => ~app'.waiting,
         ~StopsAt(d) => app'.waiting \/ d = input.len
  PROVE  Reader!Next
<1>1. /\ Session.len = input.len /\ (Session.lossy <=> Lossy) /\ Session' = Session
      /\ d \in Session.stops <=> StopsAt(d)
  BY SessionFacts
<1>2. app'.waiting \in BOOLEAN /\ app'.late = app.late
  BY StateFacts DEF AppRec
<1>3. Reader!Last = Last
  BY DEF Reader!Last, Last
<1>4. Reader!Follows(d)
  BY <1>1, <1>3 DEF Reader!Follows, Session
<1>5. IF d \in Session.stops THEN ~app'.waiting ELSE app'.waiting \/ d = Session.len
  BY <1>1
<1>6. Reader!Give(d)
  BY <1>1, <1>2, <1>4, <1>5 DEF Reader!Give, Session
<1>7. d \in Reader!Last + 1 .. Session.len
  BY <1>1, <1>3
<1> QED
  BY <1>6, <1>7 DEF Reader!Next, Session

LEMMA LocalReadMaps ==
  ASSUME IInv, ~input.remote, StreamRead \/ FileRead
  PROVE  Reader!Next
<1> DEFINE d == fe.off + 1
<1>1. /\ d <= input.len /\ app.waiting /\ input' = input /\ app' \in AppRec
      /\ app'.got = Append(app.got, d)
      /\ app'.late <=> app.late
      /\ app'.waiting <=> ~StopsAt(d) /\ ~(IsFile /\ d = input.size)
  BY LocalReadStep
<1>2. /\ fe.off \in Nat /\ input.len \in Nat /\ input.size \in Nat
      /\ input.len <= input.size
      /\ Last \in Nat /\ Last <= fe.off
  BY StateFacts, InputFacts, LastFacts DEF FERec
<1>3. Lossy \/ Last = fe.off
  <2>1. toBE = << >> /\ outq = << >>
    BY DEF IInv, LocalOK
  <2> QED
    BY <2>1, LastFacts
<1>4. d \in 1 .. input.len /\ d \in Last + 1 .. input.len /\ (Lossy \/ d = Last + 1)
  BY <1>1, <1>2, <1>3
<1>5. /\ StopsAt(d) => ~app'.waiting
      /\ ~StopsAt(d) => app'.waiting \/ d = input.len
  <2>1. d = input.size => d = input.len
    BY <1>1, <1>2
  <2> QED
    BY <1>1, <2>1
<1> HIDE DEF d
<1> QED
  BY <1>1, <1>4, <1>5, GiveMaps

LEMMA LocalEndMaps ==
  ASSUME IInv, ~input.remote, StreamReadEnd
  PROVE  Reader!Next
<1>1. /\ app.waiting /\ fe.off = input.len /\ input' = input /\ app' \in AppRec
      /\ ~app'.waiting /\ app'.got = app.got /\ (app'.late <=> app.late)
  BY LocalEndStep
<1>2. app'.waiting = FALSE /\ app'.late = app.late
  BY <1>1, StateFacts DEF AppRec
<1>3. Lossy \/ Last = input.len
  <2>1. toBE = << >> /\ outq = << >>
    BY DEF IInv, LocalOK
  <2> QED
    BY <1>1, <2>1, LastFacts
<1>4. Session.len = input.len /\ (Session.lossy <=> Lossy) /\ Session' = Session
  BY <1>1, SessionFacts
<1>5. Reader!Last = Last
  BY DEF Reader!Last, Last
<1>6. Reader!End
  BY <1>1, <1>2, <1>3, <1>4, <1>5 DEF Reader!End, Session
<1> QED
  BY <1>6 DEF Reader!Next

LEMMA AppStartMaps ==
  ASSUME IInv, AppStart
  PROVE  Reader!Next
<1>1. /\ ~app.waiting /\ input' = input
      /\ app' = [app EXCEPT !.starts = app.starts + 1, !.waiting = TRUE]
  BY DEF AppStart
<1>2. app'.waiting = TRUE /\ app'.got = app.got /\ app'.late = app.late
  BY <1>1, StateFacts DEF AppRec
<1>3. Session' = Session
  BY <1>1, SessionFacts
<1>4. Reader!Start
  BY <1>1, <1>2, <1>3 DEF Reader!Start, Session
<1> QED
  BY <1>4 DEF Reader!Next

LEMMA BEReceiveMaps ==
  ASSUME IInv, BEReceive
  PROVE  Reader!Next
<1> DEFINE d == toBE[1].data
<1>1. /\ input.remote /\ d \in 1 .. input.len
      /\ d \in Last + 1 .. fe.off
      /\ Lossy \/ d = Last + 1
      /\ app' \in AppRec
      /\ app'.got = Append(app.got, d)
      /\ app'.waiting <=> app.waiting /\ ~Ends(d)
      /\ app'.late <=> app.late \/ ~app.waiting
      /\ input' = input
  BY BEReceiveStep
<1>2. /\ input.len \in Nat /\ fe.off \in Nat /\ fe.off <= input.len /\ Last \in Nat
      /\ app \in AppRec
  BY StateFacts, InputFacts, LastFacts DEF FERec
<1> HIDE DEF d
<1>3. d \in Last + 1 .. input.len
  BY <1>1, <1>2
<1>4. Ends(d) <=> StopsAt(d)
  BY <1>1 DEF Ends, StopsAt, Null
<1>5. CASE app.waiting
  <2>1. /\ app'.late <=> app.late
        /\ StopsAt(d) => ~app'.waiting
        /\ ~StopsAt(d) => app'.waiting \/ d = input.len
    BY <1>1, <1>4, <1>5
  <2> QED
    BY <1>1, <1>3, <1>5, <2>1, GiveMaps
<1>6. CASE ~app.waiting
  <2>1. app'.waiting = app.waiting /\ app'.late = TRUE
    BY <1>1, <1>2, <1>6 DEF AppRec
  <2>2. /\ Session.len = input.len /\ (Session.lossy <=> Lossy) /\ Session' = Session
        /\ Session.delayed
    BY <1>1, SessionFacts
  <2>3. Reader!Last = Last
    BY DEF Reader!Last, Last
  <2>4. Reader!Follows(d)
    BY <1>1, <1>3, <2>2, <2>3 DEF Reader!Follows, Session
  <2>5. Reader!GiveLate(d)
    BY <1>1, <1>6, <2>1, <2>2, <2>4 DEF Reader!GiveLate, Session
  <2>6. d \in Reader!Last + 1 .. Session.len
    BY <1>3, <2>2, <2>3
  <2> QED
    BY <2>5, <2>6 DEF Reader!Next, Session
<1> QED
  BY <1>5, <1>6

(* A step that leaves the reader alone is no step of the stream.            *)
LEMMA StutterMaps ==
  ASSUME input' = input, app' = app
  PROVE  UNCHANGED Reader!vars
BY DEF Reader!vars, IsFile

LEMMA NextMaps == IInv /\ [Next]_vars => [Reader!Next]_(Reader!vars)
<1> SUFFICES ASSUME IInv, [Next]_vars PROVE Reader!Next \/ UNCHANGED Reader!vars
  OBVIOUS
<1>1. CASE StreamRead \/ FileRead
  <2>1. CASE input.remote
    BY <1>1, <2>1, RemoteReadStep, StutterMaps
  <2>2. CASE ~input.remote
    BY <1>1, <2>2, LocalReadMaps
  <2> QED
    BY <2>1, <2>2
<1>2. CASE StreamReadCtlFails
  BY <1>2, StutterMaps DEF StreamReadCtlFails
<1>3. CASE (StreamReadEnd \/ StreamReadCancelled) /\ input.remote
  BY <1>3, StutterMaps DEF StreamReadEnd, StreamReadCancelled, ConsumeEnd
<1>4. CASE (StreamReadEnd \/ StreamReadCancelled) /\ ~input.remote
  BY <1>4, LocalEndMaps, CancelledIsRemote
<1>5. CASE Written \/ FEReceive
  BY <1>5, StutterMaps DEF Written, FEReceive
<1>6. CASE AppStart
  BY <1>6, AppStartMaps
<1>7. CASE BEReceive
  BY <1>7, BEReceiveMaps
<1>8. CASE FileReadEmpty
  BY <1>8, EmptyStep, StutterMaps
<1>9. CASE UNCHANGED vars
  BY <1>9, StutterMaps DEF vars
<1> QED
  BY <1>1, <1>2, <1>3, <1>4, <1>5, <1>6, <1>7, <1>8, <1>9 DEF Next, FEStep

(* ImplementsStream: whatever the reads, messages, restarts and stops, the   *)
(* reader gets the chunks in order, none twice and none left out, and an end *)
(* only where the input or the reader ended.                                *)
THEOREM RefinesStream == Spec => ImplementsStream
  BY InitMaps, NextMaps, Invariance, PTL DEF Spec, Reader!Spec, ImplementsStream
============================================================================
