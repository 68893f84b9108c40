---------------------------- MODULE MCInputStream ----------------------------
(* Instances of InputStream for TLC.  A local reader gets every short        *)
(* terminal session and every short file, whole or cut by a chunk, up to     *)
(* three times; a remote one gets them once, and also terminals that are     *)
(* never closed, with an io_control that may fail.                          *)
EXTENDS InputStream

Terminals(lens, open) ==
  [kind : {"stream"}, len : lens, size : lens, endless : open, dots : SUBSET (1 .. 3),
   remote : BOOLEAN, ctlMayFail : BOOLEAN, maxStarts : {1, 3}]
Files(lens) ==
  [kind : {"file"}, len : lens, size : lens, endless : {FALSE}, dots : {{}, {1}},
   remote : BOOLEAN, ctlMayFail : {FALSE}, maxStarts : {1, 3}]

Length(i) == i.size = i.len \/ (i.kind = "file" /\ i.size = i.len + 1)

Session(i) ==
  IF i.remote THEN i.maxStarts = 1 ELSE i.maxStarts = 3 /\ ~i.ctlMayFail /\ ~i.endless

AllInputs == {i \in Terminals(0 .. 4, BOOLEAN) \cup Files(0 .. 5) : Length(i) /\ Session(i)}

ClosedTerminal ==
  [kind : {"stream"}, len : {2}, size : {2}, endless : {FALSE}, dots : SUBSET (1 .. 2),
   remote : {TRUE}, ctlMayFail : {FALSE}, maxStarts : {1}]
============================================================================
