--------------------------------- MODULE Args ---------------------------------
(***************************************************************************)
(* Command lines and environments as text: how a front end packs them into   *)
(* one string for global_id_map and how the Ebbs of a node unpack it, how a  *)
(* bare-metal program splits the line it was booted with (string_to_argv),   *)
(* and what getopt makes of the result.                                     *)
(*                                                                         *)
(* A character is a string; NUL ends a C string.  Of the characters that are *)
(* treated alike (letters, kinds of white space) a few stand for all.        *)
(***************************************************************************)
EXTENDS Naturals, Sequences, SequencesExt

CONSTANTS
  Characters, \* char
  ArgvSlots   \* the slots argv starts with: 10 in the code

ASSUME ArgvSlotsAssumption == ArgvSlots \in Nat \ {0, 1}

NUL == "NUL"
Quote == "'"
DQuote == "\""
Escape == "\\"
Spaces == {" ", "newline"}              \* isspace
Separators == Spaces \cup {"backspace"} \* what ends a token

ASSUME CharactersAssumption == {NUL, Quote, DQuote, Escape} \cup Separators \subseteq Characters

(* A text may hold NULs, a string has none.                                 *)
Texts == Seq(Characters)
Strings == Seq(Characters \ {NUL})

(* escape_convt.  The other letters it knows (a, t, v, f, r) stay as they    *)
(* are here: no statement depends on which character one becomes.           *)
EscapeConvt(c) == CASE c = "n" -> "newline" [] c = "b" -> "backspace" [] OTHER -> c

(* The elements of a sequence that are in S, among the first i.             *)
Keeping(seq, S) ==
  LET upTo[i \in 0 .. Len(seq)] ==
        IF i = 0 THEN << >>
        ELSE IF seq[i] \in S THEN Append(upTo[i - 1], seq[i]) ELSE upTo[i - 1]
  IN  upTo

Kept(seq, S) == Keeping(seq, S)[Len(seq)]

(* The C string at a place of the memory.                                   *)
CString(mem, i) ==
  LET end == CHOOSE j \in i .. Len(mem) : mem[j] = NUL /\ \A k \in i .. j - 1 : mem[k] # NUL
  IN  SubSeq(mem, i, end - 1)

----------------------------------------------------------------------------
(* string_to_argv: the tokens are unquoted in place, dest behind scan.       *)

ScanStart(line) ==
  [mem |-> Append(line, NUL), scan |-> 1, dest |-> 1,
   starts |-> << >>,  \* res: where the arguments start
   act |-> ArgvSlots, \* the slots of res
   mode |-> "space"]

Ch(s) == s.mem[s.scan]
NextCh(s) == s.mem[s.scan + 1]
Advance(s, n) == [s EXCEPT !.scan = @ + n]
Put(s, c) == [s EXCEPT !.mem[s.dest] = c, !.dest = @ + 1]
Terminate(s) == [s EXCEPT !.mem[s.dest] = NUL]
In(s, mode) == [s EXCEPT !.mode = mode]

SkipSpace(s) ==
  CASE Ch(s) \in Spaces -> Advance(s, 1)
    [] Ch(s) = NUL -> In(s, "ok")
    [] OTHER -> [s EXCEPT !.starts = Append(@, s.scan), !.dest = s.scan, !.mode = "token",
                          !.act = IF Len(s.starts) + 1 >= @ THEN @ + @ \div 2 ELSE @]

(* The end of the line ends a token without terminating it.                 *)
TokenChar(s) ==
  CASE Ch(s) = NUL -> In(s, "ok")
    [] Ch(s) = Escape -> In(Put(Advance(s, 2), NextCh(s)),
                            IF NextCh(s) = NUL THEN "ok" ELSE "token")
    [] Ch(s) = Quote -> In(Advance(s, 1), "raw")
    [] Ch(s) = DQuote -> In(Advance(s, 1), "cooked")
    [] Ch(s) \in Separators -> In(Terminate(Advance(s, 1)), "space")
    [] OTHER -> Put(Advance(s, 1), Ch(s))

Unclosed(s) == Ch(s) = NUL \/ (Ch(s) = Escape /\ NextCh(s) = NUL)

(* A seeded fault: the backslash before an escaped quote is kept.           *)
RawChar_KeepsEscape(s) ==
  IF Unclosed(s) THEN In(s, "unbalanced") ELSE
  CASE Ch(s) = Quote -> In(Terminate(Advance(s, 1)), "token")
    [] Ch(s) = Escape -> Put(Put(Advance(s, 2), Escape), NextCh(s))
    [] OTHER -> Put(Advance(s, 1), Ch(s))

(* copy_raw_string: an unknown escape is kept.                              *)
RawChar(s) ==
  IF Unclosed(s) THEN In(s, "unbalanced") ELSE
  CASE Ch(s) = Quote -> In(Terminate(Advance(s, 1)), "token")
    [] Ch(s) = Escape ->
         Put(IF NextCh(s) \in {Escape, Quote} THEN Advance(s, 2) ELSE Put(Advance(s, 2), Escape),
             NextCh(s))
    [] OTHER -> Put(Advance(s, 1), Ch(s))

(* copy_cooked_string                                                       *)
CookedChar(s) ==
  IF Unclosed(s) THEN In(s, "unbalanced") ELSE
  CASE Ch(s) = DQuote -> In(Terminate(Advance(s, 1)), "token")
    [] Ch(s) = Escape -> Put(Advance(s, 2), EscapeConvt(NextCh(s)))
    [] OTHER -> Put(Advance(s, 1), Ch(s))

ScanState ==
  [mem : Texts, scan : Nat, dest : Nat, starts : Seq(Nat), act : Nat,
   mode : {"space", "token", "raw", "cooked", "ok", "unbalanced"}]

ScanStep[s \in ScanState] ==
  CASE s.mode = "space" -> SkipSpace(s)
    [] s.mode = "token" -> TokenChar(s)
    [] s.mode = "raw" -> RawChar(s)
    [] s.mode = "cooked" -> CookedChar(s)
    [] OTHER -> s

(* A step goes on in the line, or opens a token, or ends the scan, so that no *)
(* line takes more steps than these.                                        *)
ScanSteps(line) == 2 * Len(line) + 2

Scanning(line) ==
  LET after[k \in 0 .. ScanSteps(line)] ==
        IF k = 0 THEN ScanStart(line) ELSE ScanStep[after[k - 1]]
  IN  after

Scanned(line) == Scanning(line)[ScanSteps(line)]

(* What the callers see.  Nothing is stored through argc_p and argv_p, and   *)
(* no caller looks, when a quote is not closed.                             *)
StringToArgv(line) ==
  LET s == Scanned(line)
  IN  [stored |-> s.mode = "ok",
       argv |-> [i \in 1 .. Len(s.starts) |-> CString(s.mem, s.starts[i])],
       terminated |-> Len(s.starts) < s.act]

----------------------------------------------------------------------------
(* What a line means, as the quoting rules say it: one pass over the text    *)
(* that collects words and never overwrites anything.                       *)

Add(r, text) == [r EXCEPT !.word = @ \o text, !.inside = TRUE, !.escaped = FALSE]
Quoted(r, mode) == [r EXCEPT !.mode = mode, !.inside = TRUE, !.shrunk = TRUE]
EndWord(r) ==
  [r EXCEPT !.words = Append(@, r.word), !.word = << >>, !.inside = FALSE, !.shrunk = FALSE]

Meaning(r, c) ==
  IF r.escaped THEN
    CASE r.mode = "raw" -> Add(r, IF c \in {Escape, Quote} THEN <<c>> ELSE <<Escape, c>>)
      [] r.mode = "cooked" -> Add(r, <<EscapeConvt(c)>>)
      [] r.mode = "plain" -> Add(r, <<c>>)
  ELSE IF c = Escape THEN [r EXCEPT !.escaped = TRUE, !.inside = TRUE, !.shrunk = TRUE]
  ELSE IF r.mode = "raw" THEN IF c = Quote THEN Quoted(r, "plain") ELSE Add(r, <<c>>)
  ELSE IF r.mode = "cooked" THEN IF c = DQuote THEN Quoted(r, "plain") ELSE Add(r, <<c>>)
  ELSE IF c \in Spaces /\ ~r.inside THEN r
  ELSE CASE c = Quote -> Quoted(r, "raw")
         [] c = DQuote -> Quoted(r, "cooked")
         [] c \in Separators -> EndWord(r)
         [] OTHER -> Add(r, <<c>>)

NothingRead ==
  [words |-> << >>, word |-> << >>, inside |-> FALSE, escaped |-> FALSE, mode |-> "plain",
   shrunk |-> FALSE]

Reading(line) ==
  LET upTo[i \in 0 .. Len(line)] == IF i = 0 THEN NothingRead ELSE Meaning(upTo[i - 1], line[i])
  IN  upTo

Read(line) == Reading(line)[Len(line)]

Words(line) == LET r == Read(line) IN IF r.inside THEN Append(r.words, r.word) ELSE r.words

Unbalanced(line) == Read(line).mode # "plain"

(* The line ends in a word from which a quote or a backslash was removed.    *)
EndsShrunk(line) == Read(line).inside /\ Read(line).shrunk

----------------------------------------------------------------------------
(* The strings of CmdLineArgs::Init and Environment::Init: every element and *)
(* a NUL after it.                                                          *)
Pack(strings) == FlattenSeq([i \in 1 .. Len(strings) |-> Append(strings[i], NUL)])

NULs(str) == Kept([i \in 1 .. Len(str) |-> i], {i \in 1 .. Len(str) : str[i] = NUL})

(* The constructors' loops: the first element, whether there is one or not,  *)
(* and one behind every NUL but the last.                                   *)
Pointers(str) ==
  <<1>> \o [j \in 1 .. Len(NULs(str)) - 1 |-> NULs(str)[j] + 1]

(* A seeded fault: empty elements are taken for the end of the one before.   *)
Unpack_SkipsEmpty(str) ==
  SelectSeq([j \in 1 .. Len(NULs(str)) |-> CString(str, Pointers(str)[j])],
            LAMBDA element : element # << >>)

(* argc_, or numvar, elements.                                              *)
Unpack(str) == [j \in 1 .. Len(NULs(str)) |-> CString(str, Pointers(str)[j])]

(* On a back end environ_[numvar] = NULL comes before environ_[0] = data,    *)
(* which overwrites it when there are no variables at all.                  *)
EnvironTerminated(str) == Len(NULs(str)) > 0

----------------------------------------------------------------------------
(* getopt, with the program's optstring; elements that are not options are   *)
(* skipped.  The result is one letter for every option, "?" for an unknown   *)
(* one and for one without its argument.                                    *)
Flags == {"B", "C", "E", "I", "b", "c", "e", "h", "m", "n", "o", "p", "s", "t", "v"}
Valued == {"A", "F", "P", "R"}

(* The options of "-abc": a letter that wants an argument ends it, with the   *)
(* rest as the argument or with the next element.                           *)
Cluster(chars) ==
  LET valued == {i \in 1 .. Len(chars) : chars[i] \in Valued}
      last == IF valued = {} THEN 0 ELSE Min(valued)
      upTo == IF last = 0 THEN chars ELSE SubSeq(chars, 1, last)
      opts == [i \in 1 .. Len(upTo) |-> IF upTo[i] \in Flags \cup Valued THEN upTo[i] ELSE "?"]
  IN  IF last # 0 /\ last = Len(chars)
        THEN [opts |-> Front(opts), wants |-> Last(chars)]
        ELSE [opts |-> opts, wants |-> ""]

GetoptElement(g, element) ==
  IF g.over THEN g
  ELSE IF g.wants # "" THEN [g EXCEPT !.opts = Append(@, g.wants), !.wants = ""]
  ELSE IF element = <<"-", "-">> THEN [g EXCEPT !.over = TRUE]
  ELSE IF Len(element) > 1 /\ Head(element) = "-"
    THEN LET k == Cluster(Tail(element))
         IN  [g EXCEPT !.opts = @ \o k.opts, !.wants = k.wants]
  ELSE g

GetoptStart == [opts |-> << >>, wants |-> "", over |-> FALSE]

(* The first element, the program's name, is not looked at.                 *)
GetoptTo(argv) ==
  LET upTo[i \in 0 .. Len(argv)] ==
        IF i <= 1 THEN GetoptStart ELSE GetoptElement(upTo[i - 1], argv[i])
  IN  upTo

Getopt(argv) ==
  LET g == GetoptTo(argv)[Len(argv)]
  IN  IF g.wants = "" THEN g.opts ELSE Append(g.opts, "?")
===============================================================================
