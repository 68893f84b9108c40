--------------------------------- MODULE Ubench ---------------------------------
(***************************************************************************)
(* The driver of the ubench program: what AppMain does on the hosted front   *)
(* end (FE) and on a bare-metal back end (BE).                              *)
(*                                                                         *)
(* The full build: the FE publishes the four UNIX Ebbs in global_id_map, one  *)
(* after the other, parses its command line and runs the tests asked for, or *)
(* with -B boots a BE, whose AppMain takes the same command line from the    *)
(* FE, runs the tests and then ends the FE's process.  A standalone build    *)
(* (the default) of either kind only parses its own command line.           *)
(*                                                                         *)
(* A program is given its argument vector and its environment, a bare-metal  *)
(* standalone one the line it was booted with, which is text (see Args).     *)
(* Options that only set a number, and what a test measures, are left out.   *)
(***************************************************************************)
EXTENDS Args

CONSTANT Givens \* what the programs considered are given: see GivenType

FE == "FE"
BE == "BE"
Nodes == {FE, BE}

GivenType ==
  [build : {"full", "hosted", "baremetal"}, \* the last two standalone
   argv : Seq(Strings),  \* the argument vector of a hosted build
   env : Seq(Strings),   \* the environment of the front end
   boot : Strings,       \* the boot line of a bare-metal build
   sharing : SUBSET Nodes, \* the nodes whose library lets copies of a std::string share its text
   stdin : {"dot", "eof", "never", "closed"}, \* how reading standard input ends: see StreamOver
   file : {"eof", "never", "missing"}]        \* ... and reading the file that -F names

ASSUME GivensAssumption == Givens \subseteq GivenType

UnixTests == <<"C", "E", "I", "F">>
OtherTests == <<"t", "n", "o", "c", "e", "s", "p", "m">>

(* What getopt can return: v is an option without a case, ? an error.        *)
Options == Flags \cup Valued \cup {"?"}

UnixEbbs == <<"CmdLineArgs", "Environment", "InputStream", "FS">>

VARIABLES
  given,     \* what the program is given
  published, \* published[e]: global_id_map's data of the Ebb e, once it is Set
  pc,        \* pc[x]: where AppMain of node x is
  issued,    \* how many Sets UNIX::Init has issued
  args,      \* args[x]: what process_args stored
  next,      \* next[x]: the test AppMain comes to next
  ran,       \* ran[x]: the tests that ran, in order
  shown      \* shown[x]: the environment that env_test showed

vars == <<given, published, pc, issued, args, next, ran, shown>>

NoArgs == [argv |-> << >>, tests |-> {}, backend |-> FALSE]

Full == given.build = "full"

Init ==
  /\ given \in Givens
  /\ published = [e \in ToSet(UnixEbbs) |-> << >>]
  /\ pc = [x \in Nodes |->
             CASE x = FE /\ Full -> "publish"
               [] x = FE /\ given.build = "hosted" -> "args"
               [] x = BE /\ given.build = "baremetal" -> "args"
               [] OTHER -> "off"]
  /\ issued = 0
  /\ args = [x \in Nodes |-> NoArgs]
  /\ next = [x \in Nodes |-> 1]
  /\ ran = [x \in Nodes |-> << >>]
  /\ shown = [x \in Nodes |-> << >>]

Goto(x, label) == pc' = [pc EXCEPT ![x] = label]

----------------------------------------------------------------------------
(* process_args, of what getopt returns                                    *)

Stops == {"h", "v", "?"}

(* The options before the first one at which process_args returns.          *)
Taken(opts) ==
  {opts[i] : i \in {j \in 1 .. Len(opts) : \A k \in 1 .. j : opts[k] \notin Stops}}

Parsed(argv) ==
  LET taken == Taken(Getopt(argv))
  IN  [argv |-> argv, tests |-> taken \ ({"B"} \cup (Valued \ {"F"})), backend |-> "B" \in taken]

(* It returns 0 at an unknown option; the -1 of -h and of -v is as true as   *)
(* the 1 of a line that was read to its end, so that init goes on.          *)
ParseFails(argv) ==
  LET opts == Getopt(argv)
  IN  \E i \in 1 .. Len(opts) :
        opts[i] = "?" /\ \A k \in 1 .. i - 1 : opts[k] \notin Stops

----------------------------------------------------------------------------
(* init                                                                     *)

(* A seeded fault: the Set is not waited for.                               *)
Publish_NoBlock ==
  /\ pc[FE] = "publish"
  /\ issued' = issued + 1
  /\ Goto(FE, IF issued' < Len(UnixEbbs) THEN "publish" ELSE "args")
  /\ UNCHANGED <<given, published, args, next, ran, shown>>

(* InitSIn throws if there is no standard input to fstat.                   *)
InitFails == UnixEbbs[issued + 1] = "InputStream" /\ given.stdin = "closed"

(* UNIX::Init on the FE: an Init issues global_id_map->Set and blocks on it. *)
Publish ==
  /\ pc[FE] = "publish"
  /\ IF InitFails
       THEN Goto(FE, "failed") /\ UNCHANGED issued
       ELSE Goto(FE, "setting") /\ issued' = issued + 1
  /\ UNCHANGED <<given, published, args, next, ran, shown>>

DataOf(e) ==
  CASE e = "CmdLineArgs" -> Pack(given.argv)
    [] e = "Environment" -> Pack(given.env)
    [] OTHER -> << >>

(* Block does not look at what became of the Set: one that fails, which would *)
(* go unnoticed until the Ebb is used, is out of the model.                 *)
SetDone ==
  /\ \E e \in ToSet(SubSeq(UnixEbbs, 1, issued)) :
       /\ published[e] = << >>
       /\ published' = [published EXCEPT ![e] = <<DataOf(e)>>]
  /\ IF pc[FE] = "setting"
       THEN Goto(FE, IF issued < Len(UnixEbbs) THEN "publish" ELSE "args")
       ELSE UNCHANGED pc
  /\ UNCHANGED <<given, issued, args, next, ran, shown>>

(* An Ebb can be used: a BE gets its root data from an FE that is up.        *)
Reachable(x) == x = BE /\ Full => pc[FE] # "exited"

Has(e) == Full => published[e] # << >>

(* What process_args is given: both nodes of the full build unpack what the  *)
(* front end published, a bare-metal program splits its boot line.  The       *)
(* constructor of CmdLineArgs points into a copy of the string that is gone   *)
(* when it returns: only a text shared with the Root's outlives it.  init does *)
(* not look at string_to_argv's result: argc and argv may be uninitialised.  *)
Dangles(x) ==
  IF Full THEN x \notin given.sharing
          ELSE x = BE /\ ~StringToArgv(given.boot).stored

TakeArgv(x) ==
  /\ pc[x] = "args"
  /\ Reachable(x)
  /\ IF Full /\ ~Has("CmdLineArgs") THEN Goto(x, "threw") /\ UNCHANGED args
     ELSE IF Dangles(x) THEN Goto(x, "undefined") /\ UNCHANGED args
     ELSE /\ Goto(x, "parse")
          /\ args' = [args EXCEPT ![x].argv =
                         IF Full THEN Unpack(published["CmdLineArgs"][1])
                         ELSE IF x = FE THEN given.argv ELSE StringToArgv(given.boot).argv]
  /\ UNCHANGED <<given, published, issued, next, ran, shown>>

(* A seeded fault: AppMain returns instead of going to DONE.                *)
ProcessArgs_Returns(x) ==
  /\ pc[x] = "parse"
  /\ args' = [args EXCEPT ![x] = Parsed(args[x].argv)]
  /\ Goto(x, IF ParseFails(args[x].argv) THEN "returned"
             ELSE IF x = FE /\ Full /\ args'[x].backend THEN "allocate" ELSE "tests")
  /\ UNCHANGED <<given, published, issued, next, ran, shown>>

(* Only the front end of the full build heeds -B.                           *)
ProcessArgs(x) ==
  /\ pc[x] = "parse"
  /\ args' = [args EXCEPT ![x] = Parsed(args[x].argv)]
  /\ Goto(x, IF ParseFails(args[x].argv) THEN "DONE"
             ELSE IF x = FE /\ Full /\ args'[x].backend THEN "allocate" ELSE "tests")
  /\ UNCHANGED <<given, published, issued, next, ran, shown>>

(* -B: a node is asked for, and init returns 0.                             *)
AllocateNode ==
  /\ pc[FE] = "allocate"
  /\ pc' = [pc EXCEPT ![FE] = "DONE", ![BE] = "booting"]
  /\ UNCHANGED <<given, published, issued, args, next, ran, shown>>

Boot ==
  /\ pc[BE] = "booting"
  /\ Goto(BE, "args")
  /\ UNCHANGED <<given, published, issued, args, next, ran, shown>>

----------------------------------------------------------------------------
(* The tests, in AppMain's order; each returns at once unless it is asked    *)
(* for.  Standard input and file input block until their stream has ended,   *)
(* and not every stream does.                                               *)
Tests(x) ==
  (IF Full THEN UnixTests ELSE << >>) \o (IF x = BE THEN <<"b">> ELSE << >>) \o OtherTests

EbbOf(test) ==
  CASE test = "C" -> "CmdLineArgs" [] test = "E" -> "Environment"
    [] test = "I" -> "InputStream" [] test = "F" -> "FS"

(* What env_test walks: the process's own environment on the front end, on a *)
(* back end the vector that the Environment Ebb has set up.                 *)
Environ(x) == IF x = FE THEN given.env ELSE Unpack(published["Environment"][1])

(* ... which has no end if there is no variable.                            *)
WalksPastEnd(x, test) == x = BE /\ test = "E" /\ ~EnvironTerminated(published["Environment"][1])

(* On the front end a file that cannot be opened is an exception in AppMain; *)
(* on a back end it is one in the front end's handler, and no answer.       *)
OpenFails(x, test) == x = FE /\ test = "F" /\ given.file = "missing"

(* Whether the reader of a test on node x is ever told of an end: of "eof", a *)
(* terminal or pipe that is closed or a file that is read in full, on the    *)
(* front end only; of "dot", a terminal's line that begins with '.', on both. *)
(* A reader of an empty file, of one that falls short of its length, of an   *)
(* endless stream or where io_control fails waits for ever ("never").       *)
StreamOver(x, test) ==
  \/ x = FE /\ test = "F" /\ given.file = "eof"
  \/ x = FE /\ test = "I" /\ given.stdin = "eof"
  \/ test = "I" /\ given.stdin = "dot"

(* A seeded fault: the gate of a test looks at the option before its own.    *)
RunTest_WrongGate(x) ==
  /\ pc[x] = "tests" /\ next[x] <= Len(Tests(x))
  /\ LET test == Tests(x)[next[x]]
     IN  /\ ran' = [ran EXCEPT ![x] =
                      IF next[x] > 1 /\ Tests(x)[next[x] - 1] \in args[x].tests
                        THEN Append(@, test) ELSE @]
         /\ next' = [next EXCEPT ![x] = @ + 1]
  /\ UNCHANGED <<given, published, issued, args, pc, shown>>

RunTest(x) ==
  /\ pc[x] = "tests" /\ next[x] <= Len(Tests(x))
  /\ next' = [next EXCEPT ![x] = @ + 1]
  /\ LET test == Tests(x)[next[x]]
     IN  /\ ran' = [ran EXCEPT ![x] = IF test \in args[x].tests THEN Append(@, test) ELSE @]
         /\ shown' = [shown EXCEPT ![x] =
                        IF test \in args[x].tests /\ test = "E" THEN Environ(x) ELSE @]
         /\ IF test \in args[x].tests /\ test \in ToSet(UnixTests)
              THEN /\ Reachable(x)
                   /\ Goto(x, IF ~Has(EbbOf(test)) THEN "threw"
                              ELSE IF WalksPastEnd(x, test) THEN "undefined"
                              ELSE IF OpenFails(x, test) THEN "failed"
                              ELSE IF test \in {"I", "F"} THEN "blocked" ELSE "tests")
              ELSE UNCHANGED pc
  /\ UNCHANGED <<given, published, issued, args>>

StreamEnds(x) ==
  /\ pc[x] = "blocked"
  /\ StreamOver(x, Tests(x)[next[x] - 1])
  /\ Reachable(x)
  /\ Goto(x, "tests")
  /\ UNCHANGED <<given, published, issued, args, next, ran, shown>>

TestsEnd(x) ==
  /\ pc[x] = "tests" /\ next[x] > Len(Tests(x))
  /\ Goto(x, "DONE")
  /\ UNCHANGED <<given, published, issued, args, next, ran, shown>>

(* DONE: Cpu::Exit on the FE; on a BE processExit, whose message ends the    *)
(* FE's process, or PowerOff.                                               *)
Done(x) ==
  /\ pc[x] = "DONE"
  /\ IF x = BE /\ Full
       THEN /\ Reachable(x) /\ Has("FS")
            /\ pc' = [pc EXCEPT ![BE] = "exiting"]
       ELSE Goto(x, "exited")
  /\ UNCHANGED <<given, published, issued, args, next, ran, shown>>

ProcessExit ==
  /\ pc[BE] = "exiting"
  /\ pc[FE] # "exited"
  /\ Goto(FE, "exited")
  /\ UNCHANGED <<given, published, issued, args, next, ran, shown>>

AppMain(x) ==
  TakeArgv(x) \/ ProcessArgs(x) \/ RunTest(x) \/ StreamEnds(x) \/ TestsEnd(x) \/ Done(x)

(* An FE whose process has exited takes no step.                            *)
Next ==
  \/ /\ pc[FE] # "exited"
     /\ Publish \/ SetDone \/ AppMain(FE) \/ AllocateNode \/ ProcessExit
  \/ AppMain(BE) \/ Boot

Spec == Init /\ [][Next]_vars

(* The nodes run, messages arrive, a node that was asked for boots, and a    *)
(* stream that has an end comes to it.                                      *)
FairSpec ==
  /\ Spec
  /\ WF_vars(pc[FE] # "exited" /\ (Publish \/ SetDone \/ AppMain(FE) \/ AllocateNode))
  /\ WF_vars(AppMain(BE)) /\ WF_vars(Boot)

----------------------------------------------------------------------------
(* Every variable stays in its type; "threw", a use of an Ebb that is not    *)
(* published yet, is not a place AppMain ever gets to ("failed" is the       *)
(* exception of a descriptor that cannot be had).                           *)
TypeOK ==
  /\ given \in Givens
  /\ \A e \in ToSet(UnixEbbs) : published[e] \in Seq(Texts) /\ Len(published[e]) <= 1
  /\ pc \in [Nodes -> {"off", "publish", "setting", "booting", "args", "parse", "allocate", "tests",
                        "blocked", "DONE", "exiting", "exited", "undefined", "failed"}]
  /\ issued \in 0 .. Len(UnixEbbs)
  /\ \A x \in Nodes : args[x].argv \in Seq(Strings) /\ args[x].tests \subseteq Options
  /\ next \in [Nodes -> 1 .. 14]
  /\ ran \in [Nodes -> Seq(Options)]
  /\ shown \in [Nodes -> Seq(Strings)]

(* string_to_argv unquotes in place, so that what it has written must never  *)
(* be what it has yet to read: every argument is the word that the quoting   *)
(* rules make of the line, and argv has a slot for the NULL behind them.     *)
(* Nothing terminates the last argument when the line ends in it, so that    *)
(* one which lost quotes or backslashes only begins with its word.          *)
ArgvMeans ==
  (given.build = "baremetal" /\ pc[BE] # "args") =>
    LET words == Words(given.boot)
        argv == args[BE].argv
    IN  IF Unbalanced(given.boot) THEN pc[BE] = "undefined"
        ELSE /\ StringToArgv(given.boot).terminated
             /\ Len(argv) = Len(words)
             /\ \A i \in 1 .. Len(words) :
                  \/ argv[i] = words[i]
                  \/ i = Len(words) /\ EndsShrunk(given.boot) /\ IsPrefix(words[i], argv[i])

(* What a node has run is what its command line asks for, in AppMain's order *)
(* and no test twice, however the line came to it: published and unpacked by *)
(* both nodes, or split.  After a line in error nothing runs, and the front   *)
(* end runs nothing when the back end was asked to.                         *)
Line(x) == IF x = BE /\ ~Full THEN Words(given.boot) ELSE given.argv

Asked(x) ==
  IF ParseFails(Line(x)) \/ (x = FE /\ Full /\ Parsed(Line(x)).backend) THEN << >>
  ELSE Kept(Tests(x), Parsed(Line(x)).tests)

RanAsAsked ==
  \A x \in Nodes : (x = BE /\ ~Full => ~EndsShrunk(given.boot)) =>
    /\ IsPrefix(ran[x], Asked(x))
    /\ pc[x] = "DONE" => ran[x] = Asked(x)

(* A back end's processes see the front end's environment: what env_test     *)
(* shows is what the front end was started with, on whichever node it runs.  *)
EnvironmentShown ==
  \A x \in Nodes :
    "E" \in ToSet(ran[x]) /\ pc[x] # "undefined" => shown[x] = given.env

(* The program ends, unless it runs into what is undefined, an argument      *)
(* vector that was never stored or dangles, or an environment without an     *)
(* end, or its front end does without the input it was to read: no standard  *)
(* input, or a stream it was asked to read that cannot be opened or has no   *)
(* end that its reader is told of.                                          *)
Defined ==
  /\ given.build = "baremetal" => ~Unbalanced(given.boot)
  /\ Full => given.env # << >> /\ given.sharing = Nodes

InputEnds ==
  Full =>
    /\ given.stdin # "closed"
    /\ \A test \in {"I", "F"} \cap ToSet(Asked(FE)) : StreamOver(FE, test)

ProgramEnds == Defined /\ InputEnds => <>(\E x \in Nodes : pc[x] = "exited")

(* "-B : run tests on Backend": they run there.                             *)
BackendRuns ==
  (pc[FE] = "allocate") ~> (ran[BE] = Asked(BE) /\ pc[BE] \in {"DONE", "exiting"})
=================================================================================
