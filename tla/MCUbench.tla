------------------------------- MODULE MCUbench -------------------------------
(* Instances of Ubench for TLC: every command line of up to two of the       *)
(* elements that are treated differently, in both hosted builds, with input  *)
(* that ends; of up to one without an environment, with libraries whose      *)
(* strings do not share their text, and with every kind of input, as also    *)
(* for a line that asks for both inputs; every boot line of up to five       *)
(* characters.                                                              *)
EXTENDS Ubench

MCCharacters ==
  {NUL, Escape, Quote, DQuote, "-", "u", "x", "y"} \cup Separators \cup Flags \cup Valued

Elements ==
  {<<"-", "C">>, <<"-", "E">>, <<"-", "I">>, <<"-", "F">>, <<"-", "F", "p">>, <<"-", "b">>,
   <<"-", "n", "m">>, <<"-", "B">>, <<"-", "h">>, <<"-", "v">>, <<"-", "x">>, <<"-", "-">>,
   <<"p">>, << >>}

Vectors(n) == {<< <<"u">> >> \o v : v \in UNION {[1 .. k -> Elements] : k \in 0 .. n}}

Hosted(builds, vectors, envs) ==
  [build : builds, argv : vectors, env : envs, boot : {<< >>}, sharing : {Nodes},
   stdin : {"dot"}, file : {"eof"}]

BootCharacters == {"n", "-", " ", "'", "\"", "\\"}
BootLines ==
  UNION {[1 .. k -> BootCharacters] : k \in 0 .. 5}
    \cup UNION {[1 .. k -> {"n", "-", " ", "backspace"}] : k \in 0 .. 5}

BothInputs ==
  {<< <<"u">> >> \o v :
     v \in {<< <<"-", "I">>, <<"-", "F", "p">> >>,
            << <<"-", "B">>, <<"-", "I">>, <<"-", "F", "p">> >>}}

SomeEnv == << <<"x">>, << >>, <<"y">> >>

MCGivens ==
  Hosted({"full", "hosted"}, Vectors(2), {SomeEnv})
    \cup Hosted({"full"}, Vectors(1), {<< >>})
    \cup [build : {"baremetal"}, argv : {<< >>}, env : {<< >>}, boot : BootLines,
            sharing : {Nodes}, stdin : {"dot"}, file : {"eof"}]
    \cup [build : {"full"}, argv : Vectors(1), env : {SomeEnv}, boot : {<< >>},
            sharing : {{}, {FE}}, stdin : {"dot"}, file : {"eof"}]
    \cup [build : {"full"}, argv : Vectors(1) \cup BothInputs, env : {SomeEnv}, boot : {<< >>},
            sharing : {Nodes}, stdin : {"dot", "eof", "never", "closed"},
            file : {"eof", "never", "missing"}]

BackendGivens ==
  Hosted({"full"},
         {<< <<"u">>, <<"-", "B">>, <<"-", "n">> >>, << <<"u">>, <<"-", "B">>, <<"-", "C">> >>,
          << <<"u">>, <<"-", "n">>, <<"-", "I", "B">> >>}, {SomeEnv})
===============================================================================
