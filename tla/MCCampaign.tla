----------------------------- MODULE MCCampaign ------------------------------
(***************************************************************************)
(* Values of the constants of Campaign and its parts for TLC.              *)
(***************************************************************************)
EXTENDS Campaign

(* AflDict: words that differ in case, one of them built in; user dictionaries, the last
   one not in the order of lengths. *)
MCLower(c) == IF c = 3 THEN 2 ELSE c
MCOffered == {<<1, 2>>, <<1, 3>>, <<2, 1>>, <<1, 1>>, <<4, 2>>, <<1, 2, 1>>, <<2, 2, 1>>, <<4, 4, 1>>}
MCBuiltin == {<<2, 1>>}
MCUserDicts == {<<>>, <<<<2, 1>>, <<4, 4, 1>>>>, <<<<4>>, <<2, 2, 1>>, <<2, 2, 2, 2>>>>,
                <<<<2, 2, 1>>, <<4, 2>>>>}
MCFuzzedSeed == <<1, 2, 1, 4>>

(* AflPrune: every byte, and words at the borders; AFL's interesting values. *)
MCOriginals == [val : 0..255, blen : {1}]
               \cup [val : {0, 1, 127, 128, 255, 256, 300, 1000, 4660, 32767, 32768, 65407, 65535}, blen : {2}]
MCInteresting8 == <<-128, -1, 0, 1, 16, 32, 64, 100, 127>>
MCInteresting16Only == <<-32768, -129, 128, 255, 256, 512, 1000, 1024, 4096, 32767>>

(* Mutator: block sizes. *)
MCHavocBlk == <<1, 2, 3, 4>>

(* Walker: up to four weights. *)
MCWeights == UNION {[1..n -> 0..3] : n \in 1..4}

(* NautilusTree: three grammars. *)
R(n, c) == [nt |-> n, children |-> c]

\* Expressions: two recursions of one nonterminal, one of them around a list, and
\* the shortest rule last.
Expressions == <<R("START", <<"E">>), R("E", <<"E", "+", "E">>), R("E", <<"(", "L", ")">>),
                 R("E", <<"x">>), R("L", <<"E", "E">>), R("L", <<>>)>>

\* A size that is lowered after rules were computed with it.
Lowered == <<R("A", <<"x">>), R("L", <<"A">>), R("E", <<"L", "L">>), R("START", <<"E">>), R("L", <<>>)>>

\* E derives nothing that ends.
Endless == <<R("START", <<"E">>), R("E", <<"E", "x">>)>>

Nonterms3 == {"START", "E", "L", "A"}
SomeGrammars == {Expressions, Lowered, Endless}

(* Vuzzer: two blocks. *)
CONSTANTS b1, b2

TwoBlocks == {b1, b2}
UnitWeights == [b \in TwoBlocks |-> 1]

(* LibFuzzer and Nezha: three contents of different sizes. *)
ThreeContents == {"a", "b", "c"}
ThreeSizes == [c \in ThreeContents |-> IF c = "a" THEN 3 ELSE IF c = "b" THEN 2 ELSE 5]
OneOrTwo == {<<"a">>, <<"c", "a">>}

(* LfMutation: the empty seed, a shortest one and one that is longer than max_length, and
   words that an input can hold together or not. *)
MCLmSeeds == {<<>>, <<1>>, <<2, Other, 0, 1>>}
MCLmCrossovers == {<<>>, <<Other, 2>>}
MCManualWords == <<<<Other, 0>>, <<1>>>>

(* Ijon: five inputs. *)
MCInputLen(x) == CASE x = "a" -> 4 [] x = "b" -> 3 [] x = "c" -> 2 [] x = "d" -> 5 [] x = "e" -> 3
\* a and d reach the same for slot 0, b and c for slot 1.
MCReached(x, i) ==
    CASE x = "a" -> <<1, 0>>[i + 1] [] x = "b" -> <<2, 1>>[i + 1] [] x = "c" -> <<0, 1>>[i + 1]
      [] x = "d" -> <<1, 2>>[i + 1] [] x = "e" -> <<1, 2>>[i + 1]

(* PyFuzzer. *)
\* One of the inputs in in_dir hangs.
MCPyFault ==
    [a |-> "FAULT_NONE", b |-> "FAULT_TMOUT", c |-> "FAULT_NONE"]

(* ExecInput: one seed, and two. *)
\* The second seed is a find of an earlier campaign, with the number 1.
SomeSeedLists == {<<1, 2>>, <<2>>}
MCOldFinds == [k \in {2} |-> 1]

(* Cli: every command line that its steps can tell apart. *)
SomeArgvs ==
    [fuzzer : Fuzzers8 \cup {"none", "typo"}, help : BOOLEAN, put : BOOLEAN, unknown : BOOLEAN,
     grammar : BOOLEAN, mut_cnt_ok : BOOLEAN, frida : BOOLEAN]
=============================================================================
