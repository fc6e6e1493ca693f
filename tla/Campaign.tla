------------------------------ MODULE Campaign -------------------------------
(***************************************************************************)
(* fuzzuf from the command line on: Cli builds the fuzzer that was named,  *)
(* and its loop runs; what belongs to the other fuzzers does not exist     *)
(* and stays as it is.  ShouldEnd of libFuzzer and Nezha is tied to their  *)
(* flows.  A fuzzer may have several models, of which one is followed:     *)
(* Nautilus' queue and its trees, libFuzzer's corpus and its mutators,     *)
(* VUzzer's seeds and its mutators' offsets; of AFL the stages and the     *)
(* stores they use, its loop being AflLoop.                                *)
(*                                                                         *)
(* A program may also use fuzzuf without its command line, as the tests    *)
(* and the Python module do: it drives executors, a HierarFlow or a        *)
(* PythonFuzzer itself.                                                    *)
(***************************************************************************)
EXTENDS AflLearns, AflPrune, Mutator, Walker, Inputs, NautilusTree, Nautilus,
        Nezha, LfMutation, VuzzerWhole, AflVariants, Cli, Executors, HierarFlow

CONSTANT Follow       \* the models that are followed into the loop

VARIABLE part         \* the model that is followed

campaignVars == <<part, cliVars, detVars, dictVars, pruneVars, mutatorVars, walkerVars, inputVars,
                  treeVars, nautilusVars, vVars, lVars, nVars, lmVars, vmVars, ijonVars, fastVars, dieVars,
                  xVars, hfVars, pyVars>>

Parts == [afl |-> {"flips", "dictionary", "values", "havoc", "weights", "inputs"},
          nautilus |-> {"tree", "queue"}, vuzzer |-> {"vuzzer", "offsets"}, libfuzzer |-> {"libfuzzer", "mutations"},
          nezha |-> {"nezha"}, ijon |-> {"ijon"}, aflfast |-> {"aflfast"}, die |-> {"die"}]

GoodArgs(name) ==
    [fuzzer |-> name, help |-> FALSE, put |-> TRUE, unknown |-> FALSE,
     grammar |-> TRUE, mut_cnt_ok |-> TRUE, frida |-> FALSE]

GoodArgvs == {GoodArgs(name) : name \in Fuzzers8}

\* What a program uses that has no command line of fuzzuf.
LibraryParts == {"executors", "flow", "python"}

\* The good command lines are followed into the loop, the others up to it.
Followed ==
    CASE argv \in GoodArgvs -> Follow \cap Parts[argv.fuzzer]
      [] argv = GoodArgs("none") -> Follow \cap LibraryParts
      [] OTHER -> {}

\* A choice that an Init leaves open is made for the model that is followed only.
StartsOf(p, values) == IF part = p THEN values ELSE {CHOOSE v \in values : TRUE}

CampaignInit ==
    /\ CliInit
    /\ part \in {"command line"} \cup Followed
    /\ DetBlank /\ IF part = "flips" THEN DetSeed ELSE det_len = 0 /\ det_sums = <<>>
    /\ extras \in StartsOf("dictionary", UserDicts) /\ DictInit
    /\ original \in StartsOf("values", Originals) /\ PruneInit
    /\ source \in StartsOf("havoc", SourceLens) /\ max_havoc \in StartsOf("havoc", BOOLEAN) /\ MutatorInit
    /\ weights \in StartsOf("weights", Weights) /\ WalkerInit
    /\ InputInit
    /\ grammar \in StartsOf("tree", Grammars) /\ TreeInit
    /\ NautilusInit
    /\ VInit
    /\ initial \in StartsOf("libfuzzer", InitialInputs) /\ NezhaInit
    /\ lm_ascii \in StartsOf("mutations", BOOLEAN) /\ LmInit
    /\ VmInit
    /\ IjonInit
    /\ fast_varies \in StartsOf("aflfast", BOOLEAN)
    /\ fast_queue \in StartsOf("aflfast", {<<NewSeed(path, 0)>> : path \in FastPaths}) /\ FastInit
    /\ die_queue = <<>> /\ DieBlank
    /\ x_todo \in StartsOf("executors", FuzzerPlans) /\ XInit
    /\ HfInit /\ PyInit

\* The state is made by the builder; DIE's has read its seeds then.
CliStep ==
    /\ part \notin LibraryParts
    /\ CliNext
    /\ die_queue' = IF part = "die" /\ "state" \in made' THEN ReadScripts ELSE die_queue
    /\ UNCHANGED <<part, detVars, dictVars, pruneVars, mutatorVars, walkerVars, inputVars,
                   treeVars, nautilusVars, vVars, lVars, nVars, lmVars, vmVars, ijonVars, fastVars,
                   die_virgin, die_saved, dieDirs, die_pc, die_cur, die_n, die_discovered,
                   xVars, hfVars, pyVars>>

Untouched(ps, vars) == IF part \in ps THEN TRUE ELSE UNCHANGED vars

\* OneLoop, one step of the flow of the fuzzer; libFuzzer and Nezha may come to their end.
LoopStep ==
    /\ cli_pc = "loop" /\ ~cli_end
    /\ \/ part = "flips" /\ DetNext
       \/ part = "dictionary" /\ DictNext
       \/ part = "values" /\ PruneNext
       \/ part = "havoc" /\ MutatorNext
       \/ part = "weights" /\ WalkerNext
       \/ part = "inputs" /\ InputNext
       \/ part = "tree" /\ TreeNext
       \/ part = "queue" /\ NautilusNext
       \/ part = "vuzzer" /\ VNext
       \/ part = "libfuzzer" /\ LNext /\ UNCHANGED nVars
       \/ part = "nezha" /\ NezhaNext
       \/ part = "mutations" /\ LmNext
       \/ part = "offsets" /\ VmNext
       \/ part = "ijon" /\ IjonNext
       \/ part = "aflfast" /\ FastNext
       \/ part = "die" /\ DieNext
    /\ Untouched({"flips"}, detVars) /\ Untouched({"dictionary"}, dictVars)
    /\ Untouched({"values"}, pruneVars) /\ Untouched({"havoc"}, mutatorVars)
    /\ Untouched({"weights"}, walkerVars) /\ Untouched({"inputs"}, inputVars)
    /\ Untouched({"tree"}, treeVars) /\ Untouched({"queue"}, nautilusVars)
    /\ Untouched({"vuzzer"}, vVars) /\ Untouched({"libfuzzer", "nezha"}, <<lVars, nVars>>)
    /\ Untouched({"mutations"}, lmVars) /\ Untouched({"offsets"}, vmVars)
    /\ Untouched({"ijon"}, ijonVars) /\ Untouched({"aflfast"}, fastVars)
    /\ Untouched({"die"}, dieVars)
    /\ LoopTurn(part \in {"libfuzzer", "nezha"} /\ lpc' = "end")
    /\ UNCHANGED <<part, xVars, hfVars, pyVars>>

LibraryStep ==
    /\ \/ part = "executors" /\ XNext
       \/ part = "flow" /\ HfNext
       \/ part = "python" /\ PyNext
    /\ Untouched({"executors"}, xVars) /\ Untouched({"flow"}, hfVars) /\ Untouched({"python"}, pyVars)
    /\ UNCHANGED <<part, cliVars, detVars, dictVars, pruneVars, mutatorVars, walkerVars, inputVars,
                   treeVars, nautilusVars, vVars, lVars, nVars, lmVars, vmVars, ijonVars, fastVars, dieVars>>

CampaignNext == CliStep \/ LoopStep \/ LibraryStep

\* One thread runs the whole program.
CampaignSpec == CampaignInit /\ [][CampaignNext]_campaignVars /\ WF_campaignVars(CampaignNext)

-----------------------------------------------------------------------------
(* What the parts of the program promise.  Each conjunct is stated and explained   *)
(* in the module of its part.                                                      *)

\* AFL's mutants: none is lost and none made twice by the tests that save runs.
AflMutatesRight == NoMutantLost /\ NoMutantTwice

\* Nautilus' trees are derivations of the grammar with the sizes, parents, recursions and
\* chunks that were computed for them, generated within their limit and smaller after they
\* were minimized.
NautilusSound ==
    /\ [](MinSizesRight /\ TreeConsistent /\ RecursionsRight /\ ChunksResolve)
    /\ [][SizesBounded]_treeVars

\* libFuzzer's mutators: every access and assertion is right, sizes are kept, words that
\* helped are the ones remembered, and masked bytes come back to their places.
LfMutatesRight ==
    /\ AccessesRight /\ SelfCopyExact
    /\ MutantSize /\ MaskRoundTrip
    /\ UsedWordPresent /\ AutoDictFits

\* Nobody starves: Nautilus' entries leave their stages although the queue is a stack, and
\* DIE's seeds have their turn although esfuzz dies.
NobodyStarves == EntriesAdvance /\ EverySeedTurns
=============================================================================
