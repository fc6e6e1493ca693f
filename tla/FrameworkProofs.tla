-------------------------- MODULE FrameworkProofs ---------------------------
(***************************************************************************)
(* Proofs about what stands around a fuzzer: the builders of the command   *)
(* line for every set of command lines, OnDiskExecInput and PythonFuzzer   *)
(* for any number of seeds, inputs and sessions, and HierarFlow for any    *)
(* number of nodes, calls and activations.                                 *)
(*                                                                         *)
(* The builders: both promises concern the order of their steps, so that   *)
(* invariant says how far a builder has come and the lemmas say what       *)
(* stands before what in each of them.                                     *)
(*                                                                         *)
(* HierarFlow: while a flow is built the forest is kept because the only   *)
(* new way to close a cycle leads through the node that was extended, from *)
(* which GuaranteeNoLoop looks. While it runs the tree stays as it is, and *)
(* the stack is a path down that tree: so no node is on it twice, and each *)
(* routine's reference is that of its last node on the stack.              *)
(***************************************************************************)
EXTENDS Cli, Inputs, HierarFlow, FiniteSetTheorems, SequenceTheorems, TLAPS

-----------------------------------------------------------------------------
(* The command line.                                                       *)

\* Where help is looked for.
HelpAt(name) == IF name = "nautilus" THEN 2 ELSE 3

\* The command lines HelpAnswered is about, of those that name a fuzzer.
AsksHelp == argv.help /\ argv.fuzzer \in (Fuzzers8 \ {"nezha"}) \cup {"none"} /\ ~argv.unknown

Progress ==
    /\ argv \in Argvs /\ cli_pc \in {"parse", "build", "loop", "exited", "undefined"}
    /\ cli_step \in Nat /\ cli_end \in BOOLEAN
    /\ cli_pc = "parse" => ~cli_end
    /\ cli_pc = "build" => argv.fuzzer \in Fuzzers8 /\ cli_step >= 1
    /\ cli_pc = "build" /\ cli_end => cli_step > Len(Builder(argv.fuzzer))

\* What was passed is there; help_end goes past everything and has ended the fuzzer.
DirsPassed ==
    cli_pc = "build" /\ ~cli_end =>
        \A j \in 1..Len(Builder(argv.fuzzer)) :
            j < cli_step /\ Builder(argv.fuzzer)[j] = "dirs" => "dirs" \in made

\* Until help is looked for nothing happens, afterwards nothing can.
HelpFirst ==
    AsksHelp =>
        /\ made = {} /\ cli_pc # "undefined"
        /\ cli_pc = "build" => IF cli_end THEN answer = "help" ELSE cli_step <= HelpAt(argv.fuzzer)
        /\ cli_pc = "loop" => cli_end /\ answer = "help"
        /\ cli_pc = "exited" => answer = "help"

CliInv == Progress /\ DirsPassed /\ ExecutorAfterDirs /\ HelpFirst

-----------------------------------------------------------------------------
(* The builders.                                                           *)

\* In every builder a step that makes an executor comes after the one that sets the
\* directories up.
LEMMA ExecutorStepLater ==
    ASSUME NEW name \in Fuzzers8, NEW i \in 1..Len(Builder(name)), Builder(name)[i] = "executor"
    PROVE  \E j \in 1..Len(Builder(name)) : j < i /\ Builder(name)[j] = "dirs"
<1>1. CASE name = "afl"
  BY <1>1 DEF Builder, BuildAFL
<1>2. CASE name = "aflfast"
  BY <1>2 DEF Builder, BuildAFLFast
<1>3. CASE name = "ijon"
  BY <1>3 DEF Builder, BuildIJON
<1>4. CASE name = "die"
  BY <1>4 DEF Builder, BuildDIE
<1>5. CASE name = "vuzzer"
  BY <1>5 DEF Builder, BuildVUzzer
<1>6. CASE name = "nautilus"
  BY <1>6 DEF Builder, BuildNautilus
<1>7. CASE name \in {"libfuzzer", "nezha"}
  BY <1>7 DEF Builder, BuildLibFuzzer
<1> QED
  BY <1>1, <1>2, <1>3, <1>4, <1>5, <1>6, <1>7 DEF Fuzzers8

\* In every builder but Nezha's and before help is looked for there are only steps that
\* cannot fail; required options are looked for there in no fuzzer that has one.
LEMMA HelpStepEarly ==
    ASSUME NEW name \in Fuzzers8 \ {"nezha"}
    PROVE  /\ Len(Builder(name)) \in Nat /\ HelpAt(name) \in 1..Len(Builder(name))
           /\ Builder(name)[1] = "store"
           /\ name # "nautilus" => Builder(name)[2] = "notify"
           /\ Builder(name)[HelpAt(name)] \in {"help", "help_end"}
<1>1. CASE name = "afl"
  BY <1>1 DEF Builder, BuildAFL, HelpAt
<1>2. CASE name = "aflfast"
  BY <1>2 DEF Builder, BuildAFLFast, HelpAt
<1>3. CASE name = "ijon"
  BY <1>3 DEF Builder, BuildIJON, HelpAt
<1>4. CASE name = "die"
  BY <1>4 DEF Builder, BuildDIE, HelpAt
<1>5. CASE name = "vuzzer"
  BY <1>5 DEF Builder, BuildVUzzer, HelpAt
<1>6. CASE name = "nautilus"
  BY <1>6 DEF Builder, BuildNautilus, HelpAt
<1>7. CASE name = "libfuzzer"
  BY <1>7 DEF Builder, BuildLibFuzzer, HelpAt
<1> QED
  BY <1>1, <1>2, <1>3, <1>4, <1>5, <1>6, <1>7 DEF Fuzzers8

\* A builder has finitely many steps.
LEMMA BuilderLength == ASSUME NEW name \in Fuzzers8 PROVE Len(Builder(name)) \in Nat
<1>1. CASE name = "nezha"
  BY <1>1 DEF Builder, BuildLibFuzzer
<1> QED
  BY <1>1, HelpStepEarly

-----------------------------------------------------------------------------
(* The steps of a builder, each in the three ways it can go.               *)

\* A step that goes on leaves the invariant as it is, unless it makes the executor, or
\* asks for help.
LEMMA GoOnKeeps ==
    ASSUME CliInv, AtStep(Step), NEW more, GoOn(more),
           Step = "executor" \/ "executor" \notin more,
           Step = "dirs" => "dirs" \in more,
           Step \in {"help", "help_end"} => ~argv.help,
           Step \in {"store", "notify"} => more = {}
    PROVE  CliInv'
<1> USE DEF CliInv, AtStep, GoOn, Step
<1>1. Progress'
  BY BuilderLength DEF Progress
<1>2. DirsPassed'
  BY BuilderLength DEF Progress, DirsPassed
<1>3. ExecutorAfterDirs'
  <2>1. CASE Step = "executor"
    <3>1. "dirs" \in made
      BY <2>1, ExecutorStepLater, BuilderLength DEF Progress, DirsPassed
    <3> QED
      BY <3>1 DEF ExecutorAfterDirs
  <2> QED
    BY <2>1 DEF ExecutorAfterDirs
<1>4. HelpFirst'
  BY HelpStepEarly DEF Progress, HelpFirst, AsksHelp, HelpAt
<1> QED
  BY <1>1, <1>2, <1>3, <1>4

\* The process may stop anywhere, with help shown if it was asked for.
LEMMA ExitKeeps ==
    ASSUME CliInv, NEW code, NEW shown, Exit(code, shown), AsksHelp => shown = "help"
    PROVE  CliInv'
<1> USE DEF CliInv, Exit
<1>1. Progress' /\ DirsPassed' /\ ExecutorAfterDirs'
  BY DEF Progress, DirsPassed, ExecutorAfterDirs
<1>2. HelpFirst'
  BY DEF HelpFirst, AsksHelp
<1> QED
  BY <1>1, <1>2

\* Who asks for help comes to no step but those before it.
LEMMA HelpStopsHere ==
    ASSUME CliInv, AsksHelp, NEW s, AtStep(s)
    PROVE  s \in {"store", "notify", "help", "help_end"} /\ (s = "notify" => argv.fuzzer # "nautilus")
<1>1. argv.fuzzer \in Fuzzers8 \ {"nezha"} /\ cli_step \in 1..HelpAt(argv.fuzzer)
  BY DEF CliInv, Progress, HelpFirst, AsksHelp, AtStep, Fuzzers8
<1>2. cli_step = 1 \/ cli_step = HelpAt(argv.fuzzer) \/ (argv.fuzzer # "nautilus" /\ cli_step = 2)
  BY <1>1 DEF HelpAt
<1> QED
  BY <1>1, <1>2, HelpStepEarly DEF AtStep, Step

\* One step of the command line.
LEMMA CliNextKeeps ==
    ASSUME CliInv, CliNext \/ \E end \in BOOLEAN : LoopTurn(end)
    PROVE  CliInv'
<1>h. argv \in Argvs /\ argv.help \in BOOLEAN /\ argv.unknown \in BOOLEAN
  BY CliAssumption DEF CliInv, Progress
<1>1. CASE ParseGlobalOptionsForFuzzer
  <2>1. CASE Throw
    BY <2>1, <1>1, <1>h, ExitKeeps DEF ParseGlobalOptionsForFuzzer, Throw, AsksHelp, Exit
  <2>2. CASE Exit(0, "help")
    BY <2>2, ExitKeeps
  <2>3. CASE argv.fuzzer \in Fuzzers8 /\ cli_pc' = "build" /\ cli_step' = 1
             /\ UNCHANGED <<argv, made, cli_end, answer, exit_code>>
    <3>1. Progress' /\ DirsPassed' /\ ExecutorAfterDirs'
      BY <2>3, <1>1 DEF ParseGlobalOptionsForFuzzer, CliInv, Progress, DirsPassed, ExecutorAfterDirs
    <3>2. HelpFirst'
      BY <2>3, <1>1 DEF ParseGlobalOptionsForFuzzer, CliInv, Progress, HelpFirst, AsksHelp, HelpAt
    <3> QED
      BY <3>1, <3>2 DEF CliInv
  <2> QED
    BY <1>1, <2>1, <2>2, <2>3 DEF ParseGlobalOptionsForFuzzer
<1>2. CASE Store
  <2>1. CASE GoOn({})
    BY <1>2, <2>1, GoOnKeeps DEF AtStep, Store
  <2>2. CASE Throw /\ (argv.unknown \/ argv.fuzzer = "nezha")
    BY <2>2, ExitKeeps DEF Throw, AsksHelp, Fuzzers8
  <2> QED
    BY <1>2, <2>1, <2>2 DEF Store
<1>3. CASE Notify
  <2>1. CASE GoOn({})
    BY <1>3, <2>1, GoOnKeeps DEF AtStep, Notify
  <2>2. CASE Throw /\ argv.fuzzer = "nautilus"
    BY <1>3, <2>2, ExitKeeps, HelpStopsHere DEF Throw, Notify
  <2> QED
    BY <1>3, <2>1, <2>2 DEF Notify
<1>4. CASE Help
  <2>1. CASE ~argv.help /\ GoOn({})
    BY <1>4, <2>1, GoOnKeeps DEF AtStep, Help
  <2>2. CASE Exit(1, "help")
    BY <2>2, ExitKeeps
  <2> QED
    BY <1>4, <2>1, <2>2 DEF Help
<1>5. CASE HelpEnd
  <2>1. CASE ~argv.help /\ GoOn({})
    BY <1>5, <2>1, GoOnKeeps DEF AtStep, HelpEnd
  <2>2. CASE argv.help
    <3>1. Progress'
      BY <1>5, <2>2, BuilderLength DEF HelpEnd, AtStep, CliInv, Progress
    <3>2. DirsPassed' /\ ExecutorAfterDirs' /\ HelpFirst'
      BY <1>5, <2>2 DEF HelpEnd, AtStep, CliInv, DirsPassed, ExecutorAfterDirs, HelpFirst, AsksHelp
    <3> QED
      BY <3>1, <3>2 DEF CliInv
  <2> QED
    BY <1>5, <2>1, <2>2 DEF HelpEnd
<1>6. CASE Frida
  BY <1>6, GoOnKeeps DEF AtStep, Frida
<1>7. CASE First
  <2>1. CASE GoOn({})
    BY <1>7, <2>1, GoOnKeeps DEF AtStep, First
  <2>2. CASE cli_pc' = "undefined" /\ UNCHANGED <<argv, cli_step, made, cli_end, answer, exit_code>>
    <3>1. ~AsksHelp
      BY <1>7, HelpStopsHere DEF First
    <3>2. Progress' /\ DirsPassed' /\ ExecutorAfterDirs'
      BY <2>2 DEF CliInv, Progress, DirsPassed, ExecutorAfterDirs
    <3>3. HelpFirst'
      BY <2>2, <3>1 DEF HelpFirst, AsksHelp
    <3> QED
      BY <3>2, <3>3 DEF CliInv
  <2> QED
    BY <1>7, <2>1, <2>2 DEF First
<1>8. CASE PutCheck
  <2>1. CASE GoOn({})
    BY <1>8, <2>1, GoOnKeeps DEF AtStep, PutCheck
  <2>2. CASE Exit(1, "usage")
    BY <1>8, <2>2, ExitKeeps, HelpStopsHere DEF PutCheck
  <2> QED
    BY <1>8, <2>1, <2>2 DEF PutCheck
<1>9. CASE MutCntCheck
  <2>1. CASE GoOn({})
    BY <1>9, <2>1, GoOnKeeps DEF AtStep, MutCntCheck
  <2>2. CASE Exit(1, "usage")
    BY <1>9, <2>2, ExitKeeps, HelpStopsHere DEF MutCntCheck
  <2> QED
    BY <1>9, <2>1, <2>2 DEF MutCntCheck
<1>10. CASE SetupDirs
  <2>1. CASE GoOn({"dirs"})
    BY <1>10, <2>1, GoOnKeeps DEF AtStep, SetupDirs
  <2>2. CASE Throw
    BY <1>10, <2>2, ExitKeeps, HelpStopsHere DEF SetupDirs, Throw
  <2> QED
    BY <1>10, <2>1, <2>2 DEF SetupDirs
<1>11. CASE MakeExecutor
  <2>1. CASE GoOn({"executor"})
    BY <1>11, <2>1, GoOnKeeps DEF AtStep, MakeExecutor
  <2>2. CASE Exit(1, "error")
    BY <1>11, <2>2, ExitKeeps, HelpStopsHere DEF MakeExecutor
  <2> QED
    BY <1>11, <2>1, <2>2 DEF MakeExecutor
<1>12. CASE MakeState
  BY <1>12, GoOnKeeps DEF AtStep, MakeState
<1>13. CASE LoadDict
  <2>1. CASE GoOn({})
    BY <1>13, <2>1, GoOnKeeps DEF AtStep, LoadDict
  <2>2. CASE Exit(1, "error")
    BY <1>13, <2>2, ExitKeeps, HelpStopsHere DEF LoadDict
  <2> QED
    BY <1>13, <2>1, <2>2 DEF LoadDict
<1>14. CASE Built
  <2>1. Progress' /\ DirsPassed' /\ ExecutorAfterDirs'
    BY <1>14 DEF Built, CliInv, Progress, DirsPassed, ExecutorAfterDirs
  <2>2. AsksHelp => cli_end
    BY <1>14, HelpStepEarly DEF Built, CliInv, Progress, HelpFirst, AsksHelp, Fuzzers8
  <2>3. HelpFirst'
    BY <1>14, <2>2 DEF Built, CliInv, HelpFirst, AsksHelp
  <2> QED
    BY <2>1, <2>3 DEF CliInv
<1>15. CASE Ended
  BY <1>15, ExitKeeps DEF Ended, CliInv, HelpFirst
<1>16. CASE \E end \in BOOLEAN : LoopTurn(end)
  <2>1. PICK end \in BOOLEAN : LoopTurn(end)
    BY <1>16
  <2>2. ~AsksHelp
    BY <2>1 DEF LoopTurn, CliInv, HelpFirst
  <2>3. Progress' /\ DirsPassed' /\ ExecutorAfterDirs'
    BY <2>1 DEF LoopTurn, CliInv, Progress, DirsPassed, ExecutorAfterDirs
  <2>4. HelpFirst'
    BY <2>1, <2>2 DEF LoopTurn, HelpFirst, AsksHelp
  <2> QED
    BY <2>3, <2>4 DEF CliInv
<1> QED
  BY <1>1, <1>2, <1>3, <1>4, <1>5, <1>6, <1>7, <1>8, <1>9, <1>10, <1>11, <1>12, <1>13,
     <1>14, <1>15, <1>16 DEF CliNext

-----------------------------------------------------------------------------

\* Whatever the command lines and whatever the fuzzers behind them do: no builder makes
\* an executor before it has set the directories up, and who asks for help is shown it
\* and leaves nothing behind.
THEOREM CommandLine == CliSpec => []CommandLineSound
<1>1. CliInit => CliInv
  <2> SUFFICES ASSUME CliInit PROVE CliInv
    OBVIOUS
  <2>1. cli_end \in BOOLEAN /\ ~cli_end
    BY DEF CliInit
  <2>2. Progress
    BY <2>1 DEF CliInit, Progress
  <2>3. DirsPassed /\ ExecutorAfterDirs /\ HelpFirst
    BY DEF CliInit, DirsPassed, ExecutorAfterDirs, HelpFirst
  <2> QED
    BY <2>2, <2>3 DEF CliInv
<1>2. CliInv /\ [CliNext \/ \E end \in BOOLEAN : LoopTurn(end)]_cliVars => CliInv'
  <2>1. CASE UNCHANGED cliVars
    BY <2>1 DEF cliVars, CliInv, Progress, DirsPassed, ExecutorAfterDirs, HelpFirst, AsksHelp
  <2> QED
    BY <2>1, CliNextKeeps
<1>3. CliInv => CommandLineSound
  BY DEF CliInv, HelpFirst, AsksHelp, CommandLineSound, HelpAnswered
<1> QED
  BY <1>1, <1>2, <1>3, PTL DEF CliSpec

-----------------------------------------------------------------------------
(* PythonFuzzer.                                                           *)

\* Identifiers are below the counter, so that the next one is new everywhere.
PyIds ==
    /\ py_next \in Nat
    /\ DOMAIN py_files \subseteq 0..py_next - 1
    /\ DOMAIN py_inputs \subseteq DOMAIN py_files
    /\ DOMAIN py_tests \subseteq DOMAIN py_inputs

\* Between its run and its entry an input is the one in the coverage maps, and the answer
\* of a call names a testcase.
PyInHand ==
    /\ py_pc = "update" => py_map = py_buf
    /\ py_pc = "reply" /\ py_resp # InvalidId => py_resp \in DOMAIN py_tests

PyInv ==
    /\ PyIds /\ PyInHand
    /\ HeldIdsSelectable /\ SeedShowsItsRun /\ FilesOfThisSession

\* PyInv in the state PyInit describes: no fuzzer yet, no file, nothing in hand.
LEMMA PyInitHolds == PyInit => PyInv
<1> SUFFICES ASSUME PyInit PROVE PyInv
  OBVIOUS
<1>1. DOMAIN py_files = {} /\ DOMAIN py_inputs = {} /\ DOMAIN py_tests = {}
  BY DEF PyInit
<1> QED
  BY <1>1 DEF PyInit, PyInv, PyIds, PyInHand, HeldIdsSelectable, SeedShowsItsRun, FilesOfThisSession

\* Each call keeps the agreement of identifiers, inputs, testcases and files.
LEMMA PyNextKeeps == PyInv /\ [PyNext]_pyVars => PyInv'
<1> SUFFICES ASSUME PyInv, [PyNext]_pyVars PROVE PyInv'
  OBVIOUS
<1> USE DEF PyInv, PyIds, PyInHand
<1>1. CASE Reset \/ Release
  <2>1. /\ DOMAIN py_files' = {} /\ DOMAIN py_inputs' = {} /\ DOMAIN py_tests' = {}
        /\ py_held' = {} /\ py_next' = py_next /\ py_pc' \in {"seeds", "released"}
    BY <1>1 DEF Reset, Release
  <2> QED
    BY <2>1 DEF HeldIdsSelectable, SeedShowsItsRun, FilesOfThisSession
<1>2. CASE ExecuteInitialSeeds \/ AddSeed \/ PySelectSeed \/ MutateSeed
  <2>1. /\ UNCHANGED <<py_inputs, py_tests, py_files, py_held, py_next>>
        /\ py_pc' \in {"idle", "execute", "exited"}
    BY <1>2 DEF ExecuteInitialSeeds, AddSeed, PySelectSeed, MutateSeed
  <2> QED
    BY <2>1 DEF HeldIdsSelectable, SeedShowsItsRun, FilesOfThisSession
<1>3. CASE RemoveSeed
  <2>1. CASE UNCHANGED <<py_inputs, py_tests, py_held>>
    BY <1>3, <2>1 DEF RemoveSeed, HeldIdsSelectable, SeedShowsItsRun, FilesOfThisSession
  <2>2. CASE ~UNCHANGED <<py_inputs, py_tests, py_held>>
    <3>1. PICK id \in DOMAIN py_tests :
             /\ py_inputs' = Without(py_inputs, id)
             /\ py_tests' = Without(py_tests, id)
             /\ py_held' = py_held \ {id}
      BY <1>3, <2>2 DEF RemoveSeed
    <3>2. py_pc' \in {"idle", "exited"} /\ UNCHANGED <<py_files, py_next>>
      BY <1>3 DEF RemoveSeed
    <3>3. /\ DOMAIN py_inputs' = DOMAIN py_inputs \ {id} /\ DOMAIN py_tests' = DOMAIN py_tests \ {id}
          /\ \A i \in DOMAIN py_inputs' : py_inputs'[i] = py_inputs[i]
          /\ \A i \in DOMAIN py_tests' : py_tests'[i] = py_tests[i]
      BY <3>1 DEF Without
    <3>8. py_files[id] = [dir |-> "queue", content |-> py_tests[id].input]
      BY DEF SeedShowsItsRun
    <3>4. py_files[id].dir = "queue"
      BY <3>8
    <3>5. PyIds' /\ PyInHand' /\ HeldIdsSelectable'
      BY <3>1, <3>2, <3>3 DEF HeldIdsSelectable
    <3>6. SeedShowsItsRun'
      BY <3>2, <3>3 DEF SeedShowsItsRun
    <3>7. FilesOfThisSession'
      BY <3>2, <3>3, <3>4 DEF FilesOfThisSession
    <3> QED
      BY <3>5, <3>6, <3>7
  <2> QED
    BY <2>1, <2>2
<1>4. CASE PyExecutePUT
  BY <1>4 DEF PyExecutePUT, HeldIdsSelectable, SeedShowsItsRun, FilesOfThisSession
<1>5. CASE PyUpdate
  <2> DEFINE file == [dir |-> Directory(py_reason), content |-> py_buf]
             harm == py_reason \in {"FAULT_TMOUT", "FAULT_CRASH"}
  <2>1. /\ py_pc = "update" /\ py_map = py_buf
        /\ py_inputs' = With(py_inputs, py_next, py_buf)
        /\ py_files' = With(py_files, py_next, file)
        /\ py_next' = py_next + 1 /\ py_pc' = "reply" /\ py_held' = py_held
    BY <1>5 DEF PyUpdate, NextId
  <2>2. py_next \notin DOMAIN py_files /\ py_next \notin DOMAIN py_inputs /\ py_next \notin DOMAIN py_tests
    OBVIOUS
  <2>5. /\ DOMAIN py_inputs' = DOMAIN py_inputs \cup {py_next} /\ py_inputs'[py_next] = py_buf
        /\ \A i \in DOMAIN py_inputs : py_inputs'[i] = py_inputs[i]
        /\ DOMAIN py_files' = DOMAIN py_files \cup {py_next} /\ py_files'[py_next] = file
        /\ \A i \in DOMAIN py_files : py_files'[i] = py_files[i]
    <3> HIDE DEF file
    <3> QED
      BY <2>1, <2>2 DEF With
  <2>3. CASE harm
    <3>1. py_tests' = py_tests /\ py_resp' = InvalidId
      BY <1>5, <2>3 DEF PyUpdate
    <3>2. file.dir # "queue"
      BY <2>3 DEF Directory
    <3> HIDE DEF file, harm
    <3>3. PyIds'
      BY <2>1, <2>5, <3>1, <3>2
    <3>4. PyInHand' /\ HeldIdsSelectable'
      BY <2>1, <3>1, <3>2 DEF HeldIdsSelectable
    <3>5. SeedShowsItsRun'
      BY <2>1, <2>2, <2>5, <3>1, <3>2 DEF SeedShowsItsRun
    <3>6. FilesOfThisSession'
      BY <2>5 DEF FilesOfThisSession
    <3> QED
      BY <3>3, <3>4, <3>5, <3>6
  <2>4. CASE ~harm
    <3> DEFINE test == [input |-> py_buf, feed |-> py_buf]
    <3>1. py_tests' = With(py_tests, py_next, test) /\ py_resp' = py_next
      BY <1>5, <2>1, <2>2, <2>4 DEF PyUpdate, NextId
    <3>2. file = [dir |-> "queue", content |-> test.input] /\ test.feed = test.input /\ test.input = py_buf
      BY <2>4 DEF Directory
    <3> HIDE DEF file, harm, test
    <3>7. /\ DOMAIN py_tests' = DOMAIN py_tests \cup {py_next} /\ py_tests'[py_next] = test
          /\ \A i \in DOMAIN py_tests : py_tests'[i] = py_tests[i]
      BY <3>1, <2>2 DEF With
    <3>3. PyIds'
      BY <2>1, <2>5, <3>1, <3>2, <3>7
    <3>4. PyInHand' /\ HeldIdsSelectable'
      BY <2>1, <3>1, <3>2, <3>7 DEF HeldIdsSelectable
    <3>5. SeedShowsItsRun'
      BY <2>1, <2>2, <2>5, <3>1, <3>2, <3>7 DEF SeedShowsItsRun
    <3>6. FilesOfThisSession'
      BY <2>5 DEF FilesOfThisSession
    <3> QED
      BY <3>3, <3>4, <3>5, <3>6
  <2> QED
    BY <2>3, <2>4
<1>6. CASE Reply
  BY <1>6 DEF Reply, HeldIdsSelectable, SeedShowsItsRun, FilesOfThisSession
<1>7. CASE UNCHANGED pyVars
  BY <1>7 DEF pyVars, HeldIdsSelectable, SeedShowsItsRun, FilesOfThisSession
<1> QED
  BY <1>1, <1>2, <1>3, <1>4, <1>5, <1>6, <1>7 DEF PyNext

-----------------------------------------------------------------------------
(* OnDiskExecInput: directory and inputs.                                  *)

Contents == [len : Nat, tag : Nat]
Memory == [cap : Nat, data : Contents]

IsSeedPath(p) == \E k \in Seeds : p = <<"in", k>>
IsQueuePath(p) == \E n \in Nat, m \in Seeds \cup {0} : p = <<"queue", n, m>>
IsOutPath(p) == IsQueuePath(p) \/ p = MaxPath

\* The paths that PivotInputs may make a link of the seed k.
LinkOf(p, k) ==
    \/ p = <<"in", k>>
    \/ \E n \in Nat : p = <<"queue", n, k>>
    \/ k \in DOMAIN OldFinds /\ p = <<"queue", OldFinds[k], 0>>

\* No other path leads to the inode of p, or an earlier session left a link under this name.
Alone(p) == \A q \in DOMAIN dir : dir[q] = dir[p] => q = p \/ (session > 1 /\ p[3] = 0)

\* The directory holds the user's files and the output; paths share an inode as links of one
\* seed only, and such links outlive their sessions.
DirInv ==
    /\ IsFiniteSet(DOMAIN dir)
    /\ \A p \in DOMAIN dir : (IsSeedPath(p) \/ IsOutPath(p)) /\ Content(p) \in Contents
    /\ \A k \in Seeds : <<"in", k>> \in DOMAIN dir
    /\ \A p, q \in DOMAIN dir : dir[p] = dir[q] => p = q \/ \E k \in Seeds : LinkOf(p, k) /\ LinkOf(q, k)

\* The first input is IJON's, whose file may not be there yet.  Another that is still the
\* user's file is not loaded; one of the queue is there under its number and is alone,
\* unless it knows that it is a link.
Placed(o, i) ==
    /\ i = 1 => o.path = MaxPath
    /\ i # 1 => o.path \in DOMAIN dir /\ o.path # MaxPath
    /\ o.path[1] = "in" => o.mem = NotLoaded
    /\ o.path[1] = "queue" => o.path[2] = i - 2 /\ (o.hardlinked \/ Alone(o.path))

Faithful(o) ==
    o.mem # NotLoaded =>
      /\ o.path \in DOMAIN dir
      /\ o.mem.cap >= o.len /\ o.len = o.mem.data.len
      /\ o.mem.data = Content(o.path) \/ (o.hardlinked /\ SeedExposed(o.path[3]))

ObjectOK(o, i) ==
    /\ o \in [path : DOMAIN dir \cup {MaxPath}, hardlinked : BOOLEAN, len : Nat, mem : Memory]
    /\ Placed(o, i) /\ Faithful(o)

ObjInv ==
    /\ objs = [i \in 1..Len(objs) |-> objs[i]] /\ Len(objs) \in Nat
    /\ \A i \in DOMAIN objs : ObjectOK(objs[i], i)

\* In the first session, what bears the name of a find is an input.
FreshNames ==
    /\ session \in Nat \ {0}
    /\ session = 1 => \A n \in Nat : <<"queue", n, 0>> \in DOMAIN dir => n + 2 \in DOMAIN objs

InputInv == DirInv /\ ObjInv /\ FreshNames /\ SeedsUntouched

-----------------------------------------------------------------------------
(* Writing to a file.                                                      *)

\* What a write to p amounts to, whichever way it is done: p leads to the content, and
\* nothing else has changed but what shared its inode before.
Put(p, c) ==
    /\ session' = session
    /\ DOMAIN dir' = DOMAIN dir \cup {p}
    /\ files'[dir'[p]] = c
    /\ \A q \in DOMAIN dir \ {p} :
         /\ dir'[q] = dir[q]
         /\ \/ dir'[q] # dir'[p] /\ files'[dir'[q]] = files[dir[q]]
            \/ session > 1 /\ p[3] = 0 /\ p \in DOMAIN dir /\ dir[p] = dir[q] /\ dir'[q] = dir'[p]

\* There is an inode left.
LEMMA FreeInode ==
    ASSUME NEW d, IsFiniteSet(DOMAIN d)
    PROVE  \E n \in 1..Cardinality(DOMAIN d) + 1 : n \notin Range(d)
<1> DEFINE C == Cardinality(DOMAIN d)
           f == [x \in DOMAIN d |-> d[x]]
<1>1. C \in Nat
  BY FS_CardinalityType
<1>2. f \in Surjection(DOMAIN d, Range(d))
  BY DEF Surjection, Range
<1>3. IsFiniteSet(Range(d)) /\ Cardinality(Range(d)) <= C
  BY <1>2, FS_Surjection
<1>4. IsFiniteSet(1..C + 1) /\ Cardinality(1..C + 1) = C + 1
  BY <1>1, FS_Interval
<1> HIDE DEF C
<1>5. ~(1..C + 1 \subseteq Range(d))
  <2> SUFFICES ASSUME 1..C + 1 \subseteq Range(d) PROVE FALSE
    OBVIOUS
  <2>1. Cardinality(1..C + 1) <= Cardinality(Range(d))
    BY <1>3, FS_Subset
  <2>2. Cardinality(Range(d)) \in Nat
    BY <1>3, FS_CardinalityType
  <2> QED
    BY <1>1, <1>3, <1>4, <2>1, <2>2
<1> QED
  BY <1>5 DEF C

\* A write to a path that is alone, or to a new one.
LEMMA Written ==
    ASSUME NEW d, IsFiniteSet(DOMAIN d), NEW p, NEW c, WriteFile(d, p, c), session' = session,
           DOMAIN dir \subseteq DOMAIN d \cup {p}, DOMAIN d \subseteq DOMAIN dir,
           \A q \in DOMAIN d : d[q] = dir[q],
           p \in DOMAIN d => \A q \in DOMAIN d : d[q] = d[p] => q = p \/ (session > 1 /\ p[3] = 0)
    PROVE  Put(p, c)
<1> DEFINE free == CHOOSE n \in 1..Cardinality(DOMAIN d) + 1 : n \notin Range(d)
           inode == IF p \in DOMAIN d THEN d[p] ELSE free
<1>1. free \notin Range(d)
  BY FreeInode
<1>2. /\ dir' = [q \in DOMAIN d \cup {p} |-> IF q = p THEN inode ELSE d[q]]
      /\ files' = [n \in Range(d) \cup {inode} |-> IF n = inode THEN c ELSE files[n]]
  BY DEF WriteFile
<1>3. \A q \in DOMAIN d : q # p => d[q] \in Range(d)
  BY DEF Range
<1>7. \A q \in DOMAIN d : q # p /\ d[q] = inode =>
        session > 1 /\ p[3] = 0 /\ p \in DOMAIN d /\ d[p] = inode
  BY <1>1, <1>3
<1> HIDE DEF free, inode
<1>4. DOMAIN dir' = DOMAIN dir \cup {p}
  BY <1>2
<1>5. dir'[p] = inode /\ files'[inode] = c
  BY <1>2
<1>6. \A q \in DOMAIN dir \ {p} : dir'[q] = d[q] /\ d[q] = dir[q] /\ (d[q] = inode \/ files'[d[q]] = files[d[q]])
  BY <1>2, <1>3
<1>8. \A q \in DOMAIN dir \ {p} :
        d[q] = inode => session > 1 /\ p[3] = 0 /\ p \in DOMAIN dir /\ dir[p] = inode
  BY <1>7
<1> QED
  BY <1>4, <1>5, <1>6, <1>8 DEF Put

\* What shares the inode of a path with the name of a find is a link of an old find.
LEMMA SharedFacts ==
    ASSUME DirInv, NEW p \in DOMAIN dir, NEW q \in DOMAIN dir, dir[p] = dir[q], p # q,
           IsOutPath(p), p[3] = 0
    PROVE  \E k \in DOMAIN OldFinds : q = <<"in", k>> \/ \E n \in Nat : q = <<"queue", n, k>>
<1>1. PICK k \in Seeds : LinkOf(p, k) /\ LinkOf(q, k)
  BY DEF DirInv
<1>2. k # 0
  BY InputAssumption
<1>3. k \in DOMAIN OldFinds /\ p = <<"queue", OldFinds[k], 0>>
  BY <1>1, <1>2 DEF LinkOf, IsOutPath, IsQueuePath, MaxPath
<1> QED
  BY <1>1, <1>3 DEF LinkOf

\* A write through a path of the output leaves the directory in order, and the user's files
\* alone but for an old find that a link of an earlier session leads to.
LEMMA PutKeepsDir ==
    ASSUME DirInv, SeedsUntouched, NEW p, IsOutPath(p), NEW c \in Contents, Put(p, c)
    PROVE  DirInv' /\ SeedsUntouched'
<1>1. IsFiniteSet(DOMAIN dir')
  BY FS_AddElement DEF DirInv, Put
<1>2. \A k \in Seeds : <<"in", k>> # p
  BY DEF IsOutPath, IsQueuePath, MaxPath
<1>3. ASSUME NEW q \in DOMAIN dir'
      PROVE  (IsSeedPath(q) \/ IsOutPath(q)) /\ files'[dir'[q]] \in Contents
  <2>1. CASE q = p \/ dir'[q] = dir'[p]
    BY <2>1 DEF DirInv, Put
  <2>2. CASE q # p /\ dir'[q] # dir'[p]
    BY <2>2 DEF DirInv, Put, Content
  <2> QED
    BY <2>1, <2>2
<1>4. \A k \in Seeds : <<"in", k>> \in DOMAIN dir'
  BY <1>2 DEF DirInv, Put
<1>5. ASSUME NEW q \in DOMAIN dir', NEW r \in DOMAIN dir', dir'[q] = dir'[r], q # r
      PROVE  \E k \in Seeds : LinkOf(q, k) /\ LinkOf(r, k)
  <2>1. q \in DOMAIN dir /\ r \in DOMAIN dir /\ dir[q] = dir[r]
    <3>1. CASE q # p /\ r # p
      BY <1>5, <3>1 DEF Put
    <3>2. CASE q = p
      BY <1>5, <3>2 DEF Put
    <3>3. CASE r = p
      BY <1>5, <3>3 DEF Put
    <3> QED
      BY <3>1, <3>2, <3>3
  <2> QED
    BY <1>5, <2>1 DEF DirInv
<1>6. DirInv'
  BY <1>1, <1>3, <1>4, <1>5 DEF DirInv, Content
<1>7. ASSUME NEW k \in Seeds
      PROVE  files'[dir'[<<"in", k>>]] = SeedContent(k) \/ (k \in DOMAIN OldFinds /\ session' > 1)
  <2>1. PICK q : q = <<"in", k>>
    OBVIOUS
  <2>2. q \in DOMAIN dir \ {p}
    BY <1>2, <2>1 DEF DirInv
  <2>3. CASE files'[dir'[q]] = files[dir[q]]
    BY <2>1, <2>3 DEF SeedsUntouched, Content, SeedExposed, Put
  <2>4. CASE session > 1 /\ p[3] = 0 /\ p \in DOMAIN dir /\ dir[p] = dir[q]
    <3>1. PICK j \in DOMAIN OldFinds : q = <<"in", j>> \/ \E n \in Nat : q = <<"queue", n, j>>
      BY <2>2, <2>4, SharedFacts
    <3>2. j = k
      BY <2>1, <3>1
    <3> QED
      BY <2>4, <3>2 DEF Put
  <2> QED
    BY <2>2, <2>3, <2>4 DEF Put
<1>8. SeedsUntouched'
  BY <1>7 DEF SeedsUntouched, Content, SeedContent, SeedExposed
<1> QED
  BY <1>6, <1>8

\* An input of another path stays what it was.
LEMMA PutKeepsObject ==
    ASSUME DirInv, NEW p, IsOutPath(p), NEW c, Put(p, c), NEW i, NEW o, ObjectOK(o, i), o.path # p
    PROVE  ObjectOK(o, i)'
<1>1. DOMAIN dir \subseteq DOMAIN dir'
  BY DEF Put
<1>2. o \in [path : DOMAIN dir' \cup {MaxPath}, hardlinked : BOOLEAN, len : Nat, mem : Memory]
  BY <1>1 DEF ObjectOK
<1>3. CASE o.path \notin DOMAIN dir
  <2>1. i = 1 /\ o.path = MaxPath /\ o.mem = NotLoaded
    BY <1>3 DEF ObjectOK, Placed, Faithful
  <2> QED
    BY <1>2, <2>1 DEF ObjectOK, Placed, Faithful, MaxPath
<1>4. CASE o.path \in DOMAIN dir
  <2>1. PICK q : q = o.path
    OBVIOUS
  <2>2. q \in DOMAIN dir \ {p} /\ dir'[q] = dir[q]
    BY <1>4, <2>1 DEF Put
  <2>3. CASE dir'[q] # dir'[p]
    <3>1. files'[dir'[q]] = files[dir[q]]
      BY <2>2, <2>3 DEF Put
    <3>2. Alone(q) => Alone(q)'
      BY <2>2, <2>3 DEF Alone, Put
    <3> QED
      BY <1>1, <1>2, <2>1, <2>2, <3>1, <3>2 DEF ObjectOK, Placed, Faithful, Content, SeedExposed, Put
  <2>4. CASE dir'[q] = dir'[p]
    <3>1. session > 1 /\ p[3] = 0 /\ p \in DOMAIN dir /\ dir[p] = dir[q]
      BY <2>2, <2>4 DEF Put
    <3>2. PICK k \in DOMAIN OldFinds : q = <<"in", k>> \/ \E n \in Nat : q = <<"queue", n, k>>
      BY <2>2, <3>1, SharedFacts
    <3>3. k # 0
      BY InputAssumption
    <3>4. CASE q = <<"in", k>>
      <4>1. q[1] = "in" /\ o.mem = NotLoaded /\ q # MaxPath
        BY <2>1, <3>4 DEF ObjectOK, Placed, MaxPath
      <4> QED
        BY <1>1, <1>2, <2>1, <2>2, <4>1 DEF ObjectOK, Placed, Faithful
    <3>5. CASE \E n \in Nat : q = <<"queue", n, k>>
      <4>1. q[1] = "queue" /\ q[3] = k /\ q # MaxPath
        BY <3>5 DEF MaxPath
      <4>2. ~Alone(q)
        BY <2>2, <3>1, <3>3, <4>1 DEF Alone
      <4>3. o.hardlinked /\ SeedExposed(k)'
        BY <2>1, <3>1, <4>1, <4>2 DEF ObjectOK, Placed, SeedExposed, Put
      <4> QED
        BY <1>1, <1>2, <2>1, <2>2, <4>1, <4>3 DEF ObjectOK, Placed, Faithful
    <3> QED
      BY <3>2, <3>4, <3>5
  <2> QED
    BY <2>3, <2>4
<1> QED
  BY <1>3, <1>4

-----------------------------------------------------------------------------
(* The steps.                                                              *)

\* What an input may be replaced by when only memory changes.
LEMMA MemoryStep ==
    ASSUME InputInv, UNCHANGED <<files, dir, session>>, NEW i \in DOMAIN objs,
           NEW o, ObjectOK(o, i), objs' = [objs EXCEPT ![i] = o]
    PROVE  InputInv'
<1>1. DirInv' /\ SeedsUntouched' /\ FreshNames'
  BY DEF InputInv, DirInv, SeedsUntouched, SeedExposed, FreshNames, Content
<1>2. DOMAIN objs' = DOMAIN objs /\ Len(objs') = Len(objs)
  BY DEF InputInv, ObjInv
<1>3. ASSUME NEW j \in DOMAIN objs
      PROVE  ObjectOK(objs[j], j)'
  <2>1. PICK other : other = objs'[j]
    OBVIOUS
  <2>2. ObjectOK(other, j)
    BY <2>1 DEF InputInv, ObjInv
  <2>3. ObjectOK(other, j)'
    BY <2>2 DEF ObjectOK, Placed, Faithful, Alone, SeedExposed, Content
  <2> QED
    BY <2>1, <2>3
<1> QED
  BY <1>1, <1>2, <1>3 DEF InputInv, ObjInv

\* What an input may be replaced by when it is written to its file.
LEMMA WriteStep ==
    ASSUME InputInv, NEW i \in DOMAIN objs, NEW o, NEW c \in Contents,
           \/ IsQueuePath(o.path) /\ o.path[2] = i - 2 /\ i # 1
           \/ o.path = MaxPath /\ i = 1,
           Put(o.path, c),
           o \in [path : DOMAIN dir' \cup {MaxPath}, hardlinked : BOOLEAN, len : Nat, mem : Memory],
           o.mem # NotLoaded => o.mem.cap >= o.len /\ o.len = o.mem.data.len /\ o.mem.data = c,
           objs' = [objs EXCEPT ![i] = o]
    PROVE  InputInv'
<1>6. IsOutPath(o.path)
  BY DEF IsOutPath
<1>1. DirInv' /\ SeedsUntouched'
  BY <1>6, PutKeepsDir DEF InputInv
<1>2. DOMAIN objs' = DOMAIN objs /\ Len(objs') = Len(objs)
  BY DEF InputInv, ObjInv
<1>3. ObjectOK(o, i)'
  <2>1. o.path \in DOMAIN dir' /\ files'[dir'[o.path]] = c
    BY DEF Put
  <2>2. CASE IsQueuePath(o.path) /\ o.path[2] = i - 2 /\ i # 1
    <3>1. o.path[1] = "queue" /\ o.path # MaxPath
      BY <2>2 DEF IsQueuePath, MaxPath
    <3>2. Alone(o.path)'
      BY DEF Put, Alone
    <3> QED
      BY <2>1, <2>2, <3>1, <3>2 DEF ObjectOK, Placed, Faithful, Content
  <2>3. CASE o.path = MaxPath /\ i = 1
    BY <2>1, <2>3 DEF ObjectOK, Placed, Faithful, Content, MaxPath
  <2> QED
    BY <2>2, <2>3
<1>4. ASSUME NEW j \in DOMAIN objs, j # i
      PROVE  ObjectOK(objs[j], j)'
  <2>1. PICK other : other = objs[j]
    OBVIOUS
  <2>2. ObjectOK(other, j) /\ objs'[j] = other
    BY <1>4, <2>1 DEF InputInv, ObjInv
  <2>3. other.path # o.path
    <3>1. i \in Nat /\ j \in Nat
      BY DEF InputInv, ObjInv
    <3>2. IsQueuePath(o.path) => o.path[1] = "queue" /\ o.path # MaxPath
      BY DEF IsQueuePath, MaxPath
    <3> QED
      BY <1>4, <2>2, <3>1, <3>2 DEF ObjectOK, Placed
  <2>4. ObjectOK(other, j)'
    BY <1>6, <2>2, <2>3, PutKeepsObject DEF InputInv
  <2> QED
    BY <2>2, <2>4
<1>7. FreshNames'
  <2>1. ASSUME NEW n \in Nat, <<"queue", n, 0>> = o.path
        PROVE  n + 2 \in DOMAIN objs
    <3>1. n = i - 2 /\ i \in Nat
      BY <2>1 DEF InputInv, ObjInv, MaxPath
    <3> QED
      BY <3>1
  <2> QED
    BY <1>2, <2>1 DEF InputInv, FreshNames, Put
<1>5. ASSUME NEW j \in DOMAIN objs
      PROVE  ObjectOK(objs[j], j)'
  <2>1. CASE j = i
    BY <1>3, <2>1 DEF InputInv, ObjInv
  <2> QED
    BY <1>4, <2>1
<1> QED
  BY <1>1, <1>2, <1>5, <1>7 DEF InputInv, ObjInv

\* The paths of inputs.
LEMMA ObjectFacts ==
    ASSUME InputInv, NEW i \in DOMAIN objs
    PROVE  /\ i \in Nat \ {0} /\ ObjectOK(objs[i], i)
           /\ objs[i].path = MaxPath <=> i = 1
           /\ i # 1 => objs[i].path \in DOMAIN dir /\ (IsSeedPath(objs[i].path) \/ IsQueuePath(objs[i].path))
           /\ objs[i].path[1] = "queue" => IsQueuePath(objs[i].path) /\ objs[i].path[2] = i - 2 /\ i # 1
           /\ objs[i].path[1] = "in" => IsSeedPath(objs[i].path) /\ i # 1
<1>1. i \in Nat \ {0} /\ ObjectOK(objs[i], i)
  BY DEF InputInv, ObjInv
<1>2. (objs[i].path = MaxPath <=> i = 1) /\ (i # 1 => objs[i].path \in DOMAIN dir)
  BY <1>1 DEF ObjectOK, Placed
<1>3. i # 1 => IsSeedPath(objs[i].path) \/ IsQueuePath(objs[i].path)
  BY <1>2 DEF InputInv, DirInv, IsOutPath
<1>4. MaxPath[1] # "queue" /\ MaxPath[1] # "in"
  BY DEF MaxPath
<1> QED
  BY <1>1, <1>2, <1>3, <1>4 DEF ObjectOK, Placed, IsSeedPath, IsQueuePath

\* The file of an input that is a link is unlinked first, and then has an inode of its own.
LEMMA SaveStep ==
    ASSUME InputInv, NEW i \in DOMAIN objs, objs[i].path[1] = "queue",
           NEW o \in [path : DOMAIN dir \cup {MaxPath}, hardlinked : BOOLEAN, len : Nat, mem : Memory],
           o.path = objs[i].path, o.hardlinked = objs[i].hardlinked,
           o.mem.cap >= o.len, o.len = o.mem.data.len, Save(i, o), session' = session
    PROVE  InputInv'
<1> DEFINE d == IF o.hardlinked THEN Unbind(o.path) ELSE dir
<1>1. IsQueuePath(o.path) /\ o.path[2] = i - 2 /\ i # 1 /\ o.path \in DOMAIN dir
  BY ObjectFacts
<1>2. IsFiniteSet(DOMAIN dir)
  BY DEF InputInv, DirInv
<1>3. Put(o.path, o.mem.data)
  <2>1. WriteFile(d, o.path, o.mem.data)
    BY DEF Save
  <2>2. CASE o.hardlinked
    <3>1. DOMAIN d = DOMAIN dir \ {o.path} /\ \A q \in DOMAIN d : d[q] = dir[q]
      BY <2>2 DEF Unbind
    <3>2. IsFiniteSet(DOMAIN d)
      BY <1>2, <3>1, FS_Subset
    <3> HIDE DEF d
    <3> QED
      BY <2>1, <3>1, <3>2, Written
  <2>3. CASE ~o.hardlinked
    <3>1. d = dir /\ Alone(o.path)
      BY <2>3, ObjectFacts DEF ObjectOK, Placed
    <3> HIDE DEF d
    <3> QED
      BY <1>2, <2>1, <3>1, Written DEF Alone
  <2> QED
    BY <2>2, <2>3
<1>4. PICK n : n = [o EXCEPT !.hardlinked = FALSE]
  OBVIOUS
<1>5. /\ objs' = [objs EXCEPT ![i] = n]
      /\ n.path = o.path /\ n.len = o.len /\ n.mem = o.mem
      /\ n \in [path : DOMAIN dir \cup {MaxPath}, hardlinked : BOOLEAN, len : Nat, mem : Memory]
  BY <1>4 DEF Save
<1>6. n \in [path : DOMAIN dir' \cup {MaxPath}, hardlinked : BOOLEAN, len : Nat, mem : Memory]
  BY <1>5, <1>3 DEF Put
<1>7. o.mem.data \in Contents
  BY DEF Memory
<1> QED
  BY <1>1, <1>3, <1>5, <1>6, <1>7, WriteStep

\* Memory is made large enough.
LEMMA ReallocFits ==
    ASSUME InputInv, NEW i \in DOMAIN objs, NEW c \in Contents,
           NEW o, o = [ReallocBufIfLack(objs[i], c.len) EXCEPT !.mem.data = c]
    PROVE  /\ o \in [path : DOMAIN dir \cup {MaxPath}, hardlinked : BOOLEAN, len : Nat, mem : Memory]
           /\ o.path = objs[i].path /\ o.hardlinked = objs[i].hardlinked
           /\ o.len = c.len /\ o.mem.data = c /\ o.mem.cap >= c.len
<1>1. PICK b : b = objs[i]
  OBVIOUS
<1>2. b \in [path : DOMAIN dir \cup {MaxPath}, hardlinked : BOOLEAN, len : Nat, mem : Memory] /\ Faithful(b)
  BY <1>1 DEF InputInv, ObjInv, ObjectOK
<1>3. PICK cap : cap = IF b.mem = NotLoaded \/ c.len > b.len THEN c.len ELSE b.mem.cap
  OBVIOUS
<1>4. cap \in Nat /\ cap >= c.len
  BY <1>2, <1>3 DEF Faithful, Memory, Contents
<1>5. /\ o.path = b.path /\ o.hardlinked = b.hardlinked /\ o.len = c.len
      /\ o.mem = [cap |-> cap, data |-> c]
      /\ o = [path |-> o.path, hardlinked |-> o.hardlinked, len |-> o.len, mem |-> o.mem]
  <2>1. b = [path |-> b.path, hardlinked |-> b.hardlinked, len |-> b.len, mem |-> b.mem]
    BY <1>2
  <2>2. b.mem = [cap |-> b.mem.cap, data |-> b.mem.data]
    BY <1>2 DEF Memory
  <2>3. PICK r : r = ReallocBufIfLack(b, c.len)
    OBVIOUS
  <2>4. r = [path |-> b.path, hardlinked |-> b.hardlinked, len |-> c.len,
             mem |-> [cap |-> cap, data |-> b.mem.data]]
    <3>1. r = [b EXCEPT !.mem.cap = cap, !.len = c.len]
      BY <1>3, <2>1, <2>2, <2>3 DEF ReallocBufIfLack
    <3> QED
      BY <2>1, <2>2, <3>1
  <2>5. o = [r EXCEPT !.mem.data = c]
    BY <1>1, <2>3
  <2> QED
    BY <2>4, <2>5
<1>6. [cap |-> cap, data |-> c] \in Memory /\ c.len \in Nat
  BY <1>4 DEF Memory, Contents
<1>7. PICK m : m = [cap |-> cap, data |-> c]
  OBVIOUS
<1>8. m \in Memory /\ m.data = c /\ m.cap = cap
  BY <1>6, <1>7
<1> QED
  BY <1>1, <1>2, <1>4, <1>5, <1>6, <1>7, <1>8

\* Loading an input of the queue, by a read or by mmap, puts its file's bytes in memory.
LEMMA LoadKeeps == ASSUME InputInv, NEW i \in DOMAIN objs, objs[i].path[1] # "in", Load(i) \/ LoadByMmap(i) PROVE InputInv'
<1>1. PICK b : b = objs[i]
  OBVIOUS
<1>2. ObjectOK(b, i) /\ b.path \in DOMAIN dir
  BY <1>1, ObjectFacts DEF Load, LoadByMmap
<1>3. PICK c : c = Content(b.path)
  OBVIOUS
<1>4. c \in Contents
  BY <1>2, <1>3 DEF InputInv, DirInv
<1>5. CASE Load(i)
  <2>1. PICK o : o = [ReallocBufIfLack(objs[i], c.len) EXCEPT !.mem.data = c]
    OBVIOUS
  <2>2. objs' = [objs EXCEPT ![i] = o] /\ UNCHANGED <<files, dir, session>>
    BY <1>1, <1>3, <1>5, <2>1 DEF Load
  <2>3. ObjectOK(o, i)
    BY <1>1, <1>2, <1>3, <1>4, <2>1, ReallocFits DEF ObjectOK, Placed, Faithful
  <2> QED
    BY <2>2, <2>3, MemoryStep
<1>6. CASE LoadByMmap(i)
  <2>1. PICK o : o = [b EXCEPT !.mem = [cap |-> c.len, data |-> c], !.len = c.len]
    OBVIOUS
  <2>2. objs' = [objs EXCEPT ![i] = o] /\ UNCHANGED <<files, dir, session>>
    BY <1>1, <1>3, <1>6, <2>1 DEF LoadByMmap
  <2>3. /\ o \in [path : DOMAIN dir \cup {MaxPath}, hardlinked : BOOLEAN, len : Nat, mem : Memory]
        /\ o.path = b.path /\ o.hardlinked = b.hardlinked
        /\ o.len = c.len /\ o.mem.data = c /\ o.mem.cap = c.len /\ c.len \in Nat
    BY <1>2, <1>4, <2>1 DEF ObjectOK, Memory, Contents
  <2>4. ObjectOK(o, i)
    BY <1>1, <1>2, <1>3, <2>3 DEF ObjectOK, Placed, Faithful
  <2> QED
    BY <2>2, <2>4, MemoryStep
<1> QED
  BY <1>5, <1>6

\* Unloading forgets the bytes in memory and touches no file.
LEMMA UnloadKeeps == ASSUME InputInv, NEW i \in DOMAIN objs, Unload(i) PROVE InputInv'
<1>1. PICK b : b = objs[i]
  OBVIOUS
<1>2. ObjectOK(b, i)
  BY <1>1, ObjectFacts
<1>3. PICK o : o = [b EXCEPT !.mem = NotLoaded]
  OBVIOUS
<1>4. NotLoaded \in Memory
  BY DEF NotLoaded, Memory, Contents
<1>5. /\ o \in [path : DOMAIN dir \cup {MaxPath}, hardlinked : BOOLEAN, len : Nat, mem : Memory]
      /\ o.path = b.path /\ o.hardlinked = b.hardlinked /\ o.mem = NotLoaded
  BY <1>2, <1>3, <1>4 DEF ObjectOK
<1>6. ObjectOK(o, i)
  BY <1>2, <1>5 DEF ObjectOK, Placed, Faithful
<1> QED
  BY <1>1, <1>3, <1>6, MemoryStep DEF Unload

\* The trimming stage: the shorter buffer, saved over the file it was loaded from.
LEMMA TrimKeeps == ASSUME InputInv, NEW i \in DOMAIN objs, objs[i].path[1] = "queue", Trim(i) PROVE InputInv'
<1>1. PICK b : b = objs[i]
  OBVIOUS
<1>2. b \in [path : DOMAIN dir \cup {MaxPath}, hardlinked : BOOLEAN, len : Nat, mem : Memory]
  BY <1>1, ObjectFacts DEF ObjectOK
<1>3. PICK c : c = [b.mem.data EXCEPT !.len = @ - 1]
  OBVIOUS
<1>4. c.len > 0 /\ c \in Contents /\ c.len \in Nat
  BY <1>1, <1>2, <1>3 DEF Trim, Memory, Contents
<1>5. PICK m : m = [cap |-> c.len, data |-> c]
  OBVIOUS
<1>6. m \in Memory /\ m.cap = c.len /\ m.data = c
  BY <1>4, <1>5 DEF Memory
<1>7. PICK o : o = [b EXCEPT !.mem = m, !.len = c.len]
  OBVIOUS
<1>8. /\ o \in [path : DOMAIN dir \cup {MaxPath}, hardlinked : BOOLEAN, len : Nat, mem : Memory]
      /\ o.path = b.path /\ o.hardlinked = b.hardlinked /\ o.len = c.len /\ o.mem = m
  BY <1>2, <1>4, <1>6, <1>7
<1>9. Save(i, o) /\ session' = session
  BY <1>1, <1>3, <1>5, <1>7 DEF Trim
<1> QED
  BY <1>1, <1>4, <1>6, <1>8, <1>9, SaveStep

\* What a mutation finds is a content of the model.
LEMMA FindsAreContents == Finds \subseteq Contents
<1>1. FindLens \subseteq Nat /\ 0 \in Nat
  BY InputAssumption
<1> QED
  BY <1>1 DEF Finds, Contents, FoundTag

\* OverwriteKeepingLoaded: the buffer changes in place and is saved.
LEMMA OverwriteKeeps ==
    ASSUME InputInv, NEW i \in DOMAIN objs, objs[i].path[1] = "queue", NEW c \in Contents,
           OverwriteKeepingLoaded(i, c)
    PROVE  InputInv'
<1>1. PICK o : o = [ReallocBufIfLack(objs[i], c.len) EXCEPT !.mem.data = c]
  OBVIOUS
<1>2. Save(i, o) /\ session' = session
  BY <1>1 DEF OverwriteKeepingLoaded
<1> QED
  BY <1>1, <1>2, ReallocFits, SaveStep

\* IJON writing its own input, loaded or not: no other path leads to that file.
LEMMA RewriteKeeps ==
    ASSUME InputInv, NEW i \in DOMAIN objs, NEW c \in Contents, Rewrite(i, c)
    PROVE  InputInv'
<1>1. PICK b : b = objs[i]
  OBVIOUS
<1>2. b.path = MaxPath /\ i = 1 /\ session' = session
  BY <1>1, ObjectFacts DEF Rewrite
<1>3. ObjectOK(b, i)
  BY <1>1, ObjectFacts
<1>4. PICK o : o = [b EXCEPT !.mem = NotLoaded]
  OBVIOUS
<1>5. NotLoaded \in Memory
  BY DEF NotLoaded, Memory, Contents
<1>6. /\ o \in [path : DOMAIN dir \cup {MaxPath}, hardlinked : BOOLEAN, len : Nat, mem : Memory]
      /\ o.path = MaxPath /\ o.mem = NotLoaded
  BY <1>2, <1>3, <1>4, <1>5 DEF ObjectOK
<1>7. Put(MaxPath, c)
  <2>1. WriteFile(dir, MaxPath, c)
    BY <1>1, <1>2 DEF Rewrite, OverwriteThenUnload
  <2>2. ASSUME NEW q \in DOMAIN dir, MaxPath \in DOMAIN dir, dir[q] = dir[MaxPath]
        PROVE  q = MaxPath
    <3>1. \A k \in Seeds : ~LinkOf(MaxPath, k)
      BY DEF LinkOf, MaxPath
    <3> QED
      BY <2>2, <3>1 DEF InputInv, DirInv
  <2>3. IsFiniteSet(DOMAIN dir)
    BY DEF InputInv, DirInv
  <2> QED
    BY <1>2, <2>1, <2>2, <2>3, Written
<1>8. ASSUME NEW j \in DOMAIN objs, j # i
      PROVE  objs[j] # b
  BY <1>2, <1>8, ObjectFacts
<1>9. objs' = [objs EXCEPT ![i] = o]
  <2>1. objs' = [j \in DOMAIN objs |-> IF objs[j] = b THEN o ELSE objs[j]]
    BY <1>1, <1>4 DEF Rewrite, OverwriteThenUnload
  <2> QED
    BY <1>1, <1>8, <2>1
<1>10. o \in [path : DOMAIN dir' \cup {MaxPath}, hardlinked : BOOLEAN, len : Nat, mem : Memory]
  BY <1>6, <1>7 DEF Put
<1> QED
  BY <1>2, <1>6, <1>7, <1>9, <1>10, WriteStep

\* The user's file, by its number.
LEMMA Pivots ==
    ASSUME InputInv, NEW i \in DOMAIN objs, Unpivoted(i)
    PROVE  /\ IsQueuePath(QueueName(i)) /\ QueueName(i)[2] = i - 2 /\ QueueName(i)[1] = "queue"
           /\ i # 1 /\ objs[i].path \in DOMAIN dir /\ objs[i].mem = NotLoaded
           /\ \E k \in Seeds : objs[i].path = <<"in", k>> /\ LinkOf(QueueName(i), k)
<1>1. IsSeedPath(objs[i].path) /\ objs[i].path[1] = "in" /\ objs[i].path \in DOMAIN dir /\ i # 1
  BY ObjectFacts DEF Unpivoted
<1>2. PICK k \in Seeds : objs[i].path = <<"in", k>>
  BY <1>1 DEF IsSeedPath
<1>3. i - 2 \in Nat
  BY <1>1, ObjectFacts
<1>4. objs[i].mem = NotLoaded
  BY <1>1, ObjectFacts DEF ObjectOK, Placed
<1>5. objs[i].path[2] = k
  BY <1>2
<1>6. QueueName(i) = <<"queue", i - 2, IF k \in DOMAIN OldFinds /\ OldFinds[k] = i - 2 THEN 0 ELSE k>>
  BY <1>5 DEF QueueName
<1>7. CASE k \in DOMAIN OldFinds /\ OldFinds[k] = i - 2
  <2>1. QueueName(i) = <<"queue", i - 2, 0>>
    BY <1>6, <1>7
  <2> QED
    BY <1>1, <1>2, <1>3, <1>4, <1>7, <2>1 DEF IsQueuePath, LinkOf
<1>8. CASE ~(k \in DOMAIN OldFinds /\ OldFinds[k] = i - 2)
  <2>1. QueueName(i) = <<"queue", i - 2, k>>
    BY <1>6, <1>8
  <2> QED
    BY <1>1, <1>2, <1>3, <1>4, <2>1 DEF IsQueuePath, LinkOf
<1> QED
  BY <1>7, <1>8

\* A seed is copied into the queue under the entry's own name, over what another session left there.
LEMMA CopyAndReferKeeps ==
    ASSUME InputInv, NEW i \in DOMAIN objs, CopyAndRefer(i)
    PROVE  InputInv'
<1>1. Unpivoted(i)
  BY DEF CopyAndRefer
<1>2. PICK p : p = QueueName(i)
  OBVIOUS
<1>3. /\ IsQueuePath(p) /\ p[2] = i - 2 /\ i # 1
      /\ objs[i].path \in DOMAIN dir /\ objs[i].mem = NotLoaded
  BY <1>1, <1>2, Pivots
<1>4. PICK c : c = Content(objs[i].path)
  OBVIOUS
<1>5. c \in Contents
  BY <1>3, <1>4 DEF InputInv, DirInv
<1>6. Put(p, c)
  <2>1. PICK d : d = Unbind(p)
    OBVIOUS
  <2>2. DOMAIN d = DOMAIN dir \ {p} /\ \A q \in DOMAIN d : d[q] = dir[q]
    BY <2>1 DEF Unbind
  <2>3. IsFiniteSet(DOMAIN d)
    BY <2>2, FS_Subset DEF InputInv, DirInv
  <2>4. WriteFile(d, p, c) /\ session' = session
    BY <1>2, <1>4, <2>1, <2>2 DEF CopyAndRefer, CopyFile
  <2> QED
    BY <2>2, <2>3, <2>4, Written
<1>7. PICK o : o = [objs[i] EXCEPT !.path = p, !.hardlinked = FALSE]
  OBVIOUS
<1>8. objs' = [objs EXCEPT ![i] = o]
  BY <1>2, <1>7 DEF CopyAndRefer
<1>9. objs[i] \in [path : DOMAIN dir \cup {MaxPath}, hardlinked : BOOLEAN, len : Nat, mem : Memory]
  BY ObjectFacts DEF ObjectOK
<1>10. /\ o \in [path : DOMAIN dir' \cup {MaxPath}, hardlinked : BOOLEAN, len : Nat, mem : Memory]
       /\ o.path = p /\ o.mem = NotLoaded
  BY <1>3, <1>6, <1>7, <1>9 DEF Put
<1> QED
  BY <1>3, <1>5, <1>6, <1>8, <1>10, WriteStep

\* A link to the user's file changes no content, and takes no inode from an input that
\* has its own.
LEMMA LinkAndReferKeeps ==
    ASSUME InputInv, NEW i \in DOMAIN objs, LinkAndRefer(i)
    PROVE  InputInv'
<1>1. Unpivoted(i)
  BY DEF LinkAndRefer
<1>2. PICK p : p = QueueName(i)
  OBVIOUS
<1>3. PICK from : from = objs[i].path
  OBVIOUS
<1>4. /\ IsQueuePath(p) /\ p[2] = i - 2 /\ p[1] = "queue" /\ i # 1
      /\ from \in DOMAIN dir /\ objs[i].mem = NotLoaded
  BY <1>1, <1>2, <1>3, Pivots
<1>7. PICK k \in Seeds : from = <<"in", k>> /\ LinkOf(p, k)
  BY <1>1, <1>2, <1>3, Pivots
<1>5. p \notin DOMAIN dir
  BY <1>2 DEF LinkAndRefer
<1>6. /\ DOMAIN dir' = DOMAIN dir \cup {p} /\ dir'[p] = dir[from]
      /\ \A q \in DOMAIN dir : dir'[q] = dir[q]
      /\ files' = files /\ session' = session
  BY <1>2, <1>3, <1>5 DEF LinkAndRefer, Bind
<1>8. ASSUME NEW q \in DOMAIN dir, dir[q] = dir[from]
      PROVE  LinkOf(q, k)
  <2>1. CASE q = from
    BY <1>7, <2>1 DEF LinkOf
  <2>2. CASE q # from
    <3>1. PICK j \in Seeds : LinkOf(from, j) /\ LinkOf(q, j)
      BY <1>4, <1>8, <2>2 DEF InputInv, DirInv
    <3>2. j = k
      BY <1>7, <3>1 DEF LinkOf
    <3> QED
      BY <3>1, <3>2
  <2> QED
    BY <2>1, <2>2
<1>24. ASSUME NEW r \in DOMAIN dir, r[1] = "queue", Alone(r)
       PROVE  Alone(r)'
  <2>1. dir[from] = dir[r] => session > 1 /\ r[3] = 0
    BY <1>4, <1>7, <1>24 DEF Alone
  <2> QED
    BY <1>6, <1>24, <2>1 DEF Alone
<1>9. IsFiniteSet(DOMAIN dir')
  BY <1>6, FS_AddElement DEF InputInv, DirInv
<1>10. ASSUME NEW q \in DOMAIN dir'
       PROVE  (IsSeedPath(q) \/ IsOutPath(q)) /\ files'[dir'[q]] \in Contents
  BY <1>4, <1>6 DEF InputInv, DirInv, Content, IsOutPath
<1>11. \A j \in Seeds : <<"in", j>> \in DOMAIN dir /\ <<"in", j>> \in DOMAIN dir' /\ dir'[<<"in", j>>] = dir[<<"in", j>>]
  BY <1>6 DEF InputInv, DirInv
<1>12. ASSUME NEW q \in DOMAIN dir', NEW r \in DOMAIN dir', dir'[q] = dir'[r], q # r
       PROVE  \E j \in Seeds : LinkOf(q, j) /\ LinkOf(r, j)
  <2>1. CASE q = p
    BY <1>6, <1>7, <1>8, <1>12, <2>1
  <2>2. CASE r = p
    BY <1>6, <1>7, <1>8, <1>12, <2>2
  <2>3. CASE q # p /\ r # p
    BY <1>6, <1>12, <2>3 DEF InputInv, DirInv
  <2> QED
    BY <2>1, <2>2, <2>3
<1>13. DirInv'
  BY <1>9, <1>10, <1>11, <1>12 DEF DirInv, Content
<1>14. SeedsUntouched'
  BY <1>6, <1>11 DEF InputInv, SeedsUntouched, Content, SeedContent, SeedExposed
<1>15. PICK o : o = [objs[i] EXCEPT !.path = p, !.hardlinked = TRUE]
  OBVIOUS
<1>16. objs' = [objs EXCEPT ![i] = o]
  BY <1>2, <1>15 DEF LinkAndRefer
<1>17. objs[i] \in [path : DOMAIN dir \cup {MaxPath}, hardlinked : BOOLEAN, len : Nat, mem : Memory]
  BY ObjectFacts DEF ObjectOK
<1>18. /\ o \in [path : DOMAIN dir' \cup {MaxPath}, hardlinked : BOOLEAN, len : Nat, mem : Memory]
       /\ o.path = p /\ o.mem = NotLoaded /\ o.hardlinked
  BY <1>4, <1>6, <1>15, <1>17
<1>19. ObjectOK(o, i)'
  <2>1. p # MaxPath /\ p \in DOMAIN dir'
    BY <1>4, <1>6 DEF MaxPath
  <2> QED
    BY <1>4, <1>18, <2>1 DEF ObjectOK, Placed, Faithful
<1>20. ASSUME NEW j \in DOMAIN objs, j # i
       PROVE  ObjectOK(objs[j], j)'
  <2>1. PICK other : other = objs[j]
    OBVIOUS
  <2>2. ObjectOK(other, j) /\ objs'[j] = other
    BY <1>16, <1>20, <2>1, ObjectFacts
  <2>3. other \in [path : DOMAIN dir' \cup {MaxPath}, hardlinked : BOOLEAN, len : Nat, mem : Memory]
    BY <1>6, <2>2 DEF ObjectOK
  <2>4. other.path \in DOMAIN dir => other.path \in DOMAIN dir' /\ dir'[other.path] = dir[other.path]
    BY <1>6
  <2>5. other.path[1] = "queue" => other.path \in DOMAIN dir /\ (Alone(other.path) => Alone(other.path)')
    <3>1. other.path[1] = "queue" => other.path \in DOMAIN dir
      BY <2>1, ObjectFacts
    <3> QED
      BY <1>24, <3>1
  <2>6. ObjectOK(other, j)'
    BY <1>6, <2>2, <2>3, <2>4, <2>5 DEF ObjectOK, Placed, Faithful, Content, SeedExposed
  <2> QED
    BY <2>2, <2>6
<1>21. DOMAIN objs' = DOMAIN objs /\ Len(objs') = Len(objs) /\ Len(objs) \in Nat
  BY <1>16 DEF InputInv, ObjInv
<1>23. objs' = [j \in 1..Len(objs') |-> objs'[j]]
  <2>1. DOMAIN objs = 1..Len(objs)
    BY DEF InputInv, ObjInv
  <2> QED
    BY <1>16, <1>21, <2>1
<1>22. ASSUME NEW j \in DOMAIN objs
       PROVE  ObjectOK(objs[j], j)'
  <2>1. CASE j = i
    BY <1>16, <1>19, <2>1
  <2> QED
    BY <1>20, <2>1
<1>25. FreshNames'
  <2>1. ASSUME NEW n \in Nat, <<"queue", n, 0>> = p
        PROVE  n + 2 \in DOMAIN objs
    BY <1>4, <2>1, ObjectFacts
  <2> QED
    BY <1>6, <1>21, <2>1 DEF InputInv, FreshNames
<1> QED
  BY <1>13, <1>14, <1>21, <1>22, <1>23, <1>25 DEF InputInv, ObjInv

\* A new input has no number of an older one of this session; a file of an earlier session
\* that has its name is written over, and with it the seed that it may be a link of.
LEMMA AddInputKeeps ==
    ASSUME InputInv, NEW c \in Contents, AddInput(c)
    PROVE  InputInv'
<1>1. PICK n : n = Len(objs)
  OBVIOUS
<1>2. n \in Nat \ {0} /\ DOMAIN objs = 1..n
  BY <1>1 DEF InputInv, ObjInv, AddInput
<1>3. PICK p : p = <<"queue", n - 1, 0>>
  OBVIOUS
<1>4. PICK o : o = Object(p)
  OBVIOUS
<1>5. /\ WriteFile(dir, p, c) /\ objs' = Append(objs, o) /\ session' = session
      /\ \A i \in DOMAIN objs : objs[i].path[1] # "in"
  BY <1>1, <1>3, <1>4 DEF AddInput, Object
<1>6. IsQueuePath(p) /\ IsOutPath(p) /\ p[1] = "queue" /\ p[2] = n - 1 /\ p[3] = 0 /\ p # MaxPath
  BY <1>2, <1>3 DEF IsQueuePath, IsOutPath, MaxPath
<1>7. Put(p, c)
  <2>1. IsFiniteSet(DOMAIN dir)
    BY DEF InputInv, DirInv
  <2>2. p \in DOMAIN dir => session > 1
    <3>1. n - 1 \in Nat /\ (n - 1) + 2 \notin DOMAIN objs
      BY <1>2
    <3> QED
      BY <1>3, <3>1 DEF InputInv, FreshNames
  <2> QED
    BY <1>5, <1>6, <2>1, <2>2, Written
<1>8. DirInv' /\ SeedsUntouched'
  BY <1>6, <1>7, PutKeepsDir DEF InputInv
<1>9. /\ DOMAIN objs' = 1..n + 1 /\ Len(objs') = n + 1 /\ objs'[n + 1] = o
      /\ \A i \in DOMAIN objs : objs'[i] = objs[i]
  <2>1. objs \in Seq(Range(objs))
    BY <1>1, <1>2 DEF Range, InputInv, ObjInv
  <2> QED
    BY <1>1, <1>2, <1>5, <2>1
<1>13. objs' = [j \in 1..Len(objs') |-> objs'[j]]
  <2>1. PICK S : S = Range(objs) \cup {o}
    OBVIOUS
  <2>2. objs \in Seq(S) /\ o \in S
    BY <1>1, <1>2, <2>1 DEF Range, InputInv, ObjInv
  <2>3. objs' \in Seq(S)
    BY <1>5, <2>2
  <2> QED
    BY <2>3
<1>10. ObjectOK(o, n + 1)'
  <2>1. NotLoaded \in Memory
    BY DEF NotLoaded, Memory, Contents
  <2>2. /\ o \in [path : DOMAIN dir' \cup {MaxPath}, hardlinked : BOOLEAN, len : Nat, mem : Memory]
        /\ o.path = p /\ o.mem = NotLoaded /\ p \in DOMAIN dir'
    BY <1>4, <1>7, <2>1 DEF Object, Put
  <2>3. Alone(p)'
    BY <1>7 DEF Alone, Put
  <2> QED
    BY <1>2, <1>6, <2>2, <2>3 DEF ObjectOK, Placed, Faithful
<1>11. ASSUME NEW j \in DOMAIN objs
       PROVE  ObjectOK(objs[j], j)'
  <2>1. PICK other : other = objs[j]
    OBVIOUS
  <2>2. /\ ObjectOK(other, j) /\ objs'[j] = other /\ j \in 1..n
        /\ other.path = MaxPath \/ other.path[2] = j - 2
    <3>1. j # 1 => IsQueuePath(other.path) \/ IsSeedPath(other.path)
      BY <2>1, ObjectFacts
    <3>2. IsQueuePath(other.path) => other.path[2] = j - 2
      BY <2>1, ObjectFacts DEF IsQueuePath
    <3>3. ~IsSeedPath(other.path)
      BY <1>5, <2>1 DEF IsSeedPath
    <3> QED
      BY <1>2, <1>9, <2>1, <3>1, <3>2, <3>3, ObjectFacts
  <2>3. other.path # p
    BY <1>2, <1>6, <2>2
  <2>4. ObjectOK(other, j)'
    BY <1>6, <1>7, <2>2, <2>3, PutKeepsObject DEF InputInv
  <2> QED
    BY <2>2, <2>4
<1>12. ASSUME NEW j \in DOMAIN objs'
       PROVE  ObjectOK(objs[j], j)'
  <2>1. CASE j = n + 1
    BY <1>9, <1>10, <2>1
  <2>2. CASE j \in DOMAIN objs
    BY <1>11, <2>2
  <2> QED
    BY <1>2, <1>9, <2>1, <2>2
<1>14. FreshNames'
  <2>1. ASSUME NEW m \in Nat, <<"queue", m, 0>> = p
        PROVE  m + 2 \in DOMAIN objs'
    BY <1>2, <1>6, <1>9, <2>1
  <2>2. DOMAIN objs \subseteq DOMAIN objs'
    BY <1>2, <1>9
  <2> QED
    BY <1>7, <2>1, <2>2 DEF InputInv, FreshNames, Put
<1> QED
  BY <1>2, <1>8, <1>9, <1>12, <1>13, <1>14 DEF InputInv, ObjInv

\* The input directory becomes one unloaded object per seed, after IJON's own.
LEMMA ReadInputsKeeps ==
    ASSUME InputInv, NEW ks \in SeedLists, ReadInputs(ks)
    PROVE  InputInv'
<1>1. ks \in Seq(Seeds) /\ Len(ks) \in Nat /\ DOMAIN ks = 1..Len(ks)
  BY InputAssumption
<1>2. PICK rest : rest = [i \in 1..Len(ks) |-> Object(<<"in", ks[i]>>)]
  OBVIOUS
<1>3. PICK m : m = Object(MaxPath)
  OBVIOUS
<1>4. PICK S : S = Range(rest) \cup {m}
  OBVIOUS
<1>5. rest \in Seq(S) /\ <<m>> \in Seq(S) /\ Len(rest) = Len(ks) /\ Len(<<m>>) = 1
  BY <1>1, <1>2, <1>4 DEF Range
<1>6. objs = <<>> /\ objs' = <<m>> \o rest /\ UNCHANGED <<files, dir, session>>
  BY <1>1, <1>2, <1>3 DEF ReadInputs
<1>7. /\ objs' \in Seq(S) /\ Len(objs') = Len(ks) + 1 /\ DOMAIN objs' = 1..Len(ks) + 1
      /\ objs'[1] = m /\ \A i \in 2..Len(ks) + 1 : objs'[i] = rest[i - 1]
  BY <1>1, <1>5, <1>6
<1>8. objs' = [j \in 1..Len(objs') |-> objs'[j]] /\ Len(objs') \in Nat
  BY <1>1, <1>7
<1>9. DirInv' /\ SeedsUntouched' /\ FreshNames'
  <2>1. DOMAIN objs = {}
    BY <1>6
  <2> QED
    BY <1>6, <2>1 DEF InputInv, DirInv, SeedsUntouched, SeedExposed, FreshNames, Content
<1>10. ASSUME NEW i \in DOMAIN objs'
       PROVE  ObjectOK(objs[i], i)'
  <2>1. NotLoaded \in Memory
    BY DEF NotLoaded, Memory, Contents
  <2>2. CASE i = 1
    <3>1. /\ m \in [path : DOMAIN dir' \cup {MaxPath}, hardlinked : BOOLEAN, len : Nat, mem : Memory]
          /\ m.path = MaxPath /\ m.mem = NotLoaded
      BY <1>3, <2>1 DEF Object
    <3>2. ObjectOK(m, 1)'
      BY <3>1 DEF ObjectOK, Placed, Faithful, MaxPath
    <3> QED
      BY <1>7, <2>2, <3>2
  <2>3. CASE i # 1
    <3>1. i \in 2..Len(ks) + 1 /\ i - 1 \in 1..Len(ks)
      BY <1>1, <1>7, <2>3
    <3>2. PICK p : p = <<"in", ks[i - 1]>>
      OBVIOUS
    <3>3. p[1] = "in" /\ p \in DOMAIN dir' /\ p # MaxPath
      BY <1>1, <1>6, <3>1, <3>2 DEF InputInv, DirInv, MaxPath
    <3>4. PICK o : o = Object(p)
      OBVIOUS
    <3>5. objs'[i] = o
      BY <1>2, <1>7, <3>1, <3>2, <3>4
    <3>6. /\ o \in [path : DOMAIN dir' \cup {MaxPath}, hardlinked : BOOLEAN, len : Nat, mem : Memory]
          /\ o.path = p /\ o.mem = NotLoaded
      BY <2>1, <3>3, <3>4 DEF Object
    <3>7. ObjectOK(o, i)'
      BY <2>3, <3>3, <3>6 DEF ObjectOK, Placed, Faithful
    <3> QED
      BY <3>5, <3>7
  <2> QED
    BY <2>2, <2>3
<1> QED
  BY <1>8, <1>9, <1>10 DEF InputInv, ObjInv

\* InputInv before the input directory is read.
LEMMA InputInitHolds == InputInit => InputInv
<1> SUFFICES ASSUME InputInit PROVE InputInv
  OBVIOUS
<1>1. /\ DOMAIN dir = {<<"in", k>> : k \in Seeds}
      /\ \A k \in Seeds : dir[<<"in", k>>] = k
  BY DEF InputInit
<1>2. \A k \in Seeds : Content(<<"in", k>>) = SeedContent(k)
  BY <1>1 DEF InputInit, Content
<1>3. IsFiniteSet(DOMAIN dir)
  <2> DEFINE f == [k \in Seeds |-> <<"in", k>>]
  <2>1. f \in Surjection(Seeds, DOMAIN dir)
    BY <1>1 DEF Surjection
  <2> QED
    BY <2>1, FS_Surjection, InputAssumption
<1>4. ASSUME NEW p \in DOMAIN dir
      PROVE  IsSeedPath(p) /\ Content(p) \in Contents
  <2>1. PICK k \in Seeds : p = <<"in", k>>
    BY <1>1
  <2>2. SeedContent(k) \in Contents
    BY InputAssumption DEF SeedContent, Contents
  <2> QED
    BY <1>2, <2>1, <2>2 DEF IsSeedPath
<1>5. \A n \in Nat : <<"queue", n, 0>> \notin DOMAIN dir
  BY <1>1
<1>6. DirInv
  <2>1. \A p, q \in DOMAIN dir : dir[p] = dir[q] => p = q
    BY <1>1
  <2> QED
    BY <1>1, <1>3, <1>4, <2>1 DEF DirInv
<1>7. DOMAIN objs = 1..Len(objs) /\ Len(objs) = 0 /\ session = 1
  BY DEF InputInit
<1>8. FreshNames
  BY <1>5, <1>7 DEF FreshNames
<1> QED
  BY <1>2, <1>6, <1>7, <1>8 DEF InputInv, ObjInv, SeedsUntouched

\* Every operation on inputs keeps the order of files and memory.
LEMMA InputNextKeeps == InputInv /\ [InputNext]_inputVars => InputInv'
<1> SUFFICES ASSUME InputInv, [InputNext]_inputVars PROVE InputInv'
  OBVIOUS
<1>1. CASE \E ks \in SeedLists : ReadInputs(ks)
  BY <1>1, ReadInputsKeeps
<1>2. ASSUME NEW i \in DOMAIN objs, LinkAndRefer(i) \/ CopyAndRefer(i)
      PROVE  InputInv'
  BY <1>2, LinkAndReferKeeps, CopyAndReferKeeps
<1>3. ASSUME NEW i \in DOMAIN objs, objs[i].path[1] # "in",
             Load(i) \/ LoadByMmap(i) \/ Unload(i)
      PROVE  InputInv'
  BY <1>3, LoadKeeps, UnloadKeeps
<1>4. ASSUME NEW i \in DOMAIN objs, objs[i].path[1] = "queue",
             Trim(i) \/ \E c \in Finds : OverwriteKeepingLoaded(i, c)
      PROVE  InputInv'
  BY <1>4, TrimKeeps, OverwriteKeeps, FindsAreContents
<1>8. ASSUME NEW i \in DOMAIN objs, NEW c \in Finds, Rewrite(i, c)
      PROVE  InputInv'
  BY <1>8, RewriteKeeps, FindsAreContents
<1>5. ASSUME NEW c \in Finds, AddInput(c)
      PROVE  InputInv'
  BY <1>5, AddInputKeeps, FindsAreContents
<1>6. CASE Restart
  <2>1. /\ DOMAIN objs' = 1..Len(objs') /\ Len(objs') = 0 /\ UNCHANGED <<files, dir>>
        /\ session' = session + 1
    BY <1>6 DEF Restart
  <2>2. session' \in Nat \ {0} /\ session' > 1
    BY <2>1 DEF InputInv, FreshNames
  <2> QED
    BY <2>1, <2>2 DEF InputInv, ObjInv, DirInv, FreshNames, SeedsUntouched, SeedExposed, Content
<1>7. CASE UNCHANGED inputVars
  BY <1>7 DEF inputVars, InputInv, ObjInv, DirInv, FreshNames, SeedsUntouched, SeedExposed, ObjectOK, Placed, Faithful, Content, Alone
<1> QED
  BY <1>1, <1>2, <1>3, <1>4, <1>5, <1>6, <1>7, <1>8 DEF InputNext

-----------------------------------------------------------------------------

\* The invariants of both ways of keeping inputs, for any number of seeds, inputs, contents
\* and sessions.
THEOREM InputsInvariant == InputsSpec => [](InputInv /\ PyInv)
<1> QED
  BY InputInitHolds, InputNextKeeps, PyInitHolds, PyNextKeeps, PTL DEF InputsSpec

\* The user's seeds are not written to and the memory of a loaded input is its file, but,
\* after the first session, for a seed that is a find of an earlier campaign: the queue may
\* use its name again.  PythonFuzzer's identifiers, inputs, traces and files belong together.
THEOREM InputsAgree == InputsSpec => []InputsSound
<1>1. InputInv /\ PyInv => InputsSound
  <2> SUFFICES ASSUME InputInv, PyInv PROVE InputsSound
    OBVIOUS
  <2>1. MemoryIsFile
    BY DEF InputInv, ObjInv, ObjectOK, Faithful, MemoryIsFile
  <2> QED
    BY <2>1 DEF InputInv, PyInv, InputsSound
<1> QED
  BY <1>1, InputsInvariant, PTL

-----------------------------------------------------------------------------
(* The inductive invariant.                                                *)

NodeOrNone == Nodes \cup {NoNode}

NodesTyped ==
    /\ IsFiniteSet(Nodes) /\ Cardinality(Nodes) \in Nat \ {0} /\ Nodes = 0..(Cardinality(Nodes) - 1)
    /\ hf_rt \in [Nodes -> Nodes]
    /\ hf_kind \in [Nodes -> {"plain", "random", "finally"}]
    /\ hf_final \in [Nodes -> NodeOrNone]
    /\ hf_parent \in [Nodes -> NodeOrNone]
    /\ hf_idx \in [Nodes -> Nat]
    /\ hf_succ \in [Nodes -> Seq(Nodes)]

RestTyped ==
    /\ hf_kids \in Seq(Nodes)
    /\ hf_phase \in {"build", "run", "thrown", "undefined"}
    /\ hf_linked \in [Nodes -> NodeOrNone]
    /\ hf_resp \in [Nodes -> Nat]
    /\ hf_acts \in Nat

\* A node with a parent has its place there: among the successors or as the final node.
HasItsPlace ==
    hf_phase # "thrown" =>
        \A n \in Nodes : hf_parent[n] # NoNode =>
            \/ /\ hf_idx[n] + 1 \in DOMAIN hf_succ[hf_parent[n]]
               /\ hf_succ[hf_parent[n]][hf_idx[n] + 1] = n
            \/ /\ hf_kind[hf_parent[n]] = "finally"
               /\ hf_final[hf_parent[n]] = n /\ hf_idx[n] = 0

FinalNodesKnown ==
    hf_phase # "thrown" =>
        \A n \in Nodes : hf_kind[n] = "finally" => hf_final[n] \in Nodes /\ hf_parent[hf_final[n]] = n

TreeInv ==
    /\ NodesTyped /\ hf_kind[HeadNode] = "plain"
    /\ NoCycle /\ PlaceIsKnown /\ HasItsPlace /\ FinalNodesKnown

Frame == [node : Nodes, act : Nat, pre : NodeOrNone, at : NodeOrNone,
          mode : {"body", "children", "after"}, calls : Nat]

\* The stack st is a path down the tree from the head; the child that a frame is about to
\* call is a child of its node, and the head never waits as an irregular node does.
PathDown(st) ==
    /\ st \in Seq(Frame)
    /\ \A i \in 1..Len(st) : i = 1 => st[i].node = HeadNode
    /\ \A i, j \in 1..Len(st) : j = i + 1 => hf_parent[st[j].node] = st[i].node
    /\ \A i \in 1..Len(st) : st[i].at # NoNode => hf_parent[st[i].at] = st[i].node
    /\ \A i \in 1..Len(st) : st[i].mode = "after" => hf_kind[st[i].node] # "plain"

\* The reference l[r] of a routine r is its last node on the stack, and a frame keeps the
\* one before.
LinksRight(st, l) ==
    /\ \A i \in 1..Len(st) :
          (\A j \in 1..Len(st) : i < j => hf_rt[st[j].node] # hf_rt[st[i].node]) =>
              l[hf_rt[st[i].node]] = st[i].node
    /\ \A i, j \in 1..Len(st) :
          (/\ i < j /\ hf_rt[st[i].node] = hf_rt[st[j].node]
           /\ \A k \in 1..Len(st) : i < k /\ k < j => hf_rt[st[k].node] # hf_rt[st[i].node]) =>
              st[j].pre = st[i].node

\* Every activation under way finds its own response or the default.
ResponsesRight(st, r) == \A i \in 1..Len(st) : r[st[i].node] \in {0, st[i].act}

StackInv ==
    /\ PathDown(hf_stack) /\ LinksRight(hf_stack, hf_linked) /\ ResponsesRight(hf_stack, hf_resp)
    /\ hf_phase \in {"build", "thrown"} => hf_stack = <<>>
    /\ hf_phase = "undefined" => Len(hf_stack) > 1

HfInv == TreeInv /\ RestTyped /\ StackInv /\ WildOnlyInEmptyTry

-----------------------------------------------------------------------------
(* Building.                                                               *)

\* A new node: Finally also makes an orphan its final node.
LEMMA AddNodeKeeps ==
    ASSUME TreeInv, RestTyped, hf_phase = "build", hf_phase' = "build",
           NEW routine \in Nodes \cup {Cardinality(Nodes)},
           NEW kind \in {"plain", "random", "finally"},
           NEW final \in NodeOrNone,
           kind = "finally" => final # NoNode,
           final # NoNode => kind = "finally" /\ hf_parent[final] = NoNode /\ final # HeadNode,
           AddNode(routine, kind, final), hf_kids' \in Seq(Nodes), hf_acts' = hf_acts
    PROVE  TreeInv' /\ RestTyped'
<1> DEFINE n == Cardinality(Nodes)
<1>1. /\ n \in Nat \ {0} /\ Nodes = 0..(n - 1) /\ n \notin Nodes /\ NoNode \notin Nodes
      /\ HeadNode \in Nodes /\ n # NoNode
  BY DEF TreeInv, NodesTyped, NoNode, HeadNode
<1> HIDE DEF n
<1>2. Nodes' = Nodes \cup {n}
  BY DEF AddNode, Nodes, n
<1>3. IsFiniteSet(Nodes') /\ Cardinality(Nodes') = n + 1
  BY <1>1, <1>2, FS_AddElement DEF TreeInv, NodesTyped, n
<1>4. /\ \A m \in Nodes : /\ hf_kind'[m] = hf_kind[m] /\ hf_final'[m] = hf_final[m]
                          /\ hf_succ'[m] = hf_succ[m] /\ hf_rt'[m] = hf_rt[m]
                          /\ m # final => hf_idx'[m] = hf_idx[m] /\ hf_parent'[m] = hf_parent[m]
                          /\ m = final => hf_idx'[m] = 0 /\ hf_parent'[m] = n
                          /\ hf_linked'[m] = hf_linked[m] /\ hf_resp'[m] = hf_resp[m]
      /\ hf_kind'[n] = kind /\ hf_final'[n] = final /\ hf_succ'[n] = <<>> /\ hf_rt'[n] = routine
      /\ hf_idx'[n] = 0 /\ hf_parent'[n] = NoNode /\ hf_linked'[n] = NoNode /\ hf_resp'[n] = 0
  BY <1>1 DEF AddNode, n
<1>5. NodesTyped'
  <2>1. Nodes' = 0..(Cardinality(Nodes') - 1) /\ Cardinality(Nodes') \in Nat \ {0}
    BY <1>1, <1>2, <1>3
  <2>2. hf_rt' \in [Nodes' -> Nodes'] /\ hf_kind' \in [Nodes' -> {"plain", "random", "finally"}]
    BY <1>1, <1>2 DEF AddNode, n, TreeInv, NodesTyped
  <2>3. hf_final' \in [Nodes' -> NodeOrNone'] /\ hf_parent' \in [Nodes' -> NodeOrNone']
    BY <1>1, <1>2 DEF AddNode, n, TreeInv, NodesTyped, NodeOrNone
  <2>4. hf_idx' \in [Nodes' -> Nat]
    BY <1>1, <1>2 DEF AddNode, n, TreeInv, NodesTyped
  <2>5. hf_succ' \in [Nodes' -> Seq(Nodes')]
    <3>1. \A m \in Nodes : hf_succ[m] \in Seq(Nodes')
      BY <1>2 DEF TreeInv, NodesTyped
    <3> QED
      BY <3>1, <1>2 DEF AddNode, n
  <2> QED
    BY <1>3, <2>1, <2>2, <2>3, <2>4, <2>5 DEF NodesTyped
<1>6. RestTyped'
  <2>1. hf_linked' \in [Nodes' -> NodeOrNone'] /\ hf_resp' \in [Nodes' -> Nat]
    BY <1>1, <1>2 DEF AddNode, n, RestTyped, NodeOrNone
  <2>2. hf_kids' \in Seq(Nodes')
    BY <1>2
  <2> QED
    BY <2>1, <2>2 DEF RestTyped
<1>7. NoCycle'
  <2> SUFFICES ASSUME NEW S \in SUBSET Nodes', S # {}, \A m \in S : hf_parent'[m] \in S
               PROVE  FALSE
    BY DEF NoCycle
  <2>1. n \notin S
    BY <1>1, <1>2, <1>4
  <2>2. final \notin S
    BY <1>1, <1>2, <1>4, <2>1
  <2>3. S \in SUBSET Nodes /\ \A m \in S : hf_parent[m] \in S
    BY <1>2, <1>4, <2>1, <2>2
  <2> QED
    BY <2>3 DEF TreeInv, NoCycle
<1>8. PlaceIsKnown'
  <2> SUFFICES ASSUME NEW a \in Nodes', NEW k \in DOMAIN hf_succ'[a], hf_succ'[a][k] \in Nodes'
               PROVE  hf_parent'[hf_succ'[a][k]] = a /\ hf_idx'[hf_succ'[a][k]] = k - 1
    BY DEF PlaceIsKnown
  <2>1. a \in Nodes /\ k \in DOMAIN hf_succ[a] /\ hf_succ'[a] = hf_succ[a]
    BY <1>2, <1>4
  <2>2. hf_succ[a][k] \in Nodes
    BY <2>1 DEF TreeInv, NodesTyped
  <2>3. hf_parent[hf_succ[a][k]] = a /\ hf_idx[hf_succ[a][k]] = k - 1
    BY <2>1, <2>2 DEF TreeInv, PlaceIsKnown
  <2>4. hf_succ[a][k] # final
    BY <1>1, <2>1, <2>2, <2>3
  <2> QED
    BY <1>4, <2>1, <2>2, <2>3, <2>4
<1>9. HasItsPlace'
  <2> SUFFICES ASSUME NEW m \in Nodes', hf_parent'[m] # NoNode
               PROVE  \/ /\ hf_idx'[m] + 1 \in DOMAIN hf_succ'[hf_parent'[m]]
                         /\ hf_succ'[hf_parent'[m]][hf_idx'[m] + 1] = m
                      \/ /\ hf_kind'[hf_parent'[m]] = "finally"
                         /\ hf_final'[hf_parent'[m]] = m /\ hf_idx'[m] = 0
    BY DEF HasItsPlace
  <2>1. m \in Nodes
    BY <1>2, <1>4
  <2>2. CASE m = final
    BY <1>1, <1>4, <2>1, <2>2
  <2>3. CASE m # final
    <3>1. hf_parent[m] \in Nodes
      BY <1>4, <2>1, <2>3 DEF TreeInv, NodesTyped, NodeOrNone
    <3> QED
      BY <1>4, <2>1, <2>3, <3>1 DEF TreeInv, HasItsPlace
  <2> QED
    BY <2>2, <2>3
<1>10. FinalNodesKnown'
  <2> SUFFICES ASSUME NEW m \in Nodes', hf_kind'[m] = "finally"
               PROVE  hf_final'[m] \in Nodes' /\ hf_parent'[hf_final'[m]] = m
    BY DEF FinalNodesKnown
  <2>1. CASE m = n
    BY <1>1, <1>2, <1>4, <2>1 DEF NodeOrNone
  <2>2. CASE m \in Nodes
    <3>1. hf_final[m] \in Nodes /\ hf_parent[hf_final[m]] = m
      BY <1>4, <2>2 DEF TreeInv, FinalNodesKnown
    <3>2. hf_final[m] # final
      BY <1>1, <2>2, <3>1
    <3> QED
      BY <1>2, <1>4, <2>2, <3>1, <3>2
  <2> QED
    BY <1>2, <2>1, <2>2
<1>11. hf_kind'[HeadNode] = "plain"
  BY <1>1, <1>4 DEF TreeInv
<1> QED
  BY <1>5, <1>6, <1>7, <1>8, <1>9, <1>10, <1>11 DEF TreeInv

\* Nodes connected to n, all of them or, when one has a parent already, the ones before it.
LEMMA AddSuccessorsKeeps ==
    ASSUME TreeInv, RestTyped, hf_phase = "build",
           NEW n \in Nodes, NEW nodes \in Seq(Nodes),
           AddSuccessors(n, nodes), hf_kids' \in Seq(Nodes)
    PROVE  TreeInv' /\ RestTyped'
<1> DEFINE free(k) == hf_parent[nodes[k]] = NoNode /\ \A j \in 1..(k - 1) : nodes[j] # nodes[k]
           set == {k \in DOMAIN nodes : \A j \in 1..k : free(j)}
           kth(m) == CHOOSE k \in set : nodes[k] = m
           named(m) == \E k \in set : nodes[k] = m
<1>1. Nodes' = Nodes /\ hf_rt' = hf_rt /\ hf_kind' = hf_kind /\ hf_final' = hf_final
  BY DEF AddSuccessors, Nodes
<1>2. /\ hf_parent' = [m \in Nodes |-> IF named(m) THEN n ELSE hf_parent[m]]
      /\ hf_idx' = [m \in Nodes |-> IF named(m) THEN Len(hf_succ[n]) + kth(m) - 1 ELSE hf_idx[m]]
      /\ hf_succ' = IF set = DOMAIN nodes THEN [hf_succ EXCEPT ![n] = @ \o nodes] ELSE hf_succ
      /\ IF set = DOMAIN nodes /\ ~LoopAt(hf_parent', n) THEN UNCHANGED hf_phase ELSE ThrowWrongUsage
      /\ UNCHANGED <<hf_linked, hf_resp, hf_acts>>
  BY DEF AddSuccessors
<1>3. ASSUME NEW m \in Nodes, named(m)
      PROVE  kth(m) \in set /\ nodes[kth(m)] = m /\ kth(m) \in 1..Len(nodes) /\ hf_parent[m] = NoNode
  <2>1. kth(m) \in set /\ nodes[kth(m)] = m
    BY <1>3
  <2>2. kth(m) \in 1..Len(nodes) /\ free(kth(m))
    BY <2>1
  <2> QED
    BY <2>1, <2>2
<1>4. n \in NodeOrNone /\ NoNode \notin Nodes /\ HeadNode \in Nodes
  BY DEF NodeOrNone, TreeInv, NodesTyped, NoNode, HeadNode
<1>m. \A m \in Nodes : hf_parent'[m] = IF named(m) THEN n ELSE hf_parent[m]
  BY <1>2
<1> HIDE DEF set, kth, named
<1>5. NodesTyped'
  <2>1. hf_parent' \in [Nodes -> NodeOrNone]
    BY <1>2, <1>4 DEF TreeInv, NodesTyped
  <2>2. hf_idx' \in [Nodes -> Nat]
    <3>0. Len(hf_succ[n]) \in Nat /\ Len(nodes) \in Nat
      BY DEF TreeInv, NodesTyped
    <3>1. \A m \in Nodes : named(m) => Len(hf_succ[n]) + kth(m) - 1 \in Nat
      <4> SUFFICES ASSUME NEW m \in Nodes, named(m) PROVE Len(hf_succ[n]) + kth(m) - 1 \in Nat
        OBVIOUS
      <4>1. kth(m) \in 1..Len(nodes)
        BY <1>3
      <4> QED
        BY <4>1, <3>0
    <3> QED
      BY <1>2, <3>1 DEF TreeInv, NodesTyped
  <2>3. hf_succ' \in [Nodes -> Seq(Nodes)]
    BY <1>2 DEF TreeInv, NodesTyped
  <2> QED
    BY <1>1, <2>1, <2>2, <2>3 DEF TreeInv, NodesTyped, NodeOrNone
<1>6. RestTyped'
  BY <1>1, <1>2 DEF RestTyped, ThrowWrongUsage, NodeOrNone
<1>7. hf_kind'[HeadNode] = "plain"
  BY <1>1 DEF TreeInv
<1>8. CASE hf_phase' = "thrown"
  BY <1>5, <1>6, <1>7, <1>8 DEF TreeInv, NoCycle, PlaceIsKnown, HasItsPlace, FinalNodesKnown
<1>9. CASE hf_phase' # "thrown"
  <2>1. set = DOMAIN nodes /\ ~LoopAt(hf_parent', n)
    BY <1>2, <1>9 DEF ThrowWrongUsage
  <2>2. hf_succ' = [hf_succ EXCEPT ![n] = @ \o nodes]
    BY <1>2, <2>1
  <2>3. \A k \in 1..Len(nodes) : named(nodes[k]) /\ kth(nodes[k]) = k
    <3> SUFFICES ASSUME NEW k \in 1..Len(nodes) PROVE named(nodes[k]) /\ kth(nodes[k]) = k
      OBVIOUS
    <3>1. k \in set /\ nodes[k] \in Nodes
      BY <2>1
    <3>2. named(nodes[k])
      BY <3>1 DEF named
    <3>3. kth(nodes[k]) \in set /\ nodes[kth(nodes[k])] = nodes[k] /\ kth(nodes[k]) \in 1..Len(nodes)
      BY <1>3, <3>1, <3>2
    <3>4. free(kth(nodes[k])) /\ free(k)
      BY <3>1, <3>3 DEF set
    <3> QED
      BY <3>2, <3>3, <3>4
  <2>4. NoCycle'
    <3> SUFFICES ASSUME NEW S \in SUBSET Nodes, S # {}, \A m \in S : hf_parent'[m] \in S
                 PROVE  FALSE
      BY <1>1 DEF NoCycle
    <3>1. n \notin S
      BY <2>1, <1>1 DEF LoopAt
    <3>2. \A m \in S : hf_parent[m] \in S
      BY <3>1, <1>m
    <3> QED
      BY <3>2 DEF TreeInv, NoCycle
  <2>5. /\ \A a \in Nodes : a # n => hf_succ'[a] = hf_succ[a]
        /\ hf_succ'[n] = hf_succ[n] \o nodes
        /\ hf_succ[n] \in Seq(Nodes)
    BY <2>2 DEF TreeInv, NodesTyped
  <2>6. ASSUME NEW a \in Nodes, NEW k \in DOMAIN hf_succ[a]
        PROVE  /\ hf_succ[a][k] \in Nodes /\ hf_parent[hf_succ[a][k]] = a /\ hf_idx[hf_succ[a][k]] = k - 1
               /\ hf_parent'[hf_succ[a][k]] = a /\ hf_idx'[hf_succ[a][k]] = k - 1
    <3>1. hf_succ[a][k] \in Nodes
      BY DEF TreeInv, NodesTyped
    <3>2. hf_parent[hf_succ[a][k]] = a /\ hf_idx[hf_succ[a][k]] = k - 1
      BY <3>1 DEF TreeInv, PlaceIsKnown
    <3>3. ~named(hf_succ[a][k])
      BY <1>3, <1>4, <3>1, <3>2
    <3> QED
      BY <1>2, <3>1, <3>2, <3>3
  <2>7. PlaceIsKnown'
    <3> SUFFICES ASSUME NEW a \in Nodes, NEW k \in DOMAIN hf_succ'[a]
                 PROVE  hf_parent'[hf_succ'[a][k]] = a /\ hf_idx'[hf_succ'[a][k]] = k - 1
      BY <1>1 DEF PlaceIsKnown
    <3>0. CASE a # n
      BY <3>0, <2>5, <2>6
    <3>1. CASE a = n /\ k \in DOMAIN hf_succ[n]
      <4>1. hf_succ'[a][k] = hf_succ[a][k]
        BY <3>1, <2>5
      <4> QED
        BY <3>1, <4>1, <2>6
    <3>2. CASE a = n /\ k \notin DOMAIN hf_succ[n]
      <4> DEFINE j == k - Len(hf_succ[n])
      <4>1. j \in 1..Len(nodes) /\ hf_succ'[n][k] = nodes[j] /\ nodes[j] \in Nodes
            /\ k = Len(hf_succ[n]) + j
        BY <3>2, <2>5
      <4> HIDE DEF j
      <4>2. named(nodes[j]) /\ kth(nodes[j]) = j
        BY <4>1, <2>3
      <4> QED
        BY <3>2, <4>1, <4>2, <1>2
    <3> QED
      BY <3>0, <3>1, <3>2
  <2>8. HasItsPlace'
    <3> SUFFICES ASSUME NEW m \in Nodes, hf_parent'[m] # NoNode
                 PROVE  \/ /\ hf_idx'[m] + 1 \in DOMAIN hf_succ'[hf_parent'[m]]
                           /\ hf_succ'[hf_parent'[m]][hf_idx'[m] + 1] = m
                        \/ /\ hf_kind'[hf_parent'[m]] = "finally"
                           /\ hf_final'[hf_parent'[m]] = m /\ hf_idx'[m] = 0
      BY <1>1 DEF HasItsPlace
    <3>1. CASE named(m)
      <4>1. hf_parent'[m] = n /\ hf_idx'[m] + 1 = Len(hf_succ[n]) + kth(m)
        BY <3>1, <1>2, <1>3, <2>5
      <4>2. kth(m) \in 1..Len(nodes) /\ nodes[kth(m)] = m
        BY <3>1, <1>3
      <4> QED
        BY <4>1, <4>2, <2>5
    <3>2. CASE ~named(m)
      <4>1. hf_parent'[m] = hf_parent[m] /\ hf_idx'[m] = hf_idx[m] /\ hf_parent[m] \in Nodes
        BY <3>2, <1>2 DEF TreeInv, NodesTyped, NodeOrNone
      <4>2. CASE /\ hf_idx[m] + 1 \in DOMAIN hf_succ[hf_parent[m]]
                 /\ hf_succ[hf_parent[m]][hf_idx[m] + 1] = m
        <5>1. CASE hf_parent[m] = n
          BY <4>1, <4>2, <5>1, <2>5
        <5>2. CASE hf_parent[m] # n
          BY <4>1, <4>2, <5>2, <2>5
        <5> QED
          BY <5>1, <5>2
      <4> QED
        BY <4>1, <4>2, <1>1 DEF TreeInv, HasItsPlace
    <3> QED
      BY <3>1, <3>2
  <2>9. FinalNodesKnown'
    <3> SUFFICES ASSUME NEW m \in Nodes, hf_kind[m] = "finally"
                 PROVE  hf_final[m] \in Nodes /\ hf_parent'[hf_final[m]] = m
      BY <1>1 DEF FinalNodesKnown
    <3>1. hf_final[m] \in Nodes /\ hf_parent[hf_final[m]] = m
      BY DEF TreeInv, FinalNodesKnown
    <3>2. ~named(hf_final[m])
      BY <1>3, <1>4, <3>1
    <3> QED
      BY <1>2, <3>1, <3>2
  <2> QED
    BY <1>5, <1>6, <1>7, <2>4, <2>7, <2>8, <2>9 DEF TreeInv
<1> QED
  BY <1>8, <1>9

-----------------------------------------------------------------------------
(* The stack.                                                              *)

\* The fields of a frame.
LEMMA FrameFields ==
    ASSUME NEW st, st \in Seq(Frame), NEW i \in 1..Len(st)
    PROVE  /\ st[i] \in Frame /\ st[i].node \in Nodes /\ st[i].act \in Nat
           /\ st[i].pre \in NodeOrNone /\ st[i].at \in NodeOrNone
           /\ st[i].mode \in {"body", "children", "after"} /\ st[i].calls \in Nat
<1>1. st[i] \in Frame
  OBVIOUS
<1> QED
  BY <1>1 DEF Frame

\* All but the last.
LEMMA FrontFacts ==
    ASSUME NEW S, NEW s \in Seq(S), Len(s) > 0
    PROVE  /\ Front(s) \in Seq(S) /\ Len(Front(s)) = Len(s) - 1
           /\ \A i \in 1..(Len(s) - 1) : Front(s)[i] = s[i]
<1>1. Len(s) \in Nat /\ Len(s) - 1 \in Int /\ \A i \in 1..(Len(s) - 1) : s[i] \in S
  OBVIOUS
<1> DEFINE n == Len(s) - 1
<1>2. n \in Nat /\ \A i \in 1..n : s[i] \in S
  BY <1>1
<1>3. Front(s) = SubSeq(s, 1, n)
  BY DEF Front
<1> HIDE DEF n
<1>4. /\ SubSeq(s, 1, n) \in Seq(S)
      /\ Len(SubSeq(s, 1, n)) = IF 1 <= n THEN n - 1 + 1 ELSE 0
      /\ \A i \in 1..(n - 1 + 1) : SubSeq(s, 1, n)[i] = s[1 + i - 1]
  BY <1>2, SubSeqProperties
<1>5. Len(SubSeq(s, 1, n)) = n
  BY <1>2, <1>4
<1>6. ASSUME NEW i \in 1..n PROVE SubSeq(s, 1, n)[i] = s[i]
  <2>1. i \in 1..(n - 1 + 1) /\ 1 + i - 1 = i
    BY <1>2
  <2>2. SubSeq(s, 1, n)[i] = s[1 + i - 1]
    BY <1>4, <2>1
  <2> QED
    BY <2>1, <2>2
<1> QED
  BY <1>3, <1>4, <1>5, <1>6 DEF n

\* A path down a forest meets no node twice.
LEMMA NodesDistinct ==
    ASSUME TreeInv, hf_phase # "thrown", NEW st, PathDown(st),
           NEW i \in 1..Len(st), NEW j \in 1..Len(st), i < j
    PROVE  st[i].node # st[j].node
<1> SUFFICES ASSUME st[i].node = st[j].node PROVE FALSE
  OBVIOUS
<1> DEFINE S == {st[k].node : k \in i..(j - 1)}
<1>1. st \in Seq(Frame) /\ Len(st) \in Nat
  BY DEF PathDown
<1>2. \A k \in 1..Len(st) : st[k].node \in Nodes
  BY <1>1, FrameFields
<1>3. S \in SUBSET Nodes /\ S # {}
  BY <1>1, <1>2
<1>4. \A k \in i..(j - 1) : hf_parent[st[k].node] \in S
  <2> SUFFICES ASSUME NEW k \in i..(j - 1) PROVE hf_parent[st[k].node] \in S
    OBVIOUS
  <2>1. CASE k = i
    <3>1. j - 1 \in 1..Len(st) /\ j - 1 \in i..(j - 1) /\ j = (j - 1) + 1
      BY <1>1
    <3>2. hf_parent[st[j].node] = st[j - 1].node
      BY <3>1 DEF PathDown
    <3> QED
      BY <2>1, <3>1, <3>2
  <2>2. CASE k # i
    <3>1. k - 1 \in 1..Len(st) /\ k - 1 \in i..(j - 1) /\ k \in 1..Len(st) /\ k = (k - 1) + 1
      BY <1>1, <2>2
    <3>2. hf_parent[st[k].node] = st[k - 1].node
      BY <3>1 DEF PathDown
    <3> QED
      BY <3>1, <3>2
  <2> QED
    BY <2>1, <2>2
<1>5. \A m \in S : hf_parent[m] \in S
  BY <1>4
<1> QED
  BY <1>3, <1>5 DEF TreeInv, NoCycle

\* The frames of q are those of st, up to what a frame does at the moment.
Alike(q, st) ==
    \A i \in 1..Len(q) : q[i].node = st[i].node /\ q[i].act = st[i].act /\ q[i].pre = st[i].pre

\* What a frame does at the moment is as PathDown wants it.
FrameGood(f) ==
    /\ f \in Frame
    /\ f.at # NoNode => hf_parent[f.at] = f.node
    /\ f.mode = "after" => hf_kind[f.node] # "plain"

\* Calls that are a path down the tree are one still when the last has returned or does
\* something else.
LEMMA AlikePath ==
    ASSUME NEW st, PathDown(st), NEW q, DOMAIN q = 1..Len(q), q \in Seq(Frame), Len(q) <= Len(st), Alike(q, st),
           \A i \in 1..Len(q) : FrameGood(q[i])
    PROVE  PathDown(q)
<1>1. Len(q) \in Nat /\ Len(st) \in Nat
  BY DEF PathDown
<1>2. 1..Len(q) \subseteq 1..Len(st)
  BY <1>1
<1> QED
  BY <1>1, <1>2 DEF PathDown, Alike, FrameGood

\* The references follow when nothing is called and nothing returns.
LEMMA AlikeLinks ==
    ASSUME NEW st, NEW q, NEW l, LinksRight(st, l), Len(q) = Len(st), Alike(q, st)
    PROVE  LinksRight(q, l)
<1>1. \A i \in 1..Len(q) : q[i].node = st[i].node /\ q[i].pre = st[i].pre
  BY DEF Alike
<1>2. ASSUME NEW i \in 1..Len(q), \A j \in 1..Len(q) : i < j => hf_rt[q[j].node] # hf_rt[q[i].node]
      PROVE  l[hf_rt[q[i].node]] = q[i].node
  BY <1>1, <1>2 DEF LinksRight
<1>3. ASSUME NEW i \in 1..Len(q), NEW j \in 1..Len(q), i < j, hf_rt[q[i].node] = hf_rt[q[j].node],
             \A k \in 1..Len(q) : i < k /\ k < j => hf_rt[q[k].node] # hf_rt[q[i].node]
      PROVE  q[j].pre = q[i].node
  BY <1>1, <1>3 DEF LinksRight
<1> QED
  BY <1>2, <1>3 DEF LinksRight

\* The last call returns: the reference of its routine is again the one before.
LEMMA PoppedLinks ==
    ASSUME RestTyped, NodesTyped, NEW st, PathDown(st), LinksRight(st, hf_linked), Len(st) > 0,
           NEW q, q \in Seq(Frame), Len(q) = Len(st) - 1, Alike(q, st)
    PROVE  LinksRight(q, [hf_linked EXCEPT ![hf_rt[st[Len(st)].node]] = st[Len(st)].pre])
<1> DEFINE N == Len(st)
           top == st[N]
           l == [hf_linked EXCEPT ![hf_rt[top.node]] = top.pre]
<1>1. N \in Nat /\ N \in 1..N /\ Len(q) = N - 1
  BY DEF PathDown
<1>2. \A i \in 1..N : st[i].node \in Nodes /\ hf_rt[st[i].node] \in Nodes
  BY FrameFields DEF PathDown, NodesTyped
<1>3. \A r \in Nodes : l[r] = IF r = hf_rt[top.node] THEN top.pre ELSE hf_linked[r]
  BY <1>1, <1>2 DEF RestTyped
<1> HIDE DEF l, N
<1>4. ASSUME NEW i \in 1..(N - 1), \A j \in 1..(N - 1) : i < j => hf_rt[st[j].node] # hf_rt[st[i].node]
      PROVE  l[hf_rt[st[i].node]] = st[i].node
  <2>0. i \in 1..N /\ i < N
    BY <1>1
  <2>1. CASE hf_rt[st[i].node] = hf_rt[top.node]
    <3>1. \A k \in 1..N : i < k /\ k < N => hf_rt[st[k].node] # hf_rt[st[i].node]
      BY <1>1, <1>4
    <3>2. top.pre = st[i].node
      BY <1>1, <2>0, <2>1, <3>1 DEF LinksRight, N
    <3> QED
      BY <1>2, <1>3, <2>0, <2>1, <3>2
  <2>2. CASE hf_rt[st[i].node] # hf_rt[top.node]
    <3>1. \A j \in 1..N : i < j => hf_rt[st[j].node] # hf_rt[st[i].node]
      BY <1>1, <1>4, <2>2
    <3>2. hf_linked[hf_rt[st[i].node]] = st[i].node
      BY <2>0, <3>1 DEF LinksRight, N
    <3> QED
      BY <1>2, <1>3, <2>0, <2>2, <3>2
  <2> QED
    BY <2>1, <2>2
<1>5. ASSUME NEW i \in 1..(N - 1), NEW j \in 1..(N - 1), i < j, hf_rt[st[i].node] = hf_rt[st[j].node],
             \A k \in 1..(N - 1) : i < k /\ k < j => hf_rt[st[k].node] # hf_rt[st[i].node]
      PROVE  st[j].pre = st[i].node
  <2>1. i \in 1..N /\ j \in 1..N
    BY <1>1
  <2>2. \A k \in 1..N : i < k /\ k < j => hf_rt[st[k].node] # hf_rt[st[i].node]
    BY <1>1, <1>5
  <2> QED
    BY <2>1, <2>2, <1>5 DEF LinksRight, N
<1>6. \A i \in 1..(N - 1) : q[i].node = st[i].node /\ q[i].pre = st[i].pre
  BY <1>1 DEF Alike
<1>7. LinksRight(q, l)
  <2>1. ASSUME NEW i \in 1..Len(q), \A j \in 1..Len(q) : i < j => hf_rt[q[j].node] # hf_rt[q[i].node]
        PROVE  l[hf_rt[q[i].node]] = q[i].node
    BY <1>1, <1>4, <1>6, <2>1
  <2>2. ASSUME NEW i \in 1..Len(q), NEW j \in 1..Len(q), i < j, hf_rt[q[i].node] = hf_rt[q[j].node],
               \A k \in 1..Len(q) : i < k /\ k < j => hf_rt[q[k].node] # hf_rt[q[i].node]
        PROVE  q[j].pre = q[i].node
    <3>1. i \in 1..(N - 1) /\ j \in 1..(N - 1) /\ hf_rt[st[i].node] = hf_rt[st[j].node]
      BY <1>1, <1>6, <2>2
    <3>2. \A k \in 1..(N - 1) : i < k /\ k < j => hf_rt[st[k].node] # hf_rt[st[i].node]
      BY <1>1, <1>6, <2>2
    <3>3. st[j].pre = st[i].node
      BY <1>5, <2>2, <3>1, <3>2
    <3> QED
      BY <1>6, <3>1, <3>3
  <2> QED
    BY <2>1, <2>2 DEF LinksRight
<1> QED
  BY <1>7 DEF l, N

\* The tree does not change while a flow runs.
LEMMA TreeStays ==
    ASSUME UNCHANGED treeOfNodes
    PROVE  /\ Nodes' = Nodes /\ NodeOrNone' = NodeOrNone
           /\ TreeInv /\ hf_phase # "thrown" => TreeInv'
           /\ PathDown(hf_stack') => PathDown(hf_stack)'
           /\ LinksRight(hf_stack', hf_linked') => LinksRight(hf_stack, hf_linked)'
<1>1. /\ hf_rt' = hf_rt /\ hf_kind' = hf_kind /\ hf_final' = hf_final /\ hf_parent' = hf_parent
      /\ hf_idx' = hf_idx /\ hf_succ' = hf_succ
  BY DEF treeOfNodes
<1>2. Nodes' = Nodes /\ NodeOrNone' = NodeOrNone /\ Frame' = Frame
  BY <1>1 DEF Nodes, NodeOrNone, Frame
<1>3. TreeInv /\ hf_phase # "thrown" => TreeInv'
  <2> SUFFICES ASSUME TreeInv, hf_phase # "thrown" PROVE TreeInv'
    OBVIOUS
  <2>1. NodesTyped'
    BY <1>1, <1>2 DEF TreeInv, NodesTyped
  <2>2. NoCycle'
    BY <1>1, <1>2 DEF TreeInv, NoCycle
  <2>3. PlaceIsKnown'
    BY <1>1, <1>2 DEF TreeInv, PlaceIsKnown
  <2>4. HasItsPlace' /\ FinalNodesKnown'
    BY <1>1, <1>2 DEF TreeInv, HasItsPlace, FinalNodesKnown
  <2> QED
    BY <1>1, <2>1, <2>2, <2>3, <2>4 DEF TreeInv
<1>4. PathDown(hf_stack') => PathDown(hf_stack)'
  BY <1>1, <1>2 DEF PathDown
<1>5. LinksRight(hf_stack', hf_linked') => LinksRight(hf_stack, hf_linked)'
  BY <1>1, <1>2 DEF LinksRight
<1> QED
  BY <1>2, <1>3, <1>4, <1>5

\* A node is called: the head from nowhere, another by the frame of its parent.
LEMMA EnterKeeps ==
    ASSUME TreeInv, RestTyped, NEW st, PathDown(st), LinksRight(st, hf_linked),
           ResponsesRight(st, hf_resp),
           NEW n \in Nodes, IF st = <<>> THEN n = HeadNode ELSE hf_parent[n] = st[Len(st)].node,
           EnterNode(st, n)
    PROVE  /\ PathDown(hf_stack') /\ LinksRight(hf_stack', hf_linked') /\ ResponsesRight(hf_stack', hf_resp')
           /\ hf_linked' \in [Nodes -> NodeOrNone] /\ hf_resp' \in [Nodes -> Nat] /\ hf_acts' \in Nat
           /\ Len(hf_stack') > 0
<1> DEFINE f == [node |-> n, act |-> hf_acts', pre |-> hf_linked[hf_rt[n]],
                 at |-> NoNode, mode |-> "body", calls |-> 0]
           N == Len(st)
<1>1. st \in Seq(Frame) /\ N \in Nat
  BY DEF PathDown
<1>2. hf_acts' \in Nat /\ hf_rt[n] \in Nodes /\ hf_linked[hf_rt[n]] \in NodeOrNone /\ n \in NodeOrNone
  BY DEF EnterNode, TreeInv, NodesTyped, RestTyped, NodeOrNone
<1>3. f \in Frame /\ f.node = n /\ f.at = NoNode /\ f.mode = "body" /\ f.pre = hf_linked[hf_rt[n]]
  BY <1>2 DEF Frame, NodeOrNone
<1>4. hf_stack' = Append(st, f)
  BY DEF EnterNode
<1> HIDE DEF f
<1>5. /\ hf_stack' \in Seq(Frame) /\ Len(hf_stack') = N + 1
      /\ hf_stack'[N + 1] = f /\ \A i \in 1..N : hf_stack'[i] = st[i]
  BY <1>1, <1>3, <1>4
<1>6. \A i \in 1..N : st[i].node \in Nodes /\ hf_rt[st[i].node] \in Nodes
  BY <1>1, FrameFields DEF TreeInv, NodesTyped
<1> DEFINE q == hf_stack'
<1> HIDE DEF q
<1>7. PathDown(q)
  <2>0. st = <<>> <=> N = 0
    BY <1>1
  <2>1. \A i \in 1..Len(q) : i = 1 => q[i].node = HeadNode
    BY <1>1, <1>3, <1>5, <2>0 DEF PathDown, q
  <2>2. \A i, j \in 1..Len(q) : j = i + 1 => hf_parent[q[j].node] = q[i].node
    <3> SUFFICES ASSUME NEW i \in 1..Len(q), i + 1 \in 1..Len(q)
                 PROVE  hf_parent[q[i + 1].node] = q[i].node
      OBVIOUS
    <3>1. CASE i + 1 = N + 1
      BY <1>1, <1>3, <1>5, <2>0, <3>1 DEF q
    <3>2. CASE i + 1 # N + 1
      <4>1. i \in 1..N /\ i + 1 \in 1..N
        BY <1>1, <1>5, <3>2 DEF q
      <4> QED
        BY <1>5, <4>1 DEF PathDown, q
    <3> QED
      BY <3>1, <3>2
  <2>3. \A i \in 1..Len(q) : q[i].at # NoNode => hf_parent[q[i].at] = q[i].node
    BY <1>1, <1>3, <1>5 DEF PathDown, q
  <2>4. \A i \in 1..Len(q) : q[i].mode = "after" => hf_kind[q[i].node] # "plain"
    BY <1>1, <1>3, <1>5 DEF PathDown, q
  <2> QED
    BY <1>5, <2>1, <2>2, <2>3, <2>4 DEF PathDown, q
<1>8. /\ hf_linked' \in [Nodes -> NodeOrNone] /\ hf_linked'[hf_rt[n]] = n
      /\ \A r \in Nodes : r # hf_rt[n] => hf_linked'[r] = hf_linked[r]
  BY <1>2 DEF EnterNode, RestTyped
<1>9. LinksRight(q, hf_linked')
  <2>1. ASSUME NEW i \in 1..Len(q), \A j \in 1..Len(q) : i < j => hf_rt[q[j].node] # hf_rt[q[i].node]
        PROVE  hf_linked'[hf_rt[q[i].node]] = q[i].node
    <3>1. CASE i = N + 1
      BY <3>1, <1>3, <1>5, <1>8 DEF q
    <3>2. CASE i # N + 1
      <4>1. i \in 1..N /\ i < N + 1 /\ N + 1 \in 1..Len(q) /\ \A j \in 1..N : j \in 1..Len(q)
        BY <1>1, <1>5, <3>2 DEF q
      <4>2. hf_rt[st[i].node] # hf_rt[n]
        BY <1>3, <1>5, <2>1, <4>1 DEF q
      <4>3. \A j \in 1..N : i < j => hf_rt[st[j].node] # hf_rt[st[i].node]
        BY <1>5, <2>1, <4>1 DEF q
      <4>4. hf_linked[hf_rt[st[i].node]] = st[i].node
        BY <4>1, <4>3 DEF LinksRight
      <4> QED
        BY <1>5, <1>6, <1>8, <4>1, <4>2, <4>4 DEF q
    <3> QED
      BY <3>1, <3>2
  <2>2. ASSUME NEW i \in 1..Len(q), NEW j \in 1..Len(q), i < j, hf_rt[q[i].node] = hf_rt[q[j].node],
               \A k \in 1..Len(q) : i < k /\ k < j => hf_rt[q[k].node] # hf_rt[q[i].node]
        PROVE  q[j].pre = q[i].node
    <3>0. i \in 1..N /\ q[i] = st[i] /\ \A k \in 1..N : k \in 1..Len(q) /\ q[k] = st[k]
      BY <1>1, <1>5, <2>2 DEF q
    <3>1. CASE j = N + 1
      <4>1. \A k \in 1..N : i < k => hf_rt[st[k].node] # hf_rt[st[i].node]
        BY <1>1, <2>2, <3>0, <3>1
      <4>2. hf_linked[hf_rt[st[i].node]] = st[i].node
        BY <3>0, <4>1 DEF LinksRight
      <4> QED
        BY <1>3, <1>5, <2>2, <3>0, <3>1, <4>2 DEF q
    <3>2. CASE j # N + 1
      <4>1. j \in 1..N /\ q[j] = st[j]
        BY <1>1, <1>5, <3>0, <3>2 DEF q
      <4>2. hf_rt[st[i].node] = hf_rt[st[j].node]
        BY <2>2, <3>0, <4>1
      <4>3. \A k \in 1..N : i < k /\ k < j => hf_rt[st[k].node] # hf_rt[st[i].node]
        BY <2>2, <3>0
      <4>4. st[j].pre = st[i].node
        BY <2>2, <3>0, <4>1, <4>2, <4>3 DEF LinksRight
      <4> QED
        BY <3>0, <4>1, <4>4
    <3> QED
      BY <3>1, <3>2
  <2> QED
    BY <2>1, <2>2 DEF LinksRight
<1>10. hf_resp' \in [Nodes -> Nat] /\ hf_resp'[n] = 0
       /\ \A m \in Nodes : m # n => hf_resp'[m] = hf_resp[m]
  BY DEF EnterNode, RestTyped
<1>11. ResponsesRight(q, hf_resp')
  <2> SUFFICES ASSUME NEW i \in 1..Len(q) PROVE hf_resp'[q[i].node] \in {0, q[i].act}
    BY DEF ResponsesRight
  <2>1. CASE i = N + 1
    BY <1>3, <1>5, <1>10, <2>1 DEF q
  <2>2. CASE i # N + 1
    <3>1. i \in 1..N /\ q[i] = st[i]
      BY <1>1, <1>5, <2>2 DEF q
    <3> QED
      BY <1>6, <1>10, <3>1 DEF ResponsesRight
  <2> QED
    BY <2>1, <2>2
<1> QED
  BY <1>1, <1>2, <1>5, <1>7, <1>8, <1>9, <1>10, <1>11 DEF q

\* The last call returns ref, a node that its caller may go on with or none.
LEMMA LeaveKeeps ==
    ASSUME TreeInv, RestTyped, StackInv, Len(hf_stack) > 0,
           NEW ref \in NodeOrNone,
           Len(hf_stack) > 1 /\ ref # NoNode => hf_parent[ref] = Caller.node,
           LeaveNode(ref),
           \A i \in 1..(Len(hf_stack) - 1) : hf_resp'[hf_stack[i].node] \in {0, hf_stack[i].act}
    PROVE  /\ PathDown(hf_stack') /\ LinksRight(hf_stack', hf_linked') /\ ResponsesRight(hf_stack', hf_resp')
           /\ hf_linked' \in [Nodes -> NodeOrNone]
<1> DEFINE N == Len(hf_stack)
           q == hf_stack'
<1>1. hf_stack \in Seq(Frame) /\ N \in Nat /\ N \in 1..N
  BY DEF StackInv, PathDown
<1>2. Top = hf_stack[N] /\ Top.node \in Nodes /\ Top.pre \in NodeOrNone /\ hf_rt[Top.node] \in Nodes
  BY <1>1, FrameFields DEF Top, Last, TreeInv, NodesTyped
<1>3. hf_linked' = [hf_linked EXCEPT ![hf_rt[hf_stack[N].node]] = hf_stack[N].pre]
  BY <1>2 DEF LeaveNode, Routine
<1>4. /\ q \in Seq(Frame) /\ Len(q) = N - 1 /\ Alike(q, hf_stack)
      /\ \A i \in 1..Len(q) : FrameGood(q[i])
  <2>1. CASE N = 1
    <3>1. q = <<>>
      BY <2>1 DEF LeaveNode
    <3> QED
      BY <2>1, <3>1 DEF Alike
  <2>2. CASE N # 1
    <3> DEFINE at == IF Caller.mode = "children" THEN ref ELSE NoNode
               front == Front(hf_stack)
    <3>0. N > 1 /\ N - 1 \in 1..N
      <4> HIDE DEF N
      <4> QED
        BY <1>1, <2>2
    <3>1. N - 1 \in 1..N /\ Caller = hf_stack[N - 1]
      BY ONLY <3>0 DEF Caller
    <3>2. at \in NodeOrNone /\ (at # NoNode => hf_parent[at] = Caller.node)
      <4>1. CASE Caller.mode = "children"
        BY <3>0, <4>1
      <4>2. CASE Caller.mode # "children"
        BY <4>2 DEF NodeOrNone
      <4> QED
        BY <4>1, <4>2
    <3> HIDE DEF at
    <3>3. front \in Seq(Frame) /\ Len(front) = N - 1 /\ \A i \in 1..(N - 1) : front[i] = hf_stack[i]
      BY <1>1, FrontFacts
    <3>4. q = [front EXCEPT ![N - 1].at = at]
      BY <1>1, <2>2 DEF LeaveNode, at
    <3> HIDE DEF front, q
    <3>5. N - 1 \in 1..Len(front) /\ front[N - 1] \in Frame
      BY <1>1, <2>2, <3>3
    <3>6. [front[N - 1] EXCEPT !.at = at] \in Frame
      BY <3>2, <3>5 DEF Frame
    <3>7. /\ q \in Seq(Frame) /\ Len(q) = N - 1
          /\ q[N - 1] = [front[N - 1] EXCEPT !.at = at]
          /\ \A i \in 1..(N - 1) : i # N - 1 => q[i] = front[i]
      BY <3>3, <3>4, <3>5, <3>6
    <3>8. /\ q[N - 1].node = front[N - 1].node /\ q[N - 1].act = front[N - 1].act
          /\ q[N - 1].pre = front[N - 1].pre /\ q[N - 1].mode = front[N - 1].mode /\ q[N - 1].at = at
      BY <3>5, <3>7 DEF Frame
    <3>9. Alike(q, hf_stack)
      BY <1>1, <3>3, <3>7, <3>8 DEF Alike
    <3>10. ASSUME NEW i \in 1..(N - 1) PROVE FrameGood(q[i])
      <4>0. i \in 1..N /\ hf_stack[i] \in Frame /\ FrameGood(hf_stack[i])
        BY <1>1, FrameFields DEF StackInv, PathDown, FrameGood
      <4>1. CASE i = N - 1
        BY <3>1, <3>2, <3>3, <3>5, <3>6, <3>7, <3>8, <4>0, <4>1 DEF FrameGood
      <4>2. CASE i # N - 1
        BY <3>3, <3>7, <4>0, <4>2
      <4> QED
        BY <4>1, <4>2
    <3> QED
      BY <3>7, <3>9, <3>10
  <2> QED
    BY <2>1, <2>2
<1>5. PathDown(q)
  <2>1. DOMAIN q = 1..Len(q) /\ Len(q) <= Len(hf_stack) /\ PathDown(hf_stack)
    BY <1>1, <1>4 DEF StackInv
  <2> QED
    BY <1>4, <2>1, AlikePath
<1>6. LinksRight(q, hf_linked')
  BY <1>1, <1>3, <1>4, PoppedLinks DEF StackInv, TreeInv
<1>7. ResponsesRight(q, hf_resp')
  BY <1>1, <1>4 DEF Alike, ResponsesRight
<1>8. hf_linked' \in [Nodes -> NodeOrNone]
  BY <1>2, <1>3 DEF RestTyped
<1> QED
  BY <1>5, <1>6, <1>7, <1>8

-----------------------------------------------------------------------------
(* The steps of a run.                                                     *)

\* What the last call of a running flow is.
LEMMA TopFacts ==
    ASSUME HfInv, hf_phase = "run", hf_stack # <<>>
    PROVE  /\ Len(hf_stack) \in Nat /\ Len(hf_stack) > 0 /\ hf_stack \in Seq(Frame)
           /\ Top = hf_stack[Len(hf_stack)] /\ Top \in Frame /\ Top.node \in Nodes
           /\ Linked = Top.node
           /\ Top.node # HeadNode =>
                 /\ Len(hf_stack) > 1 /\ Caller = hf_stack[Len(hf_stack) - 1]
                 /\ Caller.node \in Nodes /\ Caller.act \in Nat
                 /\ hf_parent[Top.node] = Caller.node
<1>1. hf_stack \in Seq(Frame) /\ Len(hf_stack) \in Nat /\ Len(hf_stack) > 0
  BY DEF HfInv, StackInv, PathDown
<1>2. Len(hf_stack) \in 1..Len(hf_stack)
  BY <1>1
<1>3. Top = hf_stack[Len(hf_stack)] /\ Top \in Frame /\ Top.node \in Nodes
  BY <1>1, <1>2, FrameFields DEF Top, Last
<1>4. Linked = Top.node
  <2>1. \A j \in 1..Len(hf_stack) : ~(Len(hf_stack) < j)
    BY <1>1
  <2> QED
    BY <1>2, <1>3, <2>1 DEF Linked, Routine, HfInv, StackInv, LinksRight
<1>5. ASSUME Top.node # HeadNode
      PROVE  /\ Len(hf_stack) > 1 /\ Caller = hf_stack[Len(hf_stack) - 1]
             /\ Caller.node \in Nodes /\ Caller.act \in Nat
             /\ hf_parent[Top.node] = Caller.node
  <2>1. Len(hf_stack) # 1
    BY <1>2, <1>3, <1>5 DEF HfInv, StackInv, PathDown
  <2>2. Len(hf_stack) > 1 /\ Len(hf_stack) - 1 \in 1..Len(hf_stack) /\ Len(hf_stack) = (Len(hf_stack) - 1) + 1
    <3> DEFINE N == Len(hf_stack)
    <3> HIDE DEF N
    <3>1. N \in Nat /\ N > 0 /\ N # 1
      BY <1>1, <2>1 DEF N
    <3>2. N > 1 /\ N - 1 \in 1..N /\ N = (N - 1) + 1
      BY <3>1
    <3> QED
      BY <3>2 DEF N
  <2>3. hf_parent[hf_stack[Len(hf_stack)].node] = hf_stack[Len(hf_stack) - 1].node
    BY <1>2, <2>2 DEF HfInv, StackInv, PathDown
  <2> QED
    BY <1>1, <1>3, <2>2, <2>3, FrameFields DEF Caller
<1> QED
  BY <1>1, <1>3, <1>4, <1>5

\* The answer of a call to its caller reaches that call and no other.
LEMMA AnswerKeeps ==
    ASSUME HfInv, hf_phase = "run", hf_stack # <<>>, Top.node # HeadNode,
           NEW v \in {0, Caller.act}, hf_resp' = [hf_resp EXCEPT ![hf_parent[Top.node]] = v]
    PROVE  ResponsesRight(hf_stack, hf_resp') /\ hf_resp' \in [Nodes -> Nat]
<1>1. /\ Len(hf_stack) \in Nat /\ Len(hf_stack) > 1 /\ Caller = hf_stack[Len(hf_stack) - 1]
      /\ Caller.node \in Nodes /\ Caller.act \in Nat /\ hf_parent[Top.node] = Caller.node
      /\ hf_stack \in Seq(Frame)
  BY TopFacts
<1>2. /\ hf_resp' \in [Nodes -> Nat] /\ hf_resp'[Caller.node] = v
      /\ \A m \in Nodes : m # Caller.node => hf_resp'[m] = hf_resp[m]
  BY <1>1 DEF HfInv, RestTyped
<1>3. ASSUME NEW i \in 1..Len(hf_stack) PROVE hf_resp'[hf_stack[i].node] \in {0, hf_stack[i].act}
  <2>0. Len(hf_stack) - 1 \in 1..Len(hf_stack)
    BY <1>1
  <2>1. CASE i = Len(hf_stack) - 1
    BY <1>1, <1>2, <2>1
  <2>2. CASE i # Len(hf_stack) - 1
    <3>1. i < Len(hf_stack) - 1 \/ Len(hf_stack) - 1 < i
      BY <1>1, <2>2
    <3>2. hf_stack[i].node # Caller.node
      BY <1>1, <2>0, <3>1, NodesDistinct DEF HfInv, StackInv
    <3>3. hf_stack[i].node \in Nodes
      BY <1>1, FrameFields
    <3> QED
      BY <1>2, <3>2, <3>3 DEF HfInv, StackInv, ResponsesRight
  <2> QED
    BY <2>1, <2>2
<1> QED
  BY <1>2, <1>3 DEF ResponsesRight

\* GoToDefaultNext, when it is not the read past the end: none or a sibling.
LEMMA NextIsSibling ==
    ASSUME HfInv, hf_phase = "run", NEW n \in Nodes, ~WildNext(n)
    PROVE  /\ GoToDefaultNext(n) \in NodeOrNone
           /\ GoToDefaultNext(n) # NoNode => hf_parent[GoToDefaultNext(n)] = hf_parent[n]
<1>1. CASE hf_parent[n] = NoNode \/ hf_idx[n] + 1 = Len(hf_succ[hf_parent[n]])
  BY <1>1 DEF GoToDefaultNext, NodeOrNone
<1>2. CASE hf_parent[n] # NoNode /\ hf_idx[n] + 1 # Len(hf_succ[hf_parent[n]])
  <2> DEFINE p == hf_parent[n]
             k == hf_idx[n] + 2
  <2>1. p \in Nodes /\ hf_succ[p] \in Seq(Nodes) /\ hf_idx[n] \in Nat
    BY <1>2 DEF HfInv, TreeInv, NodesTyped, NodeOrNone
  <2>2. k \in 1..Len(hf_succ[p])
    <3> DEFINE L == Len(hf_succ[p])
    <3>1. L \in Nat /\ ~(hf_idx[n] + 1 > L) /\ hf_idx[n] + 1 # L
      BY <1>2, <2>1 DEF WildNext
    <3> HIDE DEF L
    <3>2. k \in 1..L
      BY <2>1, <3>1
    <3> QED
      BY <3>2 DEF L
  <2>3. GoToDefaultNext(n) = hf_succ[p][k]
    BY <1>2 DEF GoToDefaultNext
  <2>4. hf_succ[p][k] \in Nodes /\ k \in DOMAIN hf_succ[p]
    BY <2>1, <2>2
  <2>5. hf_parent[hf_succ[p][k]] = p
    BY <2>1, <2>4 DEF HfInv, TreeInv, PlaceIsKnown
  <2> QED
    BY <2>3, <2>4, <2>5 DEF NodeOrNone
<1> QED
  BY <1>1, <1>2

\* A routine returns GoToDefaultNext.
LEMMA LeaveToNextKeeps ==
    ASSUME HfInv, hf_phase = "run", hf_stack # <<>>, Top.node # HeadNode,
           LeaveToNext, UNCHANGED treeOfNodes, UNCHANGED hf_kids, UNCHANGED hf_acts,
           ResponsesRight(hf_stack, hf_resp'), hf_resp' \in [Nodes -> Nat]
    PROVE  HfInv'
<1>1. /\ Len(hf_stack) \in Nat /\ Len(hf_stack) > 1 /\ Caller = hf_stack[Len(hf_stack) - 1]
      /\ Caller.node \in Nodes /\ hf_parent[Top.node] = Caller.node /\ Linked = Top.node
      /\ Top.node \in Nodes /\ hf_stack \in Seq(Frame)
  BY TopFacts
<1>2. TreeInv /\ RestTyped /\ StackInv
  BY DEF HfInv
<1>3. TreeInv' /\ Nodes' = Nodes /\ NodeOrNone' = NodeOrNone
  BY <1>2, TreeStays
<1>4. CASE WildNext(Top.node)
  <2>1. hf_phase' = "undefined" /\ hf_linked' = hf_linked /\ hf_stack' = hf_stack
    BY <1>1, <1>4 DEF LeaveToNext
  <2>2. RestTyped'
    BY <1>2, <1>3, <2>1 DEF RestTyped
  <2>3. StackInv'
    <3>1. PathDown(hf_stack') /\ LinksRight(hf_stack', hf_linked')
      BY <1>2, <2>1 DEF StackInv
    <3>2. ResponsesRight(hf_stack, hf_resp)'
      BY <2>1 DEF ResponsesRight
    <3> QED
      BY <1>1, <2>1, <3>1, <3>2, TreeStays DEF StackInv
  <2>4. WildOnlyInEmptyTry'
    <3> DEFINE p == Caller.node
    <3>1. /\ hf_kind[p] = "finally" /\ hf_final[p] = Top.node /\ hf_succ[p] = <<>>
      <4>1. hf_succ[p] \in Seq(Nodes) /\ hf_idx[Top.node] \in Nat /\ hf_parent[Top.node] # NoNode
        BY <1>1, <1>2, <1>4 DEF TreeInv, NodesTyped, WildNext
      <4>2. hf_idx[Top.node] + 1 > Len(hf_succ[p])
        BY <1>1, <1>4 DEF WildNext
      <4>3. hf_idx[Top.node] + 1 \notin DOMAIN hf_succ[p]
        BY <4>1, <4>2
      <4>4. hf_kind[p] = "finally" /\ hf_final[p] = Top.node /\ hf_idx[Top.node] = 0
        BY <1>1, <1>2, <4>1, <4>3 DEF TreeInv, HasItsPlace
      <4> QED
        BY <4>1, <4>2, <4>4
    <3>2. Caller' = Caller /\ Top' = Top
      BY <2>1 DEF Caller, Top, Last
    <3> QED
      BY <3>1, <3>2 DEF WildOnlyInEmptyTry, treeOfNodes
  <2> QED
    BY <1>3, <2>2, <2>3, <2>4 DEF HfInv
<1>5. CASE ~WildNext(Top.node)
  <2>1. LeaveNode(GoToDefaultNext(Top.node)) /\ hf_phase' = hf_phase
    BY <1>1, <1>5 DEF LeaveToNext
  <2>2. /\ GoToDefaultNext(Top.node) \in NodeOrNone
        /\ GoToDefaultNext(Top.node) # NoNode => hf_parent[GoToDefaultNext(Top.node)] = Caller.node
    BY <1>1, <1>5, NextIsSibling
  <2>3. \A i \in 1..(Len(hf_stack) - 1) : hf_resp'[hf_stack[i].node] \in {0, hf_stack[i].act}
    BY <1>1 DEF ResponsesRight
  <2>4. /\ PathDown(hf_stack') /\ LinksRight(hf_stack', hf_linked') /\ ResponsesRight(hf_stack', hf_resp')
        /\ hf_linked' \in [Nodes -> NodeOrNone]
    BY <1>1, <1>2, <2>1, <2>2, <2>3, LeaveKeeps
  <2>5. RestTyped'
    BY <1>2, <1>3, <2>1, <2>4 DEF RestTyped
  <2>6. ResponsesRight(hf_stack, hf_resp)'
    BY <2>4 DEF ResponsesRight
  <2>7. StackInv'
    BY <2>1, <2>4, <2>6, TreeStays DEF StackInv
  <2>8. WildOnlyInEmptyTry'
    BY <2>1 DEF WildOnlyInEmptyTry
  <2> QED
    BY <1>3, <2>5, <2>7, <2>8 DEF HfInv
<1> QED
  BY <1>4, <1>5

\* A flow that calls a node: st is the stack, with the last frame as the caller leaves it.
LEMMA EnterStepKeeps ==
    ASSUME HfInv, hf_phase \in {"build", "run"}, hf_phase' = "run", NEW st, PathDown(st),
           LinksRight(st, hf_linked), ResponsesRight(st, hf_resp),
           NEW n \in Nodes, IF st = <<>> THEN n = HeadNode ELSE hf_parent[n] = st[Len(st)].node,
           EnterNode(st, n), UNCHANGED treeOfNodes, hf_kids' \in Seq(Nodes)
    PROVE  HfInv'
<1>1. TreeInv /\ RestTyped
  BY DEF HfInv
<1>2. TreeInv' /\ Nodes' = Nodes /\ NodeOrNone' = NodeOrNone
  BY <1>1, TreeStays
<1>3. /\ PathDown(hf_stack') /\ LinksRight(hf_stack', hf_linked') /\ ResponsesRight(hf_stack', hf_resp')
      /\ hf_linked' \in [Nodes -> NodeOrNone] /\ hf_resp' \in [Nodes -> Nat] /\ hf_acts' \in Nat
  BY <1>1, EnterKeeps
<1>4. RestTyped'
  BY <1>2, <1>3 DEF RestTyped
<1>5. StackInv'
  <2>1. ResponsesRight(hf_stack, hf_resp)'
    BY <1>3 DEF ResponsesRight
  <2> QED
    BY <1>3, <2>1, TreeStays DEF StackInv
<1> QED
  BY <1>2, <1>4, <1>5 DEF HfInv, WildOnlyInEmptyTry

\* The last frame turns to something else.
LEMMA TopSet ==
    ASSUME HfInv, hf_phase = "run", hf_stack # <<>>,
           NEW f, FrameGood(f), f.node = Top.node, f.act = Top.act, f.pre = Top.pre,
           NEW q, q = [hf_stack EXCEPT ![Len(hf_stack)] = f]
    PROVE  /\ PathDown(q) /\ LinksRight(q, hf_linked) /\ ResponsesRight(q, hf_resp)
           /\ q # <<>> /\ q[Len(q)].node = Top.node
<1> DEFINE N == Len(hf_stack)
<1>1. N \in Nat /\ N > 0 /\ hf_stack \in Seq(Frame) /\ Top = hf_stack[N]
  BY TopFacts
<1>2. f \in Frame
  BY DEF FrameGood
<1>3. q \in Seq(Frame) /\ Len(q) = N /\ q[N] = f /\ \A i \in 1..N : i # N => q[i] = hf_stack[i]
  BY <1>1, <1>2
<1>4. Alike(q, hf_stack)
  BY <1>1, <1>3 DEF Alike
<1>5. ASSUME NEW i \in 1..Len(q) PROVE FrameGood(q[i])
  <2>1. CASE i = N
    BY <1>3, <2>1
  <2>2. CASE i # N
    <3>0. i \in 1..N
      BY <1>3
    <3>1. hf_stack[i] \in Frame /\ q[i] = hf_stack[i]
      BY <1>1, <1>3, <2>2, <3>0, FrameFields
    <3> QED
      BY <3>0, <3>1 DEF FrameGood, HfInv, StackInv, PathDown
  <2> QED
    BY <2>1, <2>2
<1>6. PathDown(q)
  <2>1. DOMAIN q = 1..Len(q) /\ Len(q) <= Len(hf_stack) /\ PathDown(hf_stack)
    BY <1>1, <1>3 DEF HfInv, StackInv
  <2> QED
    BY <1>3, <1>4, <1>5, <2>1, AlikePath
<1>7. LinksRight(q, hf_linked)
  BY <1>3, <1>4, AlikeLinks DEF HfInv, StackInv
<1>8. ResponsesRight(q, hf_resp)
  BY <1>1, <1>3, <1>4 DEF Alike, HfInv, StackInv, ResponsesRight
<1>9. q # <<>>
  <2> SUFFICES ASSUME q = <<>> PROVE FALSE
    OBVIOUS
  <2>1. Len(q) = 0
    BY ONLY q = <<>>
  <2> QED
    BY ONLY <1>1, <1>3, <2>1
<1>10. q[Len(q)].node = Top.node
  BY <1>3
<1> QED
  BY <1>10, <1>6, <1>7, <1>8, <1>9

\* Nothing but the last frame changes.
LEMMA TopStepKeeps ==
    ASSUME HfInv, hf_phase = "run", hf_stack # <<>>,
           NEW f, FrameGood(f), f.node = Top.node, f.act = Top.act, f.pre = Top.pre,
           hf_stack' = [hf_stack EXCEPT ![Len(hf_stack)] = f],
           UNCHANGED <<treeOfNodes, hf_kids, hf_phase, hf_linked, hf_resp, hf_acts>>
    PROVE  HfInv'
<1>1. PathDown(hf_stack') /\ LinksRight(hf_stack', hf_linked) /\ ResponsesRight(hf_stack', hf_resp)
  BY TopSet
<1>2. UNCHANGED treeOfNodes /\ hf_linked' = hf_linked /\ hf_resp' = hf_resp /\ hf_phase' = hf_phase
      /\ hf_kids' = hf_kids /\ hf_acts' = hf_acts
  OBVIOUS
<1>3. TreeInv' /\ Nodes' = Nodes /\ NodeOrNone' = NodeOrNone
  BY <1>2, TreeStays DEF HfInv
<1>4. RestTyped'
  BY <1>2, <1>3 DEF HfInv, RestTyped
<1>5. StackInv'
  <2>1. ResponsesRight(hf_stack, hf_resp)'
    BY <1>1, <1>2 DEF ResponsesRight
  <2> QED
    BY <1>1, <1>2, <2>1, TreeStays DEF StackInv
<1> QED
  BY <1>2, <1>3, <1>4, <1>5 DEF HfInv, WildOnlyInEmptyTry

\* While a flow is built nothing runs.
LEMMA BuildStepKeeps ==
    ASSUME HfInv, hf_phase = "build", hf_phase' \in {"build", "thrown"}, hf_stack' = hf_stack,
           TreeInv', RestTyped'
    PROVE  HfInv'
<1>1. hf_stack' = <<>>
  BY DEF HfInv, StackInv
<1>2. PathDown(hf_stack)'
  BY <1>1 DEF PathDown
<1>3. LinksRight(hf_stack, hf_linked)' /\ ResponsesRight(hf_stack, hf_resp)'
  BY <1>1 DEF LinksRight, ResponsesRight
<1> QED
  BY <1>1, <1>2, <1>3 DEF HfInv, StackInv, WildOnlyInEmptyTry

\* The operators that build the tree keep HfInv; each makes a node, puts
\* nodes below another or throws.
LEMMA BuildActionsKeep ==
    ASSUME HfInv, CreateNode \/ HardLink \/ Finally \/ Connect \/ Join \/ JoinAndForget \/ ConnectChildren
    PROVE  HfInv'
<1>0. /\ TreeInv /\ RestTyped /\ hf_kids \in Seq(Nodes) /\ NoNode \in NodeOrNone /\ NoNode \notin Nodes
      /\ HeadNode \in Nodes
  BY DEF HfInv, RestTyped, NodeOrNone, TreeInv, NodesTyped, NoNode, HeadNode
<1>s. ASSUME UNCHANGED treeOfNodes, hf_phase = "build", hf_phase' \in {"build", "thrown"}, hf_kids' \in Seq(Nodes),
             UNCHANGED <<hf_linked, hf_resp, hf_acts>>
      PROVE  TreeInv' /\ RestTyped'
  <2>1. TreeInv' /\ Nodes' = Nodes /\ NodeOrNone' = NodeOrNone
    BY <1>0, <1>s, TreeStays
  <2> QED
    BY <1>0, <1>s, <2>1 DEF RestTyped
<1>1. CASE CreateNode
  <2>1. PICK kind \in {"plain", "random"} : AddNode(Cardinality(Nodes), kind, NoNode)
    BY <1>1 DEF CreateNode
  <2>2. hf_phase = "build" /\ UNCHANGED <<hf_kids, hf_phase, hf_stack, hf_acts>>
    BY <1>1 DEF CreateNode
  <2>3. TreeInv' /\ RestTyped'
    BY <1>0, <2>1, <2>2, AddNodeKeeps
  <2> QED
    BY <2>2, <2>3, BuildStepKeeps
<1>2. CASE HardLink
  <2>1. PICK n \in Nodes \ {HeadNode} : hf_kind[n] # "finally" /\ AddNode(hf_rt[n], hf_kind[n], NoNode)
    BY <1>2 DEF HardLink
  <2>2. hf_phase = "build" /\ UNCHANGED <<hf_kids, hf_phase, hf_stack, hf_acts>>
    BY <1>2 DEF HardLink
  <2>3. hf_rt[n] \in Nodes /\ hf_kind[n] \in {"plain", "random", "finally"}
    BY <1>0 DEF TreeInv, NodesTyped
  <2>4. TreeInv' /\ RestTyped'
    BY <1>0, <2>1, <2>2, <2>3, AddNodeKeeps
  <2> QED
    BY <2>2, <2>4, BuildStepKeeps
<1>3. CASE Finally
  <2>0. hf_phase = "build" /\ UNCHANGED <<hf_stack, hf_acts>> /\ hf_kids' \in Seq(Nodes)
    BY <1>0, <1>3 DEF Finally, KidsUnlessThrown
  <2>1. PICK n \in Nodes \ {HeadNode} :
             \/ hf_parent[n] = NoNode /\ AddNode(Cardinality(Nodes), "finally", n) /\ UNCHANGED hf_phase
             \/ ThrowWrongUsage /\ UNCHANGED <<treeOfNodes, hf_linked, hf_resp>>
    BY <1>3 DEF Finally
  <2>2. CASE hf_parent[n] = NoNode /\ AddNode(Cardinality(Nodes), "finally", n) /\ UNCHANGED hf_phase
    <3>1. n \in NodeOrNone /\ n # NoNode
      BY <1>0 DEF NodeOrNone
    <3>2. TreeInv' /\ RestTyped'
      BY <1>0, <2>0, <2>2, <3>1, AddNodeKeeps
    <3> QED
      BY <2>0, <2>2, <3>2, BuildStepKeeps
  <2>3. CASE ThrowWrongUsage /\ UNCHANGED <<treeOfNodes, hf_linked, hf_resp>>
    <3>1. TreeInv' /\ RestTyped'
      BY <2>0, <2>3, <1>s DEF ThrowWrongUsage
    <3> QED
      BY <2>0, <2>3, <3>1, BuildStepKeeps DEF ThrowWrongUsage
  <2> QED
    BY <2>1, <2>2, <2>3
<1>a. ASSUME NEW n \in Nodes, NEW nodes \in Seq(Nodes), AddSuccessors(n, nodes), hf_phase = "build",
             KidsUnlessThrown
      PROVE  HfInv'
  <2>1. hf_kids' \in Seq(Nodes)
    BY <1>0, <1>a DEF KidsUnlessThrown
  <2>2. TreeInv' /\ RestTyped'
    BY <1>0, <1>a, <2>1, AddSuccessorsKeeps
  <2>3. hf_phase' \in {"build", "thrown"} /\ hf_stack' = hf_stack
    BY <1>a DEF AddSuccessors, ThrowWrongUsage
  <2> QED
    BY <1>a, <2>2, <2>3, BuildStepKeeps
<1>4. CASE Connect
  <2>1. PICK n \in Nodes, m \in Nodes \ {HeadNode} : AddSuccessors(n, <<m>>)
    BY <1>4 DEF Connect
  <2>2. <<m>> \in Seq(Nodes)
    OBVIOUS
  <2> QED
    BY <1>4, <1>a, <2>1, <2>2 DEF Connect
<1>5. CASE Join \/ JoinAndForget
  <2>1. hf_kids' \in Seq(Nodes)
    <3>1. CASE JoinAndForget
      BY <3>1 DEF JoinAndForget
    <3>2. CASE Join
      <4>1. PICK n \in Nodes \ {HeadNode}, m \in Nodes \ {HeadNode} :
                 hf_kids' \in IF hf_kids = <<>> THEN {<<n, m>>} ELSE {Append(hf_kids, m), <<m>> \o hf_kids}
        BY <3>2 DEF Join
      <4>2. <<n, m>> \in Seq(Nodes) /\ Append(hf_kids, m) \in Seq(Nodes) /\ <<m>> \o hf_kids \in Seq(Nodes)
        BY <1>0
      <4> QED
        BY <4>1, <4>2
    <3> QED
      BY <1>5, <3>1, <3>2
  <2>2. /\ hf_phase = "build" /\ UNCHANGED treeOfNodes /\ UNCHANGED <<hf_linked, hf_resp, hf_acts>>
        /\ hf_phase' = hf_phase /\ hf_stack' = hf_stack
    BY <1>5 DEF Join, JoinAndForget
  <2>3. TreeInv' /\ RestTyped'
    BY <1>s, <2>1, <2>2
  <2> QED
    BY <2>2, <2>3, BuildStepKeeps
<1>6. CASE ConnectChildren
  <2>0. hf_phase = "build" /\ KidsUnlessThrown
    BY <1>6 DEF ConnectChildren
  <2>1. CASE hf_kids = <<>>
    <3>1. /\ hf_phase' = "thrown" /\ UNCHANGED treeOfNodes /\ UNCHANGED <<hf_linked, hf_resp, hf_acts>>
          /\ hf_stack' = hf_stack
      BY <1>6, <2>1 DEF ConnectChildren, ThrowWrongUsage
    <3>2. hf_kids' \in Seq(Nodes)
      BY <1>0, <2>0 DEF KidsUnlessThrown
    <3>3. TreeInv' /\ RestTyped'
      BY <1>s, <2>0, <3>1, <3>2
    <3> QED
      BY <2>0, <3>1, <3>3, BuildStepKeeps
  <2>2. CASE hf_kids # <<>>
    <3>1. PICK n \in Nodes \ {HeadNode} : AddSuccessors(n, hf_kids)
      BY <1>6, <2>2 DEF ConnectChildren
    <3> QED
      BY <1>0, <1>a, <2>0, <3>1
  <2> QED
    BY <2>1, <2>2
<1> QED
  BY <1>1, <1>2, <1>3, <1>4, <1>5, <1>6

\* The calls and returns of a running flow keep HfInv; each pushes, pops or answers the top frame.
LEMMA RunActionsKeep ==
    ASSUME HfInv,
           \/ OneLoop \/ CallSuccessors \/ NextChild \/ AllChildrenCalled \/ SetResponseValue
           \/ PlainReturns \/ RandomCalls \/ RandomReturnsAtOnce \/ CallFinalNode \/ IrregularReturns
    PROVE  HfInv'
<1>0. /\ TreeInv /\ RestTyped /\ hf_kids \in Seq(Nodes) /\ NoNode \in NodeOrNone /\ HeadNode \in Nodes
      /\ PathDown(hf_stack) /\ LinksRight(hf_stack, hf_linked) /\ ResponsesRight(hf_stack, hf_resp)
      /\ hf_kind[HeadNode] = "plain"
  BY DEF HfInv, RestTyped, NodeOrNone, TreeInv, NodesTyped, NoNode, HeadNode, StackInv
<1>1. CASE OneLoop
  <2>1. PathDown(<<>>) /\ LinksRight(<<>>, hf_linked) /\ ResponsesRight(<<>>, hf_resp)
    BY DEF PathDown, LinksRight, ResponsesRight
  <2>2. /\ hf_phase \in {"build", "run"} /\ hf_phase' = "run" /\ hf_kids' \in Seq(Nodes)
        /\ EnterNode(<<>>, HeadNode) /\ UNCHANGED treeOfNodes
    BY <1>1 DEF OneLoop
  <2> QED
    BY <1>0, <2>1, <2>2, EnterStepKeeps
<1>2. CASE CallSuccessors
  <2> DEFINE to == IF hf_succ[Linked] = <<>> THEN NoNode ELSE hf_succ[Linked][1]
             f == [Top EXCEPT !.mode = "children", !.calls = @ + 1, !.at = to]
  <2>1. hf_phase = "run" /\ hf_stack # <<>> /\ Top.mode = "body"
        /\ UNCHANGED <<treeOfNodes, hf_kids, hf_phase, hf_linked, hf_resp, hf_acts>>
    BY <1>2 DEF CallSuccessors, Running
  <2>2. /\ Len(hf_stack) \in Nat /\ Len(hf_stack) > 0 /\ hf_stack \in Seq(Frame)
        /\ Top = hf_stack[Len(hf_stack)] /\ Top \in Frame /\ Top.node \in Nodes /\ Linked = Top.node
    BY <2>1, TopFacts
  <2>3. to \in NodeOrNone /\ (to # NoNode => hf_parent[to] = Top.node)
    <3>1. CASE hf_succ[Linked] = <<>>
      BY <3>1, <1>0
    <3>2. CASE hf_succ[Linked] # <<>>
      <4>1. hf_succ[Top.node] \in Seq(Nodes) /\ 1 \in DOMAIN hf_succ[Top.node]
        BY <1>0, <2>2, <3>2 DEF TreeInv, NodesTyped
      <4>2. hf_succ[Top.node][1] \in Nodes
        BY <4>1
      <4>3. hf_parent[hf_succ[Top.node][1]] = Top.node
        BY <1>0, <2>1, <2>2, <4>1, <4>2 DEF TreeInv, PlaceIsKnown
      <4> QED
        BY <2>2, <3>2, <4>2, <4>3 DEF NodeOrNone
    <3> QED
      BY <3>1, <3>2
  <2> HIDE DEF to
  <2>4. FrameGood(f) /\ f.node = Top.node /\ f.act = Top.act /\ f.pre = Top.pre
    <3>0. ASSUME NEW g \in Frame, NEW a \in NodeOrNone, NEW c \in Nat
          PROVE  [g EXCEPT !.mode = "children", !.calls = c, !.at = a] \in Frame
      BY DEF Frame
    <3>1. f \in Frame
      <4>1. Top.calls + 1 \in Nat
        BY ONLY <2>2 DEF Frame
      <4> QED
        BY <2>2, <2>3, <3>0, <4>1
    <3>2. /\ f.node = Top.node /\ f.act = Top.act /\ f.pre = Top.pre
          /\ f.at = to /\ f.mode = "children"
      BY ONLY <2>2 DEF Frame
    <3> QED
      BY <2>3, <3>1, <3>2 DEF FrameGood
  <2>5. hf_stack' = [hf_stack EXCEPT ![Len(hf_stack)] = f]
    BY <1>2, <2>2 DEF CallSuccessors, to
  <2> QED
    BY <2>1, <2>4, <2>5, TopStepKeeps
<1>3. CASE NextChild
  <2>1. /\ hf_phase = "run" /\ hf_stack # <<>> /\ Top.at # NoNode /\ EnterNode(hf_stack, Top.at)
        /\ UNCHANGED treeOfNodes /\ hf_kids' = hf_kids /\ hf_phase' = hf_phase
    BY <1>3 DEF NextChild
  <2>2. /\ Len(hf_stack) \in Nat /\ Len(hf_stack) > 0 /\ Top = hf_stack[Len(hf_stack)]
        /\ hf_stack \in Seq(Frame)
    BY <2>1, TopFacts
  <2>3. Len(hf_stack) \in 1..Len(hf_stack)
    BY <2>2
  <2>4. Top.at \in Nodes /\ hf_parent[Top.at] = hf_stack[Len(hf_stack)].node
    BY <1>0, <2>1, <2>2, <2>3, FrameFields DEF PathDown, NodeOrNone
  <2> QED
    BY <1>0, <2>1, <2>4, EnterStepKeeps
<1>4. CASE AllChildrenCalled
  <2> DEFINE f == [Top EXCEPT !.mode = "body"]
  <2>1. /\ hf_phase = "run" /\ hf_stack # <<>> /\ Top.at = NoNode
        /\ UNCHANGED <<treeOfNodes, hf_kids, hf_phase, hf_linked, hf_resp, hf_acts>>
    BY <1>4 DEF AllChildrenCalled
  <2>2. /\ Len(hf_stack) \in Nat /\ Len(hf_stack) > 0 /\ hf_stack \in Seq(Frame)
        /\ Top = hf_stack[Len(hf_stack)] /\ Top \in Frame
    BY <2>1, TopFacts
  <2>3. FrameGood(f) /\ f.node = Top.node /\ f.act = Top.act /\ f.pre = Top.pre
    BY <2>1, <2>2 DEF Frame, FrameGood
  <2>4. hf_stack' = [hf_stack EXCEPT ![Len(hf_stack)] = f]
    BY <1>4, <2>2 DEF AllChildrenCalled, SetTop
  <2> QED
    BY <2>1, <2>3, <2>4, TopStepKeeps
<1>5. CASE SetResponseValue
  <2>1. /\ hf_phase = "run" /\ hf_stack # <<>> /\ Top.node # HeadNode
        /\ UNCHANGED treeOfNodes /\ hf_kids' = hf_kids /\ hf_phase' = hf_phase /\ hf_linked' = hf_linked
        /\ hf_stack' = hf_stack /\ hf_acts' = hf_acts
        /\ hf_resp' = [hf_resp EXCEPT ![hf_parent[Linked]] = Caller.act]
    BY <1>5 DEF SetResponseValue, Running
  <2>2. ResponsesRight(hf_stack, hf_resp') /\ hf_resp' \in [Nodes -> Nat]
    BY <2>1, TopFacts, AnswerKeeps
  <2>3. TreeInv' /\ Nodes' = Nodes /\ NodeOrNone' = NodeOrNone
    BY <1>0, <2>1, TreeStays
  <2>4. RestTyped'
    BY <1>0, <2>1, <2>2, <2>3 DEF RestTyped
  <2>5. ResponsesRight(hf_stack, hf_resp)'
    BY <2>1, <2>2 DEF ResponsesRight
  <2>6. StackInv'
    BY <1>0, <2>1, <2>5, TreeStays DEF StackInv
  <2> QED
    BY <2>1, <2>3, <2>4, <2>6 DEF HfInv, WildOnlyInEmptyTry
<1>6. CASE PlainReturns
  <2>1. /\ hf_phase = "run" /\ hf_stack # <<>> /\ UNCHANGED treeOfNodes
        /\ hf_kids' = hf_kids /\ hf_resp' = hf_resp /\ hf_acts' = hf_acts
    BY <1>6 DEF PlainReturns, Running
  <2>2. CASE LeaveNode(NoNode) /\ UNCHANGED hf_phase
    <3>0. StackInv /\ Len(hf_stack) > 0 /\ Len(hf_stack) \in Nat
      BY <2>1, TopFacts DEF HfInv
    <3>1. \A i \in 1..(Len(hf_stack) - 1) : hf_resp'[hf_stack[i].node] \in {0, hf_stack[i].act}
      BY <1>0, <2>1, <3>0 DEF ResponsesRight
    <3>2. /\ PathDown(hf_stack') /\ LinksRight(hf_stack', hf_linked') /\ ResponsesRight(hf_stack', hf_resp')
          /\ hf_linked' \in [Nodes -> NodeOrNone]
      BY <1>0, <2>2, <3>0, <3>1, LeaveKeeps
    <3>3. TreeInv' /\ Nodes' = Nodes /\ NodeOrNone' = NodeOrNone
      BY <1>0, <2>1, TreeStays
    <3>4. RestTyped'
      BY <1>0, <2>1, <2>2, <3>2, <3>3 DEF RestTyped
    <3>5. ResponsesRight(hf_stack, hf_resp)'
      BY <3>2 DEF ResponsesRight
    <3>6. StackInv'
      BY <2>1, <2>2, <3>2, <3>5, TreeStays DEF StackInv
    <3> QED
      BY <2>1, <2>2, <3>3, <3>4, <3>6 DEF HfInv, WildOnlyInEmptyTry
  <2>3. CASE Top.node # HeadNode /\ LeaveToNext
    <3>1. ResponsesRight(hf_stack, hf_resp') /\ hf_resp' \in [Nodes -> Nat]
      BY <1>0, <2>1 DEF RestTyped
    <3> QED
      BY <2>1, <2>3, <3>1, LeaveToNextKeeps
  <2> QED
    BY <1>6, <2>2, <2>3 DEF PlainReturns
<1>c. ASSUME hf_phase = "run", hf_stack # <<>>, hf_kind[Top.node] # "plain",
             NEW m \in Nodes, hf_parent[m] = Top.node,
             EnterNode(SetTop("mode", "after"), m), UNCHANGED <<treeOfNodes, hf_kids, hf_phase>>
      PROVE  HfInv'
  <2> DEFINE f == [Top EXCEPT !.mode = "after"]
             q == SetTop("mode", "after")
  <2>1. /\ Len(hf_stack) \in Nat /\ Len(hf_stack) > 0 /\ hf_stack \in Seq(Frame)
        /\ Top = hf_stack[Len(hf_stack)] /\ Top \in Frame /\ Len(hf_stack) \in 1..Len(hf_stack)
    BY <1>c, TopFacts
  <2>2. FrameGood(f) /\ f.node = Top.node /\ f.act = Top.act /\ f.pre = Top.pre
    <3>1. Top.at # NoNode => hf_parent[Top.at] = Top.node
      BY <1>0, <2>1 DEF PathDown
    <3> QED
      BY <1>c, <2>1, <3>1 DEF Frame, FrameGood
  <2>3. q = [hf_stack EXCEPT ![Len(hf_stack)] = f]
    BY <2>1 DEF SetTop
  <2> HIDE DEF f, q
  <2>4. /\ PathDown(q) /\ LinksRight(q, hf_linked) /\ ResponsesRight(q, hf_resp)
        /\ q # <<>> /\ q[Len(q)].node = Top.node
    BY <1>c, <2>2, <2>3, TopSet
  <2>5. EnterNode(q, m)
    BY <1>c DEF q
  <2>6. hf_kids' \in Seq(Nodes) /\ UNCHANGED treeOfNodes /\ hf_phase' = "run"
    BY <1>0, <1>c
  <2> QED
    BY <1>c, <2>4, <2>5, <2>6, EnterStepKeeps
<1>7. CASE RandomCalls
  <2>1. /\ hf_phase = "run" /\ hf_stack # <<>> /\ hf_kind[Top.node] = "random"
        /\ UNCHANGED <<treeOfNodes, hf_kids, hf_phase>>
    BY <1>7 DEF RandomCalls, Running
  <2>2. PICK m \in Range(hf_succ[Linked]) : EnterNode(SetTop("mode", "after"), m)
    BY <1>7 DEF RandomCalls
  <2>3. Linked = Top.node /\ Top.node \in Nodes
    BY <2>1, TopFacts
  <2>4. PICK k \in DOMAIN hf_succ[Top.node] : m = hf_succ[Top.node][k]
    BY <2>2, <2>3 DEF Range
  <2>5. m \in Nodes
    BY <1>0, <2>3, <2>4 DEF TreeInv, NodesTyped
  <2>6. hf_parent[m] = Top.node
    BY <1>0, <2>1, <2>3, <2>4, <2>5 DEF TreeInv, PlaceIsKnown
  <2> QED
    BY <1>c, <2>1, <2>2, <2>5, <2>6
<1>8. CASE RandomReturnsAtOnce
  <2>1. /\ hf_phase = "run" /\ hf_stack # <<>> /\ hf_kind[Top.node] = "random" /\ LeaveToNext
        /\ UNCHANGED treeOfNodes /\ hf_kids' = hf_kids /\ hf_resp' = hf_resp /\ hf_acts' = hf_acts
    BY <1>8 DEF RandomReturnsAtOnce, Running
  <2>2. Top.node # HeadNode
    BY <1>0, <2>1
  <2>3. ResponsesRight(hf_stack, hf_resp') /\ hf_resp' \in [Nodes -> Nat]
    BY <1>0, <2>1 DEF RestTyped
  <2> QED
    BY <2>1, <2>2, <2>3, LeaveToNextKeeps
<1>9. CASE CallFinalNode
  <2>1. /\ hf_phase = "run" /\ hf_stack # <<>> /\ hf_kind[Top.node] = "finally"
        /\ UNCHANGED <<treeOfNodes, hf_kids, hf_phase>>
        /\ EnterNode(SetTop("mode", "after"), hf_final[Top.node])
    BY <1>9 DEF CallFinalNode, Running
  <2>2. Top.node \in Nodes
    BY <2>1, TopFacts
  <2>3. hf_final[Top.node] \in Nodes /\ hf_parent[hf_final[Top.node]] = Top.node
    BY <1>0, <2>1, <2>2 DEF TreeInv, FinalNodesKnown
  <2> QED
    BY <1>c, <2>1, <2>3
<1>10. CASE IrregularReturns
  <2> DEFINE v == IF hf_resp[Top.node] = Top.act THEN Caller.act ELSE hf_resp[Top.node]
  <2>1. /\ hf_phase = "run" /\ hf_stack # <<>> /\ Top.mode = "after" /\ LeaveToNext
        /\ UNCHANGED treeOfNodes /\ hf_kids' = hf_kids /\ hf_acts' = hf_acts
        /\ hf_resp' = [hf_resp EXCEPT ![hf_parent[Top.node]] = v]
    BY <1>10 DEF IrregularReturns
  <2>2. Top = hf_stack[Len(hf_stack)] /\ Len(hf_stack) \in 1..Len(hf_stack)
    BY <2>1, TopFacts
  <2>3. Top.node # HeadNode
    BY <1>0, <2>1, <2>2 DEF PathDown
  <2>4. v \in {0, Caller.act}
    BY <1>0, <2>2 DEF ResponsesRight
  <2>5. ResponsesRight(hf_stack, hf_resp') /\ hf_resp' \in [Nodes -> Nat]
    BY <2>1, <2>3, <2>4, AnswerKeeps
  <2> QED
    BY <2>1, <2>3, <2>5, LeaveToNextKeeps
<1> QED
  BY <1>1, <1>2, <1>3, <1>4, <1>5, <1>6, <1>7, <1>8, <1>9, <1>10

-----------------------------------------------------------------------------

\* The inductive invariant of a flow, for any number of nodes, calls and activations.
THEOREM FlowInvariant == HfSpec => []HfInv
<1>1. HfInit => HfInv
  <2> SUFFICES ASSUME HfInit PROVE HfInv
    OBVIOUS
  <2>1. Nodes = {HeadNode} /\ Nodes = 0..0 /\ IsFiniteSet(Nodes) /\ Cardinality(Nodes) = 1
    BY FS_Singleton DEF HfInit, Nodes, HeadNode
  <2>2. NodesTyped
    <3>1. hf_succ \in [Nodes -> Seq(Nodes)]
      BY <2>1 DEF HfInit
    <3>2. Nodes = 0..(Cardinality(Nodes) - 1)
      BY <2>1
    <3> QED
      BY <2>1, <3>1, <3>2 DEF HfInit, NodesTyped, NodeOrNone, HeadNode
  <2>3. TreeInv
    <3>1. NoCycle
      BY <2>1 DEF HfInit, NoCycle, NoNode, HeadNode
    <3>2. PlaceIsKnown /\ HasItsPlace /\ FinalNodesKnown /\ hf_kind[HeadNode] = "plain"
      BY <2>1 DEF HfInit, PlaceIsKnown, HasItsPlace, FinalNodesKnown
    <3> QED
      BY <2>2, <3>1, <3>2 DEF TreeInv
  <2>4. RestTyped
    BY <2>1 DEF HfInit, RestTyped, NodeOrNone
  <2>5. StackInv
    BY DEF HfInit, StackInv, PathDown, LinksRight, ResponsesRight
  <2> QED
    BY <2>3, <2>4, <2>5 DEF HfInv, WildOnlyInEmptyTry, HfInit
<1>2. HfInv /\ [HfNext]_hfVars => HfInv'
  <2> SUFFICES ASSUME HfInv, [HfNext]_hfVars PROVE HfInv'
    OBVIOUS
  <2>1. CASE HfNext
    BY <2>1, BuildActionsKeep, RunActionsKeep DEF HfNext
  <2>2. CASE UNCHANGED hfVars
    <3> USE <2>2 DEF hfVars, treeOfNodes
    <3>1. Nodes' = Nodes /\ NodeOrNone' = NodeOrNone /\ Frame' = Frame
      BY DEF Nodes, NodeOrNone, Frame
    <3>2. NodesTyped' /\ RestTyped'
      BY <3>1 DEF HfInv, TreeInv, NodesTyped, RestTyped
    <3>3. NoCycle' /\ PlaceIsKnown' /\ HasItsPlace' /\ FinalNodesKnown' /\ hf_kind'[HeadNode] = "plain"
      BY <3>1 DEF HfInv, TreeInv, NoCycle, PlaceIsKnown, HasItsPlace, FinalNodesKnown
    <3>4. PathDown(hf_stack)'
      BY <3>1 DEF HfInv, StackInv, PathDown
    <3>5. LinksRight(hf_stack, hf_linked)' /\ ResponsesRight(hf_stack, hf_resp)'
      BY DEF HfInv, StackInv, LinksRight, ResponsesRight
    <3>6. WildOnlyInEmptyTry'
      BY DEF HfInv, WildOnlyInEmptyTry, Caller, Top, Last
    <3>7. StackInv'
      BY <3>4, <3>5 DEF HfInv, StackInv
    <3> QED
      BY <3>2, <3>3, <3>6, <3>7 DEF HfInv, TreeInv
  <2> QED
    BY <2>1, <2>2
<1> QED
  BY <1>1, <1>2, PTL DEF HfSpec

\* A HierarFlow stays a forest in which every node knows its place although only one way
\* up is checked after a call; a running routine knows its node and reads no stale
\* answer; and succ_nodes is read past its end in an empty try block only.
THEOREM Flow == HfSpec => []FlowSound
<1>1. HfInv => FlowSound
  <2> SUFFICES ASSUME HfInv PROVE FlowSound
    OBVIOUS
  <2>1. NoCycle /\ PlaceIsKnown /\ WildOnlyInEmptyTry
    BY DEF HfInv, TreeInv
  <2>2. KnowsItsNode
    BY TopFacts DEF KnowsItsNode
  <2>3. ResponseIsCurrent
    <3> SUFFICES ASSUME hf_phase = "run", hf_stack # <<>> PROVE hf_resp[Top.node] \in {0, Top.act}
      BY DEF ResponseIsCurrent
    <3>1. Top = hf_stack[Len(hf_stack)] /\ Len(hf_stack) \in 1..Len(hf_stack)
      BY TopFacts
    <3> QED
      BY <3>1 DEF HfInv, StackInv, ResponsesRight
  <2> QED
    BY <2>1, <2>2, <2>3 DEF FlowSound
<1> QED
  BY <1>1, FlowInvariant, PTL
=============================================================================
