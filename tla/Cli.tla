-------------------------------- MODULE Cli ---------------------------------
(***************************************************************************)
(* The command line: main parses the global options, picks the builder of  *)
(* the named fuzzer and, when that returns, calls OneLoop for ever or      *)
(* until ShouldEnd.  A builder is the sequence of its steps that stop the  *)
(* process or leave something behind; all the builders of the AFL family   *)
(* differ in such steps and in their order.                                *)
(*                                                                         *)
(* The words of the command line are abstracted to what the steps ask.     *)
(***************************************************************************)
EXTENDS Integers, Sequences, FiniteSets

CONSTANTS Argvs      \* command lines

ASSUME CliAssumption ==
    Argvs \subseteq [fuzzer : STRING, help : BOOLEAN, put : BOOLEAN, unknown : BOOLEAN,
                     grammar : BOOLEAN, mut_cnt_ok : BOOLEAN, frida : BOOLEAN]

VARIABLES
    argv,            \* fuzzer, help, put, unknown, grammar, mut_cnt_ok, frida
    cli_pc,          \* "parse", "build", "loop", "exited" or "undefined"
    cli_step,        \* the step of the builder that is next
    made,            \* what exists already
    cli_end,         \* end_ of libFuzzer and Nezha
    answer,          \* what was shown last
    exit_code

cliVars == <<argv, cli_pc, cli_step, made, cli_end, answer, exit_code>>

-----------------------------------------------------------------------------
(* The builders.                                                           *)

\* Mutant: the executor is made before the directories.
BuildAFLEarly == <<"store", "notify", "help", "frida", "put", "executor", "dirs", "state", "dict">>

BuildAFL == <<"store", "notify", "help", "frida", "put", "dirs", "executor", "state", "dict">>
BuildAFLFast == <<"store", "notify", "help", "frida", "put", "dirs", "executor", "state">>
BuildIJON == <<"store", "notify", "help", "put", "dirs", "executor", "state">>
BuildDIE == <<"store", "notify", "help", "put", "mut_cnt", "dirs", "executor", "state">>
\* pargs[0] is made absolute before the check that there is one; two executors.
BuildVUzzer == <<"store", "notify", "help", "first", "put", "dirs", "executor", "executor", "state">>

\* Mutant: Nautilus like the others, although --grammar is required.
BuildNautilusNotifies == <<"store", "notify", "help", "put", "dirs", "executor", "state">>

BuildNautilus == <<"store", "help", "notify", "put", "dirs", "executor", "state">>

\* The constructors of LibFuzzer and NezhaFuzzer with postProcess: help only sets end_,
\* and the first target is used without a look whether there is one.  The executor is
\* made by the flow of the initialization.
BuildLibFuzzer == <<"store", "notify", "help_end", "dirs", "first", "executor", "state">>

Builder(name) ==
    [afl |-> BuildAFL, aflfast |-> BuildAFLFast, ijon |-> BuildIJON, die |-> BuildDIE,
     vuzzer |-> BuildVUzzer, nautilus |-> BuildNautilus,
     libfuzzer |-> BuildLibFuzzer, nezha |-> BuildLibFuzzer][name]

\* FuzzerBuilderRegister: the names that are registered.
Fuzzers8 == {"afl", "aflfast", "ijon", "die", "vuzzer", "nautilus", "libfuzzer", "nezha"}

-----------------------------------------------------------------------------
(* The end of the process.                                                 *)

Exit(code, shown) ==
    /\ cli_pc' = "exited" /\ exit_code' = code /\ answer' = shown
    /\ UNCHANGED <<argv, cli_step, made, cli_end>>

\* An exception, which main turns into the exit code -1.
Throw == Exit(-1, "error")

ParseGlobalOptionsForFuzzer ==
    /\ cli_pc = "parse"
    /\ IF argv.fuzzer = "none"
       THEN IF argv.help THEN Exit(0, "help") ELSE Throw
       ELSE IF argv.fuzzer \notin Fuzzers8 THEN Throw
       ELSE /\ cli_pc' = "build" /\ cli_step' = 1
            /\ UNCHANGED <<argv, made, cli_end, answer, exit_code>>

-----------------------------------------------------------------------------
(* The steps of a builder.                                                 *)

Step == Builder(argv.fuzzer)[cli_step]
AtStep(s) == cli_pc = "build" /\ cli_step <= Len(Builder(argv.fuzzer)) /\ Step = s

GoOn(more) ==
    /\ cli_step' = cli_step + 1 /\ made' = made \cup more
    /\ UNCHANGED <<argv, cli_pc, cli_end, answer, exit_code>>

\* The parser knows the global options and those of this fuzzer now; that of Nezha is not
\* given the global ones, --help among them.
Store ==
    AtStep("store") /\ IF argv.unknown \/ (argv.fuzzer = "nezha" /\ argv.help) THEN Throw ELSE GoOn({})

\* Required options are looked for.
Notify ==
    AtStep("notify") /\ IF argv.fuzzer = "nautilus" /\ ~argv.grammar THEN Throw ELSE GoOn({})

Help == AtStep("help") /\ IF argv.help THEN Exit(1, "help") ELSE GoOn({})

\* postProcess returns false: the constructor returns a fuzzer that is at its end.
HelpEnd ==
    /\ AtStep("help_end")
    /\ IF argv.help
       THEN /\ cli_step' = Len(Builder(argv.fuzzer)) + 1 /\ cli_end' = TRUE /\ answer' = "help"
            /\ UNCHANGED <<argv, cli_pc, made, exit_code>>
       ELSE GoOn({})

\* LD_PRELOAD is set whether or not the library was found.
Frida == AtStep("frida") /\ GoOn(IF argv.frida THEN {"preload"} ELSE {})

\* operator[] of an empty vector.
First ==
    /\ AtStep("first")
    /\ IF argv.put THEN GoOn({})
       ELSE cli_pc' = "undefined" /\ UNCHANGED <<argv, cli_step, made, cli_end, answer, exit_code>>

PutCheck == AtStep("put") /\ IF argv.put THEN GoOn({}) ELSE Exit(1, "usage")

MutCntCheck == AtStep("mut_cnt") /\ IF argv.mut_cnt_ok THEN GoOn({}) ELSE Exit(1, "usage")

SetupDirs == AtStep("dirs") /\ (GoOn({"dirs"}) \/ Throw)

\* ERROR ends the process.
MakeExecutor == AtStep("executor") /\ (GoOn({"executor"}) \/ Exit(1, "error"))

MakeState == AtStep("state") /\ GoOn({"state"})
LoadDict == AtStep("dict") /\ (GoOn({}) \/ Exit(1, "error"))

Built ==
    /\ cli_pc = "build" /\ cli_step > Len(Builder(argv.fuzzer))
    /\ cli_pc' = "loop"
    /\ UNCHANGED <<argv, cli_step, made, cli_end, answer, exit_code>>

\* A turn of OneLoop, of which the command line sees only whether the fuzzer is at its end then.
LoopTurn(end) ==
    /\ cli_pc = "loop" /\ ~cli_end
    /\ cli_end' = end
    /\ UNCHANGED <<argv, cli_pc, cli_step, made, answer, exit_code>>

\* while (!fuzzer->ShouldEnd()); only libFuzzer and Nezha ever answer yes.
Ended == cli_pc = "loop" /\ cli_end /\ Exit(0, answer)

CliInit ==
    /\ argv \in Argvs
    /\ cli_pc = "parse" /\ cli_step = 0 /\ made = {} /\ cli_end = FALSE
    /\ answer = "nothing" /\ exit_code = 0

CliNext ==
    \/ ParseGlobalOptionsForFuzzer \/ Store \/ Notify \/ Help \/ HelpEnd \/ Frida \/ First
    \/ PutCheck \/ MutCntCheck \/ SetupDirs \/ MakeExecutor \/ MakeState \/ LoadDict
    \/ Built \/ Ended

\* The command line with any fuzzer behind it.
CliSpec == CliInit /\ [][CliNext \/ \E end \in BOOLEAN : LoopTurn(end)]_cliVars

-----------------------------------------------------------------------------
(* Properties.                                                             *)

\* "NativeLinuxExecutor needs the directory specified by out_dir to be already set up":
\* in every builder, whatever came before.
ExecutorAfterDirs == "executor" \in made => "dirs" \in made

\* Who asks for help, for a fuzzer that exists and with options it knows, is shown it and
\* nothing else happens: required options and the PUT may be missing, and no directory,
\* executor or state is left behind.  Not so for Nezha, whose parser refuses --help.
HelpAnswered ==
    (argv.help /\ argv.fuzzer \in (Fuzzers8 \ {"nezha"}) \cup {"none"} /\ ~argv.unknown) =>
        /\ made = {} /\ cli_pc # "undefined"
        /\ cli_pc \in {"loop", "exited"} => answer = "help"

\* Every builder prepares the directories before its executor, and who asks for help
\* is shown it and leaves nothing behind, whatever else the command line holds.
CommandLineSound == ExecutorAfterDirs /\ HelpAnswered
=============================================================================
