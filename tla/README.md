# fuzzuf: a TLA+ verification project

fuzzuf is a fuzzing framework. A *fuzzer* (AFL, AFLFast, IJON, VUzzer, libFuzzer,
Nezha, DIE, Nautilus) is a flow of routines built with HierarFlow; it hands mutated
inputs to an *executor*, which runs the program under test (PUT) and returns
*feedback*: an exit reason and a coverage map. This project models the program from
its command line to the bytes a mutation touches, checks the models with TLC and
proves most of what the runs check with TLAPS, for all values of the constants.

Three groups of modules:

* the **executor**, its Run step by step with everything that interrupts it (section 2);
* **AFL's ranking and loop**, on which AFLFast, IJON and DIE are built (sections 3, 4);
* the **campaign**: `Campaign` composes the command line with one module per fuzzer
  or part of a fuzzer, and with what other programs use of fuzzuf (section 5).

| Module | Models |
|---|---|
| `PutRun` | what an executor promises its caller (abstract specification) |
| `Executor` | `NativeLinuxExecutor::Run` and all that runs beside it; implements `PutRun` |
| `ExecutorStop` | `Executor` with the stop requests and the limit that a run has seen |
| `ExecutorProofs` | theorems about `Executor` and `Executors` |
| `AflScore` | AFL's seed ranking: `top_rated`, favorites, counters |
| `AflScoreLoop` | the two loops over the coverage map, byte by byte, against the closed forms of `AflScore` |
| `AflScoreProofs` | theorems about `AflScore` and `AflScoreLoop` |
| `AflLoop` | AFL's fuzz loop with a stop request; shares the variables of `AflScore` and implements it |
| `AflLoopProofs` | theorems about `AflLoop` |
| `Campaign` | the whole program: `Cli`, then the loop of the fuzzer it built |
| `Cli` | `main`, the global options, the registry, the eight builders |
| `Executors` | all kinds of executor in one process, with attachers, environment, timer, fork servers and feedback |
| `HierarFlow` | construction and run of a flow |
| `ExecInput` | inputs on disk: hard links, mappings, buffers, two sessions |
| `Walker` | the alias tables random choices are drawn from |
| `AflDet` | AFL's walking flips: automatic words and the effector map |
| `AflPrune` | AFL's value stages and the tests that leave mutants out |
| `AflDict` | AFL's dictionaries and the stages that use them |
| `AflLearns` | what a seed teaches: `AflDet` and `AflDict` together |
| `Mutator` | havoc, splicing and the budget of a havoc stage |
| `AflStageProofs` | theorems about `AflLearns`, `Mutator` and `Walker` |
| `AflFast`, `Ijon`, `Die` | what these fuzzers change of AFL |
| `AflVariants`, `AflVariantProofs` | the three together; theorems about them |
| `Vuzzer`, `VuzzerMutator` | VUzzer's queues; its mutators |
| `VuzzerWhole`, `VuzzerProofs` | both together; theorems about them |
| `LibFuzzer`, `LfMutation`, `Nezha` | the corpus and its features; the mutators; several targets |
| `NautilusTree`, `Nautilus` | grammars and trees; queue and stages |
| `CorpusProofs` | theorems about `Nautilus`, `LibFuzzer` and `Nezha` |
| `PyFuzzer` | `PythonFuzzer` under a script |
| `Inputs` | `ExecInput` and `PyFuzzer` together |
| `FrameworkProofs` | theorems about `Cli`, `Inputs` and `HierarFlow` |
| `MCAflScore`, `MCAflLoop`, `MCCampaign` | values of constants for TLC |

`PROJECT.json` lists the runs, the mutants, the source lines behind every definition,
the findings, the theorems, and the hazards that matter most, each with the properties
that watch it or a note why none does.

## 1. The system's parts

**Executor** (`executor/`, `include/fuzzuf/executor/`). State: `child_pid`,
`child_timed_out`, `last_exit_reason`, the pipes to a fork server, an interval timer,
the shared memory of the coverage maps. Operations: construction and destruction
(which start and end the fork server), `Run`, `ReceiveStopSignal`, getters of feedback.
Hard: two signal handlers run between any two steps of `Run`; the PUT ends, hangs,
prints or is killed whenever it likes; the fork server is another process reached
over two pipes; several executors share one environment, one SIGALRM, one timer and
one static `active_instance` per class. Correct if: `Run` returns when it must, tells
the truth about how the PUT ended, leaves nothing behind for the next run, and kills
only the PUT.

**Coverage attachers and feedback** (`include/fuzzuf/coverage/`, `feedback/`). Shared
memory that is reset before and read after a run. Correct if: a feedback shows its own
run, every segment is removed once.

**Exec input** (`exec_input/`). An input with a file: loaded, mapped, overwritten,
unloaded, hard-linked. Correct if: buffer and file agree and the user's seeds survive.

**HierarFlow** (`include/fuzzuf/hierarflow/`). Nodes with a routine, successors and a
parent; a flow is built with `<<`, `||`, `HardLink` and `Finally` and run by calling its
head. Hard: construction that fails half way, a routine shared by several places of
the flow, routines that return to the parent early. Correct if: a flow stays a forest,
a routine knows which node it is and sees no answer of an earlier call.

**AFL** (`include/fuzzuf/algorithms/afl/`, `algorithms/afl/`). `AFLState` keeps the
queue, the virgin maps, the ranking and the counters. `OneLoop` is: cull the queue;
select a seed; maybe skip it; calibrate it again if that failed before; trim it;
deterministic, then random mutations, each of which runs the PUT and may add the
input to the queue, save it as a hang or a crash, and calibrate it; abandon the seed.
Hard: calibration can fail at three places with six outcomes; `SaveIfInteresting`
runs the PUT again in the middle of classifying a run; a stop request kills a run
that then looks like a crash; the counters are unsigned and changed far from where
they are set; buffers change places; mutants are left out by arithmetic tests. Correct
if: the counters count what they say, the favorites cover the map, only calibrated
seeds are fuzzed, nothing is lost or saved by mistake, every seed has its turn, a stop
request ends the loop, no mutation reads past its buffer.

**AFLFast, IJON, DIE** replace parts of AFL: another ranking and energy; a second queue
of inputs that maximise a value; an external mutator that writes pairs of files.
**VUzzer**: four queues evolved with taint information. **libFuzzer, Nezha**: a corpus
whose inputs own features; several targets that may disagree. **Nautilus**: grammar
trees, a queue indexed by coverage bits, stages per entry. **Command line**: eight
builders that each order directories, executor and state by hand. **Python bindings**:
the same machinery driven call by call by a script. **Logger, utilities, tools**:
output, system calls, programs that run outside the fuzzer.

## 2. Executor

### The model

`pc` is the place in `Run`; there is one action per system call or assignment that
another process or a handler can observe:

| Action | Code (`native_linux_executor.cpp`) |
|---|---|
| `RunBegin` | the head of `Run`: default limit, cleared buffers |
| `Request`, `ReadPid`, `Poll*`, `StorePid`, `CheckPid`, `Settle`, `ReadStatus` | the fork server branch |
| `Fork`, `StoreChildPid`, `CheckFork`, `Arm`, `Capture*`, `Wait`, `Disarm` | the branch without one |
| `Classify` | reset of `child_pid`, classification of the status |
| `AlarmHandler`, `ReceiveStopSignal` | the two asynchronous handlers, both through `KillChildWithoutWait` |
| `PutEnds`, `ExecFails`, `PutFillsPipe`, `PutClosesStream` | the PUT (external) |
| `FsFork`, `FsReap`, `FsDies` | the fork server inside the PUT (external) |

Abstractions: the wait status is the *cause* of the end (`exit`, `execfail`, `signal`,
`oomkill`, `timekill`, `stopkill`); the exit code by which MSAN reports an error counts
as `signal`. A pipe is empty or full. Clocks are gone: a limit may pass whenever it is
watched. There is one executor here; several in one process are the matter of
`Executors`.
`ERROR` ends the process (`pc = "exited"`). `elapsed` and `stale_kill` are history
variables. `PutRun` has four variables (`busy`, `elapsed`, `ended`, `reason`) and says:
`Run` returns only when the PUT has ended, and with a reason that is truthful for that
end and for whether the limit of *this* run passed.

The module is finite-state: nothing is bounded. The modes are constants; the runs use
capture and a time limit, the richest combination.

### Runs

* `executor_plain` (pass): type invariant; `RefinesPutRun`, which includes
  `ReasonFitsEnding`; `StaleKillWindow` (a kill of a reaped pid happens only between
  `waitpid` and `child_pid = 0`); `LimitedRunReturns`.
* `executor_forksrv` (pass): in fork server mode `ReasonFitsEnding` (`RefinesPutRun` does not
  hold there because of the finding below), `LimitedRunReturns`, `ExitLeavesNoPut` (a stop
  request that looks like a failed fork ends the process, but leaves no PUT), and
  `NothingLeftBehind` and `KillReachesPut`, which are proved for both modes.
* `executor_sticky_timeout` (violation of `TimeoutIsOfThisRun`): in fork server mode
  `child_timed_out` is never reset.
* `executor_stop` (violation of `StopReachesPut`, module `ExecutorStop`): in fork server mode
  the pid is read and stored after the wait. `ExecutorStop` remembers that a stop request came
  while the PUT ran; in the trace the request finds no pid, and the PUT runs on until its
  time limit.

Fairness: `Run` is sequential code and goes on while it can; the kernel's clock fires
a set timer and returns from `epoll_wait` when its time is up; the fork server answers
while it lives. Nothing is assumed of the PUT, and no stop request is assumed to come.

Known divergences, without a run: the comment at `native_linux_executor.cpp:983` says
`KillChildWithoutWait` checks that the child is active, but in the window of
`StaleKillWindow` it kills a pid that may be another process's; without a fork server
the timer is set only if `exec_timelimit_ms` is not 0 even when the caller gave
`timeout_ms` (`:537`, against postcondition (3) at `:311`), so `LimitedRunReturns` fails
with `TimeLimit = FALSE`; with no limit at all, `left_ms` is 0, the capture loop is
skipped and a PUT that prints more than a pipe holds blocks together with `Run`; in
fork server mode a limit of 0 kills the PUT at once.

### Proofs (`ExecutorProofs`)

For all modes: `TypeCorrect`, `LeavesNothingBehind`, `ReportsEnding`, `KillsReachPut`,
`ExitsLeaveNoPut`; without a fork server: `PlainRunRefines` (`Spec => RefinesPutRun`) and
`StaleKillsConfined`. The only assumption
is that the modes are Booleans. None of the properties is inductive: each speaks of
`pc = "idle"` or of a few places, so the invariant `Inv` says for every place of `Run`
what the PUT, `child_pid`, the timer, the two pipes and the flags can be. Two facts carry
it: the reply pipe's content is determined by the state of the fork server and the place
of `Run`, and `child_pid = -1` while a PUT exists means the kill has been delivered.
The refinement uses `Inv` and, per action, a step of `PutRun` or a stutter.
`ExitsLeaveNoPut` needs one more invariant, `Orphanless`: once the process has ended no
PUT runs and no request waits at the fork server to start one, unless that has died.
Liveness is checked by TLC only.

## 3. AFL: seed ranking

### The model

`AflScore` has one action per operation that touches the ranking: `AddToQueue`, `Load`
(of an `OnDiskExecInput`), `Calibrate` (the scoring end of a successful calibration),
`Shorten` and `Rescore` (the two effects of `DoTrimCase`), `CullQueue`, `AbandonEntry`.
Their order is left open, within what a testcase's own state allows.

The two loops over the map are written in closed form: `UpdateBitmapScore` by the set
`W` of bytes won, `CullQueue` by the unique set `P` of bytes whose winner is picked.
`AflScoreLoop` has the loops byte by byte and compares. The proofs
about the ranking use the closed forms; that the loops compute them is a theorem of its
own.

`len` and `size` are two things: the length the input object knows (0 until the file is
loaded) and the length of the file. `hits` is the trace last scored. With `VaryingPut`
the PUT may touch other bytes when it runs the same input again.

### Runs

* `afl_score` (pass; 2 testcases, 3 bytes, varying PUT, symmetric testcases):
  `RefsCountSlots` (reference counts, `trace_mini` is there when `CullQueue`
  dereferences it), `PendingCounted`, `FavoredCountSafe` (no unsigned underflow),
  `FavoredCoverMap`, `LoopsAgree` (`ScoreLoopAgrees`, `CullLoopAgrees`). The types are checked with
  those of the loop (`LoopTypeOK`). Three bytes let
  a winner lose some of its bytes, all of them, or win from itself in both orders.
* `afl_score_steady` (pass; 3 testcases, 2 bytes, steady PUT): `FavoredCounted`.

Known divergence, without a run: the length used in the ranking is the one the input
object knows, 0 from `AddToQueue` until the first load, so a testcase just found wins
every byte it touches however long it is (`afl_state.hpp:312`, against
`docs/algorithms/afl/algorithm_en.md:82`).

With a varying PUT `FavoredCounted` fails: a testcase can win a byte that its kept
`trace_mini` does not have, and `CullQueue` then counts it twice. `FavoredCountSafe` is
what is left: the counter errs on the safe side.

Operations end when every testcase is through, so these runs do not check deadlock.

### Proofs (`AflScoreProofs`)

For every finite set of testcases, map size, set of times and lengths: `ReferencesCounted`,
`NotFuzzedCounted`, `FavoredNeverUnderflows`, `FavoredCover`, `ScoreTypes`; with a steady
PUT also `SteadyCountsExact`. The conjunction `ScoreInv` of the five invariants is
inductive: the count of `FavoredCountSafe` needs the types, the cover of the map needs
`RefsCountSlots` (a trace that is kept is a set of bytes). The steady case needs in
addition that a kept trace is the testcase's trace and contains every byte the testcase
wins. The central lemma is `ScoreKeeps`, about `UpdateBitmapScore` alone; it rests on
`RatedAfter`, how many bytes a testcase holds after `t` has taken the bytes `W`.

`ScoreLoopsAgree` (`ScoreSpec => []LoopsAgree`) is the bridge to the code's text: for every
map size the two loops, byte by byte, leave exactly what the closed forms say. The
prover has no induction over data; a minimal counterexample does instead. The map's
bytes are well ordered, so there would be a first byte at which loop and closed form
differ, and the body of the loop, applied to the byte before, shows that they do not
(`WFMin` of the library, which takes a set and no predicate). `PickedUnique` shows in the
same way that only one set is what `CullQueue`'s closed form describes.

## 4. AFL: fuzz loop

### The model

`AflLoop` shares the variables of `AflScore` and performs its operations where the code
does. A run of the PUT is two steps, so that a stop request can come between them:
`StartRun`, and an action that takes the outcome (any reason, any trace of `Traces`).
Calibration is a subroutine with three callers (`caller`): the dry run, `RetryCalibrate`
and `SaveIfInteresting`. `StopSignal` is `ReceiveStopSignal` in its two steps, first
`stop_soon`, then the kill, which may or may not reach the PUT (see `Executor`).

Every branch that changes state is there: failed calibrations and their limited
retries, tolerated crashes in the dry run, runs without instrumentation, consecutive
timeouts, hangs that are run again, limits on saved hangs and crashes, fatal errors.
`virgin_tmout` and `virgin_crash` see simplified traces (a byte touched or not), so they
hold pairs. What the mutations change is not here but in `AflDet`, `AflPrune`, `AflDict`
and `Mutator`: a stage of `AflLoop` makes some number of runs.

Bounds: `Case` (queue length; a mutated input finds new bits only while there is room),
`Traces`, `MaxRuns` (runs of one stage: two deterministic ones, so that consecutive
timeouts can end the stage, one otherwise), `CalCycles` 1 and `CalCyclesLong` 2 instead of
8 and 40, `CalChances` 2 instead of 3, `TmoutLimit` 0, one hang and one crash kept.
With these a testcase is found, its calibration fails and is retried, succeeds, gives
up, varies; a stage is abandoned for timeouts; both limits are reached.

Modes that are off: dumb, crash and master mode, resuming. Left out: statistics and the
screen (with its end after a number of cycles without finds). `PivotInputs` is in
`ExecInput`.

### Runs

* `afl_loop` (pass): `RefinesScore` (the loop implements `ScoreSpec`, so everything
  proved of `AflScore` holds in it), `FuzzesCalibrated`, `DetOnce`, `StopsSoon`,
  `KilledRunNotSaved`, `DiscoveredQueued` and the types, with a stop request anywhere.
* `afl_loop_live` (pass): `StopEnds`, `EveryEntryVisited`. Fairness: the fuzzer's single
  thread goes on while it can; that its runs return is `LimitedRunReturns` of `Executor`.
* `afl_loop_false_crash` (violation of `CrashIsReal`): the run that a stop request kills
  during the calibration of a new input is saved as a unique crash.

Also seen, without a run: a retried calibration that finds no new bits makes
`RetryCalibrate` give up, and `AbandonEntry` then marks the testcase as fuzzed, so that
its deterministic stages are never done; an input that joins the queue and times out in
its calibration is not counted in `queued_discovered`.

### Proofs (`AflLoopProofs`)

For every number of testcases and seeds, every map, every set of traces, sizes and times
and every limit:

| Theorem | States |
|---|---|
| `LoopImplementsScore` | `LoopSpec => RefinesScore`: each step of the loop is a step of `AflScore` or leaves it alone, so section 3's theorems hold in the loop |
| `LoopTypes` | `LoopTypeOK` |
| `LoopFuzzesCalibrated` | `FuzzesCalibrated` |
| `LoopStopsSoon` | `StopsSoon`: at most three runs are started after a stop request |
| `LoopSavesNoKilledRun` | `KilledRunNotSaved` |
| `LoopCountsQueued` | `DiscoveredQueued` |
| `LoopDetOnce` | `DetOnce`, an action property |

None of them is inductive. `LoopInv` says for each location of the loop what the code
there relies on: testcases are numbered as they join and the loop holds the number of one
(`QueueInv`); `cal_failed` is 0 exactly for testcases not tried yet and for those whose
calibration is complete (`CalInv`, the heart of the proof: calibration has three callers
and six outcomes); a deterministic stage that was started is marked before another turn
begins (`DetInv`); an input in hand was queued and not yet counted (`FoundInv`); a killed
run does not come to `SaveIfInteresting` (`KillInv`); and how many runs may still be
started, by location, adds up to three (`LateInv`). Together with `ScoreInv` of section 3
they are inductive. The assumptions are those of `AflScore` and that testcases are the
numbers from 1 on and the limits are natural numbers.

## 5. The campaign

### Composition

`Campaign` is fuzzuf as it is started: `Cli` reads one of all the command lines that its
steps can tell apart (`SomeArgvs`), builds the fuzzer or stops, and the loop of that
fuzzer runs (`LoopStep`), one action of its module per step. What belongs to the other
fuzzers does not exist in the process and stays unchanged. A fuzzer with several models
is followed in one of them at a time (`part`): the models of one fuzzer talk about
different state (Nautilus' trees are sizes in its queue; AFL's stages run inside one
stage of `AflLoop`), and their product would only multiply states. `ShouldEnd` is tied
to the flow of libFuzzer and Nezha; the other fuzzers never end. `LibraryStep` is a
program that uses executors, a HierarFlow or a PythonFuzzer directly, as the tests and
the Python module do. Nothing is replaced in a configuration: the modules checked are
the modules mapped.

### The modules

**`Cli`**. A builder is the sequence of its steps that end the process or leave something
behind (store, notify, help, the checks, directories, executor, state, dictionary), in
its own order; an argument vector says what the steps ask (fuzzer named, help, PUT given,
unknown option, grammar, a valid count, frida). `ExecutorAfterDirs`: in every builder
the directories are there before the executor. `HelpAnswered`: who asks for help gets
it, and nothing is left behind. *Divergences*: Nezha's parser lacks the global options
and refuses `--help`; with frida a `stat` buffer is read although the library is
missing, and `LD_PRELOAD` is set all the same; VUzzer's builder touches `pargs[0]` before
`put.Check()`.

**`Executors`**. One action per place where executors of one process meet: construction
(attachers, `SetupSharedMemories`, environment, `SetupForkServer`), `Run` cut at begin,
spawn, timer, poll, wait and end, the two handlers, conversion of feedback, destruction
in its order (derived class, base, fork server, members). A plan is what a fuzzer does
with its executors; `AllPlans` has those of the fuzzers and of the tests, and all of them are
`Orderly` (`PlansAssumption`, which TLC evaluates): what is run or dropped was made, what was
dropped is not run, everything is dropped, and an executor without a fork server runs only
while no executor was made after it and none of another class before. `FeedbackOfItsRun`,
`OutputOfItsRun`, `AlarmHitsRunner`, `NothingLeft`. *Divergences*: VUzzer's builder passes
limits of 0, so there is never a timer, while its two ProxyExecutors share
`active_instance`; `PTExecutor` sets `__AFL_SHM_ID` and the base version then unsets it
(`pt_executor.cpp:60`); the shared pointers of the feedback lock are never allocated, so
`IsFeedbackLocked` is never true, against the comment in `inplace_memory_feedback.hpp`;
a failed handshake with the fork server ends the process with its segments left;
PolyTracker with a one-word command line throws when it cuts its argument string.

**`HierarFlow`**. Every call that builds a flow (`CreateNode`, `HardLink`, `Finally`,
`Connect`, `Join`, `ConnectChildren`), each of which may throw half way, and the run of a
flow: plain routines call their successors, set their response and return in any way
and number, random and irregular routines as they are written. `NoCycle`, `PlaceIsKnown`,
`KnowsItsNode`, `ResponseIsCurrent`, `WildOnlyInEmptyTry`. *Divergences*: a node given to
`Finally` that asks for its default next when the try block is empty reads
`succ_nodes[1]` of an empty vector; hard links of such a node are not prevented although
`utility.hpp:214` says so; after an exception parents stay set, a cycle may remain, and
the routine's node is not put back; a response can be stale within one activation that
calls its successors several times.

**`ExecInput`**. Files are inodes with links; `ReadInputs`, `LinkAndRefer`, `CopyAndRefer`,
`Load`, `LoadByMmap`, `Unload`, trimming, the two ways to overwrite, IJON's files that are
rewritten in place (`Rewrite`), and a restart over the same output directory. A seed list may
hold an old find, a seed named `id:NNNNNN` after its own index (`OldFinds`), whose name
`PivotInputs` keeps (`QueueName`, `afl_state.hpp:1146`). `SeedsUntouched`, `MemoryIsFile`.
*Divergences*: such a seed is linked into the queue under a name that `AddToQueue` of a later
session may give to a new find, which it then writes through the link into the user's file;
the two properties except exactly these seeds, from the second session on (`SeedExposed`). The output
directory is never emptied; `GetLen` is stale after `OverwriteThenUnload`; `SaveToFile`
lacks `O_TRUNC`; mapping an empty file is an error.

**`Walker`**: `Normalize`, `PairUp`, `PairUpDone`. `WalkerExact`: every index is drawn
exactly as often as its weight says, for every order of the loop. Rounding is left out.

**`AflDet`**: bitflip 1/1 with the collection of words, bitflip 8/8 with the effector map,
wider flips that skip. A run is its checksum. `TokensAreWords`, `EffCountExact`,
`SkipsNoEffect`.

**`AflPrune`**: the flips, arithmetic and interesting values on buffers of one and two
bytes, with `CouldBeBitflip`, `CouldBeArith`, `CouldBeInterest` on real bits.
`NoMutantLost`, `NoMutantTwice`. *Divergence*: patterns across the byte border that are
taken for bit flips are never made, because the flips count bits the other way; the
property names this exception exactly.

**`AflDict`**: `MaybeAddAuto` with its replacement and two sorts, overwriting and inserting
stages, words skipped at random when there are more than `MAX_DET_EXTRAS`. `AutoDistinct`,
`HotWordsStay`, `OverwriteRestores`, `OneWordAtATime`. The command line never sorts the
user's words (`build_afl_fuzzer_from_args.hpp:184`) although
`afl_mutation_hierarflow_routines.hpp:380` relies on it; the dictionaries of the runs are
sorted and unsorted. The properties say what holds for either: the automatic words, which
are sorted, are always written over a restored seed, the user's where their file has them in
order (`InSizeOrder`), and a word of the user's is kept out of the automatic ones if the
words up to it are in order. *Divergence*: with a longer word before a shorter one
`SeedRestored`, which states the comment, does not hold: behind the last word of an offset
only that word's length is restored, and the tail of the longer one is still there at the
next offset.

**`Mutator`**: the three buffers, every havoc case by what it does to length and offsets,
splicing, restoring, the growth of the stage. `AccessInside`, `RestoredToStage`,
`MutantLength`, `StageBudget`, together `HavocRight`. Lengths go up to `MAX_FILE` itself, which
`ReadTestcases` (`afl_state.hpp:1098`) and the dictionary's insertions admit: a mutant has that
length only if the stage's own buffer has.

**`AflFast`**: its `UpdateBitmapScore`, which compares byte by byte, `CullQueue`, which
counts a seed once per byte it is picked for, calibration that may fail or find nothing,
score, skipping and abandoning. `PendingLeaks` says by exactly how much `pending_not_fuzzed`
is too large. `PendingFavoredReal`: `pending_favored` is the number of favored seeds that
wait, also for a PUT whose trace varies: the second scoring that would count a seed twice
(section 3) comes in the seed's own turn, after which it does not wait any more. Run
`aflfast_energy` (violation of `EnergySpent`): the test at
`aflfast_other_hierarflow_routines.cpp:37` is inverted.

**`Ijon`**: `AflFlow` or `SelectMax`, every execution ending in `UpdateMax`. `NonemptyExact`,
`StoredReaches`. *Divergence*: an input stored for being shorter may be longer, since
the length compared is the one last known.

**`Die`**: `DieSelect`, esfuzz that writes any number of its files and dies, `DieExecute`
with saving, the second run of a hang with its longer limit, and calibration. `PairsMatch`;
live: `EverySeedTurns`. *Divergences*: files of earlier rounds are executed again; a
response is never set; `pending_not_fuzzed` never decreases; `DescribeInteger` gives
different numbers the same name.

**`Vuzzer`**: one action per node of `fuzz_loop`. The bounds let a second generation be made
and executed: a population of 4, two mutants, six inputs; the branch of `DecideKeep` for
generations past a fifth of `GenNum` is not reached. Queues are sets of
identifiers, which grow along a queue; only `UpdateQueue` sorts `seed_queue`, by `fitness`, and
what depends on that order chooses among equals. When the part of the queue that parents are
drawn from has one seed, `parents[1]` does not exist and the loop goes to `"undefined"`.
`BitsFaithful`, `RecordsTrimmed`, `TrimKeepsCoverage`, `SeenHasTaintSeed`. *Divergences*:
the incremental search for error handling blocks may take a good block for one and then
empties its own set; with small populations the threshold is 0 by integer division;
`keep_queue` and `stop_soon` are never read; `taint_queue` never shrinks; the taint
executor's feedback is read from the other executor.

**`VuzzerMutator`**: every mutator as its set of outcomes in length, capacity and offsets.
`WildOnlyKnown` names the two situations in which an access goes outside: the input has been
emptied by eliminations in a row, so that `len - cut_size` wraps (against the comment of
`GetCutPos`), or `TotallyRandom` has put fewer bytes behind it than `len` says. Three
eliminations do it to an input of three bytes, since `MutateRandom` goes on while fewer than
three are left. `CrossKeepsLength`. *Divergences*: a pair of nulls at the very end is
missed; three mutators are never called.

**`LibFuzzer`**: `Initialize`, the rebuilding of the distribution, selection, mutation,
execution with `CollectFeatures`, which walks over the map in ascending order (`Walk`), and
`AddToCorpus`. `OwnerCounts`, `EnabledHaveData`, `DrawnOwnFeatures`, `SmallestSize`,
`OwnersStayEnabled`. The options are constants: `Shrink` and `ReduceInputs` are off in
`campaign`, as by default, and on in `campaign_live`. With `ReduceInputs` and without
`Shrink`, `replaceCorpus` writes a record with no features over one that owns some; the two
properties about counts leave this setting out (`CountsKept`), the others hold in every
setting. This setting, the only one in which `replaceCorpus` is reached, is covered by the
proofs alone. *Divergences*: initial seeds are added to the corpus by force, with a shared
result whose name the first of them set, so each of them clears the record of the one before
it (`corpus/add_to_corpus.hpp:93`, against `docs/algorithms/libfuzzer/algorithm_en.md:48`),
and after the initialization only the last still has its data; when nothing has weight a disabled
record is drawn and the input is empty; the default number of runs is 0 (`manual.md:81`);
with `Shrink` the REDUCE branch cannot be reached; a crash without new features is not
saved.

**`LfMutation`**: all twelve mutators and the dictionaries, with their repetition until the
history grows. Digits have base 3, words 32 values. The seed may be empty, as `SelectSeed` leaves it
for a disabled record. `AccessesRight`, `MutantSize`,
`UsedWordPresent`, `AutoDictFits`, `SelfCopyExact`, `MaskRoundTrip`. *Divergences*: `ChangeByte`
and `ChangeBit` do not test for empty data, which `AccessesRight` excepts: a seed that is not empty is
never emptied, so only an empty seed leads there; two push to the history before they try, against
the comment in `repeat_until_mutated.hpp`; an empty word of a dictionary trips an
assertion; several dictionary files may exceed the fixed capacity; a random byte is
never 255.

**`Nezha`**: `LibFuzzer` with two targets and `NezhaAddToSolution`. `DiffIsOfThisInput`,
`DisagreementsSaved`. With `UseOutput` what is saved as a difference is one of the input in hand;
`campaign_live` has it on. *Divergence*: without it, by default, the vector of statuses is never cleared,
so that from the second input on a difference may be one of the inputs before (against
`docs/algorithms/nezha/manual.md:52`); `DisagreementsSaved` holds all the same.

**`NautilusTree`**: a tree is the preorder of its rules with sizes and parents; grammars
with and without recursion, with unproductive rules. `MinSizesRight`, `TreeConsistent`,
`RecursionsRight`, `ChunksResolve`, `SizesBounded`. *Divergence*: `MutRules` does not leave
out rules whose minimal size is above the limit. `Unparser::UnparseOneStep` keeps a reference to the
top of its stack and uses it after `pop_back` (`tree.cpp:512-521`), which is undefined; the text of a
tree is not modelled.

**`Nautilus`**: queue with its index, `RunOn`, the stages. `IndexExact`, `CoverageKept`,
`FoundIsQueued`; live: `EntriesAdvance`. *Divergences*: the ring of last inputs is filled
only when it is full already; `Finished` deletes a file under a path where none is;
`all_bits` is stale after minimization and keeps flaky bits; minimization can turn an
entry into a crashing tree; a stop request does nothing; `cpuid_to_bind` is passed where
`record_stdout_and_err` is expected.

**`PyFuzzer`**: the calls of a script in any order, the flow of one call, `Reset` and
`Release`. `HeldIdsSelectable`, `SeedShowsItsRun`, `FilesOfThisSession`. *Divergences*:
crashing inputs stay in `input_set`, so `GetSeedIDs` names identifiers that `SelectSeed`
refuses; a stop request makes a run look like a crash; the mutator keeps a reference to
an input that `RemoveSeed` destroys.

### Runs and bounds

* `campaign` (pass, about 1,240,000 distinct states): the safety properties above, each part
  followed from a good command line; the other command lines are followed to their end.
  `Campaign` gathers them into one property per part of the program:

  | Property | Conjuncts from |
  |---|---|
  | `CommandLineSound` | `Cli` |
  | `ExecutorsApart` | `Executors` |
  | `FlowSound` | `HierarFlow` |
  | `InputsSound` | `ExecInput`, `PyFuzzer` |
  | `AflLearnsRight` | `AflDet`, `AflDict` |
  | `AflMutatesRight` | `AflPrune` |
  | `HavocRight` | `Mutator` |
  | `WalkerExact` | `Walker` |
  | `AflVariantsRight` | `AflFast`, `Ijon`, `Die` |
  | `NautilusSound` | `NautilusTree` |
  | `QueueSound` | `Nautilus` |
  | `VuzzerSound` | `Vuzzer`, `VuzzerMutator` |
  | `CorpusSound` | `LibFuzzer`, `Nezha` |
  | `LfMutatesRight` | `LfMutation` |

  `AflLearnsRight`, `NautilusSound`, `QueueSound`, `VuzzerSound` and `CorpusSound` also say what a
  step never does (`HotWordsStay`, `SizesBounded`, `CoverageKept` and `FoundIsQueued`,
  `TrimKeepsCoverage`, `OwnersStayEnabled`).

* `campaign_live` (pass): `NobodyStarves`, that is `EntriesAdvance` and `EverySeedTurns`; and
  `CorpusSound` once more, with `-shrink`, `-reduce_inputs` and `-use_output` on, so that features change
  owners and records are deleted.
  Fairness is weak fairness of the program's only thread; what the PUT and esfuzz do is
  left open in each step.
* `aflfast_energy` (violation): above, with its module.

Beside the definitions of a module stand their mutated forms, one for every conjunct,
each marked as a mutant. Put in the place of the definition, each makes TLC report the
property its conjunct belongs to; `PROJECT.json` names one per property.

The bounds of each part are named constants of its module, given in `Campaign.cfg`, and
chosen so that its hard case happens: dictionaries that overflow, buffers reallocated in
both directions, a queue entry removed while its mutant is added, three inputs of three
sizes so that a feature changes its owner twice, two DIE rounds so that files of the
first are found in the second, two sessions over one directory. Constants of the code
are scaled with what they relate: `MaxFile` 8 with lengths up to 8 and blocks that pass
it, `MaxAutoExtras` 4 of which 2 are used, `FeatureSetSize` 3, two effector bytes per
block. The parts end at their bounds or when a command line is refused, so deadlock is
not checked in these runs.

### Proofs

`Campaign` itself holds no theorem, since it reaches bit operations (`AflPrune`) and
recursive operators (`NautilusTree`), with which the prover does not work. The theorems
are about specifications of its components, and carry over: a step of the campaign is a
step of the component that is followed, or leaves its variables as they are (`LoopStep`,
`LibraryStep`; the one exception is the builder, whose step reads DIE's seeds and so makes
`DieSpec`'s initial state).

* **`CliSpec => []CommandLineSound`** (`CommandLine` in `FrameworkProofs`), for every set of
  command lines. `CliInv` says how far a builder has come: what its steps so far have
  made, and that whoever asks for help has not passed the step that answers. What the
  proof turns on is the order of steps in each of the eight builders
  (`ExecutorStepLater`, `HelpStepEarly`).
* **`InputsSpec => []InputsSound`** (`InputsAgree` in `FrameworkProofs`), for any seeds,
  lengths, inputs and sessions. `InputInv`: every object refers to a file of its own inode,
  unless the object knows that its path is a hard link of a seed; that is what keeps the
  seeds from being written to, but for the old finds that `SeedsUntouched` excepts. `PyInv`:
  identifiers are below the counter, so the next one is new in all the tables.
* **`HfSpec => []FlowSound`** (`Flow` in `FrameworkProofs`), for any number of nodes and
  activations. While a flow is built the forest is kept because a new cycle would lead
  through the node that was extended, from which `GuaranteeNoLoop` looks. While it runs the
  stack is a path down that tree (`PathDown`): no node is on it twice, so each routine's
  reference is that of its last node on the stack (`LinksRight`) and each activation finds
  its own response or the default (`ResponsesRight`).
* **`LearnsSpec => AflLearnsRight`** (`LearnsRight` in `AflStageProofs`), for seeds of any
  length and dictionaries of any size, and **`LearnsSpec => HotWordsKept`** (`HotStay`), a
  part of it. Bitflip 1/1 is always inside one range of equal checksums, and `tokens` are
  the words of the ranges before it (`Scanned`); every byte whose flip had an effect has its
  block in the effector map (`EffMapped`); the two sorts of `MaybeAddAuto` are one
  permutation (`SortedTwice`), hence no double comes in and none is lost (`AutoInv`); the
  buffer of a stage differs from the seed under the last word only and no word to come is
  shorter (`BufInv`) as long as the words are in order. There is no hypothesis on the user's
  words: the properties say which of them they speak of.
* **`XSpec => []ExecutorsApart`** (`ExecutorsStayApart` in `ExecutorProofs`), for every set of
  orderly plans, hence any number of executors of any kinds in any order that an orderly
  plan allows, with the timer and a stop request between any two steps. `ExecutorsInv` ties
  the process to how far the plan is: which executors exist, which were dropped
  (`PlanFollowed`); which segment belongs to whom (`SegmentsOwned`), so none is removed twice and
  none stays; and that an executor which reads the environment at its run, and not at
  its construction, finds its own values there, because it was made last (`LastMadeHasAll`).
* **`MutatorSpec => []HavocRight`** (`HavocSound` in `AflStageProofs`), for all lengths up
  to `MAX_FILE`, blocks and dictionaries. `MutatorInv`: every buffer is as large as its
  length, the buffer set aside holds what the stage mutates, the copy of the source is
  untouched when a spliced buffer is put back, and a stage's limit has grown exactly as its
  score has.
* **`WalkerSpec => []WalkerExact`** (`WalkerTablesExact` in `AflStageProofs`), for every sequence
  of weights. `WalkerInv`: what the large entries not yet paired have above the mean is what
  the small ones lack, the two stacks hold each of them once, and the share of every index,
  summed over the table, is its weight. When one stack is empty, all that is left on the
  other is therefore exactly at the mean, and the code may leave it there. Sums are recursive
  functions; their laws (`SumOfNats`, `SumScaled`, one entry changed, two entries
  changed) are shown with minimal counterexamples as in section 3.
* **`NautilusSpec => QueueSound`** (`QueueStaysSound` in `CorpusProofs`), for every set of
  bits. `QueueInv`: no two entries, in the queue or in hand, share an id; ids are below the
  next one; bits of entries are known as seen. A new stable bit is therefore in no entry's
  index, and `Add` does not refuse.
* **`LibFuzzerSpec => CorpusSound`** (`LibFuzzerCorpusStaysSound` in `CorpusProofs`), for
  every set of inputs, initial inputs and features, with each option on or off. While `Walk`
  goes over the map the value in hand stands as the record after the last: `Collecting` says
  that every record counts the slots it owns and holds them at its own size, and that
  `updated` counts those of the value in hand; `Since` relates the tables to those before
  the walk, which is shown with a minimal counterexample over the map. `CorpusInv` adds what
  was executed (`ReachRight`: a feature once shown is held, at no more than the size of a
  value that shows it) and that records are named after executed values (`NamesKnown`). A
  value that was executed before therefore takes nothing over, so `AppendToCorpus` of the
  loop never clears an owner by its name (`LfOwnersKept`); what the initial inputs clear is
  the exception that `OwnersStayEnabled` states.
* **`NezhaSpec => CorpusSound`** (`NezhaCorpusStaysSound`), for any number of targets, with each option
  on or off. The record that `ReplaceInCorpus` overwrites is the one the shared result describes
  (`ResultIs`), so it is enabled after as before; where the counts are kept, a smaller value with the
  same features would have taken over whatever it owned, and it owns nothing.
* **`VariantsSpec => []AflVariantsRight`** (`VariantsRight` in `AflVariantProofs`). `FastInv`:
  winners of bytes and favored seeds have a complete calibration, and before its first turn a
  seed is scored once only, so that the trace it keeps has all the bytes it wins (`ScoredOnce`) and
  no culling counts it twice. `IjonInv`: a slot holds
  an input exactly if its maximum is above 0. `DieInv`: the directory holds pairs, also
  those an earlier round left, until esfuzz is stopped between two files.
* **`VuzzerSpec => VuzzerSound`** (`Vuzzed` in `VuzzerProofs`). `VInv`: identifiers are given
  in order, records hold keys of the table, which only grows. `VmInv`: lengths are natural
  numbers; what is proved is the arithmetic of each mutator.

## 6. What is proved and what is only model-checked

Proved, for all values of the constants: 41 theorems, which state 31 of the properties
the runs check. Their assumptions are the `ASSUME`s of the modules, which TLC evaluates on
every run.

Only model-checked:

| Property | Why |
|---|---|
| `LimitedRunReturns`, `StopEnds`, `EveryEntryVisited`, `NobodyStarves` | liveness under fairness is out of the prover's reach |
| `AflMutatesRight` | `AflPrune` works on real bits (`Bitwise`), which the prover does not know |
| `NautilusSound`, `SizesBounded` | trees are built by recursive operators, with which the prover loses its backend |
| `LfMutatesRight` | folds and digit arithmetic over buffers |

What a recursion computes for every input can be proved only where it is a recursive
function of a number and a minimal counterexample decides it (`ScoreLoopsAgree`,
`WalkerTablesExact`, `LibFuzzerCorpusStaysSound`); the library's induction theorems take an
operator as a parameter, which no installed prover can instantiate.

## 7. Not modelled, and why

* Logger: output only; `ERROR` and `EXIT` are final states of the models.
* Tools (`tools/`): instrumentation and converters that run outside the fuzzer.
* Option parser, hashes, ranges, text helpers, readers of dictionaries, grammars and
  trace files: text or pure data, no state that a property here could be about.
* Statistics and screens of all fuzzers: they only read.
* AFL's dumb, crash, resume and master modes; libFuzzer's entropic schedule: switched
  off by the builders or by default.
* The values of taint (VUzzer) and of coverage counters beyond their class: the models
  leave them open.

## 8. Running it

    tlc -config ExecutorPlain.cfg Executor
    tlc -config AflScore.cfg MCAflScore
    tlc -config AflLoop.cfg MCAflLoop
    tlc -config Campaign.cfg MCCampaign
    for m in Executor AflScore AflLoop Framework AflStage AflVariant Vuzzer Corpus
    do tlapm ${m}Proofs.tla; done

Every run takes about three minutes at most with two workers, every proof module less than
two.
