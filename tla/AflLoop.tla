------------------------------ MODULE AflLoop -------------------------------
(***************************************************************************)
(* The AFL fuzz loop: dry run, seed selection, calibration, trimming, the  *)
(* mutation stages, the classification of every run's outcome, and a stop  *)
(* request that may come at any moment.  The seed ranking is AflScore,     *)
(* whose variables this module shares.                                     *)
(*                                                                         *)
(* A run of the PUT ends in any way and touches any bytes: Executor says   *)
(* how it comes back.  Testcase t is the t-th of case_queue.  Modes that   *)
(* are off: dumb_mode, crash_mode, ignore_finds, skip_deterministic,       *)
(* master_max, in-place resume.  Statistics and the screen are left out.   *)
(***************************************************************************)
EXTENDS AflScore

CONSTANTS
    Seeds,            \* testcases in the input directory
    Traces,           \* sets of map bytes a run may touch
    SkipCrashes,      \* AFL_SKIP_CRASHES is set
    MayStop,          \* a stop may be requested
    HangRerun,        \* exec_timelimit_ms < hang_tmout
    FewPaths,         \* queue length up to which non-favored seeds are fuzzed
    CalCycles, CalCyclesLong, CalChances,
    TmoutLimit, KeepUniqueHang, KeepUniqueCrash,
    MaxRuns           \* bound, per stage: runs of trimming or of a mutation stage

ASSUME LoopAssumption ==
    /\ Case = 1..Cardinality(Case) /\ Seeds \in Case
    /\ Nil = 0 /\ VaryingPut
    /\ Traces \subseteq SUBSET Slot
    /\ SkipCrashes \in BOOLEAN /\ MayStop \in BOOLEAN /\ HangRerun \in BOOLEAN
    /\ {CalCycles, CalCyclesLong, CalChances} \subseteq Nat \ {0}
    /\ {FewPaths, TmoutLimit, KeepUniqueHang, KeepUniqueCrash} \subseteq Nat
    /\ MaxRuns \in [{"trim", "det", "rand"} -> Nat]

\* exec_cksum is 0; otherwise it stands for the trace it was taken of.
NoCksum == {-1}

Reason == {"NONE", "TMOUT", "CRASH", "ERROR", "NOINST", "NOBITS"}

VARIABLES
    pc,
    current_entry,                     \* 0: queue_cycle is 0
    stage, left, subseq_tmouts,        \* stage, and how many runs it has left
    needs_write,                       \* DoTrimCase has shortened the input
    cal_case, caller, first_run, new_bits, stage_cur, stage_max,  \* calibration
    cal_failed, exec_cksum, passed_det, trim_done,                \* per testcase
    virgin_bits, virgin_tmout, virgin_crash, var_bytes,
    unique_hangs, unique_crashes, queued_discovered, keeping,
    exit_reason, trace_bits, killed,   \* outcome of the last run
    stop_soon, handler,                \* the stop request and how far it got
    det_tried,                         \* history: deterministic stage started
    false_crash,                       \* history: killed runs saved as crashes
    late_runs                          \* history: runs started after stop_soon

stageVars == <<current_entry, stage, left, subseq_tmouts, needs_write>>
calVars   == <<cal_case, caller, first_run, new_bits, stage_cur, stage_max>>
testVars  == <<cal_failed, exec_cksum, passed_det, trim_done>>
mapVars   == <<virgin_bits, virgin_tmout, virgin_crash, var_bytes>>
foundVars == <<unique_hangs, unique_crashes, queued_discovered, keeping>>
runVars   == <<exit_reason, trace_bits, killed>>
stopVars  == <<stop_soon, handler>>
loopVars  == <<scoreVars, pc, stageVars, calVars, testVars, mapVars, foundVars,
               runVars, stopVars, det_tried, false_crash, late_runs>>

-----------------------------------------------------------------------------
(* Runs of the PUT.                                                        *)

Running == {"cal_run", "trim_run", "mut_run", "hang_run"}

StartRun(loc) ==
    /\ pc' = loc
    /\ killed' = FALSE
    /\ late_runs' = late_runs + (IF stop_soon THEN 1 ELSE 0)

Goto(loc) == pc' = loc /\ UNCHANGED <<killed, late_runs>>

\* The end of a run.  A PUT the stop handler killed counts as crashed.
Outcome(reason, trace) ==
    /\ reason \in {"NONE", "TMOUT", "CRASH", "ERROR"} /\ trace \in Traces
    /\ killed => reason = "CRASH"
    /\ trace_bits' = trace

\* Nobody will ask for the outcome again.
ForgetRun == exit_reason' = "NONE" /\ trace_bits' = {}

\* SimplifyTrace leaves two values per byte: touched or not.
SimplifyTrace(trace) == {<<i, i \in trace>> : i \in Slot}

-----------------------------------------------------------------------------
(* Calibration, one action per way a run of it can end.                    *)

\* The start of CalibrateCaseWithFeedDestroyed.  If exec_cksum is known, the bits
\* of its trace have just been taken out of virgin_bits and are not new again.
CalibrateCase(t, who) ==
    /\ cal_case' = t /\ caller' = who
    /\ first_run' = (exec_cksum'[t] = NoCksum)
    /\ new_bits' = FALSE
    /\ stage_cur' = 0 /\ stage_max' = CalCycles
    /\ cal_failed' = [cal_failed EXCEPT ![t] = @ + 1]
    /\ StartRun("cal_run")

\* It returns; its local variables are gone.  PerformDryRun goes on from cal_case.
CalReturn ==
    /\ Goto([dry |-> "dry_result", retry |-> "retry_result", save |-> "save_switch"][caller])
    /\ first_run' = FALSE /\ new_bits' = FALSE
    /\ stage_cur' = 0 /\ stage_max' = CalCycles
    /\ cal_case' = IF caller = "dry" THEN cal_case ELSE 0
    /\ caller' = "dry"

\* The run ends the calibration without success.
CalStops(reason, trace) ==
    stop_soon \/ reason # "NONE" \/ (stage_cur = 0 /\ trace = {})

CalAborts(reason, trace) ==
    /\ pc = "cal_run" /\ Outcome(reason, trace) /\ CalStops(reason, trace)
    /\ exit_reason' = IF reason = "NONE" /\ ~stop_soon THEN "NOINST" ELSE reason
    /\ CalReturn
    /\ UNCHANGED <<scoreVars, stageVars, testVars, mapVars, foundVars, stopVars,
                   det_tried, false_crash>>

\* The bytes in which a trace differs from the first one.
Vary(trace) ==
    LET first == exec_cksum[cal_case]
    IN  IF first = NoCksum THEN {} ELSE (trace \ first) \cup (first \ trace)

\* Bytes not known to vary make the calibration longer.
StageMax(trace) == IF Vary(trace) \subseteq var_bytes THEN stage_max ELSE CalCyclesLong

NewBits(trace) == new_bits \/ virgin_bits \cap trace # {}

\* A run without fault: its bits are taken out of virgin_bits, the first trace
\* gives exec_cksum.
CalRun(trace) ==
    /\ pc = "cal_run" /\ Outcome("NONE", trace) /\ ~CalStops("NONE", trace)
    /\ virgin_bits' = virgin_bits \ trace
    /\ var_bytes' = var_bytes \cup Vary(trace)
    /\ exec_cksum' = [exec_cksum EXCEPT ![cal_case] = IF @ = NoCksum THEN trace ELSE @]

CalContinues(trace) ==
    /\ CalRun(trace)
    /\ stage_cur + 1 < StageMax(trace)
    /\ stage_cur' = stage_cur + 1
    /\ stage_max' = StageMax(trace) /\ new_bits' = NewBits(trace)
    /\ StartRun("cal_run")
    /\ UNCHANGED <<scoreVars, stageVars, cal_case, caller, first_run, cal_failed,
                   passed_det, trim_done, virgin_tmout, virgin_crash, foundVars,
                   exit_reason, stopVars, det_tried, false_crash>>

\* The last run: the testcase is scored with its trace.
CalSucceeds(trace, us) ==
    /\ CalRun(trace)
    /\ stage_cur + 1 >= StageMax(trace)
    /\ cal_failed' = [cal_failed EXCEPT ![cal_case] = 0]
    /\ ScoreCalibration(cal_case, us, trace)
    /\ exit_reason' = IF first_run /\ ~NewBits(trace) THEN "NOBITS" ELSE "NONE"
    /\ CalReturn
    /\ UNCHANGED <<stageVars, passed_det, trim_done, virgin_tmout, virgin_crash,
                   foundVars, stopVars, det_tried, false_crash>>

-----------------------------------------------------------------------------
(* Start-up.                                                               *)

\* ReadTestcases: one testcase per file.
ReadTestcase(n) ==
    /\ pc = "read"
    /\ AddToQueue(Cardinality(case_queue) + 1, n)
    /\ Goto(IF Cardinality(case_queue') = Seeds THEN "dry" ELSE "read")
    /\ UNCHANGED <<stageVars, calVars, testVars, mapVars, foundVars, exit_reason,
                   trace_bits, stopVars, det_tried, false_crash>>

\* PerformDryRun, for the next testcase.
DryRun ==
    /\ pc = "dry"
    /\ Load(cal_case + 1)
    /\ UNCHANGED exec_cksum
    /\ CalibrateCase(cal_case + 1, "dry")
    /\ UNCHANGED <<stageVars, passed_det, trim_done, mapVars, foundVars, exit_reason,
                   trace_bits, stopVars, det_tried, false_crash>>

\* A dry run that failed but is tolerated.
DrySkipped == exit_reason = "CRASH" /\ SkipCrashes

DryPassed == exit_reason \in {"NONE", "NOBITS"} \/ DrySkipped

\* The rest of its body.  timeout_given is never set, so a timeout is final too.
DryResult ==
    /\ pc = "dry_result"
    /\ cal_failed' = IF ~stop_soon /\ DrySkipped
                     THEN [cal_failed EXCEPT ![cal_case] = CalChances] ELSE cal_failed
    /\ Goto(IF stop_soon THEN "loop"
            ELSE IF ~DryPassed THEN "exited"
            ELSE IF cal_case < Cardinality(case_queue) THEN "dry"
            ELSE IF \E t \in case_queue : cal_failed'[t] # CalChances THEN "loop" ELSE "exited")
    /\ cal_case' = IF pc' = "dry" THEN cal_case ELSE 0
    /\ ForgetRun
    /\ UNCHANGED <<scoreVars, stageVars, caller, first_run, new_bits, stage_cur, stage_max,
                   exec_cksum, passed_det, trim_done, mapVars, foundVars, stopVars,
                   det_tried, false_crash>>

-----------------------------------------------------------------------------
(* One turn of the loop: selection, retried calibration, trimming.         *)

frameLoop == <<calVars, mapVars, foundVars, exit_reason, trace_bits, stopVars,
               false_crash>>
frameTurn == <<calVars, mapVars, foundVars, stopVars, false_crash, det_tried>>

\* Mutant: a stop request does not end the loop.
ShouldEnd_Never == FALSE

ShouldEnd == stop_soon

\* ShouldEnd, and otherwise CullQueue, the first node of OneLoop.
OneLoop ==
    /\ pc = "loop"
    /\ IF ShouldEnd
       THEN Goto("ended") /\ UNCHANGED scoreVars
       ELSE Goto("select") /\ (CullQueue \/ (~score_changed /\ UNCHANGED scoreVars))
    /\ UNCHANGED <<stageVars, testVars, frameLoop, det_tried>>

\* Mutant: the cycle starts again one entry too early.
SelectSeed_Early ==
    /\ pc = "select"
    /\ current_entry' = IF current_entry = 0 \/ current_entry >= Cardinality(case_queue)
                        THEN 1 ELSE current_entry
    /\ Goto("consider")
    /\ UNCHANGED <<scoreVars, stage, left, subseq_tmouts, needs_write, testVars,
                   frameLoop, det_tried>>

SelectSeed ==
    /\ pc = "select"
    /\ current_entry' = IF current_entry = 0 \/ current_entry > Cardinality(case_queue)
                        THEN 1 ELSE current_entry
    /\ Goto("consider")
    /\ UNCHANGED <<scoreVars, stage, left, subseq_tmouts, needs_write, testVars,
                   frameLoop, det_tried>>

\* ConsiderSkipMut skips the testcase, by chance.
SkipMut ==
    /\ pc = "consider"
    /\ IF pending_favored > 0
       THEN current_entry \in fuzzed \/ current_entry \notin favored
       ELSE current_entry \notin favored /\ Cardinality(case_queue) > FewPaths
    /\ current_entry' = current_entry + 1
    /\ Goto("loop")
    /\ UNCHANGED <<scoreVars, stage, left, subseq_tmouts, needs_write, testVars,
                   frameLoop, det_tried>>

\* ConsiderSkipMut goes on with it.
TakeSeed ==
    /\ pc = "consider"
    /\ Load(current_entry)
    /\ Goto("retry")
    /\ UNCHANGED <<stageVars, testVars, frameLoop, det_tried>>

\* RetryCalibrate: nothing to do, no chance left, or another calibration.
RetryCalibrate ==
    LET t == current_entry
    IN  /\ pc = "retry"
        /\ subseq_tmouts' = 0
        /\ IF cal_failed[t] = 0 \/ cal_failed[t] >= CalChances
           THEN /\ Goto(IF cal_failed[t] = 0 THEN "trim" ELSE "abandon")
                /\ UNCHANGED <<exec_cksum, cal_failed, calVars>>
           ELSE /\ exec_cksum' = [exec_cksum EXCEPT ![t] = NoCksum]
                /\ CalibrateCase(t, "retry")
        /\ UNCHANGED <<scoreVars, current_entry, stage, left, needs_write, passed_det,
                       trim_done, mapVars, foundVars, exit_reason, trace_bits,
                       stopVars, det_tried, false_crash>>

\* Mutant: the result of the calibration is not looked at.
RetryGivesUp_OnlyStop == stop_soon

RetryGivesUp == stop_soon \/ exit_reason # "NONE"

RetryResult ==
    /\ pc = "retry_result"
    /\ Goto(IF exit_reason = "ERROR" THEN "exited"
            ELSE IF RetryGivesUp THEN "abandon" ELSE "trim")
    /\ ForgetRun
    /\ UNCHANGED <<scoreVars, stageVars, testVars, frameTurn>>

\* TrimCase: unless it was done before, DoTrimCase makes some runs with shorter
\* inputs, none if the input is too short.
TrimCase ==
    /\ pc = "trim"
    /\ needs_write' = FALSE
    /\ IF current_entry \in trim_done
       THEN Goto("calc") /\ UNCHANGED left
       ELSE \E n \in 0..MaxRuns.trim :
                /\ left' = n
                /\ n > 0 => \E m \in Sizes : m < size[current_entry]
                /\ IF n = 0 THEN Goto("trim_end") ELSE StartRun("trim_run")
    /\ UNCHANGED <<scoreVars, current_entry, stage, subseq_tmouts, testVars, frameLoop,
                   det_tried>>

\* One run of DoTrimCase.  One with the checksum of the testcase makes the shorter
\* input permanent.  Crashes and hangs are not looked at.
TrimRun(reason, trace) ==
    /\ pc = "trim_run" /\ Outcome(reason, trace)
    /\ exit_reason' = reason
    /\ left' = left - 1
    /\ IF stop_soon \/ reason = "ERROR"
       THEN /\ Goto(IF reason = "ERROR" THEN "exited" ELSE "trim_result")
            /\ UNCHANGED <<needs_write, scoreVars>>
       ELSE /\ IF trace = exec_cksum[current_entry]
               THEN needs_write' = TRUE /\ \E n \in Sizes : Shorten(current_entry, n)
               ELSE UNCHANGED <<needs_write, scoreVars>>
            /\ IF left' > 0 /\ \E n \in Sizes : n < size'[current_entry]
               THEN StartRun("trim_run") ELSE Goto("trim_end")
    /\ UNCHANGED <<current_entry, stage, subseq_tmouts, calVars, testVars, mapVars,
                   foundVars, stopVars, det_tried, false_crash>>

\* The end of DoTrimCase.  The trace it kept has the checksum of the testcase.
TrimEnd ==
    /\ pc = "trim_end"
    /\ IF needs_write THEN Rescore(current_entry, exec_cksum[current_entry])
                      ELSE UNCHANGED scoreVars
    /\ Goto("trim_result")
    /\ UNCHANGED <<stageVars, testVars, frameLoop, det_tried>>

\* The end of TrimCase.
TrimResult ==
    /\ pc = "trim_result"
    /\ trim_done' = IF stop_soon THEN trim_done ELSE trim_done \cup {current_entry}
    /\ Goto(IF stop_soon THEN "abandon" ELSE "calc")
    /\ needs_write' = FALSE /\ left' = 0
    /\ ForgetRun
    /\ UNCHANGED <<scoreVars, current_entry, stage, subseq_tmouts, cal_failed, exec_cksum,
                   passed_det, frameTurn>>

-----------------------------------------------------------------------------
(* The mutation stages.                                                    *)

\* CalcScore, then ApplyDetMuts: deterministic mutations, at most once.
ApplyDetMuts ==
    LET t == current_entry
        skip == t \in fuzzed \/ t \in passed_det
    IN  /\ pc = "calc"
        /\ Load(t)
        /\ stage' = IF skip THEN "rand" ELSE "det"
        /\ left' \in 0..MaxRuns[stage']
        /\ det_tried' = IF skip THEN det_tried ELSE det_tried \cup {t}
        /\ Goto("mut")
        /\ UNCHANGED <<current_entry, subseq_tmouts, needs_write, testVars, frameLoop>>

\* A mutation node has another input: ExecutePUT.
Mutate ==
    /\ pc = "mut" /\ left > 0
    /\ StartRun("mut_run")
    /\ UNCHANGED <<scoreVars, stageVars, testVars, frameLoop, det_tried>>

\* The deterministic stage is through: MarkAsDetDone, then ApplyRandMuts.
DetDone ==
    /\ pc = "mut" /\ left = 0 /\ stage = "det"
    /\ passed_det' = passed_det \cup {current_entry}
    /\ stage' = "rand" /\ left' \in 0..MaxRuns.rand
    /\ UNCHANGED <<scoreVars, pc, killed, late_runs, current_entry, subseq_tmouts,
                   needs_write, cal_failed, exec_cksum, trim_done, frameLoop, det_tried>>

\* So is the random stage.
RandDone ==
    /\ pc = "mut" /\ left = 0 /\ stage = "rand"
    /\ Goto("abandon")
    /\ UNCHANGED <<scoreVars, stageVars, testVars, frameLoop, det_tried>>

\* The run of a mutated input.  Bound: new bits only while the queue has room.
MutRun(reason, trace) ==
    /\ pc = "mut_run" /\ Outcome(reason, trace)
    /\ reason = "NONE" /\ trace \cap virgin_bits # {} => case_queue # Case
    /\ exit_reason' = reason
    /\ Goto("update")
    /\ UNCHANGED <<scoreVars, stageVars, calVars, testVars, mapVars, foundVars,
                   stopVars, det_tried, false_crash>>

\* Mutant: NormalUpdate does not look at stop_soon.
UpdateBailsOut_NotOnStop == exit_reason = "TMOUT" /\ subseq_tmouts > TmoutLimit

\* NormalUpdate gives the testcase up: stopped, or too many timeouts in a row.
UpdateBailsOut == stop_soon \/ (exit_reason = "TMOUT" /\ subseq_tmouts > TmoutLimit)

NormalUpdate ==
    /\ pc = "update"
    /\ subseq_tmouts' = IF stop_soon THEN subseq_tmouts
                        ELSE IF exit_reason = "TMOUT" THEN subseq_tmouts + 1 ELSE 0
    /\ Goto(IF UpdateBailsOut THEN "abandon" ELSE "save")
    /\ UNCHANGED <<scoreVars, current_entry, stage, left, needs_write, testVars,
                   frameLoop, det_tried>>

\* Mutant: the testcase counts as fuzzed only if its deterministic stage was done.
CountsAsFuzzed_AfterDet(t) ==
    ~stop_soon /\ cal_failed[t] = 0 /\ t \notin fuzzed /\ t \in passed_det

\* Mutant: a failed calibration is overlooked.
CountsAsFuzzed_AnyCal(t) == ~stop_soon /\ t \notin fuzzed

CountsAsFuzzed(t) == ~stop_soon /\ cal_failed[t] = 0 /\ t \notin fuzzed

\* AbandonEntry, and the end of SelectSeed.  What belongs to the stages and to the
\* last run is gone.
Abandon ==
    /\ pc = "abandon"
    /\ IF CountsAsFuzzed(current_entry) THEN MarkFuzzed(current_entry)
                                        ELSE UNCHANGED scoreVars
    /\ current_entry' = current_entry + 1
    /\ stage' = "rand" /\ left' = 0 /\ subseq_tmouts' = 0 /\ needs_write' = FALSE
    /\ ForgetRun
    /\ Goto("loop")
    /\ UNCHANGED <<testVars, frameTurn>>

-----------------------------------------------------------------------------
(* SaveIfInteresting.                                                      *)

\* Mutant: a crash counts as a discovery.
Return_Crash(k) ==
    /\ queued_discovered' = queued_discovered + (IF k \/ exit_reason = "CRASH" THEN 1 ELSE 0)
    /\ left' = left - 1
    /\ pc' = "mut"
    /\ keeping' = FALSE /\ killed' = FALSE
    /\ ForgetRun
    /\ UNCHANGED late_runs

\* It returns k to NormalUpdate, which goes back to the mutation stage.  The
\* outcome of the run is gone.
Return(k) ==
    /\ queued_discovered' = queued_discovered + (IF k THEN 1 ELSE 0)
    /\ left' = left - 1
    /\ pc' = "mut"
    /\ keeping' = FALSE /\ killed' = FALSE
    /\ ForgetRun
    /\ UNCHANGED late_runs

\* It goes on instead.
retVars == <<queued_discovered, left, keeping, exit_reason, trace_bits>>

frameSave == <<scoreVars, current_entry, stage, subseq_tmouts, needs_write, calVars,
               testVars, virgin_bits, var_bytes, stopVars, det_tried>>

\* A run without fault that shows nothing new.
SaveNothing ==
    /\ pc = "save" /\ exit_reason = "NONE" /\ trace_bits \cap virgin_bits = {}
    /\ Return(FALSE)
    /\ UNCHANGED <<frameSave, virgin_tmout, virgin_crash, unique_hangs, unique_crashes,
                   false_crash>>

\* A run with a fault.
SaveFault ==
    /\ pc = "save" /\ exit_reason # "NONE"
    /\ Goto("save_switch")
    /\ UNCHANGED <<retVars, frameSave, virgin_tmout, virgin_crash, unique_hangs,
                   unique_crashes, false_crash>>

\* New bits: the input joins the queue and is calibrated.
SaveNew(n) ==
    LET t == Cardinality(case_queue) + 1
    IN  /\ pc = "save" /\ exit_reason = "NONE" /\ trace_bits \cap virgin_bits # {}
        /\ virgin_bits' = virgin_bits \ trace_bits
        /\ AddToQueue(t, n)
        /\ exec_cksum' = [exec_cksum EXCEPT ![t] = trace_bits]
        /\ CalibrateCase(t, "save")
        /\ keeping' = TRUE
        /\ UNCHANGED <<stageVars, passed_det, trim_done, virgin_tmout, virgin_crash,
                       var_bytes, unique_hangs, unique_crashes, queued_discovered,
                       exit_reason, trace_bits, stopVars, det_tried, false_crash>>

\* Mutant: no limit on the number of saved crashes.
NewCrash_NoLimit == SimplifyTrace(trace_bits) \cap virgin_crash # {}

\* The crash has a signature that was not seen yet, and may be kept.
NewCrash ==
    /\ unique_crashes < KeepUniqueCrash
    /\ SimplifyTrace(trace_bits) \cap virgin_crash # {}

\* keep_as_crash.  A crash that is no crash is remembered, with the run it is of.
SaveCrash ==
    /\ IF NewCrash
       THEN /\ virgin_crash' = virgin_crash \ SimplifyTrace(trace_bits)
            /\ unique_crashes' = unique_crashes + 1
            /\ false_crash' = IF ~killed THEN false_crash
                              ELSE false_crash \cup {IF keeping THEN "calibration" ELSE "mutation"}
       ELSE UNCHANGED <<virgin_crash, unique_crashes, false_crash>>
    /\ Return(keeping)
    /\ UNCHANGED <<frameSave, virgin_tmout, unique_hangs>>

NewHang ==
    /\ unique_hangs < KeepUniqueHang
    /\ SimplifyTrace(trace_bits) \cap virgin_tmout # {}

\* The switch over the outcome: of the mutated input's run, or of the last run of
\* the new testcase's calibration.
SwitchCrash == pc = "save_switch" /\ exit_reason = "CRASH" /\ SaveCrash

\* A hang is kept if it hangs again with the longer limit.  One that is not new
\* returns false, whatever keeping is.
SwitchHang ==
    /\ pc = "save_switch" /\ exit_reason = "TMOUT"
    /\ virgin_tmout' = IF NewHang THEN virgin_tmout \ SimplifyTrace(trace_bits)
                       ELSE virgin_tmout
    /\ IF ~NewHang THEN Return(FALSE) /\ UNCHANGED unique_hangs
       ELSE IF HangRerun
            THEN StartRun("hang_run") /\ UNCHANGED <<retVars, unique_hangs>>
            ELSE Return(keeping) /\ unique_hangs' = unique_hangs + 1
    /\ UNCHANGED <<frameSave, virgin_crash, unique_crashes, false_crash>>

SwitchOther ==
    /\ pc = "save_switch" /\ exit_reason \notin {"CRASH", "TMOUT"}
    /\ IF exit_reason = "ERROR" THEN Goto("exited") /\ UNCHANGED retVars
                                ELSE Return(keeping)
    /\ UNCHANGED <<frameSave, virgin_tmout, virgin_crash, unique_hangs, unique_crashes,
                   false_crash>>

HangRun(reason, trace) ==
    /\ pc = "hang_run" /\ Outcome(reason, trace)
    /\ exit_reason' = reason
    /\ Goto("hang_result")
    /\ UNCHANGED <<scoreVars, stageVars, calVars, testVars, mapVars, foundVars,
                   stopVars, det_tried, false_crash>>

HangIsCrash == ~stop_soon /\ exit_reason = "CRASH"

HangResult ==
    /\ pc = "hang_result"
    /\ \/ HangIsCrash /\ SaveCrash
       \/ /\ ~HangIsCrash
          /\ IF stop_soon \/ exit_reason # "TMOUT"
             THEN Return(FALSE) /\ UNCHANGED unique_hangs
             ELSE Return(keeping) /\ unique_hangs' = unique_hangs + 1
          /\ UNCHANGED <<frameSave, virgin_tmout, virgin_crash, unique_crashes, false_crash>>

-----------------------------------------------------------------------------
(* The stop request, from a signal handler or another thread.              *)

\* Mutant: the PUT is killed before stop_soon is set.
StopSignal_KillFirst ==
    \/ /\ handler = "none"
       /\ handler' = "set"
       /\ killed' = (pc \in Running)
       /\ UNCHANGED stop_soon
    \/ /\ handler = "set"
       /\ handler' = "done"
       /\ stop_soon' = TRUE
       /\ UNCHANGED killed

\* ReceiveStopSignal: stop_soon first, then the kill, which reaches the PUT of the
\* run then going on, if it does (see Executor).
StopSignal ==
    \/ /\ handler = "none"
       /\ handler' = "set"
       /\ stop_soon' = TRUE
       /\ UNCHANGED killed
    \/ /\ handler = "set"
       /\ handler' = "done"
       /\ UNCHANGED killed \/ (pc \in Running /\ killed' = TRUE)
       /\ UNCHANGED stop_soon

Stop ==
    /\ MayStop /\ StopSignal
    /\ UNCHANGED <<scoreVars, pc, stageVars, calVars, testVars, mapVars, foundVars,
                   exit_reason, trace_bits, det_tried, false_crash, late_runs>>

-----------------------------------------------------------------------------

LoopInit ==
    /\ ScoreInit
    /\ pc = "read"
    /\ current_entry = 0 /\ stage = "rand" /\ left = 0 /\ subseq_tmouts = 0
    /\ needs_write = FALSE
    /\ cal_case = 0 /\ caller = "dry" /\ first_run = FALSE /\ new_bits = FALSE
    /\ stage_cur = 0 /\ stage_max = CalCycles
    /\ cal_failed = [t \in Case |-> 0]
    /\ exec_cksum = [t \in Case |-> NoCksum]
    /\ passed_det = {} /\ trim_done = {}
    /\ virgin_bits = Slot /\ virgin_tmout = Slot \X BOOLEAN
    /\ virgin_crash = Slot \X BOOLEAN /\ var_bytes = {}
    /\ unique_hangs = 0 /\ unique_crashes = 0 /\ queued_discovered = 0
    /\ keeping = FALSE
    /\ exit_reason = "NONE" /\ trace_bits = {} /\ killed = FALSE
    /\ stop_soon = FALSE /\ handler = "none"
    /\ det_tried = {} /\ false_crash = {} /\ late_runs = 0

\* What the fuzzer does.
Fuzz ==
    \/ \E n \in Sizes : ReadTestcase(n) \/ SaveNew(n)
    \/ DryRun \/ DryResult \/ OneLoop \/ SelectSeed \/ SkipMut \/ TakeSeed
    \/ RetryCalibrate \/ RetryResult \/ TrimCase \/ TrimEnd \/ TrimResult
    \/ ApplyDetMuts \/ Mutate \/ DetDone \/ RandDone \/ NormalUpdate \/ Abandon
    \/ SaveNothing \/ SaveFault \/ SwitchCrash \/ SwitchHang \/ SwitchOther \/ HangResult
    \/ \E trace \in Traces : CalContinues(trace)
    \/ \E trace \in Traces, us \in Times : CalSucceeds(trace, us)
    \/ \E reason \in Reason, trace \in Traces :
            \/ CalAborts(reason, trace) \/ TrimRun(reason, trace)
            \/ MutRun(reason, trace) \/ HangRun(reason, trace)

\* The process ends.
Over == pc \in {"ended", "exited"} /\ UNCHANGED loopVars

LoopNext == Fuzz \/ Stop \/ Over

LoopSpec == LoopInit /\ [][LoopNext]_loopVars

\* The fuzzer goes on as long as it can: its runs come back (Executor).
FairLoopSpec == LoopSpec /\ WF_loopVars(Fuzz)

-----------------------------------------------------------------------------
(* Properties.                                                             *)

LoopTypeOK ==
    /\ ScoreTypeOK
    /\ cal_failed \in [Case -> 0..CalChances]
    /\ exec_cksum \in [Case -> (SUBSET Slot) \cup {NoCksum}]
    /\ unique_hangs \in 0..KeepUniqueHang /\ unique_crashes \in 0..KeepUniqueCrash
    /\ subseq_tmouts \in 0..(TmoutLimit + 2)
    /\ current_entry \in 0..(Cardinality(case_queue) + 1)
    /\ exit_reason \in Reason

\* The loop performs the operations of the ranking in an order that the ranking
\* allows: a testcase is scored once it is calibrated, and only then trimmed or
\* counted as fuzzed, whatever calibrations fail, time out or are stopped.
RefinesScore == ScoreSpec

\* The locations at which a testcase is being fuzzed.
Fuzzing == {"trim", "trim_run", "trim_end", "trim_result", "calc", "mut", "mut_run",
            "update", "save", "save_switch", "hang_run", "hang_result"}

\* Trimming, the performance score (which divides by the number of calibrations)
\* and the mutations see only testcases with a complete calibration, whose
\* checksum and execution time are set.
FuzzesCalibrated ==
    pc \in Fuzzing => /\ current_entry \in calibrated
                      /\ exec_cksum[current_entry] # NoCksum

\* The deterministic stage is started at most once for a testcase, even if it was
\* broken off.  A second completion would fail to create the file in
\* deterministic_done/.
DetOnce ==
    [][pc = "calc" /\ pc' = "mut" /\ stage' = "det" => current_entry \notin det_tried]_loopVars

\* Once a stop is requested, no more than three runs are started: the calibration
\* of an input just saved, the longer run of a hang, and one more mutation.
StopsSoon == late_runs <= 3

\* A mutated input whose run was killed by the stop handler is not saved as a crash.
KilledRunNotSaved == "mutation" \notin false_crash

\* What is saved as a crash is one.
CrashIsReal == false_crash = {}

\* A stop request ends the fuzzer.
StopEnds == stop_soon ~> pc \in {"ended", "exited"}

\* Every testcase of the queue has its turn, again and again.
EveryEntryVisited ==
    \A t \in Case : t \in case_queue ~>
        (pc = "consider" /\ current_entry = t) \/ pc \in {"ended", "exited"}

\* Nothing counts as discovered that did not join the queue, not even the crashes
\* and hangs saved on the way.  (The converse fails: an input that joined and then
\* timed out in its calibration is not counted.)
DiscoveredQueued == queued_discovered + Seeds <= Cardinality(case_queue) \/ pc = "read"

=============================================================================
