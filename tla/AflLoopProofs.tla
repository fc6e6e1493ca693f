---------------------------- MODULE AflLoopProofs ----------------------------
(***************************************************************************)
(* Proofs about AflLoop, for every number of testcases, every map size and *)
(* every limit: what the runs of AflLoop check as invariants, that the     *)
(* loop implements the ranking AflScore, and that the deterministic stage  *)
(* is started once for a testcase.                                         *)
(*                                                                         *)
(* LoopInv is what makes them inductive.  Its parts say, for each location *)
(* of the loop, what the code relies on there.                             *)
(***************************************************************************)
EXTENDS AflLoop, AflScoreProofs

Locations ==
    Fuzzing \cup {"read", "dry", "cal_run", "dry_result", "loop", "select", "consider", "retry",
                  "retry_result", "abandon", "ended", "exited"}

\* PerformDryRun has not yet come to all testcases.
Startup == pc \in {"read", "dry", "dry_result"} \/ (pc = "cal_run" /\ caller = "dry")

\* SaveIfInteresting calibrates what it has added to the queue.
Saving == pc = "cal_run" /\ caller = "save"

\* The loop will make no other turn.
Closing == (stop_soon /\ pc \in {"loop", "ended"}) \/ pc = "exited"

\* SelectSeed is under way for current_entry.
InTurn ==
    \/ pc \in Fuzzing \cup {"consider", "retry", "retry_result", "abandon"}
    \/ pc = "cal_run" /\ caller \in {"retry", "save"}

VarTypes ==
    /\ pc \in Locations /\ caller \in {"dry", "retry", "save"} /\ exit_reason \in Reason
    /\ current_entry \in Nat /\ cal_case \in Nat
    /\ stop_soon \in BOOLEAN /\ killed \in BOOLEAN /\ keeping \in BOOLEAN
    /\ handler \in {"none", "set", "done"}
    /\ unique_hangs \in Nat /\ unique_crashes \in Nat /\ subseq_tmouts \in Nat
    /\ queued_discovered \in Nat /\ late_runs \in Nat

CaseTypes ==
    /\ cal_failed \in [Case -> 0..CalChances]
    /\ exec_cksum \in [Case -> (SUBSET Slot) \cup {NoCksum}]
    /\ trace_bits \in SUBSET Slot

\* Testcases are numbered as they join; the loop and the dry run hold the number of one.
QueueInv ==
    /\ case_queue = 1..Cardinality(case_queue)
    /\ current_entry <= Cardinality(case_queue) + 1
    /\ InTurn => current_entry \in case_queue
    /\ pc = "read" => cal_case = 0
    /\ Startup => cal_case <= Cardinality(case_queue)
    /\ pc = "dry_result" => cal_case \in case_queue
    /\ pc = "cal_run" => cal_case \in case_queue
    /\ pc = "cal_run" /\ caller = "retry" => cal_case = current_entry

\* cal_failed is 0 for a testcase that was not tried yet and for one whose calibration is
\* complete; after the dry run only for the latter.
CalInv ==
    /\ \A t \in Case : t \notin case_queue \/ (Startup /\ t > cal_case)
                         => cal_failed[t] = 0 /\ t \notin calibrated
    /\ \A t \in calibrated : cal_failed[t] = 0 /\ exec_cksum[t] # NoCksum
    /\ \A t \in case_queue :
          cal_failed[t] = 0 /\ ~Closing /\ (Startup => t <= cal_case) => t \in calibrated
    /\ pc = "cal_run" => cal_failed[cal_case] > 0
    /\ pc = "dry_result" /\ exit_reason = "CRASH" => cal_failed[cal_case] > 0
    /\ pc = "retry_result" /\ exit_reason = "NONE" /\ ~stop_soon => cal_failed[current_entry] = 0
    /\ pc \in Fuzzing \/ Saving => current_entry \in calibrated

\* A deterministic stage that was started is marked as done, or the testcase as fuzzed,
\* before another turn begins.
DetInv ==
    \A t \in det_tried :
        /\ t \in calibrated
        /\ \/ t \in fuzzed \cup passed_det
           \/ /\ t = current_entry
              /\ \/ pc \in {"mut", "mut_run", "update", "save", "save_switch", "hang_run",
                            "hang_result", "abandon"}
                 \/ Saving
           \/ Closing

\* What was found: keeping is set from the moment the input joined the queue until it
\* is counted; a hang is run again only while there is room for it.
FoundInv ==
    /\ keeping => Saving \/ pc \in {"save_switch", "hang_run", "hang_result", "exited"}
    /\ Saving => keeping
    /\ pc = "read" => queued_discovered = 0 /\ Cardinality(case_queue) < Seeds
    /\ pc # "read" =>
          queued_discovered + Seeds + (IF keeping THEN 1 ELSE 0) <= Cardinality(case_queue)
    /\ unique_hangs <= KeepUniqueHang /\ unique_crashes <= KeepUniqueCrash
    /\ pc \in {"hang_run", "hang_result"} => unique_hangs < KeepUniqueHang
    /\ subseq_tmouts <= TmoutLimit + (IF pc = "abandon" THEN 2 ELSE 1)

\* The PUT is killed only after stop_soon was set; a mutated input whose run was killed
\* does not come to SaveIfInteresting.
KillInv ==
    /\ stop_soon <=> handler # "none"
    /\ killed => stop_soon
    /\ pc = "save" => ~killed
    /\ pc = "save_switch" => ~killed \/ keeping
    /\ "mutation" \notin false_crash

\* How many runs may still be started after a stop, by location.
RunsLeft ==
    IF pc = "save" THEN 3
    ELSE IF Saving \/ pc = "save_switch" THEN 2
    ELSE IF pc \in {"read", "dry", "select", "consider", "retry", "trim", "calc", "mut",
                    "hang_run", "hang_result"} THEN 1
    ELSE 0

LateInv ==
    /\ ~stop_soon => late_runs = 0
    /\ late_runs + RunsLeft <= 3

LoopInv ==
    /\ ScoreInv /\ VarTypes /\ CaseTypes /\ QueueInv /\ CalInv /\ DetInv /\ FoundInv /\ KillInv /\ LateInv
-----------------------------------------------------------------------------
(* The queue.                                                              *)

\* The testcases are numbers, and those of the queue are counted.
LEMMA QueueFacts ==
    ASSUME ScoreInv
    PROVE  /\ Case \subseteq Nat \ {0} /\ case_queue \subseteq Case /\ calibrated \subseteq case_queue
           /\ fuzzed \subseteq calibrated
           /\ Cardinality(case_queue) \in Nat /\ Cardinality(Case) \in Nat /\ Seeds \in Nat
  <1>1. Cardinality(Case) \in Nat /\ Cardinality(case_queue) \in Nat
    BY Finite DEF ScoreInv, ScoreTypeOK
  <1>2. Case = 1..Cardinality(Case) /\ Seeds \in Case
    BY LoopAssumption
  <1>3. Case \subseteq Nat \ {0}
    BY <1>1, <1>2
  <1> QED
    BY <1>1, <1>2, <1>3 DEF ScoreInv, ScoreTypeOK

\* AddToQueue gives the next number.
LEMMA QueueGrows ==
    ASSUME ScoreInv, case_queue = 1..Cardinality(case_queue),
           NEW n, AddToQueue(Cardinality(case_queue) + 1, n)
    PROVE  /\ Cardinality(case_queue') = Cardinality(case_queue) + 1
           /\ case_queue' = 1..Cardinality(case_queue')
           /\ case_queue \subseteq case_queue'
           /\ Cardinality(case_queue) + 1 \in Case \ case_queue
           /\ calibrated' = calibrated /\ fuzzed' = fuzzed
  <1> DEFINE q == Cardinality(case_queue)
  <1>1. q \in Nat
    BY QueueFacts
  <1>2. case_queue' = case_queue \cup {q + 1}
    BY DEF AddToQueue
  <1>3. case_queue' = 1..(q + 1)
    BY <1>1, <1>2
  <1>4. Cardinality(case_queue') = q + 1
    BY <1>1, <1>3, FS_Interval
  <1> QED
    BY <1>1, <1>2, <1>3, <1>4 DEF AddToQueue

-----------------------------------------------------------------------------
(* The loop implements the ranking.                                        *)

\* Every step of the loop is one of the ranking, or leaves it alone.
LEMMA LoopStepScores ==
    ASSUME LoopInv, LoopNext
    PROVE  ScoreNext \/ UNCHANGED scoreVars
  <1> USE DEF LoopInv
  <1>0. /\ Case \subseteq Nat \ {0} /\ case_queue \subseteq Case /\ calibrated \subseteq case_queue
        /\ Cardinality(case_queue) \in Nat
    BY QueueFacts
  <1>1. ASSUME NEW n \in Sizes, ReadTestcase(n) PROVE ScoreNext
    BY <1>1 DEF ReadTestcase, AddToQueue, ScoreNext
  <1>2. ASSUME NEW n \in Sizes, SaveNew(n) PROVE ScoreNext
    BY <1>2 DEF SaveNew, AddToQueue, ScoreNext
  <1>3. CASE DryRun \/ TakeSeed \/ ApplyDetMuts
    BY <1>0, <1>3 DEF DryRun, TakeSeed, ApplyDetMuts, Load, ScoreNext
  <1>4. CASE OneLoop
    BY <1>4 DEF OneLoop, ScoreNext
  <1>5. ASSUME NEW trace \in Traces, NEW us \in Times, CalSucceeds(trace, us) PROVE ScoreNext
    <2>1. cal_case \in case_queue \ calibrated
      BY <1>0, <1>5 DEF CalSucceeds, CalRun, QueueInv, CalInv
    <2>2. trace \in SUBSET Slot
      BY LoopAssumption
    <2>3. Calibrate(cal_case, us, trace)
      BY <1>5, <2>1 DEF CalSucceeds, Calibrate
    <2> QED
      BY <1>0, <2>1, <2>2, <2>3 DEF ScoreNext
  <1>6. ASSUME NEW reason \in Reason, NEW trace \in Traces, TrimRun(reason, trace)
        PROVE ScoreNext \/ UNCHANGED scoreVars
    BY <1>0, <1>6 DEF TrimRun, ScoreNext, QueueInv, InTurn, Fuzzing
  <1>7. CASE TrimEnd
    <2>1. current_entry \in Case /\ exec_cksum[current_entry] \in SUBSET Slot
      BY <1>0, <1>7 DEF TrimEnd, CalInv, CaseTypes, Fuzzing
    <2> QED
      BY <1>7, <2>1 DEF TrimEnd, ScoreNext
  <1>8. CASE Abandon
    <2>1. CountsAsFuzzed(current_entry) => current_entry \in calibrated
      BY <1>8 DEF Abandon, CountsAsFuzzed, QueueInv, InTurn, CalInv, Closing, Startup
    <2>2. CountsAsFuzzed(current_entry) => AbandonEntry(current_entry)
      BY <1>8, <2>1 DEF Abandon, CountsAsFuzzed, AbandonEntry
    <2> QED
      BY <1>0, <1>8, <2>1, <2>2 DEF Abandon, ScoreNext
  <1>9. CASE \/ DryResult \/ SelectSeed \/ SkipMut \/ RetryCalibrate \/ RetryResult \/ TrimCase
             \/ TrimResult \/ Mutate \/ DetDone \/ RandDone \/ NormalUpdate
    BY <1>9 DEF DryResult, SelectSeed, SkipMut, RetryCalibrate, RetryResult, TrimCase, TrimResult,
                Mutate, DetDone, RandDone, NormalUpdate
  <1>10. CASE SaveNothing \/ SaveFault \/ SwitchCrash \/ SwitchHang \/ SwitchOther \/ HangResult
    BY <1>10 DEF SaveNothing, SaveFault, SwitchCrash, SwitchHang, SwitchOther, HangResult, SaveCrash,
                 frameSave
  <1>11. ASSUME NEW trace \in Traces, CalContinues(trace) PROVE UNCHANGED scoreVars
    BY <1>11 DEF CalContinues
  <1>12. ASSUME NEW reason \in Reason, NEW trace \in Traces,
                CalAborts(reason, trace) \/ MutRun(reason, trace) \/ HangRun(reason, trace)
         PROVE UNCHANGED scoreVars
    BY <1>12 DEF CalAborts, MutRun, HangRun
  <1>13. CASE Stop \/ Over
    BY <1>13 DEF Stop, Over, loopVars
  <1> QED
    BY <1>1, <1>2, <1>3, <1>4, <1>5, <1>6, <1>7, <1>8, <1>9, <1>10, <1>11, <1>12, <1>13
       DEF LoopNext, Fuzz
-----------------------------------------------------------------------------
(* LoopInv is inductive.                                                   *)

\* What the constants are, in the form the steps below use.
LEMMA LoopConstants ==
    /\ CalChances \in Nat \ {0} /\ KeepUniqueHang \in Nat /\ KeepUniqueCrash \in Nat
    /\ TmoutLimit \in Nat /\ Seeds \in Nat \ {0}
    /\ \A trace \in Traces : trace \in SUBSET Slot
    /\ \A trace \in SUBSET Slot : trace # NoCksum
  <1>1. \A trace \in SUBSET Slot : trace # NoCksum
    BY NoTraceIsNone DEF NoTrace, NoCksum
  <1>2. /\ {CalCycles, CalCyclesLong, CalChances} \subseteq Nat \ {0}
        /\ {FewPaths, TmoutLimit, KeepUniqueHang, KeepUniqueCrash} \subseteq Nat
        /\ Traces \subseteq SUBSET Slot
    BY LoopAssumption
  <1>3. Case = 1..Cardinality(Case) /\ Seeds \in Case /\ Cardinality(Case) \in Nat
    BY LoopAssumption, Finite
  <1>4. Seeds \in Nat \ {0}
    BY <1>3
  <1> QED
    BY <1>1, <1>2, <1>4

\* The parts of LoopInv beside the ranking.
RestInv == VarTypes /\ CaseTypes /\ QueueInv /\ CalInv /\ DetInv /\ FoundInv /\ KillInv /\ LateInv

\* The stop request may come at any location.
LEMMA StopKeeps ==
    ASSUME LoopInv, Stop \/ Over PROVE RestInv'
  <1> USE DEF LoopInv, Stop, StopSignal, Over, scoreVars, caseVars, loopVars, stageVars, calVars, testVars,
              mapVars, foundVars, runVars, stopVars
  <1>8. CaseTypes'
    BY DEF CaseTypes
  <1>1. VarTypes'
    BY DEF VarTypes
  <1>2. QueueInv'
    BY DEF QueueInv, Startup, InTurn
  <1>3. CalInv'
    BY DEF CalInv, Startup, Saving, Closing
  <1>4. DetInv'
    BY DEF DetInv, Saving, Closing
  <1>5. FoundInv'
    BY DEF FoundInv, Saving
  <1>6. KillInv'
    BY DEF KillInv, Running, VarTypes
  <1>7. LateInv'
    BY DEF LateInv, RunsLeft, Saving
  <1> QED
    BY <1>1, <1>2, <1>3, <1>4, <1>5, <1>6, <1>7, <1>8 DEF RestInv

\* ReadTestcases.
LEMMA ReadTestcaseKeeps ==
    ASSUME LoopInv, NEW n \in Sizes, ReadTestcase(n) PROVE RestInv'
  <1> USE DEF LoopInv, ReadTestcase, Goto, stageVars, calVars, testVars, mapVars, foundVars, stopVars
  <1>0. /\ Cardinality(case_queue') = Cardinality(case_queue) + 1
        /\ case_queue' = 1..Cardinality(case_queue')
        /\ case_queue \subseteq case_queue'
        /\ Cardinality(case_queue) + 1 \in Case \ case_queue
        /\ calibrated' = calibrated /\ fuzzed' = fuzzed
    BY QueueGrows DEF QueueInv
  <1>a. /\ Case \subseteq Nat \ {0} /\ case_queue \subseteq Case /\ calibrated \subseteq case_queue
        /\ Cardinality(case_queue) \in Nat /\ Seeds \in Nat
    BY QueueFacts
  <1>8. CaseTypes'
    BY DEF CaseTypes
  <1>1. VarTypes'
    BY DEF VarTypes, Locations
  <1>2. QueueInv'
    BY <1>0, <1>a DEF QueueInv, Startup, InTurn, Fuzzing, VarTypes
  <1>3. CalInv'
    BY <1>0, <1>a DEF CalInv, QueueInv, Startup, Saving, Closing, Fuzzing
  <1>4. DetInv'
    BY <1>0, <1>a DEF DetInv, Saving, Closing
  <1>5. FoundInv'
    BY <1>0, <1>a DEF FoundInv, Saving, VarTypes
  <1>6. KillInv'
    BY DEF KillInv
  <1>7. LateInv'
    BY DEF LateInv, RunsLeft, Saving
  <1> QED
    BY <1>1, <1>2, <1>3, <1>4, <1>5, <1>6, <1>7, <1>8 DEF RestInv
\* A calibration starts: the testcase counts as failed until it is through.
LEMMA CalibrationStarts ==
    ASSUME CaseTypes, NEW t \in Case, cal_failed[t] < CalChances, NEW who, CalibrateCase(t, who)
    PROVE  /\ cal_failed' \in [Case -> 0..CalChances]
           /\ cal_failed'[t] > 0
           /\ \A s \in Case \ {t} : cal_failed'[s] = cal_failed[s]
           /\ pc' = "cal_run" /\ cal_case' = t /\ caller' = who /\ killed' = FALSE
           /\ late_runs' = late_runs + (IF stop_soon THEN 1 ELSE 0)
  BY LoopConstants DEF CaseTypes, CalibrateCase, StartRun

\* SelectSeed chooses the next testcase, ConsiderSkipMut takes or skips it.
LEMMA SelectKeeps ==
    ASSUME LoopInv, SelectSeed \/ SkipMut \/ TakeSeed
    PROVE  RestInv'
  <1> USE DEF LoopInv, SelectSeed, SkipMut, TakeSeed, Goto, Load, frameLoop, stageVars, calVars, testVars, mapVars, foundVars, stopVars
  <1>a. /\ Case \subseteq Nat \ {0} /\ case_queue \subseteq Case /\ calibrated \subseteq case_queue
        /\ Cardinality(case_queue) \in Nat /\ Seeds \in Nat
    BY QueueFacts
  <1>b. case_queue' = case_queue /\ calibrated' = calibrated /\ fuzzed' = fuzzed
    BY DEF scoreVars, caseVars
  <1>c. 1 \in case_queue
    BY <1>a, LoopConstants DEF QueueInv, FoundInv, VarTypes
  <1>1. VarTypes'
    BY DEF VarTypes, Locations, Fuzzing, Reason
  <1>2. CaseTypes'
    BY LoopConstants, <1>a, <1>b DEF CaseTypes
  <1>3. QueueInv'
    BY <1>a, <1>b, <1>c DEF QueueInv, VarTypes, Startup, InTurn, Fuzzing
  <1>4. CalInv'
    BY LoopConstants, <1>a, <1>b DEF CalInv, QueueInv, VarTypes, CaseTypes, Startup, InTurn, Saving, Closing, Fuzzing
  <1>5. DetInv'
    BY <1>a, <1>b DEF DetInv, CalInv, VarTypes, Saving, Closing, Fuzzing
  <1>6. FoundInv'
    BY LoopConstants, <1>a, <1>b DEF FoundInv, VarTypes, Saving
  <1>7. KillInv'
    BY <1>a, <1>b DEF KillInv, VarTypes, FoundInv, Saving
  <1>8. LateInv'
    BY DEF LateInv, RunsLeft, VarTypes, Saving
  <1> QED
    BY <1>1, <1>2, <1>3, <1>4, <1>5, <1>6, <1>7, <1>8 DEF RestInv

\* A turn begins, unless a stop was requested.
LEMMA OneLoopKeeps ==
    ASSUME LoopInv, OneLoop
    PROVE  RestInv'
  <1> USE DEF LoopInv, OneLoop, ShouldEnd, Goto, CullQueue, frameLoop, stageVars, calVars, testVars, mapVars, foundVars, stopVars
  <1>a. /\ Case \subseteq Nat \ {0} /\ case_queue \subseteq Case /\ calibrated \subseteq case_queue
        /\ Cardinality(case_queue) \in Nat /\ Seeds \in Nat
    BY QueueFacts
  <1>b. case_queue' = case_queue /\ calibrated' = calibrated /\ fuzzed' = fuzzed
    BY DEF scoreVars, caseVars
  <1>1. VarTypes'
    BY DEF VarTypes, Locations, Fuzzing, Reason
  <1>2. CaseTypes'
    BY LoopConstants, <1>a, <1>b DEF CaseTypes
  <1>3. QueueInv'
    BY <1>a, <1>b DEF QueueInv, VarTypes, Startup, InTurn, Fuzzing
  <1>4. CalInv'
    BY LoopConstants, <1>a, <1>b DEF CalInv, QueueInv, VarTypes, CaseTypes, Startup, InTurn, Saving, Closing, Fuzzing
  <1>5. DetInv'
    BY <1>a, <1>b DEF DetInv, CalInv, VarTypes, Saving, Closing, Fuzzing
  <1>6. FoundInv'
    BY LoopConstants, <1>a, <1>b DEF FoundInv, VarTypes, Saving
  <1>7. KillInv'
    BY <1>a, <1>b DEF KillInv, VarTypes, FoundInv, Saving
  <1>8. LateInv'
    BY DEF LateInv, RunsLeft, VarTypes, Saving
  <1> QED
    BY <1>1, <1>2, <1>3, <1>4, <1>5, <1>6, <1>7, <1>8 DEF RestInv

\* RetryCalibrate has nothing to do.
LEMMA RetryIdleKeeps ==
    ASSUME LoopInv, RetryCalibrate,
           cal_failed[current_entry] = 0 \/ cal_failed[current_entry] >= CalChances
    PROVE  RestInv'
  <1> USE DEF LoopInv, RetryCalibrate, Goto, stageVars, calVars, testVars, mapVars, foundVars, stopVars
  <1>a. /\ Case \subseteq Nat \ {0} /\ case_queue \subseteq Case /\ calibrated \subseteq case_queue
        /\ Cardinality(case_queue) \in Nat /\ Seeds \in Nat
    BY QueueFacts
  <1>b. case_queue' = case_queue /\ calibrated' = calibrated /\ fuzzed' = fuzzed
    BY DEF scoreVars, caseVars
  <1>1. VarTypes'
    BY DEF VarTypes, Locations, Fuzzing, Reason
  <1>2. CaseTypes'
    BY LoopConstants, <1>a, <1>b DEF CaseTypes
  <1>3. QueueInv'
    BY <1>a, <1>b DEF QueueInv, VarTypes, Startup, InTurn, Fuzzing
  <1>4. CalInv'
    BY LoopConstants, <1>a, <1>b DEF CalInv, QueueInv, VarTypes, CaseTypes, Startup, InTurn, Saving, Closing, Fuzzing
  <1>5. DetInv'
    BY <1>a, <1>b DEF DetInv, CalInv, VarTypes, Saving, Closing, Fuzzing
  <1>6. FoundInv'
    BY LoopConstants, <1>a, <1>b DEF FoundInv, VarTypes, Saving
  <1>7. KillInv'
    BY <1>a, <1>b DEF KillInv, VarTypes, FoundInv, Saving
  <1>8. LateInv'
    BY DEF LateInv, RunsLeft, VarTypes, Saving
  <1> QED
    BY <1>1, <1>2, <1>3, <1>4, <1>5, <1>6, <1>7, <1>8 DEF RestInv

\* RetryCalibrate starts another calibration.
LEMMA RetryAgainKeeps ==
    ASSUME LoopInv, RetryCalibrate,
           ~(cal_failed[current_entry] = 0 \/ cal_failed[current_entry] >= CalChances)
    PROVE  RestInv'
  <1> USE DEF LoopInv, RetryCalibrate, stageVars, testVars, mapVars, foundVars, stopVars
  <1>a. /\ Case \subseteq Nat \ {0} /\ case_queue \subseteq Case /\ calibrated \subseteq case_queue
        /\ Cardinality(case_queue) \in Nat /\ Seeds \in Nat
    BY QueueFacts
  <1>b. case_queue' = case_queue /\ calibrated' = calibrated /\ fuzzed' = fuzzed
    BY DEF scoreVars, caseVars
  <1>c. current_entry \in case_queue /\ current_entry \in Case
    BY <1>a DEF QueueInv, InTurn
  <1>d. /\ CalibrateCase(current_entry, "retry")
        /\ cal_failed[current_entry] # 0 /\ cal_failed[current_entry] < CalChances
    BY <1>c, LoopConstants DEF CaseTypes
  <1>e. /\ cal_failed' \in [Case -> 0..CalChances]
        /\ cal_failed'[current_entry] > 0
        /\ \A s \in Case \ {current_entry} : cal_failed'[s] = cal_failed[s]
        /\ pc' = "cal_run" /\ cal_case' = current_entry /\ caller' = "retry" /\ killed' = FALSE
        /\ late_runs' = late_runs + (IF stop_soon THEN 1 ELSE 0)
    BY <1>c, <1>d, CalibrationStarts
  <1>f. /\ exec_cksum' = [exec_cksum EXCEPT ![current_entry] = NoCksum]
        /\ subseq_tmouts' = 0 /\ pc = "retry"
        /\ UNCHANGED <<current_entry, trace_bits, stop_soon, keeping, handler, exit_reason,
                       unique_hangs, unique_crashes, queued_discovered, det_tried, passed_det, false_crash>>
    BY <1>d
  <1>g. late_runs' \in Nat /\ caller' \in {"dry", "retry", "save"} /\ pc' \in Locations
    BY <1>e DEF VarTypes, Locations
  <1> HIDE DEF RetryCalibrate
  <1>1. VarTypes'
    BY <1>c, <1>e, <1>f, <1>g DEF VarTypes
  <1>2. CaseTypes'
    BY LoopConstants, <1>a, <1>b, <1>c, <1>d, <1>e, <1>f DEF CaseTypes
  <1>3. QueueInv'
    BY <1>a, <1>b, <1>c, <1>d, <1>e, <1>f DEF QueueInv, VarTypes, Startup, InTurn, Fuzzing
  <1>4. CalInv'
    BY LoopConstants, <1>a, <1>b, <1>c, <1>d, <1>e, <1>f DEF CalInv, QueueInv, VarTypes, CaseTypes, Startup, InTurn, Saving, Closing, Fuzzing
  <1>5. DetInv'
    BY <1>a, <1>b, <1>c, <1>d, <1>e, <1>f DEF DetInv, CalInv, VarTypes, Saving, Closing, Fuzzing
  <1>6. FoundInv'
    BY LoopConstants, <1>a, <1>b, <1>c, <1>d, <1>e, <1>f DEF FoundInv, VarTypes, Saving
  <1>7. KillInv'
    BY <1>a, <1>b, <1>c, <1>d, <1>e, <1>f DEF KillInv, VarTypes, FoundInv, Saving
  <1>8. LateInv'
    BY <1>c, <1>d, <1>e, <1>f DEF LateInv, RunsLeft, VarTypes, Saving
  <1> QED
    BY <1>1, <1>2, <1>3, <1>4, <1>5, <1>6, <1>7, <1>8 DEF RestInv

\* The result of that calibration.
LEMMA RetryResultKeeps ==
    ASSUME LoopInv, RetryResult
    PROVE  RestInv'
  <1> USE DEF LoopInv, RetryResult, RetryGivesUp, ForgetRun, frameTurn, Goto, stageVars, calVars, testVars, mapVars, foundVars, stopVars
  <1>a. /\ Case \subseteq Nat \ {0} /\ case_queue \subseteq Case /\ calibrated \subseteq case_queue
        /\ Cardinality(case_queue) \in Nat /\ Seeds \in Nat
    BY QueueFacts
  <1>b. case_queue' = case_queue /\ calibrated' = calibrated /\ fuzzed' = fuzzed
    BY DEF scoreVars, caseVars
  <1>1. VarTypes'
    BY DEF VarTypes, Locations, Fuzzing, Reason
  <1>2. CaseTypes'
    BY LoopConstants, <1>a, <1>b DEF CaseTypes
  <1>3. QueueInv'
    BY <1>a, <1>b DEF QueueInv, VarTypes, Startup, InTurn, Fuzzing
  <1>4. CalInv'
    BY LoopConstants, <1>a, <1>b DEF CalInv, QueueInv, VarTypes, CaseTypes, Startup, InTurn, Saving, Closing, Fuzzing
  <1>5. DetInv'
    BY <1>a, <1>b DEF DetInv, CalInv, VarTypes, Saving, Closing, Fuzzing
  <1>6. FoundInv'
    BY LoopConstants, <1>a, <1>b DEF FoundInv, VarTypes, Saving
  <1>7. KillInv'
    BY <1>a, <1>b DEF KillInv, VarTypes, FoundInv, Saving
  <1>8. LateInv'
    BY DEF LateInv, RunsLeft, VarTypes, Saving
  <1> QED
    BY <1>1, <1>2, <1>3, <1>4, <1>5, <1>6, <1>7, <1>8 DEF RestInv
\* A calibration returns to who asked for it.
LEMMA CalibrationReturns ==
    ASSUME VarTypes, CalReturn
    PROVE  /\ caller = "dry" => pc' = "dry_result" /\ cal_case' = cal_case
           /\ caller = "retry" => pc' = "retry_result"
           /\ caller = "save" => pc' = "save_switch"
           /\ caller' = "dry" /\ cal_case' \in {0, cal_case} /\ pc' \in Locations
           /\ UNCHANGED <<killed, late_runs>>
  BY DEF VarTypes, CalReturn, Goto, Locations, Fuzzing

\* PerformDryRun comes to the next testcase.
LEMMA DryRunKeeps ==
    ASSUME LoopInv, DryRun
    PROVE  RestInv'
  <1> USE DEF LoopInv, DryRun, stageVars, testVars, mapVars, foundVars, stopVars
  <1>a. /\ Case \subseteq Nat \ {0} /\ case_queue \subseteq Case /\ calibrated \subseteq case_queue
        /\ Cardinality(case_queue) \in Nat /\ Seeds \in Nat
    BY QueueFacts
  <1>b. case_queue' = case_queue /\ calibrated' = calibrated /\ fuzzed' = fuzzed
    BY DEF Load
  <1>c. cal_case + 1 \in case_queue /\ cal_case + 1 \in Case /\ cal_case \in Nat
    BY <1>a DEF Load, VarTypes
  <1>d. cal_failed[cal_case + 1] = 0 /\ cal_failed[cal_case + 1] < CalChances
    BY <1>c, LoopConstants DEF CalInv, Startup
  <1>e. /\ cal_failed' \in [Case -> 0..CalChances]
        /\ cal_failed'[cal_case + 1] > 0
        /\ \A s \in Case \ {cal_case + 1} : cal_failed'[s] = cal_failed[s]
        /\ pc' = "cal_run" /\ cal_case' = cal_case + 1 /\ caller' = "dry" /\ killed' = FALSE
        /\ late_runs' = late_runs + (IF stop_soon THEN 1 ELSE 0)
    BY <1>c, <1>d, CalibrationStarts
  <1>f. /\ pc = "dry"
        /\ UNCHANGED <<exec_cksum, current_entry, trace_bits, stop_soon, keeping, handler, exit_reason, subseq_tmouts,
                       unique_hangs, unique_crashes, queued_discovered, det_tried, passed_det, false_crash>>
    OBVIOUS
  <1>g. /\ late_runs' \in Nat /\ caller' \in {"dry", "retry", "save"} /\ pc' \in Locations
        /\ cal_case' \in Nat
    BY <1>c, <1>e DEF VarTypes, Locations
  <1>h. \A t \in Case : t > cal_case' => t # cal_case + 1 /\ t > cal_case
    BY <1>a, <1>c, <1>e
  <1>i. \A t \in Case : t <= cal_case' => t = cal_case + 1 \/ t <= cal_case
    BY <1>a, <1>c, <1>e
  <1>j. cal_case + 1 \notin calibrated /\ Startup /\ Startup' /\ pc' \notin Fuzzing /\ ~Saving'
    BY <1>c, <1>d, <1>e, <1>f, <1>i DEF CalInv, Closing, Startup, Saving, Fuzzing, CaseTypes, QueueInv
  <1> HIDE DEF DryRun
  <1>1. VarTypes'
    BY <1>e, <1>f, <1>g DEF VarTypes
  <1>2. CaseTypes'
    BY LoopConstants, <1>a, <1>b, <1>c, <1>d, <1>e, <1>f DEF CaseTypes
  <1>3. QueueInv'
    BY <1>a, <1>b, <1>c, <1>d, <1>e, <1>f DEF QueueInv, VarTypes, Startup, InTurn, Fuzzing
  <1>4. CalInv'
    <2>1. \A t \in Case : t \notin case_queue \/ t > cal_case' => cal_failed'[t] = 0 /\ t \notin calibrated
      BY <1>a, <1>c, <1>e, <1>h, <1>j DEF CalInv
    <2>2. \A t \in calibrated : cal_failed'[t] = 0 /\ exec_cksum'[t] # NoCksum
      BY <1>a, <1>e, <1>f, <1>j DEF CalInv
    <2>3. \A t \in case_queue : cal_failed'[t] = 0 /\ t <= cal_case' => t \in calibrated
      BY <1>a, <1>e, <1>f, <1>i, <1>j DEF CalInv, Closing
    <2> QED
      BY <1>b, <1>e, <1>f, <1>j, <2>1, <2>2, <2>3 DEF CalInv
  <1>5. DetInv'
    BY <1>a, <1>b, <1>c, <1>d, <1>e, <1>f DEF DetInv, CalInv, VarTypes, Saving, Closing, Fuzzing
  <1>6. FoundInv'
    BY LoopConstants, <1>a, <1>b, <1>c, <1>d, <1>e, <1>f DEF FoundInv, VarTypes, Saving
  <1>7. KillInv'
    BY <1>a, <1>b, <1>c, <1>d, <1>e, <1>f DEF KillInv, VarTypes, FoundInv, Saving
  <1>8. LateInv'
    BY <1>c, <1>d, <1>e, <1>f DEF LateInv, RunsLeft, VarTypes, Saving
  <1> QED
    BY <1>1, <1>2, <1>3, <1>4, <1>5, <1>6, <1>7, <1>8 DEF RestInv

\* The result of a dry run.
LEMMA DryResultKeeps ==
    ASSUME LoopInv, DryResult
    PROVE  RestInv'
  <1> USE DEF LoopInv, DryResult, DryPassed, DrySkipped, ForgetRun, Goto, stageVars, calVars, testVars, mapVars, foundVars, stopVars
  <1>a. /\ Case \subseteq Nat \ {0} /\ case_queue \subseteq Case /\ calibrated \subseteq case_queue
        /\ Cardinality(case_queue) \in Nat /\ Seeds \in Nat
    BY QueueFacts
  <1>b. case_queue' = case_queue /\ calibrated' = calibrated /\ fuzzed' = fuzzed
    BY DEF scoreVars, caseVars
  <1>c. cal_case \in case_queue /\ cal_case \in Case
    BY <1>a DEF QueueInv
  <1>1. VarTypes'
    BY <1>c DEF VarTypes, Locations, Fuzzing, Reason
  <1>2. CaseTypes'
    BY LoopConstants, <1>a, <1>b, <1>c DEF CaseTypes
  <1>3. QueueInv'
    BY <1>a, <1>b, <1>c DEF QueueInv, VarTypes, Startup, InTurn, Fuzzing
  <1>4. CalInv'
    BY LoopConstants, <1>a, <1>b, <1>c DEF CalInv, QueueInv, VarTypes, CaseTypes, Startup, InTurn, Saving, Closing, Fuzzing
  <1>5. DetInv'
    BY <1>a, <1>b, <1>c DEF DetInv, CalInv, VarTypes, Saving, Closing, Fuzzing
  <1>6. FoundInv'
    BY LoopConstants, <1>a, <1>b, <1>c DEF FoundInv, VarTypes, Saving
  <1>7. KillInv'
    BY <1>a, <1>b, <1>c DEF KillInv, VarTypes, FoundInv, Saving
  <1>8. LateInv'
    BY <1>c DEF LateInv, RunsLeft, VarTypes, Saving
  <1> QED
    BY <1>1, <1>2, <1>3, <1>4, <1>5, <1>6, <1>7, <1>8 DEF RestInv

\* A calibration fails.
LEMMA CalAbortsKeeps ==
    ASSUME LoopInv, NEW reason \in Reason, NEW trace \in Traces, CalAborts(reason, trace)
    PROVE  RestInv'
  <1> USE DEF LoopInv, CalAborts, Outcome, CalStops, stageVars, testVars, mapVars, foundVars, stopVars
  <1>a. /\ Case \subseteq Nat \ {0} /\ case_queue \subseteq Case /\ calibrated \subseteq case_queue
        /\ Cardinality(case_queue) \in Nat /\ Seeds \in Nat
    BY QueueFacts
  <1>b. case_queue' = case_queue /\ calibrated' = calibrated /\ fuzzed' = fuzzed
    BY DEF scoreVars, caseVars
  <1>c. /\ caller = "dry" => pc' = "dry_result" /\ cal_case' = cal_case
        /\ caller = "retry" => pc' = "retry_result"
        /\ caller = "save" => pc' = "save_switch"
        /\ caller' = "dry" /\ cal_case' \in {0, cal_case} /\ pc' \in Locations
        /\ UNCHANGED <<killed, late_runs>>
    BY CalibrationReturns
  <1>1. VarTypes'
    BY <1>c DEF VarTypes, Locations, Fuzzing, Reason
  <1>2. CaseTypes'
    BY LoopConstants, <1>a, <1>b, <1>c DEF CaseTypes
  <1>3. QueueInv'
    BY <1>a, <1>b, <1>c DEF QueueInv, VarTypes, Startup, InTurn, Fuzzing
  <1>4. CalInv'
    BY LoopConstants, <1>a, <1>b, <1>c DEF CalInv, QueueInv, VarTypes, CaseTypes, Startup, InTurn, Saving, Closing, Fuzzing
  <1>5. DetInv'
    BY <1>a, <1>b, <1>c DEF DetInv, CalInv, VarTypes, Saving, Closing, Fuzzing
  <1>6. FoundInv'
    BY LoopConstants, <1>a, <1>b, <1>c DEF FoundInv, VarTypes, Saving
  <1>7. KillInv'
    BY <1>a, <1>b, <1>c DEF KillInv, VarTypes, FoundInv, Saving
  <1>8. LateInv'
    BY <1>c DEF LateInv, RunsLeft, VarTypes, Saving
  <1> QED
    BY <1>1, <1>2, <1>3, <1>4, <1>5, <1>6, <1>7, <1>8 DEF RestInv

\* A run of the PUT is counted if a stop was requested before.
LEMMA RunStarts ==
    ASSUME VarTypes, NEW loc, StartRun(loc)
    PROVE  /\ pc' = loc /\ killed' = FALSE /\ killed' \in BOOLEAN /\ late_runs' \in Nat
           /\ late_runs' = late_runs + (IF stop_soon THEN 1 ELSE 0)
  <1>1. killed' \in BOOLEAN
    BY DEF StartRun
  <1>2. late_runs' \in Nat
    BY DEF StartRun, VarTypes
  <1> QED
    BY <1>1, <1>2 DEF StartRun

\* Another run of a calibration.
LEMMA CalContinuesKeeps ==
    ASSUME LoopInv, NEW trace \in Traces, CalContinues(trace)
    PROVE  RestInv'
  <1> USE DEF LoopInv, CalContinues, CalRun, Outcome, CalStops, stageVars, testVars, mapVars, foundVars, stopVars
  <1>a. /\ Case \subseteq Nat \ {0} /\ case_queue \subseteq Case /\ calibrated \subseteq case_queue
        /\ Cardinality(case_queue) \in Nat /\ Seeds \in Nat
    BY QueueFacts
  <1>b. case_queue' = case_queue /\ calibrated' = calibrated /\ fuzzed' = fuzzed
    BY DEF scoreVars, caseVars
  <1>c. cal_case \in case_queue /\ cal_case \in Case
    BY <1>a DEF QueueInv
  <1>d. /\ pc' = "cal_run" /\ killed' = FALSE /\ killed' \in BOOLEAN /\ late_runs' \in Nat
        /\ late_runs' = late_runs + (IF stop_soon THEN 1 ELSE 0)
    BY RunStarts
  <1>1. VarTypes'
    BY <1>c, <1>d DEF VarTypes, Locations, Fuzzing, Reason
  <1>2. CaseTypes'
    BY LoopConstants, <1>a, <1>b, <1>c, <1>d DEF CaseTypes
  <1>3. QueueInv'
    BY <1>a, <1>b, <1>c, <1>d DEF QueueInv, VarTypes, Startup, InTurn, Fuzzing
  <1>4. CalInv'
    BY LoopConstants, <1>a, <1>b, <1>c, <1>d DEF CalInv, QueueInv, VarTypes, CaseTypes, Startup, InTurn, Saving, Closing, Fuzzing
  <1>5. DetInv'
    BY <1>a, <1>b, <1>c, <1>d DEF DetInv, CalInv, VarTypes, Saving, Closing, Fuzzing
  <1>6. FoundInv'
    BY LoopConstants, <1>a, <1>b, <1>c, <1>d DEF FoundInv, VarTypes, Saving
  <1>7. KillInv'
    BY <1>a, <1>b, <1>c, <1>d DEF KillInv, VarTypes, FoundInv, Saving
  <1>8. LateInv'
    BY <1>c, <1>d DEF LateInv, RunsLeft, VarTypes, Saving
  <1> QED
    BY <1>1, <1>2, <1>3, <1>4, <1>5, <1>6, <1>7, <1>8 DEF RestInv
\* A calibration is complete.
LEMMA CalSucceedsKeeps ==
    ASSUME LoopInv, NEW trace \in Traces, NEW us \in Times, CalSucceeds(trace, us)
    PROVE  RestInv'
  <1> USE DEF LoopInv, CalSucceeds, CalRun, Outcome, CalStops, stageVars, testVars, mapVars, foundVars, stopVars
  <1>a. /\ Case \subseteq Nat \ {0} /\ case_queue \subseteq Case /\ calibrated \subseteq case_queue
        /\ Cardinality(case_queue) \in Nat /\ Seeds \in Nat
    BY QueueFacts
  <1>b. case_queue' = case_queue /\ calibrated' = calibrated \cup {cal_case} /\ fuzzed' = fuzzed
    BY DEF ScoreCalibration
  <1>c. /\ caller = "dry" => pc' = "dry_result" /\ cal_case' = cal_case
        /\ caller = "retry" => pc' = "retry_result"
        /\ caller = "save" => pc' = "save_switch"
        /\ caller' = "dry" /\ cal_case' \in {0, cal_case} /\ pc' \in Locations
        /\ UNCHANGED <<killed, late_runs>>
    BY CalibrationReturns
  <1>d. cal_case \in case_queue /\ cal_case \in Case
    BY <1>a DEF QueueInv
  <1>e. trace \in SUBSET Slot /\ trace # NoCksum
    BY LoopConstants
  <1>f. /\ cal_failed' = [cal_failed EXCEPT ![cal_case] = 0] /\ exit_reason' \in {"NOBITS", "NONE"}
        /\ exec_cksum' = [exec_cksum EXCEPT ![cal_case] = IF @ = NoCksum THEN trace ELSE @]
        /\ trace_bits' = trace /\ pc = "cal_run" /\ ~stop_soon
        /\ UNCHANGED <<current_entry, stop_soon, keeping, handler, subseq_tmouts,
                       unique_hangs, unique_crashes, queued_discovered, det_tried, passed_det, false_crash>>
    OBVIOUS
  <1> HIDE DEF CalSucceeds, CalRun
  <1>1. VarTypes'
    BY <1>c, <1>d, <1>e, <1>f DEF VarTypes, Locations, Fuzzing, Reason
  <1>2. CaseTypes'
    BY LoopConstants, <1>a, <1>b, <1>c, <1>d, <1>e, <1>f DEF CaseTypes
  <1>3. QueueInv'
    BY <1>a, <1>b, <1>c, <1>d, <1>e, <1>f DEF QueueInv, VarTypes, Startup, InTurn, Fuzzing
  <1>4. CalInv'
    BY LoopConstants, <1>a, <1>b, <1>c, <1>d, <1>e, <1>f DEF CalInv, QueueInv, VarTypes, CaseTypes, Startup, InTurn, Saving, Closing, Fuzzing
  <1>5. DetInv'
    BY <1>a, <1>b, <1>c, <1>d, <1>e, <1>f DEF DetInv, CalInv, VarTypes, Saving, Closing, Fuzzing
  <1>6. FoundInv'
    BY LoopConstants, <1>a, <1>b, <1>c, <1>d, <1>e, <1>f DEF FoundInv, VarTypes, Saving
  <1>7. KillInv'
    BY <1>a, <1>b, <1>c, <1>d, <1>e, <1>f DEF KillInv, VarTypes, FoundInv, Saving
  <1>8. LateInv'
    BY <1>c, <1>d, <1>e, <1>f DEF LateInv, RunsLeft, VarTypes, Saving
  <1> QED
    BY <1>1, <1>2, <1>3, <1>4, <1>5, <1>6, <1>7, <1>8 DEF RestInv

\* TrimCase begins.
LEMMA TrimCaseKeeps ==
    ASSUME LoopInv, TrimCase
    PROVE  RestInv'
  <1> USE DEF LoopInv, TrimCase, frameLoop, Goto, stageVars, calVars, testVars, mapVars, foundVars, stopVars
  <1>a. /\ Case \subseteq Nat \ {0} /\ case_queue \subseteq Case /\ calibrated \subseteq case_queue
        /\ Cardinality(case_queue) \in Nat /\ Seeds \in Nat
    BY QueueFacts
  <1>b. case_queue' = case_queue /\ calibrated' = calibrated /\ fuzzed' = fuzzed
    BY DEF scoreVars, caseVars
  <1>c. StartRun("trim_run") => /\ pc' = "trim_run" /\ killed' = FALSE /\ killed' \in BOOLEAN /\ late_runs' \in Nat
                               /\ late_runs' = late_runs + (IF stop_soon THEN 1 ELSE 0)
    BY RunStarts
  <1>1. VarTypes'
    BY <1>c DEF VarTypes, Locations, Fuzzing, Reason
  <1>2. CaseTypes'
    BY LoopConstants, <1>a, <1>b, <1>c DEF CaseTypes
  <1>3. QueueInv'
    BY <1>a, <1>b, <1>c DEF QueueInv, VarTypes, Startup, InTurn, Fuzzing
  <1>4. CalInv'
    BY LoopConstants, <1>a, <1>b, <1>c DEF CalInv, QueueInv, VarTypes, CaseTypes, Startup, InTurn, Saving, Closing, Fuzzing
  <1>5. DetInv'
    BY <1>a, <1>b, <1>c DEF DetInv, CalInv, VarTypes, Saving, Closing, Fuzzing
  <1>6. FoundInv'
    BY LoopConstants, <1>a, <1>b, <1>c DEF FoundInv, VarTypes, Saving
  <1>7. KillInv'
    BY <1>a, <1>b, <1>c DEF KillInv, VarTypes, FoundInv, Saving
  <1>8. LateInv'
    BY <1>c DEF LateInv, RunsLeft, VarTypes, Saving
  <1> QED
    BY <1>1, <1>2, <1>3, <1>4, <1>5, <1>6, <1>7, <1>8 DEF RestInv

\* A run of DoTrimCase.
LEMMA TrimRunKeeps ==
    ASSUME LoopInv, NEW reason \in Reason, NEW trace \in Traces, TrimRun(reason, trace)
    PROVE  RestInv'
  <1> USE DEF LoopInv, TrimRun, Outcome, Goto, stageVars, calVars, testVars, mapVars, foundVars, stopVars
  <1>a. /\ Case \subseteq Nat \ {0} /\ case_queue \subseteq Case /\ calibrated \subseteq case_queue
        /\ Cardinality(case_queue) \in Nat /\ Seeds \in Nat
    BY QueueFacts
  <1>b. case_queue' = case_queue /\ calibrated' = calibrated /\ fuzzed' = fuzzed
    BY DEF scoreVars, caseVars, Shorten
  <1>c. StartRun("trim_run") => /\ pc' = "trim_run" /\ killed' = FALSE /\ killed' \in BOOLEAN /\ late_runs' \in Nat
                               /\ late_runs' = late_runs + (IF stop_soon THEN 1 ELSE 0)
    BY RunStarts
  <1>1. VarTypes'
    BY <1>c DEF VarTypes, Locations, Fuzzing, Reason
  <1>2. CaseTypes'
    BY LoopConstants, <1>a, <1>b, <1>c DEF CaseTypes
  <1>3. QueueInv'
    BY <1>a, <1>b, <1>c DEF QueueInv, VarTypes, Startup, InTurn, Fuzzing
  <1>4. CalInv'
    BY LoopConstants, <1>a, <1>b, <1>c DEF CalInv, QueueInv, VarTypes, CaseTypes, Startup, InTurn, Saving, Closing, Fuzzing
  <1>5. DetInv'
    BY <1>a, <1>b, <1>c DEF DetInv, CalInv, VarTypes, Saving, Closing, Fuzzing
  <1>6. FoundInv'
    BY LoopConstants, <1>a, <1>b, <1>c DEF FoundInv, VarTypes, Saving
  <1>7. KillInv'
    BY <1>a, <1>b, <1>c DEF KillInv, VarTypes, FoundInv, Saving
  <1>8. LateInv'
    BY <1>c DEF LateInv, RunsLeft, VarTypes, Saving
  <1> QED
    BY <1>1, <1>2, <1>3, <1>4, <1>5, <1>6, <1>7, <1>8 DEF RestInv

\* The end of DoTrimCase, and of TrimCase.
LEMMA TrimEndKeeps ==
    ASSUME LoopInv, TrimEnd \/ TrimResult
    PROVE  RestInv'
  <1> USE DEF LoopInv, TrimEnd, TrimResult, ForgetRun, frameLoop, frameTurn, Goto, stageVars, calVars, testVars, mapVars, foundVars, stopVars
  <1>a. /\ Case \subseteq Nat \ {0} /\ case_queue \subseteq Case /\ calibrated \subseteq case_queue
        /\ Cardinality(case_queue) \in Nat /\ Seeds \in Nat
    BY QueueFacts
  <1>b. case_queue' = case_queue /\ calibrated' = calibrated /\ fuzzed' = fuzzed
    BY DEF scoreVars, caseVars, Rescore
  <1>1. VarTypes'
    BY DEF VarTypes, Locations, Fuzzing, Reason
  <1>2. CaseTypes'
    BY LoopConstants, <1>a, <1>b DEF CaseTypes
  <1>3. QueueInv'
    BY <1>a, <1>b DEF QueueInv, VarTypes, Startup, InTurn, Fuzzing
  <1>4. CalInv'
    BY LoopConstants, <1>a, <1>b DEF CalInv, QueueInv, VarTypes, CaseTypes, Startup, InTurn, Saving, Closing, Fuzzing
  <1>5. DetInv'
    BY <1>a, <1>b DEF DetInv, CalInv, VarTypes, Saving, Closing, Fuzzing
  <1>6. FoundInv'
    BY LoopConstants, <1>a, <1>b DEF FoundInv, VarTypes, Saving
  <1>7. KillInv'
    BY <1>a, <1>b DEF KillInv, VarTypes, FoundInv, Saving
  <1>8. LateInv'
    BY DEF LateInv, RunsLeft, VarTypes, Saving
  <1> QED
    BY <1>1, <1>2, <1>3, <1>4, <1>5, <1>6, <1>7, <1>8 DEF RestInv
\* The mutation stages begin, with the deterministic one or without.
LEMMA ApplyDetMutsKeeps ==
    ASSUME LoopInv, ApplyDetMuts
    PROVE  RestInv'
  <1> USE DEF LoopInv, ApplyDetMuts, Load, frameLoop, Goto, stageVars, calVars, testVars, mapVars, foundVars, stopVars
  <1>a. /\ Case \subseteq Nat \ {0} /\ case_queue \subseteq Case /\ calibrated \subseteq case_queue
        /\ Cardinality(case_queue) \in Nat /\ Seeds \in Nat
    BY QueueFacts
  <1>b. case_queue' = case_queue /\ calibrated' = calibrated /\ fuzzed' = fuzzed
    BY DEF scoreVars, caseVars
  <1>1. VarTypes'
    BY DEF VarTypes, Locations, Fuzzing, Reason
  <1>2. CaseTypes'
    BY LoopConstants, <1>a, <1>b DEF CaseTypes
  <1>3. QueueInv'
    BY <1>a, <1>b DEF QueueInv, VarTypes, Startup, InTurn, Fuzzing
  <1>4. CalInv'
    BY LoopConstants, <1>a, <1>b DEF CalInv, QueueInv, VarTypes, CaseTypes, Startup, InTurn, Saving, Closing, Fuzzing
  <1>5. DetInv'
    BY <1>a, <1>b DEF DetInv, CalInv, VarTypes, Saving, Closing, Fuzzing
  <1>6. FoundInv'
    BY LoopConstants, <1>a, <1>b DEF FoundInv, VarTypes, Saving
  <1>7. KillInv'
    BY <1>a, <1>b DEF KillInv, VarTypes, FoundInv, Saving
  <1>8. LateInv'
    BY DEF LateInv, RunsLeft, VarTypes, Saving
  <1> QED
    BY <1>1, <1>2, <1>3, <1>4, <1>5, <1>6, <1>7, <1>8 DEF RestInv

\* A mutated input is run.
LEMMA MutateKeeps ==
    ASSUME LoopInv, Mutate
    PROVE  RestInv'
  <1> USE DEF LoopInv, Mutate, frameLoop, stageVars, calVars, testVars, mapVars, foundVars, stopVars
  <1>a. /\ Case \subseteq Nat \ {0} /\ case_queue \subseteq Case /\ calibrated \subseteq case_queue
        /\ Cardinality(case_queue) \in Nat /\ Seeds \in Nat
    BY QueueFacts
  <1>b. case_queue' = case_queue /\ calibrated' = calibrated /\ fuzzed' = fuzzed
    BY DEF scoreVars, caseVars
  <1>c. StartRun("mut_run") => /\ pc' = "mut_run" /\ killed' = FALSE /\ killed' \in BOOLEAN /\ late_runs' \in Nat
                               /\ late_runs' = late_runs + (IF stop_soon THEN 1 ELSE 0)
    BY RunStarts
  <1>1. VarTypes'
    BY <1>c DEF VarTypes, Locations, Fuzzing, Reason
  <1>2. CaseTypes'
    BY LoopConstants, <1>a, <1>b, <1>c DEF CaseTypes
  <1>3. QueueInv'
    BY <1>a, <1>b, <1>c DEF QueueInv, VarTypes, Startup, InTurn, Fuzzing
  <1>4. CalInv'
    BY LoopConstants, <1>a, <1>b, <1>c DEF CalInv, QueueInv, VarTypes, CaseTypes, Startup, InTurn, Saving, Closing, Fuzzing
  <1>5. DetInv'
    BY <1>a, <1>b, <1>c DEF DetInv, CalInv, VarTypes, Saving, Closing, Fuzzing
  <1>6. FoundInv'
    BY LoopConstants, <1>a, <1>b, <1>c DEF FoundInv, VarTypes, Saving
  <1>7. KillInv'
    BY <1>a, <1>b, <1>c DEF KillInv, VarTypes, FoundInv, Saving
  <1>8. LateInv'
    BY <1>c DEF LateInv, RunsLeft, VarTypes, Saving
  <1> QED
    BY <1>1, <1>2, <1>3, <1>4, <1>5, <1>6, <1>7, <1>8 DEF RestInv

\* A stage is through.
LEMMA StageDoneKeeps ==
    ASSUME LoopInv, DetDone \/ RandDone
    PROVE  RestInv'
  <1> USE DEF LoopInv, DetDone, RandDone, frameLoop, Goto, stageVars, calVars, testVars, mapVars, foundVars, stopVars
  <1>a. /\ Case \subseteq Nat \ {0} /\ case_queue \subseteq Case /\ calibrated \subseteq case_queue
        /\ Cardinality(case_queue) \in Nat /\ Seeds \in Nat
    BY QueueFacts
  <1>b. case_queue' = case_queue /\ calibrated' = calibrated /\ fuzzed' = fuzzed
    BY DEF scoreVars, caseVars
  <1>1. VarTypes'
    BY DEF VarTypes, Locations, Fuzzing, Reason
  <1>2. CaseTypes'
    BY LoopConstants, <1>a, <1>b DEF CaseTypes
  <1>3. QueueInv'
    BY <1>a, <1>b DEF QueueInv, VarTypes, Startup, InTurn, Fuzzing
  <1>4. CalInv'
    BY LoopConstants, <1>a, <1>b DEF CalInv, QueueInv, VarTypes, CaseTypes, Startup, InTurn, Saving, Closing, Fuzzing
  <1>5. DetInv'
    BY <1>a, <1>b DEF DetInv, CalInv, VarTypes, Saving, Closing, Fuzzing
  <1>6. FoundInv'
    BY LoopConstants, <1>a, <1>b DEF FoundInv, VarTypes, Saving
  <1>7. KillInv'
    BY <1>a, <1>b DEF KillInv, VarTypes, FoundInv, Saving
  <1>8. LateInv'
    BY DEF LateInv, RunsLeft, VarTypes, Saving
  <1> QED
    BY <1>1, <1>2, <1>3, <1>4, <1>5, <1>6, <1>7, <1>8 DEF RestInv

\* The run of a mutated input, or the longer one of a hang, comes back.
LEMMA MutRunKeeps ==
    ASSUME LoopInv, NEW reason \in Reason, NEW trace \in Traces,
           MutRun(reason, trace) \/ HangRun(reason, trace)
    PROVE  RestInv'
  <1> USE DEF LoopInv, MutRun, HangRun, Outcome, Goto, stageVars, calVars, testVars, mapVars, foundVars, stopVars
  <1>a. /\ Case \subseteq Nat \ {0} /\ case_queue \subseteq Case /\ calibrated \subseteq case_queue
        /\ Cardinality(case_queue) \in Nat /\ Seeds \in Nat
    BY QueueFacts
  <1>b. case_queue' = case_queue /\ calibrated' = calibrated /\ fuzzed' = fuzzed
    BY DEF scoreVars, caseVars
  <1>1. VarTypes'
    BY DEF VarTypes, Locations, Fuzzing, Reason
  <1>2. CaseTypes'
    BY LoopConstants, <1>a, <1>b DEF CaseTypes
  <1>3. QueueInv'
    BY <1>a, <1>b DEF QueueInv, VarTypes, Startup, InTurn, Fuzzing
  <1>4. CalInv'
    BY LoopConstants, <1>a, <1>b DEF CalInv, QueueInv, VarTypes, CaseTypes, Startup, InTurn, Saving, Closing, Fuzzing
  <1>5. DetInv'
    BY <1>a, <1>b DEF DetInv, CalInv, VarTypes, Saving, Closing, Fuzzing
  <1>6. FoundInv'
    BY LoopConstants, <1>a, <1>b DEF FoundInv, VarTypes, Saving
  <1>7. KillInv'
    BY <1>a, <1>b DEF KillInv, VarTypes, FoundInv, Saving
  <1>8. LateInv'
    BY DEF LateInv, RunsLeft, VarTypes, Saving
  <1> QED
    BY <1>1, <1>2, <1>3, <1>4, <1>5, <1>6, <1>7, <1>8 DEF RestInv

\* NormalUpdate goes on to SaveIfInteresting or gives the testcase up.
LEMMA NormalUpdateKeeps ==
    ASSUME LoopInv, NormalUpdate
    PROVE  RestInv'
  <1> USE DEF LoopInv, NormalUpdate, UpdateBailsOut, frameLoop, Goto, stageVars, calVars, testVars, mapVars, foundVars, stopVars
  <1>a. /\ Case \subseteq Nat \ {0} /\ case_queue \subseteq Case /\ calibrated \subseteq case_queue
        /\ Cardinality(case_queue) \in Nat /\ Seeds \in Nat
    BY QueueFacts
  <1>b. case_queue' = case_queue /\ calibrated' = calibrated /\ fuzzed' = fuzzed
    BY DEF scoreVars, caseVars
  <1>1. VarTypes'
    BY DEF VarTypes, Locations, Fuzzing, Reason
  <1>2. CaseTypes'
    BY LoopConstants, <1>a, <1>b DEF CaseTypes
  <1>3. QueueInv'
    BY <1>a, <1>b DEF QueueInv, VarTypes, Startup, InTurn, Fuzzing
  <1>4. CalInv'
    BY LoopConstants, <1>a, <1>b DEF CalInv, QueueInv, VarTypes, CaseTypes, Startup, InTurn, Saving, Closing, Fuzzing
  <1>5. DetInv'
    BY <1>a, <1>b DEF DetInv, CalInv, VarTypes, Saving, Closing, Fuzzing
  <1>6. FoundInv'
    BY LoopConstants, <1>a, <1>b DEF FoundInv, VarTypes, Saving
  <1>7. KillInv'
    BY <1>a, <1>b DEF KillInv, VarTypes, FoundInv, Saving
  <1>8. LateInv'
    BY DEF LateInv, RunsLeft, VarTypes, Saving
  <1> QED
    BY <1>1, <1>2, <1>3, <1>4, <1>5, <1>6, <1>7, <1>8 DEF RestInv

\* AbandonEntry.
LEMMA AbandonKeeps ==
    ASSUME LoopInv, Abandon
    PROVE  RestInv'
  <1> USE DEF LoopInv, Abandon, ForgetRun, frameTurn, Goto, stageVars, calVars, testVars, mapVars, foundVars, stopVars
  <1>a. /\ Case \subseteq Nat \ {0} /\ case_queue \subseteq Case /\ calibrated \subseteq case_queue
        /\ Cardinality(case_queue) \in Nat /\ Seeds \in Nat
    BY QueueFacts
  <1>b. /\ case_queue' = case_queue /\ calibrated' = calibrated
        /\ fuzzed' = IF CountsAsFuzzed(current_entry) THEN fuzzed \cup {current_entry} ELSE fuzzed
    BY DEF MarkFuzzed, scoreVars, caseVars
  <1>c. current_entry \in case_queue
    BY DEF QueueInv, InTurn
  <1>1. VarTypes'
    BY <1>c DEF VarTypes, Locations, Fuzzing, Reason
  <1>2. CaseTypes'
    BY LoopConstants, <1>a, <1>b, <1>c DEF CaseTypes
  <1>3. QueueInv'
    BY <1>a, <1>b, <1>c DEF QueueInv, VarTypes, Startup, InTurn, Fuzzing
  <1>4. CalInv'
    BY LoopConstants, <1>a, <1>b, <1>c DEF CalInv, QueueInv, VarTypes, CaseTypes, Startup, InTurn, Saving, Closing, Fuzzing
  <1>5. DetInv'
    BY <1>a, <1>b, <1>c DEF DetInv, CountsAsFuzzed, CalInv, VarTypes, Saving, Closing, Fuzzing
  <1>6. FoundInv'
    BY LoopConstants, <1>a, <1>b, <1>c DEF FoundInv, VarTypes, Saving
  <1>7. KillInv'
    BY <1>a, <1>b, <1>c DEF KillInv, VarTypes, FoundInv, Saving
  <1>8. LateInv'
    BY <1>c DEF LateInv, RunsLeft, VarTypes, Saving
  <1> QED
    BY <1>1, <1>2, <1>3, <1>4, <1>5, <1>6, <1>7, <1>8 DEF RestInv

\* SaveIfInteresting returns to NormalUpdate.
LEMMA SaveReturns ==
    ASSUME VarTypes, NEW k, Return(k)
    PROVE  /\ pc' = "mut" /\ exit_reason' = "NONE" /\ keeping' \in BOOLEAN /\ killed' \in BOOLEAN
           /\ queued_discovered' \in Nat /\ late_runs' = late_runs
  <1>1. keeping' \in BOOLEAN /\ killed' \in BOOLEAN
    BY DEF Return
  <1>2. queued_discovered' \in Nat
    BY DEF Return, VarTypes
  <1> QED
    BY <1>1, <1>2 DEF Return, ForgetRun

\* SaveIfInteresting has nothing to do, or has a fault to look at.
LEMMA SaveQuietKeeps ==
    ASSUME LoopInv, SaveNothing \/ SaveFault
    PROVE  RestInv'
  <1> USE DEF LoopInv, SaveNothing, SaveFault, Return, ForgetRun, frameSave, retVars, Goto, stageVars, calVars, testVars, mapVars, foundVars, stopVars
  <1>a. /\ Case \subseteq Nat \ {0} /\ case_queue \subseteq Case /\ calibrated \subseteq case_queue
        /\ Cardinality(case_queue) \in Nat /\ Seeds \in Nat
    BY QueueFacts
  <1>b. case_queue' = case_queue /\ calibrated' = calibrated /\ fuzzed' = fuzzed
    BY DEF scoreVars, caseVars
  <1>d. ASSUME Return(keeping) \/ Return(FALSE)
        PROVE  /\ pc' = "mut" /\ exit_reason' = "NONE" /\ keeping' \in BOOLEAN /\ killed' \in BOOLEAN
               /\ queued_discovered' \in Nat /\ late_runs' = late_runs
    BY <1>d, SaveReturns
  <1>1. VarTypes'
    <2> HIDE DEF Return
    <2> QED
      BY <1>d DEF VarTypes, Locations, Fuzzing, Reason
  <1>2. CaseTypes'
    BY LoopConstants, <1>a, <1>b DEF CaseTypes
  <1>3. QueueInv'
    BY <1>a, <1>b DEF QueueInv, VarTypes, Startup, InTurn, Fuzzing
  <1>4. CalInv'
    BY LoopConstants, <1>a, <1>b DEF CalInv, QueueInv, VarTypes, CaseTypes, Startup, InTurn, Saving, Closing, Fuzzing
  <1>5. DetInv'
    BY <1>a, <1>b DEF DetInv, CalInv, VarTypes, Saving, Closing, Fuzzing
  <1>6. FoundInv'
    BY LoopConstants, <1>a, <1>b DEF FoundInv, VarTypes, Saving
  <1>7. KillInv'
    BY <1>a, <1>b DEF KillInv, VarTypes, FoundInv, Saving
  <1>8. LateInv'
    BY DEF LateInv, RunsLeft, VarTypes, Saving
  <1> QED
    BY <1>1, <1>2, <1>3, <1>4, <1>5, <1>6, <1>7, <1>8 DEF RestInv

\* Neither a crash nor a hang.
LEMMA SwitchOtherKeeps ==
    ASSUME LoopInv, SwitchOther
    PROVE  RestInv'
  <1> USE DEF LoopInv, SwitchOther, Return, ForgetRun, frameSave, retVars, Goto, stageVars, calVars, testVars, mapVars, foundVars, stopVars
  <1>a. /\ Case \subseteq Nat \ {0} /\ case_queue \subseteq Case /\ calibrated \subseteq case_queue
        /\ Cardinality(case_queue) \in Nat /\ Seeds \in Nat
    BY QueueFacts
  <1>b. case_queue' = case_queue /\ calibrated' = calibrated /\ fuzzed' = fuzzed
    BY DEF scoreVars, caseVars
  <1>d. ASSUME Return(keeping) \/ Return(FALSE)
        PROVE  /\ pc' = "mut" /\ exit_reason' = "NONE" /\ keeping' \in BOOLEAN /\ killed' \in BOOLEAN
               /\ queued_discovered' \in Nat /\ late_runs' = late_runs
    BY <1>d, SaveReturns
  <1>1. VarTypes'
    <2> HIDE DEF Return
    <2> QED
      BY <1>d DEF VarTypes, Locations, Fuzzing, Reason
  <1>2. CaseTypes'
    BY LoopConstants, <1>a, <1>b DEF CaseTypes
  <1>3. QueueInv'
    BY <1>a, <1>b DEF QueueInv, VarTypes, Startup, InTurn, Fuzzing
  <1>4. CalInv'
    BY LoopConstants, <1>a, <1>b DEF CalInv, QueueInv, VarTypes, CaseTypes, Startup, InTurn, Saving, Closing, Fuzzing
  <1>5. DetInv'
    BY <1>a, <1>b DEF DetInv, CalInv, VarTypes, Saving, Closing, Fuzzing
  <1>6. FoundInv'
    BY LoopConstants, <1>a, <1>b DEF FoundInv, VarTypes, Saving
  <1>7. KillInv'
    BY <1>a, <1>b DEF KillInv, VarTypes, FoundInv, Saving
  <1>8. LateInv'
    BY DEF LateInv, RunsLeft, VarTypes, Saving
  <1> QED
    BY <1>1, <1>2, <1>3, <1>4, <1>5, <1>6, <1>7, <1>8 DEF RestInv

\* A hang.
LEMMA SwitchHangKeeps ==
    ASSUME LoopInv, SwitchHang
    PROVE  RestInv'
  <1> USE DEF LoopInv, SwitchHang, NewHang, Return, ForgetRun, frameSave, retVars, stageVars, calVars, testVars, mapVars, foundVars, stopVars
  <1>a. /\ Case \subseteq Nat \ {0} /\ case_queue \subseteq Case /\ calibrated \subseteq case_queue
        /\ Cardinality(case_queue) \in Nat /\ Seeds \in Nat
    BY QueueFacts
  <1>b. case_queue' = case_queue /\ calibrated' = calibrated /\ fuzzed' = fuzzed
    BY DEF scoreVars, caseVars
  <1>c. StartRun("hang_run") => /\ pc' = "hang_run" /\ killed' = FALSE /\ killed' \in BOOLEAN /\ late_runs' \in Nat
                               /\ late_runs' = late_runs + (IF stop_soon THEN 1 ELSE 0)
    BY RunStarts
  <1>d. ASSUME Return(keeping) \/ Return(FALSE)
        PROVE  /\ pc' = "mut" /\ exit_reason' = "NONE" /\ keeping' \in BOOLEAN /\ killed' \in BOOLEAN
               /\ queued_discovered' \in Nat /\ late_runs' = late_runs
    BY <1>d, SaveReturns
  <1>1. VarTypes'
    <2> HIDE DEF Return
    <2>1. pc' \in Locations /\ exit_reason' \in Reason
      BY <1>c, <1>d DEF VarTypes, Locations, Fuzzing, Reason
    <2>2. /\ keeping' \in BOOLEAN /\ killed' \in BOOLEAN /\ queued_discovered' \in Nat
          /\ late_runs' \in Nat
      BY <1>c, <1>d DEF VarTypes
    <2>3. unique_hangs' \in Nat /\ unique_crashes' \in Nat
      <3>1. unique_hangs' = unique_hangs \/ unique_hangs' = unique_hangs + 1
        OBVIOUS
      <3>2. unique_crashes' = unique_crashes \/ unique_crashes' = unique_crashes + 1
        OBVIOUS
      <3>3. unique_hangs \in Nat /\ unique_crashes \in Nat
        BY DEF VarTypes
      <3> QED
        BY ONLY <3>1, <3>2, <3>3
    <2>4. UNCHANGED <<caller, current_entry, cal_case, stop_soon, handler, subseq_tmouts>>
      OBVIOUS
    <2> HIDE DEF SwitchHang
    <2> QED
      BY <2>1, <2>2, <2>3, <2>4 DEF VarTypes
  <1>2. CaseTypes'
    BY LoopConstants, <1>a, <1>b, <1>c DEF CaseTypes
  <1>3. QueueInv'
    BY <1>a, <1>b, <1>c DEF QueueInv, VarTypes, Startup, InTurn, Fuzzing
  <1>4. CalInv'
    BY LoopConstants, <1>a, <1>b, <1>c DEF CalInv, QueueInv, VarTypes, CaseTypes, Startup, InTurn, Saving, Closing, Fuzzing
  <1>5. DetInv'
    BY <1>a, <1>b, <1>c DEF DetInv, CalInv, VarTypes, Saving, Closing, Fuzzing
  <1>6. FoundInv'
    BY LoopConstants, <1>a, <1>b, <1>c DEF FoundInv, VarTypes, Saving
  <1>7. KillInv'
    BY <1>a, <1>b, <1>c DEF KillInv, VarTypes, FoundInv, Saving
  <1>8. LateInv'
    BY <1>c DEF LateInv, RunsLeft, VarTypes, Saving
  <1> QED
    BY <1>1, <1>2, <1>3, <1>4, <1>5, <1>6, <1>7, <1>8 DEF RestInv

\* A crash, at once or in the longer run of a hang.
LEMMA CrashKeeps ==
    ASSUME LoopInv, SwitchCrash \/ HangResult
    PROVE  RestInv'
  <1> USE DEF LoopInv, SwitchCrash, HangResult, HangIsCrash, SaveCrash, NewCrash, Return, ForgetRun, frameSave, stageVars, calVars, testVars, mapVars, foundVars, stopVars
  <1>a. /\ Case \subseteq Nat \ {0} /\ case_queue \subseteq Case /\ calibrated \subseteq case_queue
        /\ Cardinality(case_queue) \in Nat /\ Seeds \in Nat
    BY QueueFacts
  <1>b. case_queue' = case_queue /\ calibrated' = calibrated /\ fuzzed' = fuzzed
    BY DEF scoreVars, caseVars
  <1>d. ASSUME Return(keeping) \/ Return(FALSE)
        PROVE  /\ pc' = "mut" /\ exit_reason' = "NONE" /\ keeping' \in BOOLEAN /\ killed' \in BOOLEAN
               /\ queued_discovered' \in Nat /\ late_runs' = late_runs
    BY <1>d, SaveReturns
  <1>1. VarTypes'
    <2> HIDE DEF Return
    <2>1. pc' \in Locations /\ exit_reason' \in Reason
      BY <1>d DEF VarTypes, Locations, Fuzzing, Reason
    <2>2. /\ keeping' \in BOOLEAN /\ killed' \in BOOLEAN /\ queued_discovered' \in Nat
          /\ late_runs' \in Nat
      BY <1>d DEF VarTypes
    <2>3. unique_hangs' \in Nat /\ unique_crashes' \in Nat
      <3>1. unique_hangs' = unique_hangs \/ unique_hangs' = unique_hangs + 1
        OBVIOUS
      <3>2. unique_crashes' = unique_crashes \/ unique_crashes' = unique_crashes + 1
        OBVIOUS
      <3>3. unique_hangs \in Nat /\ unique_crashes \in Nat
        BY DEF VarTypes
      <3> QED
        BY ONLY <3>1, <3>2, <3>3
    <2>4. UNCHANGED <<caller, current_entry, cal_case, stop_soon, handler, subseq_tmouts>>
      OBVIOUS
    <2> HIDE DEF SwitchHang, SwitchCrash, HangResult, SaveCrash
    <2> QED
      BY <2>1, <2>2, <2>3, <2>4 DEF VarTypes
  <1>2. CaseTypes'
    BY LoopConstants, <1>a, <1>b DEF CaseTypes
  <1>3. QueueInv'
    BY <1>a, <1>b DEF QueueInv, VarTypes, Startup, InTurn, Fuzzing
  <1>4. CalInv'
    BY LoopConstants, <1>a, <1>b DEF CalInv, QueueInv, VarTypes, CaseTypes, Startup, InTurn, Saving, Closing, Fuzzing
  <1>5. DetInv'
    BY <1>a, <1>b DEF DetInv, CalInv, VarTypes, Saving, Closing, Fuzzing
  <1>6. FoundInv'
    BY LoopConstants, <1>a, <1>b DEF FoundInv, VarTypes, Saving
  <1>7. KillInv'
    BY <1>a, <1>b DEF KillInv, VarTypes, FoundInv, Saving
  <1>8. LateInv'
    BY DEF LateInv, RunsLeft, VarTypes, Saving
  <1> QED
    BY <1>1, <1>2, <1>3, <1>4, <1>5, <1>6, <1>7, <1>8 DEF RestInv
\* An input with new bits joins the queue.
LEMMA SaveNewKeeps ==
    ASSUME LoopInv, NEW n \in Sizes, SaveNew(n)
    PROVE  RestInv'
  <1> USE DEF LoopInv, SaveNew, stageVars, testVars, mapVars, foundVars, stopVars
  <1>a. /\ Case \subseteq Nat \ {0} /\ case_queue \subseteq Case /\ calibrated \subseteq case_queue
        /\ Cardinality(case_queue) \in Nat /\ Seeds \in Nat
    BY QueueFacts
  <1> DEFINE new == Cardinality(case_queue) + 1
  <1>b. /\ Cardinality(case_queue') = new
        /\ case_queue' = 1..Cardinality(case_queue')
        /\ case_queue' = case_queue \cup {new}
        /\ new \in Case \ case_queue
        /\ calibrated' = calibrated /\ fuzzed' = fuzzed
    BY QueueGrows DEF QueueInv, AddToQueue
  <1>c. new \in Case /\ cal_failed[new] = 0 /\ cal_failed[new] < CalChances /\ new \notin calibrated
    BY <1>a, <1>b, LoopConstants DEF CalInv
  <1>d. CalibrateCase(new, "save")
    OBVIOUS
  <1>e. /\ cal_failed' \in [Case -> 0..CalChances]
        /\ cal_failed'[new] > 0
        /\ \A s \in Case \ {new} : cal_failed'[s] = cal_failed[s]
        /\ pc' = "cal_run" /\ cal_case' = new /\ caller' = "save" /\ killed' = FALSE
        /\ late_runs' = late_runs + (IF stop_soon THEN 1 ELSE 0)
    BY <1>c, <1>d, CalibrationStarts
  <1>f. /\ exec_cksum' = [exec_cksum EXCEPT ![new] = trace_bits] /\ keeping' = TRUE /\ pc = "save"
        /\ UNCHANGED <<current_entry, trace_bits, stop_soon, handler, exit_reason, subseq_tmouts,
                       unique_hangs, unique_crashes, queued_discovered, det_tried, passed_det, false_crash>>
    OBVIOUS
  <1>g. /\ late_runs' \in Nat /\ caller' \in {"dry", "retry", "save"} /\ pc' \in Locations
        /\ cal_case' \in Nat
    BY <1>a, <1>c, <1>e DEF VarTypes, Locations
  <1>h. current_entry \in calibrated /\ current_entry # new /\ ~keeping
    BY <1>c, <1>f DEF CalInv, FoundInv, Saving, Fuzzing
  <1>i. Cardinality(case_queue') = Cardinality(case_queue) + 1
    BY <1>b
  <1> HIDE DEF SaveNew, new
  <1>1. VarTypes'
    BY <1>e, <1>f, <1>g DEF VarTypes
  <1>2. CaseTypes'
    BY LoopConstants, <1>a, <1>b, <1>c, <1>d, <1>e, <1>f, <1>h DEF CaseTypes
  <1>3. QueueInv'
    BY <1>a, <1>b, <1>c, <1>d, <1>e, <1>f, <1>h DEF QueueInv, VarTypes, Startup, InTurn, Fuzzing
  <1>4. CalInv'
    BY LoopConstants, <1>a, <1>b, <1>c, <1>d, <1>e, <1>f, <1>h DEF CalInv, QueueInv, VarTypes, CaseTypes, Startup, InTurn, Saving, Closing, Fuzzing
  <1>5. DetInv'
    BY <1>a, <1>b, <1>c, <1>d, <1>e, <1>f, <1>h DEF DetInv, CalInv, VarTypes, Saving, Closing, Fuzzing
  <1>6. FoundInv'
    BY LoopConstants, <1>a, <1>e, <1>f, <1>h, <1>i DEF FoundInv, VarTypes, Saving
  <1>7. KillInv'
    BY <1>a, <1>b, <1>c, <1>d, <1>e, <1>f, <1>h DEF KillInv, VarTypes, FoundInv, Saving
  <1>8. LateInv'
    BY <1>c, <1>d, <1>e, <1>f, <1>h DEF LateInv, RunsLeft, VarTypes, Saving
  <1> QED
    BY <1>1, <1>2, <1>3, <1>4, <1>5, <1>6, <1>7, <1>8 DEF RestInv

\* The initial states.
LEMMA LoopInitHolds == LoopInit => LoopInv
  <1> SUFFICES ASSUME LoopInit PROVE LoopInv
    OBVIOUS
  <1> USE DEF LoopInit
  <1>a. ScoreInv /\ case_queue = {} /\ calibrated = {}
    BY ScoreInitHolds DEF ScoreInit
  <1>b. Cardinality(case_queue) = 0
    BY <1>a, FS_EmptySet
  <1>1. VarTypes
    <2>1. stop_soon \in BOOLEAN /\ killed \in BOOLEAN /\ keeping \in BOOLEAN
      OBVIOUS
    <2> QED
      BY <2>1 DEF VarTypes, Locations, Reason
  <1>2. CaseTypes
    BY LoopConstants DEF CaseTypes
  <1>3. QueueInv
    BY <1>a, <1>b DEF QueueInv, InTurn, Startup, Fuzzing
  <1>4. CalInv
    BY <1>a DEF CalInv, Startup, Closing, Saving, Fuzzing
  <1>5. DetInv
    BY DEF DetInv
  <1>6. FoundInv
    BY <1>b, LoopConstants DEF FoundInv, Saving
  <1>7. KillInv
    BY DEF KillInv
  <1>8. LateInv
    BY DEF LateInv, RunsLeft, Saving
  <1> QED
    BY <1>a, <1>1, <1>2, <1>3, <1>4, <1>5, <1>6, <1>7, <1>8 DEF LoopInv

\* Every step keeps the invariant.
LEMMA LoopNextKeeps == LoopInv /\ [LoopNext]_loopVars => LoopInv'
  <1> SUFFICES ASSUME LoopInv, [LoopNext]_loopVars PROVE LoopInv'
    OBVIOUS
  <1>1. CASE UNCHANGED loopVars
    <2>1. Over \/ RestInv'
      BY <1>1 DEF LoopInv, RestInv, loopVars, scoreVars, caseVars, stageVars, calVars, testVars, mapVars,
                  foundVars, runVars, stopVars, VarTypes, CaseTypes, QueueInv, CalInv, DetInv, FoundInv,
                  KillInv, LateInv, RunsLeft, InTurn, Startup, Saving, Closing
    <2>2. ScoreInv'
      BY <1>1, ScoreNextKeeps DEF LoopInv, loopVars
    <2> QED
      BY <2>1, <2>2, StopKeeps DEF LoopInv, RestInv
  <1>2. CASE LoopNext
    <2>1. ScoreInv'
      BY <1>2, LoopStepScores, ScoreNextKeeps DEF LoopInv
    <2>2. RestInv'
      <3>1. CASE Stop \/ Over
        BY <3>1, StopKeeps
      <3>2. ASSUME NEW n \in Sizes, ReadTestcase(n) \/ SaveNew(n) PROVE RestInv'
        BY <3>2, ReadTestcaseKeeps, SaveNewKeeps
      <3>3. CASE \/ DryRun \/ DryResult \/ OneLoop \/ SelectSeed \/ SkipMut \/ TakeSeed
                 \/ RetryCalibrate \/ RetryResult
        BY <3>3, DryRunKeeps, DryResultKeeps, OneLoopKeeps, SelectKeeps, RetryIdleKeeps,
           RetryAgainKeeps, RetryResultKeeps
      <3>4. CASE \/ TrimCase \/ TrimEnd \/ TrimResult \/ ApplyDetMuts \/ Mutate \/ DetDone
                 \/ RandDone \/ NormalUpdate \/ Abandon
        BY <3>4, TrimCaseKeeps, TrimEndKeeps, ApplyDetMutsKeeps, MutateKeeps, StageDoneKeeps,
           NormalUpdateKeeps, AbandonKeeps
      <3>5. CASE SaveNothing \/ SaveFault \/ SwitchCrash \/ SwitchHang \/ SwitchOther \/ HangResult
        BY <3>5, SaveQuietKeeps, CrashKeeps, SwitchHangKeeps, SwitchOtherKeeps
      <3>6. ASSUME NEW trace \in Traces, CalContinues(trace) PROVE RestInv'
        BY <3>6, CalContinuesKeeps
      <3>7. ASSUME NEW trace \in Traces, NEW us \in Times, CalSucceeds(trace, us) PROVE RestInv'
        BY <3>7, CalSucceedsKeeps
      <3>8. ASSUME NEW reason \in Reason, NEW trace \in Traces,
                   \/ CalAborts(reason, trace) \/ TrimRun(reason, trace)
                   \/ MutRun(reason, trace) \/ HangRun(reason, trace)
            PROVE RestInv'
        BY <3>8, CalAbortsKeeps, TrimRunKeeps, MutRunKeeps
      <3> QED
        BY <1>2, <3>1, <3>2, <3>3, <3>4, <3>5, <3>6, <3>7, <3>8 DEF LoopNext, Fuzz
    <2> QED
      BY <2>1, <2>2 DEF LoopInv, RestInv
  <1> QED
    BY <1>1, <1>2

\* LoopInv holds in every state of the loop.
THEOREM LoopInvariant == LoopSpec => []LoopInv
  <1> QED
    BY LoopInitHolds, LoopNextKeeps, PTL DEF LoopSpec

-----------------------------------------------------------------------------
(* What it means.                                                          *)

\* The fuzz loop keeps its variables in their ranges: the chances of a calibration, the
\* numbers of saved crashes and hangs, the timeouts in a row, the place in the queue.
THEOREM LoopTypes == LoopSpec => []LoopTypeOK
  <1>1. LoopInv => LoopTypeOK
    <2> SUFFICES ASSUME LoopInv PROVE LoopTypeOK
      OBVIOUS
    <2>1. Cardinality(case_queue) \in Nat
      BY QueueFacts DEF LoopInv
    <2>2. /\ unique_hangs \in 0..KeepUniqueHang /\ unique_crashes \in 0..KeepUniqueCrash
          /\ subseq_tmouts \in 0..(TmoutLimit + 2)
      BY LoopConstants DEF LoopInv, VarTypes, FoundInv
    <2>3. current_entry \in 0..(Cardinality(case_queue) + 1)
      BY <2>1 DEF LoopInv, VarTypes, QueueInv
    <2> QED
      BY <2>2, <2>3 DEF LoopInv, LoopTypeOK, ScoreInv, VarTypes, CaseTypes
  <1> QED
    BY <1>1, LoopInvariant, PTL

\* Only testcases with a complete calibration and a checksum are trimmed, scored and mutated.
THEOREM LoopFuzzesCalibrated == LoopSpec => []FuzzesCalibrated
  <1>1. LoopInv => FuzzesCalibrated
    BY DEF LoopInv, CalInv, FuzzesCalibrated
  <1> QED
    BY <1>1, LoopInvariant, PTL

\* After a stop request at any moment the loop starts at most three runs of the PUT.
THEOREM LoopStopsSoon == LoopSpec => []StopsSoon
  <1>1. LoopInv => StopsSoon
    BY DEF LoopInv, LateInv, RunsLeft, VarTypes, StopsSoon
  <1> QED
    BY <1>1, LoopInvariant, PTL

\* A mutated input whose run the stop handler killed is not saved as a crash.
THEOREM LoopSavesNoKilledRun == LoopSpec => []KilledRunNotSaved
  <1>1. LoopInv => KilledRunNotSaved
    BY DEF LoopInv, KillInv, KilledRunNotSaved
  <1> QED
    BY <1>1, LoopInvariant, PTL

\* What counts as discovered has joined the queue.
THEOREM LoopCountsQueued == LoopSpec => []DiscoveredQueued
  <1>1. LoopInv => DiscoveredQueued
    <2> SUFFICES ASSUME LoopInv PROVE DiscoveredQueued
      OBVIOUS
    <2>1. Cardinality(case_queue) \in Nat /\ queued_discovered \in Nat
      BY QueueFacts DEF LoopInv, VarTypes
    <2> QED
      BY <2>1, LoopConstants DEF LoopInv, FoundInv, DiscoveredQueued
  <1> QED
    BY <1>1, LoopInvariant, PTL

\* The fuzz loop implements the ranking: each of its steps is an operation of AflScore, in
\* an order and with arguments that AflScore allows, or leaves the ranking alone.
THEOREM LoopImplementsScore == LoopSpec => RefinesScore
  <1>1. LoopInit => ScoreInit
    BY DEF LoopInit
  <1>2. LoopInv /\ [LoopNext]_loopVars => [ScoreNext]_scoreVars
    BY LoopStepScores DEF loopVars
  <1> QED
    BY <1>1, <1>2, LoopInvariant, PTL DEF LoopSpec, RefinesScore, ScoreSpec

\* The deterministic stage is started at most once for a testcase.
THEOREM LoopDetOnce == LoopSpec => DetOnce
  <1> DEFINE Once == pc = "calc" /\ pc' = "mut" /\ stage' = "det" => current_entry \notin det_tried
  <1>1. LoopInv /\ [LoopNext]_loopVars => [Once]_loopVars
    <2> SUFFICES ASSUME LoopInv, LoopNext, pc = "calc", pc' = "mut", stage' = "det"
                 PROVE  current_entry \notin det_tried
      BY DEF Once
    <2>1. ApplyDetMuts
      BY DEF LoopNext, Fuzz, ReadTestcase, SaveNew, DryRun, DryResult, OneLoop, SelectSeed, SkipMut,
             TakeSeed, RetryCalibrate, RetryResult, TrimCase, TrimEnd, TrimResult, Mutate, DetDone,
             RandDone, NormalUpdate, Abandon, SaveNothing, SaveFault, SwitchCrash, SwitchHang,
             SwitchOther, HangResult, CalContinues, CalSucceeds, CalRun, CalAborts, TrimRun, MutRun,
             HangRun, Stop, Over, loopVars
    <2>2. current_entry \notin fuzzed \cup passed_det
      BY <2>1 DEF ApplyDetMuts
    <2> QED
      BY <2>2 DEF LoopInv, DetInv, Saving, Closing
  <1> QED
    BY <1>1, LoopInvariant, PTL DEF LoopSpec, DetOnce, Once
=============================================================================
