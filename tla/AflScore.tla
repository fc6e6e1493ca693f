------------------------------ MODULE AflScore ------------------------------
(***************************************************************************)
(* The seed ranking of AFLState: which testcase is the best one known for  *)
(* each byte of the coverage map (top_rated), which testcases are favored, *)
(* and the counters that steer the fuzz loop.                              *)
(*                                                                         *)
(* One action per operation; the order in which the fuzz loop performs     *)
(* them is left open here and fixed in AflLoop.  dumb_mode is off.         *)
(***************************************************************************)
EXTENDS Integers, FiniteSets

CONSTANTS
    Case,      \* testcases
    Nil,       \* no testcase
    MapSize,   \* bytes in the coverage map
    Times,     \* execution times (exec_us)
    Sizes,     \* file lengths
    VaryingPut \* the PUT may touch other bytes when it runs the same input again

ASSUME ScoreAssumption ==
    /\ IsFiniteSet(Case) /\ Nil \notin Case
    /\ MapSize \in Nat
    /\ Times \subseteq Nat /\ Sizes \subseteq Nat
    /\ VaryingPut \in BOOLEAN

Slot == 0..(MapSize - 1)

\* trace_mini holds no bitset.
NoTrace == {-1}

VARIABLES
    case_queue,         \* the testcases of the queue
    calibrated,         \* those with a successful calibration
    trimmed,            \* those that were shortened and scored anew
    fuzzed,             \* those with fuzz_level > 0
    favored,            \* those with favored set
    redundant,          \* those with a file in redundant_edges/
    exec_us,            \* per testcase: execution time
    size,               \* per testcase: length of its file
    len,                \* per testcase: length known to its OnDiskExecInput
    hits,               \* per testcase: map bytes touched, when last scored
    trace_mini,         \* per testcase: the bitset kept while it is top rated
    tc_ref,             \* per testcase: reference count of trace_mini
    top_rated,          \* per map byte: the winner, or Nil
    score_changed,
    queued_favored, pending_favored, pending_not_fuzzed

caseVars  == <<case_queue, calibrated, trimmed, fuzzed, exec_us, size, len, hits>>
rankVars  == <<trace_mini, tc_ref, top_rated, score_changed>>
cullVars  == <<favored, redundant, queued_favored>>
scoreVars == <<caseVars, rankVars, cullVars, pending_favored, pending_not_fuzzed>>

-----------------------------------------------------------------------------

\* The slots at which t replaces the previous winner, which may be t itself.
Wins(factor, t, trace) ==
    {i \in trace : top_rated[i] = Nil \/ factor[t] <= factor[top_rated[i]]}

\* The slots of W that t takes from s.
Lost(s, W) == {i \in W : top_rated[i] = s}

\* Mutant: the previous winner keeps its reference.
RefAfter_NoDecrement(s, t, W) ==
    IF s = t THEN tc_ref[s] + Cardinality(W) ELSE tc_ref[s]

\* tc_ref after the loop of UpdateBitmapScoreWithRawTrace.
RefAfter(s, t, W) ==
    tc_ref[s] - Cardinality(Lost(s, W)) + (IF s = t THEN Cardinality(W) ELSE 0)

\* trace_mini after the loop.  A loser gives it up with its last reference.  The
\* winner takes the new trace if it has none yet; it also gives its old one up,
\* and takes the new one, when the first slot it wins is the only one it had.
MiniAfter(s, t, W, trace) ==
    IF s # t
    THEN IF Lost(s, W) # {} /\ RefAfter(s, t, W) = 0 THEN NoTrace ELSE trace_mini[s]
    ELSE IF /\ W # {}
            /\ \/ trace_mini[t] = NoTrace
               \/ tc_ref[t] = 1 /\ \E i \in Lost(t, W) : \A j \in W : i <= j
         THEN trace
         ELSE trace_mini[t]

\* Mutant: the ranking counts as changed only if a slot had no winner before.
UpdateBitmapScore_OnlyFirst(t, trace) ==
    LET W == Wins([s \in Case |-> exec_us'[s] * len'[s]], t, trace)
    IN  /\ top_rated' = [i \in Slot |-> IF i \in W THEN t ELSE top_rated[i]]
        /\ tc_ref' = [s \in Case |-> RefAfter(s, t, W)]
        /\ trace_mini' = [s \in Case |-> MiniAfter(s, t, W, trace)]
        /\ score_changed' = (score_changed \/ \E i \in W : top_rated[i] = Nil)

\* UpdateBitmapScoreWithRawTrace.  The caller has set exec_us' and len'.
UpdateBitmapScore(t, trace) ==
    LET W == Wins([s \in Case |-> exec_us'[s] * len'[s]], t, trace)
    IN  /\ top_rated' = [i \in Slot |-> IF i \in W THEN t ELSE top_rated[i]]
        /\ tc_ref' = [s \in Case |-> RefAfter(s, t, W)]
        /\ trace_mini' = [s \in Case |-> MiniAfter(s, t, W, trace)]
        /\ score_changed' = (score_changed \/ W # {})

-----------------------------------------------------------------------------

\* Mutant: the new testcase is not counted.
AddToQueue_NotCounted(t, n) ==
    /\ t \in Case \ case_queue
    /\ case_queue' = case_queue \cup {t}
    /\ size' = [size EXCEPT ![t] = n]
    /\ UNCHANGED <<calibrated, trimmed, fuzzed, exec_us, len, hits, rankVars,
                   cullVars, pending_favored, pending_not_fuzzed>>

\* AddToQueue.  The file is written, or was there, but len stays 0 until the
\* file is loaded.
AddToQueue(t, n) ==
    /\ t \in Case \ case_queue
    /\ case_queue' = case_queue \cup {t}
    /\ size' = [size EXCEPT ![t] = n]
    /\ pending_not_fuzzed' = pending_not_fuzzed + 1
    /\ UNCHANGED <<calibrated, trimmed, fuzzed, exec_us, len, hits, rankVars,
                   cullVars, pending_favored>>

\* OnDiskExecInput::Load and LoadByMmap; Unload keeps len.
Load(t) ==
    /\ t \in case_queue
    /\ len' = [len EXCEPT ![t] = size[t]]
    /\ UNCHANGED <<case_queue, calibrated, trimmed, fuzzed, exec_us, size, hits,
                   rankVars, cullVars, pending_favored, pending_not_fuzzed>>

\* The end of a successful calibration: time and trace are taken and scored.
ScoreCalibration(t, us, trace) ==
    /\ calibrated' = calibrated \cup {t}
    /\ exec_us' = [exec_us EXCEPT ![t] = us]
    /\ hits' = [hits EXCEPT ![t] = trace]
    /\ UNCHANGED <<case_queue, trimmed, fuzzed, size, len, cullVars, pending_favored,
                   pending_not_fuzzed>>
    /\ UpdateBitmapScore(t, trace)

\* CalibrateCaseWithFeedDestroyed succeeds once per testcase.
Calibrate(t, us, trace) ==
    /\ t \in case_queue \ calibrated
    /\ ScoreCalibration(t, us, trace)

\* DoTrimCase finds a shorter input with the same trace and writes it to disk.
Shorten(t, n) ==
    /\ t \in calibrated \ trimmed /\ len[t] = size[t] /\ n < size[t]
    /\ size' = [size EXCEPT ![t] = n]
    /\ len' = [len EXCEPT ![t] = n]
    /\ UNCHANGED <<case_queue, calibrated, trimmed, fuzzed, exec_us, hits, rankVars,
                   cullVars, pending_favored, pending_not_fuzzed>>

\* DoTrimCase has run to its end and made changes: the testcase is scored anew.
Rescore(t, trace) ==
    /\ t \in calibrated \ trimmed
    /\ trimmed' = trimmed \cup {t}
    /\ VaryingPut \/ trace = hits[t]
    /\ hits' = [hits EXCEPT ![t] = trace]
    /\ UNCHANGED <<case_queue, calibrated, fuzzed, exec_us, size, len, cullVars,
                   pending_favored, pending_not_fuzzed>>
    /\ UpdateBitmapScore(t, trace)

Rated == {i \in Slot : top_rated[i] # Nil}

\* Mutant: the slots an already favored testcase covers are not skipped.
Picked_All(P) == P = Rated

\* P are the slots whose winner the loop of CullQueue picks: it goes through the
\* map upwards and skips the slots the winners picked so far cover.
Picked(P) ==
    P = {i \in Rated :
            i \notin UNION {trace_mini[top_rated[j]] : j \in {k \in P : k < i}}}

\* CullQueue, when score_changed is set; otherwise it does nothing.
CullQueue ==
    /\ score_changed
    /\ score_changed' = FALSE
    /\ \E P \in SUBSET Rated :
        /\ Picked(P)
        /\ favored' = {top_rated[i] : i \in P}
        /\ queued_favored' = Cardinality(P)
        /\ pending_favored' = Cardinality({i \in P : top_rated[i] \notin fuzzed})
        /\ redundant' = case_queue \ favored'
    /\ UNCHANGED <<caseVars, trace_mini, tc_ref, top_rated, pending_not_fuzzed>>

\* Mutant: a favored testcase is counted down each time it is abandoned.
AbandonEntry_Again(t) ==
    /\ t \in calibrated
    /\ fuzzed' = fuzzed \cup {t}
    /\ pending_not_fuzzed' = pending_not_fuzzed - (IF t \in fuzzed THEN 0 ELSE 1)
    /\ pending_favored' = pending_favored - (IF t \in favored THEN 1 ELSE 0)
    /\ UNCHANGED <<case_queue, calibrated, trimmed, exec_us, size, len, hits,
                   rankVars, cullVars>>

\* MarkFuzzed, with the counters of the testcases still to be fuzzed.
MarkFuzzed(t) ==
    /\ fuzzed' = fuzzed \cup {t}
    /\ pending_not_fuzzed' = pending_not_fuzzed - 1
    /\ pending_favored' = pending_favored - (IF t \in favored THEN 1 ELSE 0)
    /\ UNCHANGED <<case_queue, calibrated, trimmed, exec_us, size, len, hits,
                   rankVars, cullVars>>

\* AbandonEntry, for a calibrated testcase that was not fuzzed before.
AbandonEntry(t) ==
    /\ t \in calibrated \ fuzzed
    /\ MarkFuzzed(t)

ScoreInit ==
    /\ case_queue = {} /\ calibrated = {} /\ trimmed = {} /\ fuzzed = {}
    /\ favored = {} /\ redundant = {}
    /\ exec_us = [t \in Case |-> 0]
    /\ size = [t \in Case |-> 0]
    /\ len = [t \in Case |-> 0]
    /\ hits = [t \in Case |-> {}]
    /\ trace_mini = [t \in Case |-> NoTrace]
    /\ tc_ref = [t \in Case |-> 0]
    /\ top_rated = [i \in Slot |-> Nil]
    /\ score_changed = FALSE
    /\ queued_favored = 0 /\ pending_favored = 0 /\ pending_not_fuzzed = 0

ScoreNext ==
    \/ \E t \in Case, n \in Sizes : AddToQueue(t, n)
    \/ \E t \in Case : Load(t) \/ AbandonEntry(t)
    \/ \E t \in Case, us \in Times, trace \in SUBSET Slot : Calibrate(t, us, trace)
    \/ \E t \in Case, n \in Sizes : Shorten(t, n)
    \/ \E t \in Case, trace \in SUBSET Slot : Rescore(t, trace)
    \/ CullQueue

ScoreSpec == ScoreInit /\ [][ScoreNext]_scoreVars

-----------------------------------------------------------------------------
(* Properties.                                                             *)

ScoreTypeOK ==
    /\ calibrated \subseteq case_queue /\ case_queue \subseteq Case
    /\ fuzzed \subseteq calibrated /\ trimmed \subseteq calibrated
    /\ favored \subseteq calibrated
    /\ redundant \subseteq case_queue
    /\ exec_us \in [Case -> Nat]
    /\ size \in [Case -> Nat] /\ len \in [Case -> Nat]
    /\ hits \in [Case -> SUBSET Slot]
    /\ trace_mini \in [Case -> (SUBSET Slot) \cup {NoTrace}]
    /\ tc_ref \in [Case -> Nat]
    /\ top_rated \in [Slot -> calibrated \cup {Nil}]
    /\ score_changed \in BOOLEAN
    /\ queued_favored \in Nat /\ pending_favored \in Nat
    /\ pending_not_fuzzed \in Nat

RatedAt(t) == {i \in Slot : top_rated[i] = t}

\* tc_ref counts the slots at which a testcase is top rated, through every
\* replacement of one winner by another or by itself, and trace_mini is there
\* exactly while the count is not 0: CullQueue dereferences it without a check.
RefsCountSlots ==
    \A t \in Case : /\ tc_ref[t] = Cardinality(RatedAt(t))
                    /\ trace_mini[t] # NoTrace <=> tc_ref[t] > 0

\* pending_not_fuzzed counts the testcases that were never fuzzed.
PendingCounted == pending_not_fuzzed = Cardinality(case_queue \ fuzzed)

\* pending_favored, an unsigned counter that AbandonEntry decrements without a
\* check, never falls below the number of decrements still to come.
FavoredCountSafe == pending_favored >= Cardinality(favored \ fuzzed)

\* After CullQueue, and until the ranking changes, the favored testcases cover
\* every slot of the map that any testcase is top rated for.
FavoredCoverMap ==
    ~score_changed =>
        \A i \in Slot : top_rated[i] # Nil =>
            \/ top_rated[i] \in favored
            \/ \E t \in favored : i \in trace_mini[t]

\* queued_favored ("Paths deemed favorable") and pending_favored ("Pending
\* favored paths") are the numbers of the favored testcases and of those of them
\* that were not fuzzed yet.
FavoredCounted ==
    /\ queued_favored = Cardinality(favored)
    /\ pending_favored = Cardinality(favored \ fuzzed)

=============================================================================
