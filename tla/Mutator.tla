------------------------------- MODULE Mutator -------------------------------
(***************************************************************************)
(* The generic Mutator as DoHavoc and Splicing use it: three buffers that  *)
(* change places, stacked havoc mutations that grow and shrink one of      *)
(* them, and the budget of a havoc stage.                                  *)
(*                                                                         *)
(* A buffer is its allocated size, the length in use and what it holds;    *)
(* bytes are left out.  A random number is any number UR may return.       *)
(***************************************************************************)
EXTENDS Naturals, FiniteSets, FiniteSetsExt

CONSTANTS
    SourceLens, TargetLens,            \* lengths of the seed and of a splice target
    HavocBlk,                          \* HAVOC_BLK_SMALL, MEDIUM, LARGE and XL
    MaxFile,                           \* MAX_FILE
    ExtraLens, AExtraLens,             \* lengths of the dictionaries' words
    HavocStackPow2,                    \* HAVOC_STACK_POW2
    StageMax,                          \* stage_max a stage begins with
    PerfLimit,                         \* HAVOC_MAX_MULT * 100, orig_perf being 1
    SpliceCycles                       \* SPLICE_CYCLES

ASSUME MutatorAssumption ==
    /\ MaxFile \in Nat /\ SourceLens \cup TargetLens \subseteq 1..MaxFile
    /\ HavocBlk \in [1..4 -> Nat \ {0}] /\ \A i \in 1..3 : HavocBlk[i] <= HavocBlk[i + 1]
    /\ ExtraLens \cup AExtraLens \subseteq Nat \ {0}
    /\ {HavocStackPow2, StageMax, PerfLimit} \subseteq Nat \ {0} /\ SpliceCycles \in Nat

VARIABLES
    source,                    \* length of the seed
    max_havoc,                 \* TRUE: in IJON's MaxHavoc
    outbuf, tmpbuf, splbuf,
    spliced,                   \* length of the target spliced in, 0: none
    splice_cycle,
    mpc,                       \* "idle", "stage", "stack", "run" or "gone"
    stacking,                  \* mutations left to stack
    havoc_cur, stage_max, perf_score,
    access                     \* of the last mutation: furthest byte used, bytes there

buffers == <<outbuf, tmpbuf, splbuf>>
stageVars == <<havoc_cur, stage_max, perf_score>>
mutatorVars == <<source, max_havoc, buffers, spliced, splice_cycle, mpc, stacking, stageVars, access>>

NoBuf == [cap |-> 0, len |-> 0, data |-> "none"]

-----------------------------------------------------------------------------
(* Havoc.                                                                  *)

\* The lengths ChooseBlockLen may return; early in a campaign only the first class.
ChooseBlockLen(limit) ==
    LET Class(lo, hi) == LET min == IF lo >= limit THEN 1 ELSE lo
                         IN  min..(IF hi < limit THEN hi ELSE limit)
    IN  Class(1, HavocBlk[1]) \cup UNION {Class(HavocBlk[i], HavocBlk[i + 1]) : i \in 1..3}

\* What a mutation does: the furthest byte it uses, the length it leaves, and whether it
\* moved to a new buffer of that length.
Effect(reach, newlen, moved) == [reach |-> reach, len |-> newlen, moved |-> moved]

\* FLIP1, XOR, INT8, ADD8, SUB8 and the word and double word cases.
FixedWidth(len) ==
    {Effect(pos \div 8 + 1, len, FALSE) : pos \in 0..len * 8 - 1}
    \cup UNION {{Effect(pos + w, len, FALSE) : pos \in 0..len - w} : w \in {x \in {1, 2, 4} : x <= len}}

DeleteBytes(len) ==
    IF len < 2 THEN {}
    ELSE UNION {{Effect(len, len - n, FALSE) : from \in 0..len - n} : n \in ChooseBlockLen(len - 1)}

CloneBytes(len) ==
    IF len + HavocBlk[4] >= MaxFile THEN {}
    ELSE UNION {{Effect(from + n, len + n, TRUE) : from \in 0..len - n} : n \in ChooseBlockLen(len)}

InsertSameByte(len) ==
    IF len + HavocBlk[4] >= MaxFile THEN {}
    ELSE {Effect(len, len + n, TRUE) : n \in ChooseBlockLen(HavocBlk[4])}

\* OVERWRITE_WITH_CHUNK, up to the further one of source and destination, and
\* OVERWRITE_WITH_SAME_BYTE.
OverwriteBytes(len) ==
    IF len < 2 THEN {}
    ELSE UNION {{Effect(at + n, len, FALSE) : at \in 0..len - n} : n \in ChooseBlockLen(len - 1)}

OverwriteExtra(len, words) ==
    UNION {{Effect(at + n, len, FALSE) : at \in 0..len - n} : n \in {w \in words : w <= len}}

\* Mutant: no look at MAX_FILE.
InsertExtraUnchecked(len, words) == {Effect(len, len + n, TRUE) : n \in words}

InsertExtra(len, words) ==
    {Effect(len, len + n, TRUE) : n \in {w \in words : len + w < MaxFile}}

\* The switch of Havoc.  The cases of a dictionary have no weight when it is empty;
\* IJON's custom cases delete nothing and insert words at the end.
HavocCases(len) ==
    FixedWidth(len) \cup CloneBytes(len) \cup InsertSameByte(len) \cup OverwriteBytes(len)
        \cup (IF max_havoc THEN {} ELSE DeleteBytes(len))
        \cup UNION {OverwriteExtra(len, w) \cup InsertExtra(len, w) : w \in {ExtraLens, AExtraLens}}

\* Mutant: the old buffer is kept without a look at its length.
HavocBeginKeeps ==
    LET room == IF tmpbuf.data = "none" THEN outbuf.len ELSE tmpbuf.cap
    IN  /\ mpc = "stage" /\ havoc_cur < stage_max
        /\ outbuf' = [outbuf EXCEPT !.cap = room] /\ tmpbuf' = outbuf
        /\ access' = [reach |-> outbuf.len, len |-> room]
        /\ stacking' \in {2 ^ n : n \in 1..HavocStackPow2} /\ mpc' = "stack"
        /\ UNCHANGED <<source, max_havoc, splbuf, spliced, splice_cycle, stageVars>>

\* The beginning of Havoc: the copy, in a buffer that is kept if it is known to be large
\* enough, and the first swap.
HavocBegin ==
    LET room == IF tmpbuf.len < outbuf.len \/ tmpbuf.data = "none" THEN outbuf.len ELSE tmpbuf.cap
    IN  /\ mpc = "stage" /\ havoc_cur < stage_max
        /\ outbuf' = [outbuf EXCEPT !.cap = room] /\ tmpbuf' = outbuf
        /\ access' = [reach |-> outbuf.len, len |-> room]
        /\ stacking' \in {2 ^ n : n \in 1..HavocStackPow2}
        /\ mpc' = "stack"
        /\ UNCHANGED <<source, max_havoc, splbuf, spliced, splice_cycle, stageVars>>

HavocCase ==
    /\ mpc = "stack" /\ stacking > 0
    /\ \/ \E e \in HavocCases(outbuf.len) :
            /\ outbuf' = [cap |-> IF e.moved THEN e.len ELSE outbuf.cap, len |-> e.len,
                          data |-> "havoc"]
            /\ access' = [reach |-> e.reach, len |-> outbuf.len]
       \/ UNCHANGED <<outbuf, access>>          \* a case that breaks
    /\ stacking' = stacking - 1
    /\ mpc' = IF stacking = 1 THEN "run" ELSE "stack"
    /\ UNCHANGED <<source, max_havoc, tmpbuf, splbuf, spliced, splice_cycle, stageVars>>

\* Mutant: nothing is restored.
RestoreHavocSkipped == UNCHANGED buffers

RestoreHavoc == outbuf' = tmpbuf /\ tmpbuf' = outbuf /\ UNCHANGED splbuf

-----------------------------------------------------------------------------
(* The stages.                                                             *)

\* DoHavoc begins; Splicing calls it once more for every successful splice.
DoHavoc ==
    /\ mpc = "idle"
    /\ mpc' = "stage" /\ havoc_cur' = 0 /\ stage_max' = StageMax /\ perf_score' = 1
    /\ UNCHANGED <<source, max_havoc, buffers, spliced, splice_cycle, stacking, access>>

\* Mutant: the score does not limit the stage.
ExecuteMutantUnlimited(found, stop) ==
    /\ mpc = "run" /\ stage_max < 32
    /\ RestoreHavoc /\ mpc' = "stage" /\ havoc_cur' = havoc_cur + 1
    /\ IF found THEN stage_max' = stage_max * 2 /\ perf_score' = perf_score * 2
       ELSE UNCHANGED <<stage_max, perf_score>>
    /\ UNCHANGED <<source, max_havoc, spliced, splice_cycle, stacking, access>>

\* The mutant is executed.  A find doubles the stage while the score allows; a stop
\* ends the mutator as it is.
ExecuteMutant(found, stop) ==
    /\ mpc = "run"
    /\ IF stop
       THEN mpc' = "gone" /\ UNCHANGED <<buffers, stageVars>>
       ELSE /\ RestoreHavoc /\ mpc' = "stage" /\ havoc_cur' = havoc_cur + 1
            /\ IF found /\ perf_score <= PerfLimit
               THEN stage_max' = stage_max * 2 /\ perf_score' = perf_score * 2
               ELSE UNCHANGED <<stage_max, perf_score>>
    /\ UNCHANGED <<source, max_havoc, spliced, splice_cycle, stacking, access>>

\* Splice: the buffers are equal up to f, differ last at l, and are joined in between.
Splice(target) ==
    LET cmp_len == IF outbuf.len < target THEN outbuf.len ELSE target
        room == IF splbuf.data = "none" \/ splbuf.len < target THEN target ELSE splbuf.cap
    IN  \E f, l \in 0..cmp_len - 1 :
            /\ f < l /\ l >= 2
            /\ \E split_at \in f..l - 1 : access' = [reach |-> split_at, len |-> outbuf.len]
            /\ outbuf' = [cap |-> room, len |-> target, data |-> "spliced"]
            /\ splbuf' = outbuf
            /\ UNCHANGED tmpbuf

\* One turn of the loop of Splicing: a target that splices, and the havoc of the result.
SplicingTurn ==
    /\ mpc = "stage" /\ havoc_cur >= stage_max /\ spliced = 0
    /\ splice_cycle < SpliceCycles /\ source > 1 /\ ~max_havoc
    /\ \E target \in TargetLens : Splice(target) /\ spliced' = target
    /\ splice_cycle' = splice_cycle + 1
    /\ havoc_cur' = 0 /\ stage_max' = StageMax /\ perf_score' = 1
    /\ UNCHANGED <<source, max_havoc, mpc, stacking>>

\* No target, or one that differs in too few places.
SplicingFails ==
    /\ mpc = "stage" /\ havoc_cur >= stage_max /\ spliced = 0
    /\ splice_cycle < SpliceCycles /\ source > 1 /\ ~max_havoc
    /\ splice_cycle' = splice_cycle + 1
    /\ UNCHANGED <<source, max_havoc, buffers, spliced, mpc, stacking, stageVars, access>>

RestoreSplice ==
    /\ mpc = "stage" /\ havoc_cur >= stage_max /\ spliced # 0
    /\ outbuf' = splbuf /\ splbuf' = outbuf /\ spliced' = 0
    /\ UNCHANGED <<source, max_havoc, tmpbuf, splice_cycle, mpc, stacking, stageVars, access>>

-----------------------------------------------------------------------------
MutatorInit ==
    /\ source \in SourceLens /\ max_havoc \in BOOLEAN
    /\ outbuf = [cap |-> source, len |-> source, data |-> "source"]
    /\ tmpbuf = NoBuf /\ splbuf = NoBuf
    /\ spliced = 0 /\ splice_cycle = 0 /\ mpc = "idle" /\ stacking = 0
    /\ havoc_cur = 0 /\ stage_max = 0 /\ perf_score = 0
    /\ access = [reach |-> 0, len |-> 0]

MutatorNext ==
    \/ DoHavoc \/ HavocBegin \/ HavocCase
    \/ \E found, stop \in BOOLEAN : ExecuteMutant(found, stop)
    \/ SplicingTurn \/ SplicingFails \/ RestoreSplice

MutatorSpec == MutatorInit /\ [][MutatorNext]_mutatorVars

-----------------------------------------------------------------------------
\* No mutation touches a byte behind the end, however the ones before it grew and shrank
\* the buffer, and a buffer that is used again is large enough for the copy ("Suspected
\* buffer overruns for all mutation algorithms below").
AccessInside ==
    /\ access.reach <= access.len
    /\ \A b \in {outbuf, tmpbuf, splbuf} : b.len <= b.cap

\* Whenever a stage goes on, RestoreHavoc and RestoreSplice have brought back the very
\* buffer the stage mutates: the seed, or the splice in hand.
RestoredToStage ==
    mpc \in {"idle", "stage"} =>
        /\ outbuf.len = IF spliced = 0 THEN source ELSE spliced
        /\ outbuf.data = IF spliced = 0 THEN "source" ELSE "spliced"
        /\ spliced # 0 => splbuf.data = "source" /\ splbuf.len = source

\* What is executed is never empty and never longer than MAX_FILE, although insertions
\* check the limit one by one; it is MAX_FILE long only when the stage mutates a seed or
\* a splice that has this very length, which ReadTestcases and the dictionary's
\* insertions admit while every insertion of havoc stays below.
MutantLength ==
    mpc = "run" => /\ outbuf.len \in 1..MaxFile
                   /\ outbuf.len = MaxFile => tmpbuf.len = MaxFile

\* Finds make a stage longer, in step with the score, and only so far.
StageBudget ==
    mpc # "idle" => /\ stage_max = StageMax * perf_score
                    /\ perf_score <= 2 * PerfLimit /\ havoc_cur <= stage_max

\* Havoc and splicing stay inside their buffers, their limit and their budget, and give
\* the buffer back.
HavocRight == AccessInside /\ RestoredToStage /\ MutantLength /\ StageBudget
=============================================================================
