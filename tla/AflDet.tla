------------------------------- MODULE AflDet --------------------------------
(***************************************************************************)
(* What AFL learns of a seed while it flips it: the words it offers to the *)
(* automatic dictionary (bitflip 1/1) and the effector map (bitflip 8/8),  *)
(* with the wider flips that skip what the map leaves out.                 *)
(*                                                                         *)
(* An execution is the checksum of its trace: Original, or another class.  *)
(* The two stages flip different bits of a byte, so that each has its own  *)
(* checksums.  Only the flip of a byte's last bit counts for the words;    *)
(* undoing it in the buffer gives the byte of the seed, and a collected    *)
(* byte is named by its position.                                          *)
(***************************************************************************)
EXTENDS Naturals, Sequences, FiniteSets, FiniteSetsExt, SequencesExt

CONSTANTS
    SeedLens,            \* lengths of the seeds
    Checksums, Original, \* classes of traces, and the seed's own
    MinAutoExtra, MaxAutoExtra,
    BlockSize,           \* 2^EFF_MAP_SCALE2
    EffMaxPerc, EffMinLen

ASSUME DetAssumption ==
    /\ SeedLens \subseteq Nat \ {0} /\ Original \in Checksums
    /\ MinAutoExtra \in Nat /\ MaxAutoExtra \in Nat /\ 2 <= MinAutoExtra
    /\ BlockSize \in Nat \ {0} /\ EffMaxPerc \in Nat /\ EffMinLen \in Nat

VARIABLES
    det_len, det_sums,   \* the seed: its length, the checksum of each flip
    det_stage,           \* "flip1", "flip8", "other" or "done"
    stage_cur,           \* the byte to be flipped next
    a_len, a_collect, prev_cksum,
    tokens,              \* what MaybeAddAuto was called with
    eff_map, eff_cnt,    \* the blocks that are marked, and the counter
    eff_select, eff_total,
    flipped              \* the positions executed by the stages of width 2

autoVars == <<a_len, a_collect, prev_cksum, tokens>>
effVars == <<eff_map, eff_cnt, eff_select, eff_total>>
detVars == <<det_len, det_sums, det_stage, stage_cur, autoVars, effVars, flipped>>

Positions == 0..det_len - 1

EFF_APOS(p) == p \div BlockSize
EFF_ALEN(l) == EFF_APOS(l) + (IF l % BlockSize = 0 THEN 0 ELSE 1)
EffBlocks == 0..EFF_ALEN(det_len) - 1

-----------------------------------------------------------------------------
(* Bitflip 1/1.                                                            *)

GoodLen(n) == MinAutoExtra <= n /\ n <= MaxAutoExtra

\* Mutant: the length alone tells whether a byte is collected.
CollectAlways(n, c, sum) == [len |-> n + 1, bytes |-> IF n < MaxAutoExtra THEN Append(c, stage_cur) ELSE c]

\* A byte is collected when its flip made a difference; only the counter grows past the
\* limit.
Collect(n, c, sum) ==
    IF sum = Original THEN [len |-> n, bytes |-> c]
    ELSE [len |-> n + 1, bytes |-> IF n < MaxAutoExtra THEN Append(c, stage_cur) ELSE c]

\* ConstructAutoDict, called for a byte's last bit.
ConstructAutoDict ==
    LET sum == det_sums.flip1[stage_cur]
        last == stage_cur = det_len - 1 /\ sum = prev_cksum
        forced == IF a_len < MaxAutoExtra THEN Append(a_collect, stage_cur) ELSE a_collect
        base == IF last THEN [len |-> a_len + 1, bytes |-> forced]
                ELSE IF sum # prev_cksum THEN [len |-> 0, bytes |-> <<>>]
                ELSE [len |-> a_len, bytes |-> a_collect]
        next == Collect(base.len, base.bytes, sum)
    IN  /\ tokens' = IF last /\ GoodLen(a_len + 1) THEN tokens \cup {forced}
                     ELSE IF ~last /\ sum # prev_cksum /\ GoodLen(a_len) THEN tokens \cup {a_collect}
                     ELSE tokens
        /\ prev_cksum' = sum
        /\ a_len' = next.len /\ a_collect' = next.bytes

BitFlip1WithAutoDictBuild ==
    /\ det_stage = "flip1" /\ stage_cur < det_len
    /\ ConstructAutoDict
    /\ stage_cur' = stage_cur + 1
    /\ UNCHANGED <<det_len, det_sums, det_stage, effVars, flipped>>

-----------------------------------------------------------------------------
(* Bitflip 8/8.                                                            *)

\* The set-up of ByteFlip1WithEffMapBuild: the first and the last block are marked.
StartEffMap ==
    LET marked == {0, EFF_APOS(det_len - 1)}
    IN  /\ det_stage = "flip1" /\ stage_cur = det_len
        /\ det_stage' = "flip8" /\ stage_cur' = 0
        /\ eff_map' = marked /\ eff_cnt' = Cardinality(marked)
        /\ UNCHANGED <<det_len, det_sums, autoVars, eff_select, eff_total, flipped>>

\* Mutant: every flip with an effect counts.
ConstructEffMapCounts ==
    IF det_len < EffMinLen \/ det_sums.flip8[stage_cur] # Original
    THEN eff_map' = eff_map \cup {EFF_APOS(stage_cur)} /\ eff_cnt' = eff_cnt + 1
    ELSE UNCHANGED <<eff_map, eff_cnt>>

\* Mutant: only the first byte of a block speaks for it.
ConstructEffMapFirst ==
    IF EFF_APOS(stage_cur) \notin eff_map /\ stage_cur % BlockSize = 0
           /\ det_sums.flip8[stage_cur] # Original
    THEN eff_map' = eff_map \cup {EFF_APOS(stage_cur)} /\ eff_cnt' = eff_cnt + 1
    ELSE UNCHANGED <<eff_map, eff_cnt>>

ConstructEffMap ==
    IF EFF_APOS(stage_cur) \notin eff_map
           /\ (det_len < EffMinLen \/ det_sums.flip8[stage_cur] # Original)
    THEN eff_map' = eff_map \cup {EFF_APOS(stage_cur)} /\ eff_cnt' = eff_cnt + 1
    ELSE UNCHANGED <<eff_map, eff_cnt>>

ByteFlip1WithEffMapBuild ==
    /\ det_stage = "flip8" /\ stage_cur < det_len
    /\ ConstructEffMap
    /\ stage_cur' = stage_cur + 1
    /\ UNCHANGED <<det_len, det_sums, det_stage, autoVars, eff_select, eff_total, flipped>>

\* Its end: a map that is nearly full is filled.
FinishEffMap ==
    LET all == EFF_ALEN(det_len)
        fill == eff_cnt # all /\ (eff_cnt * 100) \div all > EffMaxPerc
    IN  /\ det_stage = "flip8" /\ stage_cur = det_len
        /\ eff_map' = IF fill THEN EffBlocks ELSE eff_map
        /\ eff_select' = eff_select + (IF fill THEN all ELSE eff_cnt)
        /\ eff_total' = eff_total + all
        /\ det_stage' = "other" /\ stage_cur' = 0
        /\ UNCHANGED <<det_len, det_sums, autoVars, eff_cnt, flipped>>

\* memchr over the blocks of the bytes i to i + width - 1.
Selected(i, width) == EFF_APOS(i)..EFF_APOS(i + width - 1) \cap eff_map # {}

\* ByteFlipOther (and DoArith, DoInterest alike) for one position and the width 2.
ByteFlipOther ==
    /\ det_stage = "other" /\ stage_cur + 2 <= det_len
    /\ flipped' = IF Selected(stage_cur, 2) THEN flipped \cup {stage_cur} ELSE flipped
    /\ stage_cur' = stage_cur + 1
    /\ UNCHANGED <<det_len, det_sums, det_stage, autoVars, effVars>>

ByteFlipOtherEnds ==
    /\ det_stage = "other" /\ stage_cur + 2 > det_len
    /\ det_stage' = "done"
    /\ UNCHANGED <<det_len, det_sums, stage_cur, autoVars, effVars, flipped>>

\* An update stage asks to abandon the seed: the flow goes up, whatever was built.
Abandon ==
    /\ det_stage \in {"flip1", "flip8", "other"} /\ stage_cur < det_len
    /\ det_stage' = "done"
    /\ UNCHANGED <<det_len, det_sums, stage_cur, autoVars, effVars, flipped>>

\* The seed: the two stages share no variable, so that one of them at a time is given
\* every input.
DetSeed ==
    /\ det_len \in SeedLens
    /\ det_sums \in [{"flip1", "flip8"} -> [Positions -> Checksums]]
    /\ \/ \A p \in Positions : det_sums.flip8[p] = det_sums.flip1[p]
       \/ \A p \in Positions : det_sums.flip1[p] = Original

DetBlank ==
    /\ det_stage = "flip1" /\ stage_cur = 0
    /\ a_len = 0 /\ a_collect = <<>> /\ prev_cksum = Original /\ tokens = {}
    /\ eff_map = {} /\ eff_cnt = 0 /\ eff_select = 0 /\ eff_total = 0
    /\ flipped = {}

DetNext ==
    \/ BitFlip1WithAutoDictBuild \/ StartEffMap \/ ByteFlip1WithEffMapBuild
    \/ FinishEffMap \/ ByteFlipOther \/ ByteFlipOtherEnds \/ Abandon

-----------------------------------------------------------------------------
(* Properties.                                                             *)

\* The bytes i to j are a longest range of bytes that change the trace in the same way.
WholeRange(i, j) ==
    LET sum == det_sums.flip1
    IN  /\ i <= j /\ sum[i] # Original /\ \A k \in i..j : sum[k] = sum[i]
        /\ i = 0 \/ sum[i - 1] # sum[i]
        /\ j = det_len - 1 \/ sum[j + 1] # sum[i]

WordAt(i, j) == [k \in 1..j - i + 1 |-> i + k - 1]

\* The words a seed holds: its longest ranges, neither too short nor too long.
Words ==
    {WordAt(r[1], r[2]) :
        r \in {r \in Positions \X Positions : WholeRange(r[1], r[2]) /\ GoodLen(r[2] - r[1] + 1)}}

\* What ConstructAutoDict offers to the dictionary is what the seed holds: no word is lost
\* at the end of the file, none is cut at the limit, and no byte without effect gets in.
TokensAreWords ==
    /\ tokens \subseteq Words
    /\ (det_stage = "flip1" /\ stage_cur = det_len) => tokens = Words

\* The counter of the effector map, from which the share of marked blocks is computed,
\* counts them although a block is reached once for each of its bytes.
EffCountExact ==
    /\ det_stage = "flip8" => eff_cnt = Cardinality(eff_map)
    /\ eff_map \subseteq EffBlocks /\ eff_select <= eff_total

\* A flip of two bytes that the effector map makes the stages skip touches no byte whose
\* flip had an effect.
SkipsNoEffect ==
    \A i \in 0..det_len - 2 :
        (i < stage_cur /\ det_stage = "other" /\ i \notin flipped) =>
            \A k \in i..i + 1 : det_sums.flip8[k] = Original
=============================================================================
