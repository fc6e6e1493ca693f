--------------------------- MODULE AflStageProofs ---------------------------
(***************************************************************************)
(* Proofs about the stages that mutate a seed: what AFL learns of a seed   *)
(* on the way, the havoc and splicing stages, and the tables they draw     *)
(* from, for seeds of any length, dictionaries of any size and all         *)
(* weights.                                                                *)
(*                                                                         *)
(* The words: bitflip 1/1 is always inside one range of equal checksums,   *)
(* and tokens are the words of the ranges before it. The effector map:     *)
(* each byte that was flipped with an effect has its block in the map. The *)
(* automatic dictionary: the two sorts are a permutation, so a word is in  *)
(* it once when it was once before. The stages: the buffer differs from    *)
(* the seed under the last word only, and no later word is shorter. Havoc: *)
(* while mutations are stacked the other buffer holds what the stage       *)
(* mutates. Walker's tables: while entries are paired, the surplus of the  *)
(* large ones is what the small ones lack, and every index has its share.  *)
(***************************************************************************)
EXTENDS AflLearns, Mutator, Walker, FiniteSetTheorems, SequenceTheorems, WellFoundedInduction, TLAPS

-----------------------------------------------------------------------------
(* The words of a seed.                                                    *)

\* The words that end before byte n.
WordsBefore(n) ==
    {WordAt(r[1], r[2]) :
        r \in {r \in Positions \X Positions :
                  WholeRange(r[1], r[2]) /\ GoodLen(r[2] - r[1] + 1) /\ r[2] < n}}

\* Bitflip 1/1 is inside a range that began at byte s; the bytes past the limit are counted
\* and not collected.
RunFrom(s) ==
    /\ \A k \in s..stage_cur - 1 : det_sums.flip1[k] = prev_cksum
    /\ s = 0 \/ det_sums.flip1[s - 1] # prev_cksum
    /\ a_len = stage_cur - s
    /\ a_collect = WordAt(s, IF a_len < MaxAutoExtra THEN stage_cur - 1 ELSE s + MaxAutoExtra - 1)

DetTypes ==
    /\ det_len \in Nat \ {0}
    /\ det_sums.flip1 \in [0..det_len - 1 -> Checksums] /\ det_sums.flip8 \in [0..det_len - 1 -> Checksums]
    /\ stage_cur \in 0..det_len

\* Bitflip 1/1 has found the words that end before the byte it flipped last.
Scanned ==
    /\ tokens \subseteq Words
    /\ (det_stage = "flip1" /\ stage_cur = det_len) => tokens = Words
    /\ (det_stage = "flip1" /\ stage_cur < det_len) =>
          /\ tokens = WordsBefore(stage_cur - 1)
          /\ prev_cksum = IF stage_cur = 0 THEN Original ELSE det_sums.flip1[stage_cur - 1]
          /\ prev_cksum = Original => a_len = 0 /\ a_collect = <<>>
          /\ prev_cksum # Original => \E s \in 0..stage_cur - 1 : RunFrom(s)

\* One byte more.
LEMMA LongerWord ==
    ASSUME NEW i \in Int, NEW j \in Int, i <= j + 1
    PROVE  Append(WordAt(i, j), j + 1) = WordAt(i, j + 1)
<1>1. WordAt(i, j) \in Seq(Int) /\ Len(WordAt(i, j)) = j - i + 1
  BY DEF WordAt
<1> QED
  BY <1>1 DEF WordAt

\* No range ends before a byte that goes on with it.
LEMMA NoneEndsInside ==
    ASSUME DetTypes, NEW p \in Positions, p > 0, det_sums.flip1[p] = det_sums.flip1[p - 1]
    PROVE  WordsBefore(p) = WordsBefore(p - 1)
<1>1. ASSUME NEW i \in Positions, NEW j \in Positions, WholeRange(i, j), j < p PROVE j < p - 1
  <2>1. CASE j = p - 1
    <3>1. det_sums.flip1[j] = det_sums.flip1[i] /\ i <= j
      BY <1>1 DEF WholeRange, Positions, DetTypes
    <3>2. j # det_len - 1 /\ det_sums.flip1[j + 1] = det_sums.flip1[j]
      BY <2>1 DEF Positions, DetTypes
    <3> QED
      BY <1>1, <3>1, <3>2 DEF WholeRange
  <2> QED
    BY <1>1, <2>1 DEF Positions, DetTypes
<1>2. \A r \in Positions \X Positions :
        WholeRange(r[1], r[2]) => (r[2] < p <=> r[2] < p - 1)
  BY <1>1 DEF Positions, DetTypes
<1> QED
  BY <1>2 DEF WordsBefore

\* Where the trace changes, the range that ends is the one that bitflip 1/1 is in.
LEMMA OneEndsHere ==
    ASSUME DetTypes, NEW p \in Positions, p > 0, det_sums.flip1[p] # det_sums.flip1[p - 1],
           NEW s \in 0..p - 1, \A k \in s..p - 1 : det_sums.flip1[k] = det_sums.flip1[p - 1],
           s = 0 \/ det_sums.flip1[s - 1] # det_sums.flip1[p - 1],
           det_sums.flip1[p - 1] # Original
    PROVE  WordsBefore(p) = WordsBefore(p - 1) \cup (IF GoodLen(p - s) THEN {WordAt(s, p - 1)} ELSE {})
<1>1. s \in Positions /\ p - 1 \in Positions /\ det_sums.flip1[s] = det_sums.flip1[p - 1]
  BY DEF DetTypes, Positions
<1>2. WholeRange(s, p - 1)
  BY <1>1 DEF WholeRange, DetTypes, Positions
<1>3. ASSUME NEW i \in Positions, WholeRange(i, p - 1) PROVE i = s
  <2>1. i <= p - 1 /\ det_sums.flip1[i] = det_sums.flip1[p - 1] /\ \A k \in i..p - 1 : det_sums.flip1[k] = det_sums.flip1[p - 1]
    <3>1. i <= p - 1 /\ \A k \in i..p - 1 : det_sums.flip1[k] = det_sums.flip1[i]
      BY <1>3 DEF WholeRange
    <3> QED
      BY <3>1 DEF Positions, DetTypes
  <2>2. ~(i < s)
    BY <2>1 DEF Positions, DetTypes
  <2>3. ~(s < i)
    <3>1. CASE s < i
      <4>1. i # 0 /\ det_sums.flip1[i - 1] = det_sums.flip1[i]
        BY <2>1, <3>1 DEF Positions, DetTypes
      <4> QED
        BY <1>3, <4>1 DEF WholeRange
    <3> QED
      BY <3>1
  <2> QED
    BY <2>2, <2>3 DEF Positions, DetTypes
<1>4. p - 1 - s + 1 = p - s
  BY DEF Positions, DetTypes
<1>5. ASSUME NEW w \in WordsBefore(p)
      PROVE  w \in WordsBefore(p - 1) \cup (IF GoodLen(p - s) THEN {WordAt(s, p - 1)} ELSE {})
  <2>1. PICK i \in Positions, j \in Positions :
          WholeRange(i, j) /\ GoodLen(j - i + 1) /\ j < p /\ w = WordAt(i, j)
    BY <1>5 DEF WordsBefore
  <2>2. CASE j < p - 1
    <3>1. <<i, j>> \in Positions \X Positions
      OBVIOUS
    <3> QED
      BY <2>1, <2>2, <3>1 DEF WordsBefore
  <2>3. CASE j = p - 1
    <3>1. i = s
      BY <1>3, <2>1, <2>3
    <3>2. w = WordAt(s, p - 1) /\ GoodLen(p - s)
      BY <1>4, <2>1, <2>3, <3>1
    <3> QED
      BY <3>2
  <2> QED
    BY <2>1, <2>2, <2>3 DEF Positions, DetTypes
<1>6. WordsBefore(p - 1) \subseteq WordsBefore(p)
  <2>1. \A r \in Positions \X Positions : r[2] < p - 1 => r[2] < p
    BY DEF Positions, DetTypes
  <2> QED
    BY <2>1 DEF WordsBefore
<1>7. GoodLen(p - s) => WordAt(s, p - 1) \in WordsBefore(p)
  <2>1. p - 1 < p
    BY DEF Positions, DetTypes
  <2>2. <<s, p - 1>> \in Positions \X Positions
    BY <1>1
  <2> QED
    BY <1>2, <1>4, <2>1, <2>2 DEF WordsBefore
<1> QED
  BY <1>5, <1>6, <1>7

\* Bytes without effect are in no range.
LEMMA NoneWithoutEffect ==
    ASSUME DetTypes, NEW p \in Positions, p > 0, det_sums.flip1[p - 1] = Original
    PROVE  WordsBefore(p) = WordsBefore(p - 1)
<1>1. ASSUME NEW i \in Positions, NEW j \in Positions, WholeRange(i, j), j < p PROVE j < p - 1
  <2>1. CASE j = p - 1
    <3>1. det_sums.flip1[j] = det_sums.flip1[i] /\ det_sums.flip1[i] # Original
      BY <1>1 DEF WholeRange, Positions, DetTypes
    <3> QED
      BY <2>1, <3>1
  <2> QED
    BY <1>1, <2>1 DEF Positions, DetTypes
<1>2. \A r \in Positions \X Positions :
        WholeRange(r[1], r[2]) => (r[2] < p <=> r[2] < p - 1)
  BY <1>1 DEF Positions, DetTypes
<1> QED
  BY <1>2 DEF WordsBefore

\* The last byte ends a range: the one that goes on to it, or one of its own that is too short.
LEMMA LastEnds ==
    ASSUME DetTypes, NEW p \in Positions, p = det_len - 1
    PROVE  /\ (p = 0 \/ det_sums.flip1[p - 1] # det_sums.flip1[p]) => Words = WordsBefore(p)
           /\ det_sums.flip1[p] = Original => Words = WordsBefore(p)
           /\ \A s \in 0..p : /\ \A k \in s..p : det_sums.flip1[k] = det_sums.flip1[p]
                              /\ s = 0 \/ det_sums.flip1[s - 1] # det_sums.flip1[p]
                              /\ det_sums.flip1[p] # Original
                  => Words = WordsBefore(p) \cup (IF GoodLen(p - s + 1) THEN {WordAt(s, p)} ELSE {})
<1>0. /\ p \in Nat /\ det_len \in Nat \ {0} /\ Positions = 0..p
  BY DEF DetTypes, Positions
<1>1. WordsBefore(p) \subseteq Words
  BY DEF WordsBefore, Words
<1>2. ASSUME NEW w \in Words
      PROVE  w \in WordsBefore(p) \/ \E i \in Positions : WholeRange(i, p) /\ GoodLen(p - i + 1) /\ w = WordAt(i, p)
  <2>1. PICK i \in Positions, j \in Positions : WholeRange(i, j) /\ GoodLen(j - i + 1) /\ w = WordAt(i, j)
    BY <1>2 DEF Words
  <2>2. CASE j < p
    <3>1. <<i, j>> \in Positions \X Positions
      OBVIOUS
    <3> QED
      BY <2>1, <2>2, <3>1 DEF WordsBefore
  <2>3. CASE j = p
    BY <2>1, <2>3
  <2> QED
    BY <1>0, <2>2, <2>3
<1>3. ASSUME p = 0 \/ det_sums.flip1[p - 1] # det_sums.flip1[p], NEW i \in Positions, WholeRange(i, p)
      PROVE  ~GoodLen(p - i + 1)
  <2>1. i <= p /\ det_sums.flip1[p] = det_sums.flip1[i] /\ \A k \in i..p : det_sums.flip1[k] = det_sums.flip1[i]
    BY <1>0, <1>3 DEF WholeRange
  <2>2. i = p
    BY <1>0, <1>3, <2>1
  <2> QED
    BY <1>0, <2>2, DetAssumption DEF GoodLen
<1>4. ASSUME det_sums.flip1[p] = Original, NEW i \in Positions PROVE ~WholeRange(i, p)
  BY <1>0, <1>4 DEF WholeRange
<1>5. ASSUME NEW s \in 0..p, \A k \in s..p : det_sums.flip1[k] = det_sums.flip1[p],
             s = 0 \/ det_sums.flip1[s - 1] # det_sums.flip1[p], det_sums.flip1[p] # Original
      PROVE  Words = WordsBefore(p) \cup (IF GoodLen(p - s + 1) THEN {WordAt(s, p)} ELSE {})
  <2>1. WholeRange(s, p)
    BY <1>0, <1>5 DEF WholeRange
  <2>2. ASSUME NEW i \in Positions, WholeRange(i, p) PROVE i = s
    <3>1. i <= p /\ \A k \in i..p : det_sums.flip1[k] = det_sums.flip1[i]
      BY <2>2 DEF WholeRange
    <3>2. \A k \in i..p : det_sums.flip1[k] = det_sums.flip1[p]
      BY <1>0, <3>1
    <3>3. ~(i < s)
      BY <1>0, <1>5, <3>2
    <3>4. i = 0 \/ det_sums.flip1[i - 1] # det_sums.flip1[p]
      BY <1>0, <2>2, <3>1, <3>2 DEF WholeRange
    <3>5. ~(s < i)
      BY <1>0, <1>5, <3>1, <3>4
    <3> QED
      BY <1>0, <3>3, <3>5
  <2>3. GoodLen(p - s + 1) => WordAt(s, p) \in Words
    <3>1. <<s, p>> \in Positions \X Positions
      BY <1>0
    <3> QED
      BY <2>1, <3>1 DEF Words
  <2>4. ASSUME NEW w \in Words PROVE w \in WordsBefore(p) \/ (GoodLen(p - s + 1) /\ w = WordAt(s, p))
    BY <1>2, <2>2
  <2> QED
    BY <1>1, <2>3, <2>4
<1>6. (p = 0 \/ det_sums.flip1[p - 1] # det_sums.flip1[p]) => Words = WordsBefore(p)
  BY <1>1, <1>2, <1>3
<1>7. det_sums.flip1[p] = Original => Words = WordsBefore(p)
  BY <1>1, <1>2, <1>4
<1> QED
  BY <1>5, <1>6, <1>7

\* Nothing ends before the first byte.
LEMMA NoneBeforeFirst ==
    ASSUME DetTypes PROVE WordsBefore(0) = {} /\ WordsBefore(0 - 1) = {}
<1>1. \A r \in Positions \X Positions : ~(r[2] < 0) /\ ~(r[2] < 0 - 1)
  BY DEF Positions, DetTypes
<1> QED
  BY <1>1 DEF WordsBefore

\* The words depend on the seed alone.
LEMMA SameSeedSameWords ==
    ASSUME UNCHANGED <<det_len, det_sums>>
    PROVE  Words' = Words /\ \A n : WordsBefore(n)' = WordsBefore(n)
  BY DEF Words, WordsBefore, WholeRange, Positions, WordAt, GoodLen

\* Bitflip 1/1 hands over each word where it ends.
LEMMA FlipFindsWords ==
    ASSUME DetTypes, Scanned, BitFlip1WithAutoDictBuild
    PROVE  Scanned'
<1>a. PICK p : p = stage_cur
  OBVIOUS
<1> DEFINE sum == det_sums.flip1[p]
           flips == det_sums.flip1
<1>1. /\ det_stage = "flip1" /\ p \in Positions /\ p < det_len /\ p \in Nat /\ det_len \in Nat \ {0}
      /\ stage_cur' = p + 1 /\ det_stage' = "flip1" /\ UNCHANGED <<det_len, det_sums>> /\ ConstructAutoDict
      /\ sum \in Checksums
  BY <1>a DEF BitFlip1WithAutoDictBuild, DetTypes, Positions
<1>2. /\ tokens = WordsBefore(p - 1)
      /\ prev_cksum = IF p = 0 THEN Original ELSE flips[p - 1]
      /\ prev_cksum = Original => a_len = 0 /\ a_collect = <<>>
      /\ prev_cksum # Original => \E s \in 0..p - 1 : RunFrom(s)
  BY <1>a, <1>1 DEF Scanned
<1>3. prev_cksum' = sum
  BY <1>a, <1>1 DEF ConstructAutoDict
<1>4. Words' = Words /\ WordsBefore(p)' = WordsBefore(p) /\ flips' = flips
  BY <1>1, SameSeedSameWords
<1>5. a_len \in Nat
  BY <1>a, <1>1, <1>2 DEF RunFrom
<1> HIDE DEF sum, flips
<1>6. CASE sum # prev_cksum
  <2>1. /\ tokens' = IF GoodLen(a_len) THEN tokens \cup {a_collect} ELSE tokens
        /\ a_len' = IF sum = Original THEN 0 ELSE 1
        /\ a_collect' = IF sum # Original /\ 0 < MaxAutoExtra THEN Append(<<>>, p) ELSE <<>>
    BY <1>a, <1>1, <1>6 DEF ConstructAutoDict, Collect, sum
  <2>2. tokens' = WordsBefore(p)
    <3>1. CASE p = 0
      <4>1. ~GoodLen(a_len)
        BY <1>2, <3>1, DetAssumption DEF GoodLen
      <4> QED
        BY <1>2, <2>1, <3>1, <4>1, NoneBeforeFirst
    <3>2. CASE p > 0 /\ prev_cksum = Original
      <4>1. ~GoodLen(a_len)
        BY <1>2, <3>2, DetAssumption DEF GoodLen
      <4>2. flips[p - 1] = Original
        BY <1>1, <1>2, <3>2
      <4> QED
        BY <1>1, <1>2, <2>1, <3>2, <4>1, <4>2, NoneWithoutEffect DEF flips
    <3>3. CASE p > 0 /\ prev_cksum # Original
      <4>1. prev_cksum = flips[p - 1]
        BY <1>1, <1>2, <3>3
      <4>2. PICK s \in 0..p - 1 : RunFrom(s)
        BY <1>2, <3>3
      <4>3. /\ \A k \in s..p - 1 : flips[k] = flips[p - 1]
            /\ s = 0 \/ flips[s - 1] # flips[p - 1]
            /\ a_len = p - s
            /\ a_collect = WordAt(s, IF a_len < MaxAutoExtra THEN p - 1 ELSE s + MaxAutoExtra - 1)
        BY <1>a, <4>1, <4>2 DEF RunFrom, flips
      <4>4. GoodLen(p - s) => a_collect = WordAt(s, p - 1)
        <5>1. CASE a_len < MaxAutoExtra
          BY <4>3, <5>1
        <5>2. CASE a_len >= MaxAutoExtra /\ GoodLen(p - s)
          <6>1. s + MaxAutoExtra - 1 = p - 1
            BY <1>1, <4>3, <5>2, DetAssumption DEF GoodLen
          <6>2. ~(a_len < MaxAutoExtra)
            BY <1>5, <5>2, DetAssumption
          <6> QED
            BY <4>3, <6>1, <6>2
        <5> QED
          BY <1>5, <5>1, <5>2, DetAssumption
      <4>5. WordsBefore(p) = WordsBefore(p - 1) \cup (IF GoodLen(p - s) THEN {WordAt(s, p - 1)} ELSE {})
        <5>1. det_sums.flip1[p] # det_sums.flip1[p - 1] /\ det_sums.flip1[p - 1] # Original
          BY <1>6, <3>3, <4>1 DEF sum, flips
        <5>2. p \in Positions /\ p > 0 /\ s \in 0..p - 1
          BY <1>1, <3>3
        <5> QED
          BY <4>3, <5>1, <5>2, OneEndsHere DEF flips
      <4> QED
        BY <1>2, <2>1, <4>3, <4>4, <4>5
    <3> QED
      BY <1>1, <3>1, <3>2, <3>3
  <2>3. CASE p + 1 = det_len
    <3>1. p = 0 \/ flips[p - 1] # flips[p]
      BY <1>1, <1>2, <1>6 DEF sum, flips
    <3>2. Words = WordsBefore(p)
      BY <1>1, <2>3, <3>1, LastEnds DEF flips
    <3> QED
      BY <1>1, <1>4, <2>2, <2>3, <3>2 DEF Scanned
  <2>4. CASE p + 1 < det_len
    <3>1. WordsBefore(p) \subseteq Words
      BY DEF WordsBefore, Words
    <3>2. sum # Original => RunFrom(p)'
      <4>1. ASSUME sum # Original PROVE RunFrom(p)'
        <5>1. a_len' = 1 /\ stage_cur' = p + 1
          BY <1>1, <2>1, <4>1
        <5>2. a_collect' = WordAt(p, IF 1 < MaxAutoExtra THEN p ELSE p + MaxAutoExtra - 1)
          <6>1. Append(<<>>, p) = WordAt(p, p)
            BY <1>1 DEF WordAt
          <6>2. WordAt(p, p - 1) = <<>>
            BY <1>1 DEF WordAt
          <6>3. CASE MaxAutoExtra = 0
            BY <1>1, <2>1, <4>1, <6>2, <6>3
          <6>4. CASE MaxAutoExtra = 1
            <7>1. p + MaxAutoExtra - 1 = p
              BY <1>1, <6>4
            <7> QED
              BY <2>1, <4>1, <6>1, <6>4, <7>1
          <6>5. CASE MaxAutoExtra > 1
            BY <2>1, <4>1, <6>1, <6>5, DetAssumption
          <6> QED
            BY <6>3, <6>4, <6>5, DetAssumption
        <5>3. \A k \in p..p : flips'[k] = prev_cksum'
          BY <1>1, <1>3, <1>4 DEF sum, flips
        <5>4. p = 0 \/ flips'[p - 1] # prev_cksum'
          BY <1>1, <1>2, <1>3, <1>4, <1>6 DEF sum
        <5>5. stage_cur' - 1 = p /\ stage_cur' - p = 1
          BY <1>1, <5>1
        <5> QED
          BY <5>1, <5>2, <5>3, <5>4, <5>5 DEF RunFrom, flips, WordAt
      <4> QED
        BY <4>1
    <3>3. /\ tokens' = WordsBefore(stage_cur - 1)'
          /\ prev_cksum' = flips'[stage_cur' - 1] /\ stage_cur' # 0 /\ p \in 0..stage_cur' - 1
      <4>1. stage_cur' - 1 = p /\ stage_cur' # 0 /\ p \in 0..p
        BY <1>1
      <4>2. prev_cksum' = flips'[p]
        BY <1>3, <1>4 DEF sum, flips
      <4> QED
        BY <1>1, <2>2, <4>1, <4>2 DEF WordsBefore, WholeRange, Positions, WordAt, GoodLen
    <3>4. prev_cksum' = Original => a_len' = 0 /\ a_collect' = <<>>
      BY <1>3, <2>1
    <3>5. prev_cksum' # Original => \E s \in 0..stage_cur' - 1 : RunFrom(s)'
      BY <1>3, <3>2, <3>3
    <3>6. tokens' \subseteq Words' /\ stage_cur' # det_len'
      BY <1>1, <1>4, <2>2, <2>4, <3>1
    <3> QED
      BY <3>3, <3>4, <3>5, <3>6 DEF Scanned, flips
  <2> QED
    BY <1>1, <2>3, <2>4
<1>7. CASE sum = prev_cksum /\ p + 1 < det_len
  <2>1. /\ tokens' = tokens
        /\ sum = Original => a_len' = a_len /\ a_collect' = a_collect
        /\ sum # Original => /\ a_len' = a_len + 1
                             /\ a_collect' = IF a_len < MaxAutoExtra THEN Append(a_collect, p) ELSE a_collect
    BY <1>a, <1>1, <1>7 DEF ConstructAutoDict, Collect, sum
  <2>2. tokens' = WordsBefore(p)
    <3>1. CASE p = 0
      BY <1>2, <2>1, <3>1, NoneBeforeFirst
    <3>2. CASE p > 0
      <4>1. det_sums.flip1[p] = det_sums.flip1[p - 1]
        BY <1>1, <1>2, <1>7, <3>2 DEF sum, flips
      <4> QED
        BY <1>1, <1>2, <2>1, <3>2, <4>1, NoneEndsInside
    <3> QED
      BY <1>1, <3>1, <3>2
  <2>3. WordsBefore(p) \subseteq Words
    BY DEF WordsBefore, Words
  <2>4. stage_cur' - 1 = p /\ stage_cur' # 0 /\ stage_cur' # det_len'
    BY <1>1, <1>7
  <2>5. prev_cksum' = flips'[p]
    BY <1>3, <1>4 DEF sum, flips
  <2>6. tokens' = WordsBefore(stage_cur - 1)'
    BY <1>1, <2>2, <2>4 DEF WordsBefore, WholeRange, Positions, WordAt, GoodLen
  <2>7. prev_cksum' = Original => a_len' = 0 /\ a_collect' = <<>>
    BY <1>2, <1>3, <1>7, <2>1
  <2>8. ASSUME prev_cksum' # Original PROVE \E s \in 0..stage_cur' - 1 : RunFrom(s)'
    <3>1. PICK s \in 0..p - 1 : RunFrom(s)
      BY <1>2, <1>3, <1>7, <2>8
    <3>2. /\ \A k \in s..p - 1 : flips[k] = sum
          /\ s = 0 \/ flips[s - 1] # sum
          /\ a_len = p - s
          /\ a_collect = WordAt(s, IF a_len < MaxAutoExtra THEN p - 1 ELSE s + MaxAutoExtra - 1)
      BY <1>a, <1>7, <3>1 DEF RunFrom, flips
    <3>3. \A k \in s..p : flips[k] = sum
      BY <1>1, <3>2 DEF sum, flips
    <3>4. a_len' = p + 1 - s
      BY <1>1, <1>3, <2>1, <2>8, <3>2
    <3>5. a_collect' = WordAt(s, IF a_len' < MaxAutoExtra THEN p ELSE s + MaxAutoExtra - 1)
      <4>1. CASE a_len < MaxAutoExtra
        <5>1. a_collect' = Append(WordAt(s, p - 1), p)
          BY <1>3, <2>1, <2>8, <3>2, <4>1
        <5>2. p - 1 + 1 = p /\ p - 1 \in Int /\ s \in Int /\ s <= p - 1 + 1
          BY <1>1
        <5>3. a_collect' = WordAt(s, p)
          BY <5>1, <5>2, LongerWord
        <5>4. a_len' < MaxAutoExtra \/ s + MaxAutoExtra - 1 = p
          BY <1>1, <3>2, <3>4, <4>1, DetAssumption
        <5> QED
          BY <5>3, <5>4
      <4>2. CASE ~(a_len < MaxAutoExtra)
        <5>1. ~(a_len' < MaxAutoExtra)
          BY <1>1, <3>2, <3>4, <4>2, DetAssumption
        <5> QED
          BY <1>3, <2>1, <2>8, <3>2, <4>2, <5>1
      <4> QED
        BY <4>1, <4>2
    <3>6. RunFrom(s)'
      BY <1>3, <1>4, <2>4, <3>2, <3>3, <3>4, <3>5, <1>1 DEF RunFrom, flips, WordAt
    <3>7. s \in 0..stage_cur' - 1
      BY <1>1
    <3> QED
      BY <3>6, <3>7
  <2> QED
    BY <1>4, <2>2, <2>3, <2>4, <2>5, <2>6, <2>7, <2>8 DEF Scanned, flips
<1>8. CASE sum = prev_cksum /\ p + 1 = det_len
  <2>1. p = det_len - 1
    BY <1>1, <1>8
  <2>2. tokens' = IF GoodLen(a_len + 1)
                  THEN tokens \cup {IF a_len < MaxAutoExtra THEN Append(a_collect, p) ELSE a_collect} ELSE tokens
    BY <1>a, <1>1, <1>8, <2>1 DEF ConstructAutoDict, sum
  <2>3. WordsBefore(p) = WordsBefore(p - 1)
    <3>1. CASE p = 0
      BY <3>1, NoneBeforeFirst
    <3>2. CASE p > 0
      <4>1. det_sums.flip1[p] = det_sums.flip1[p - 1]
        BY <1>1, <1>2, <1>8, <3>2 DEF sum, flips
      <4> QED
        BY <1>1, <3>2, <4>1, NoneEndsInside
    <3> QED
      BY <1>1, <3>1, <3>2
  <2>4. CASE sum = Original
    <3>1. ~GoodLen(a_len + 1)
      BY <1>2, <1>8, <2>4, DetAssumption DEF GoodLen
    <3>2. Words = WordsBefore(p)
      BY <1>1, <2>1, <2>4, LastEnds DEF sum
    <3> QED
      BY <1>1, <1>2, <1>4, <1>8, <2>2, <2>3, <3>1, <3>2 DEF Scanned
  <2>5. CASE sum # Original
    <3>1. PICK s \in 0..p - 1 : RunFrom(s)
      BY <1>2, <1>8, <2>5
    <3>2. /\ \A k \in s..p - 1 : flips[k] = sum
          /\ s = 0 \/ flips[s - 1] # sum
          /\ a_len = p - s
          /\ a_collect = WordAt(s, IF a_len < MaxAutoExtra THEN p - 1 ELSE s + MaxAutoExtra - 1)
      BY <1>a, <1>8, <3>1 DEF RunFrom, flips
    <3>3. \A k \in s..p : flips[k] = sum
      BY <1>1, <3>2 DEF sum, flips
    <3>4. s \in 0..p /\ p - s + 1 = a_len + 1
      BY <1>1, <3>2
    <3>5. Words = WordsBefore(p) \cup (IF GoodLen(p - s + 1) THEN {WordAt(s, p)} ELSE {})
      BY <1>1, <2>1, <2>5, <3>2, <3>3, <3>4, LastEnds DEF sum, flips
    <3>6. GoodLen(a_len + 1) => a_len < MaxAutoExtra /\ Append(a_collect, p) = WordAt(s, p)
      <4>1. ASSUME GoodLen(a_len + 1) PROVE a_len < MaxAutoExtra
        BY <1>5, <4>1, DetAssumption DEF GoodLen
      <4>2. p - 1 + 1 = p /\ p - 1 \in Int /\ s \in Int /\ s <= p - 1 + 1
        BY <1>1
      <4>3. Append(WordAt(s, p - 1), p) = WordAt(s, p)
        BY <4>2, LongerWord
      <4> QED
        BY <3>2, <4>1, <4>3
    <3>7. tokens' = Words
      BY <1>2, <2>2, <2>3, <3>4, <3>5, <3>6
    <3> QED
      BY <1>1, <1>4, <1>8, <3>7 DEF Scanned
  <2> QED
    BY <2>4, <2>5
<1> QED
  BY <1>1, <1>6, <1>7, <1>8

-----------------------------------------------------------------------------
(* The effector map.                                                       *)

\* What bitflip 8/8 has shown so far is in the map, and what a wider flip left out is not.
EffMapped ==
    /\ eff_map \subseteq EffBlocks /\ eff_cnt \in Nat /\ eff_select \in Nat /\ eff_total \in Nat
    /\ eff_select <= eff_total
    /\ det_stage = "flip8" => eff_cnt = Cardinality(eff_map)
    /\ det_stage = "flip8" => \A k \in 0..stage_cur - 1 : det_sums.flip8[k] # Original => EFF_APOS(k) \in eff_map
    /\ det_stage = "other" => \A k \in Positions : det_sums.flip8[k] # Original => EFF_APOS(k) \in eff_map
    /\ det_stage = "other" => \A i \in 0..det_len - 2 : i < stage_cur /\ i \notin flipped => ~Selected(i, 2)

\* Blocks are in the order of their bytes.
LEMMA BlocksInOrder ==
    ASSUME NEW p \in Nat, NEW q \in Nat, p <= q, NEW b \in Nat \ {0}
    PROVE  p \div b \in Nat /\ q \div b \in Nat /\ p \div b <= q \div b
<1>1. p \div b \in Nat /\ q \div b \in Nat
  OBVIOUS
<1>2. p \div b <= q \div b
  OBVIOUS
<1> QED
  BY <1>1, <1>2

\* A byte before a border between blocks is in an earlier block.
LEMMA BlockBeforeBorder ==
    ASSUME NEW p \in Nat, NEW q \in Nat, p < q, NEW b \in Nat \ {0}, q % b = 0
    PROVE  p \div b < q \div b
  OBVIOUS

\* The block of a byte of the seed is a block of the map.
LEMMA BlockInMap ==
    ASSUME DetTypes, NEW p \in Positions
    PROVE  EFF_APOS(p) \in EffBlocks /\ EFF_ALEN(det_len) \in Nat \ {0}
<1> DEFINE b == BlockSize
           l == det_len
<1>1. p \in Nat /\ l \in Nat /\ p <= l /\ b \in Nat \ {0} /\ p < l
  BY DetAssumption DEF DetTypes, Positions
<1>2. p \div b \in Nat /\ l \div b \in Nat /\ p \div b <= l \div b
  BY <1>1, BlocksInOrder
<1>3. l % b = 0 => p \div b < l \div b
  BY <1>1, BlockBeforeBorder
<1> HIDE DEF b, l
<1>4. (l % b = 0 => l \div b > 0) /\ p \div b < l \div b + (IF l % b = 0 THEN 0 ELSE 1)
  BY <1>2, <1>3
<1> QED
  BY <1>2, <1>4 DEF EFF_APOS, EFF_ALEN, EffBlocks, b, l

\* The map is finite and no larger than its number of blocks.
LEMMA MapBounded ==
    ASSUME DetTypes, NEW M, M \subseteq EffBlocks
    PROVE  /\ IsFiniteSet(M) /\ Cardinality(M) \in Nat /\ Cardinality(M) <= EFF_ALEN(det_len)
           /\ EFF_ALEN(det_len) \in Nat \ {0}
<1>1. 0 \in Positions
  BY DEF DetTypes, Positions
<1>2. EFF_ALEN(det_len) \in Nat \ {0}
  BY <1>1, BlockInMap
<1>3. 0 \in Int /\ EFF_ALEN(det_len) - 1 \in Int
  BY <1>2
<1>4. IsFiniteSet(EffBlocks) /\ Cardinality(EffBlocks) = EFF_ALEN(det_len)
  BY <1>2, <1>3, FS_Interval DEF EffBlocks
<1>5. IsFiniteSet(M) /\ Cardinality(M) <= Cardinality(EffBlocks)
  BY <1>4, FS_Subset
<1> QED
  BY <1>2, <1>4, <1>5, FS_CardinalityType

\* The map and its counter as the stages build them.
LEMMA MapKept ==
    ASSUME DetTypes, EffMapped, DetNext, DetTypes'
    PROVE  EffMapped'
<1>0. /\ UNCHANGED <<det_len, det_sums>> /\ det_len \in Nat \ {0} /\ Positions = 0..det_len - 1
      /\ EffBlocks' = EffBlocks /\ Positions' = Positions /\ BlockSize \in Nat \ {0}
  BY DetAssumption DEF DetNext, DetTypes, BitFlip1WithAutoDictBuild, StartEffMap, ByteFlip1WithEffMapBuild,
     FinishEffMap, ByteFlipOther, ByteFlipOtherEnds, Abandon, EffBlocks, Positions, EFF_ALEN, EFF_APOS
<1>1. CASE BitFlip1WithAutoDictBuild
  BY <1>0, <1>1 DEF BitFlip1WithAutoDictBuild, effVars, EffMapped
<1>2. CASE StartEffMap
  <2>1. 0 \in Positions /\ det_len - 1 \in Positions
    BY <1>0
  <2>2. EFF_APOS(0) = 0
    BY <1>0 DEF EFF_APOS
  <2>3. {0, EFF_APOS(det_len - 1)} \subseteq EffBlocks
    BY <2>1, <2>2, BlockInMap
  <2>4. Cardinality({0, EFF_APOS(det_len - 1)}) \in Nat
    BY <2>3, MapBounded
  <2>5. /\ eff_map' = {0, EFF_APOS(det_len - 1)} /\ eff_cnt' = Cardinality(eff_map')
        /\ det_stage' = "flip8" /\ stage_cur' = 0 /\ UNCHANGED <<eff_select, eff_total>>
    BY <1>2 DEF StartEffMap
  <2> QED
    BY <1>0, <2>3, <2>4, <2>5 DEF EffMapped
<1>3. CASE ByteFlip1WithEffMapBuild
  <2>1. /\ det_stage = "flip8" /\ stage_cur \in Positions /\ ConstructEffMap /\ stage_cur' = stage_cur + 1
        /\ UNCHANGED <<det_stage, eff_select, eff_total, flipped>>
    BY <1>0, <1>3 DEF ByteFlip1WithEffMapBuild, DetTypes
  <2>2. EFF_APOS(stage_cur) \in EffBlocks
    BY <2>1, BlockInMap
  <2>3. IsFiniteSet(eff_map)
    BY MapBounded DEF EffMapped
  <2>4. eff_map' \subseteq EffBlocks /\ eff_cnt' \in Nat /\ eff_cnt' = Cardinality(eff_map') /\ eff_map \subseteq eff_map'
    <3>1. CASE UNCHANGED <<eff_map, eff_cnt>>
      BY <2>1, <3>1 DEF EffMapped
    <3>2. CASE /\ EFF_APOS(stage_cur) \notin eff_map
               /\ eff_map' = eff_map \cup {EFF_APOS(stage_cur)} /\ eff_cnt' = eff_cnt + 1
      <4>1. Cardinality(eff_map') = Cardinality(eff_map) + 1
        BY <2>3, <3>2, FS_AddElement
      <4> QED
        BY <2>1, <2>2, <3>2, <4>1 DEF EffMapped
    <3> QED
      BY <2>1, <3>1, <3>2 DEF ConstructEffMap
  <2>5. det_sums.flip8[stage_cur] # Original => EFF_APOS(stage_cur) \in eff_map'
    BY <2>1 DEF ConstructEffMap
  <2>6. \A k \in 0..stage_cur' - 1 : det_sums.flip8[k] # Original => EFF_APOS(k) \in eff_map'
    <3>1. \A k \in 0..stage_cur' - 1 : k \in 0..stage_cur - 1 \/ k = stage_cur
      BY <1>0, <2>1
    <3> QED
      BY <2>1, <2>4, <2>5, <3>1 DEF EffMapped
  <2> QED
    BY <1>0, <2>1, <2>4, <2>6 DEF EffMapped, EFF_APOS
<1>4. CASE FinishEffMap
  <2>1. /\ det_stage = "flip8" /\ stage_cur = det_len /\ det_stage' = "other" /\ stage_cur' = 0
        /\ UNCHANGED eff_cnt
        /\ \/ eff_map' = EffBlocks /\ eff_select' = eff_select + EFF_ALEN(det_len)
           \/ eff_map' = eff_map /\ eff_select' = eff_select + eff_cnt
        /\ eff_total' = eff_total + EFF_ALEN(det_len)
    BY <1>4 DEF FinishEffMap
  <2>2. eff_cnt \in Nat /\ eff_cnt <= EFF_ALEN(det_len) /\ EFF_ALEN(det_len) \in Nat
    BY <2>1, MapBounded DEF EffMapped
  <2>3. \A k \in Positions : det_sums.flip8[k] # Original => EFF_APOS(k) \in eff_map
    BY <1>0, <2>1 DEF EffMapped
  <2>4. \A k \in Positions : EFF_APOS(k) \in EffBlocks
    BY BlockInMap
  <2>5. eff_map' \subseteq EffBlocks /\ \A k \in Positions : det_sums.flip8[k] # Original => EFF_APOS(k) \in eff_map'
    BY <2>1, <2>3, <2>4 DEF EffMapped
  <2>6. eff_select' \in Nat /\ eff_total' \in Nat /\ eff_select' <= eff_total'
    BY <2>1, <2>2 DEF EffMapped
  <2> QED
    BY <1>0, <2>1, <2>2, <2>5, <2>6 DEF EffMapped, EFF_APOS
<1>5. CASE ByteFlipOther
  <2>1. /\ det_stage = "other" /\ stage_cur' = stage_cur + 1 /\ UNCHANGED <<det_stage, effVars>>
        /\ flipped' = IF Selected(stage_cur, 2) THEN flipped \cup {stage_cur} ELSE flipped
        /\ stage_cur \in Nat
    BY <1>5 DEF ByteFlipOther, DetTypes
  <2>2. \A i \in 0..det_len - 2 : i < stage_cur' => i < stage_cur \/ i = stage_cur
    BY <1>0, <2>1
  <2>3. \A i \in 0..det_len - 2 : i < stage_cur' /\ i \notin flipped' => ~Selected(i, 2)
    BY <2>1, <2>2 DEF EffMapped
  <2>4. \A i : Selected(i, 2)' <=> Selected(i, 2)
    BY <2>1 DEF Selected, effVars
  <2> QED
    BY <1>0, <2>1, <2>3, <2>4 DEF EffMapped, effVars, EFF_APOS
<1>6. CASE ByteFlipOtherEnds \/ Abandon
  BY <1>0, <1>6 DEF ByteFlipOtherEnds, Abandon, effVars, EffMapped
<1> QED
  BY <1>1, <1>2, <1>3, <1>4, <1>5, <1>6 DEF DetNext

-----------------------------------------------------------------------------
(* The flips together.                                                     *)

DetInv == DetTypes /\ Scanned /\ EffMapped

\* Before the first flip nothing is collected and no byte is known to matter.
LEMMA DetInitHolds == DetSeed /\ DetBlank => DetInv
<1> SUFFICES ASSUME DetSeed, DetBlank PROVE DetInv
  OBVIOUS
<1>1. DetTypes
  <2>1. det_len \in Nat \ {0} /\ det_sums \in [{"flip1", "flip8"} -> [Positions -> Checksums]]
    BY DetAssumption DEF DetSeed
  <2> QED
    BY <2>1 DEF DetTypes, DetBlank, Positions
<1>2. Scanned
  <2>1. 0 - 1 = stage_cur - 1 /\ stage_cur < det_len /\ stage_cur # det_len
    BY <1>1 DEF DetBlank, DetTypes
  <2> QED
    BY <1>1, <2>1, NoneBeforeFirst DEF Scanned, DetBlank
<1>3. EffMapped
  BY DEF EffMapped, DetBlank
<1> QED
  BY <1>1, <1>2, <1>3 DEF DetInv

\* Each flip keeps what the invariant says of the words and of the effector map.
LEMMA DetNextKeeps == DetInv /\ [DetNext]_detVars => DetInv'
<1> SUFFICES ASSUME DetInv, [DetNext]_detVars PROVE DetInv'
  OBVIOUS
<1> USE DEF DetInv
<1>1. CASE UNCHANGED detVars
  <2>1. DetTypes'
    BY <1>1 DEF detVars, DetTypes
  <2>2. Scanned'
    BY <1>1 DEF detVars, autoVars, Scanned, RunFrom, Words, WordsBefore, WordAt, WholeRange, Positions, GoodLen
  <2>3. EffMapped'
    BY <1>1 DEF detVars, effVars, EffMapped, EffBlocks, EFF_ALEN, EFF_APOS, Positions, Selected
  <2> QED
    BY <2>1, <2>2, <2>3
<1>2. CASE DetNext
  <2>1. DetTypes'
    BY <1>2 DEF DetNext, DetTypes, BitFlip1WithAutoDictBuild, StartEffMap, ByteFlip1WithEffMapBuild,
       FinishEffMap, ByteFlipOther, ByteFlipOtherEnds, Abandon
  <2>2. EffMapped'
    BY <1>2, <2>1, MapKept
  <2>3. Scanned'
    <3>1. CASE BitFlip1WithAutoDictBuild
      BY <3>1, FlipFindsWords
    <3>2. CASE ~BitFlip1WithAutoDictBuild
      <4>1. UNCHANGED <<det_len, det_sums, tokens>> /\ det_stage' # "flip1"
        BY <1>2, <3>2 DEF DetNext, StartEffMap, ByteFlip1WithEffMapBuild, FinishEffMap, ByteFlipOther,
           ByteFlipOtherEnds, Abandon, autoVars
      <4>2. Words' = Words
        BY <4>1, SameSeedSameWords
      <4> QED
        BY <4>1, <4>2 DEF Scanned
    <3> QED
      BY <3>1, <3>2
  <2> QED
    BY <2>1, <2>2, <2>3
<1> QED
  BY <1>1, <1>2

\* A pair of bytes that was left out holds no byte whose flip had an effect.
LEMMA DetInvMeans == DetInv => TokensAreWords /\ EffCountExact /\ SkipsNoEffect
<1> SUFFICES ASSUME DetInv PROVE TokensAreWords /\ EffCountExact /\ SkipsNoEffect
  OBVIOUS
<1>1. TokensAreWords /\ EffCountExact
  BY DEF DetInv, Scanned, EffMapped, TokensAreWords, EffCountExact
<1>2. ASSUME NEW i \in 0..det_len - 2, i < stage_cur, det_stage = "other", i \notin flipped,
             NEW k \in i..i + 1, det_sums.flip8[k] # Original
      PROVE  FALSE
  <2>1. i \in Nat /\ k \in Nat /\ i + 1 \in Nat /\ i <= k /\ k <= i + 1 /\ k \in Positions /\ i + 2 - 1 = i + 1
        /\ BlockSize \in Nat \ {0}
    BY DetAssumption DEF DetInv, DetTypes, Positions
  <2>2. i \div BlockSize <= k \div BlockSize /\ k \div BlockSize <= (i + 1) \div BlockSize
    BY <2>1, BlocksInOrder
  <2>3. k \div BlockSize \in Nat /\ i \div BlockSize \in Nat /\ (i + 1) \div BlockSize \in Nat
    BY <2>1, BlocksInOrder
  <2>4. EFF_APOS(k) \in EFF_APOS(i)..EFF_APOS(i + 2 - 1)
    BY <2>1, <2>2, <2>3 DEF EFF_APOS
  <2>5. EFF_APOS(k) \in eff_map
    BY <1>2, <2>1 DEF DetInv, EffMapped
  <2>6. ~Selected(i, 2)
    BY <1>2 DEF DetInv, EffMapped
  <2> QED
    BY <2>4, <2>5, <2>6 DEF Selected
<1> QED
  BY <1>1, <1>2 DEF SkipsNoEffect

-----------------------------------------------------------------------------
(* The automatic dictionary.                                               *)

\* A function on 1..n is a sequence.
LEMMA FunctionIsSeq ==
    ASSUME NEW S, NEW n \in Nat, NEW f \in [1..n -> S]
    PROVE  f \in Seq(S) /\ Len(f) = n /\ DOMAIN f = 1..n
  OBVIOUS

\* A piece of a sequence.
LEMMA PieceOf ==
    ASSUME NEW S, NEW f \in Seq(S), NEW i \in Nat \ {0}, NEW j \in Nat, i <= j + 1, j <= Len(f)
    PROVE  /\ SubSeq(f, i, j) \in Seq(S) /\ Len(SubSeq(f, i, j)) = j - i + 1
           /\ DOMAIN SubSeq(f, i, j) = 1..j - i + 1
           /\ \A k \in 1..j - i + 1 : SubSeq(f, i, j)[k] = f[i + k - 1]
<1>1. SubSeq(f, i, j) = [k \in 1..j - i + 1 |-> f[i + k - 1]]
  OBVIOUS
<1>2. j - i + 1 \in Nat /\ Len(f) \in Nat /\ DOMAIN f = 1..Len(f)
  OBVIOUS
<1>3. \A k \in 1..j - i + 1 : i + k - 1 \in 1..Len(f)
  BY <1>2
<1>4. [k \in 1..j - i + 1 |-> f[i + k - 1]] \in [1..j - i + 1 -> S]
  BY <1>2, <1>3
<1> QED
  BY <1>1, <1>2, <1>4, FunctionIsSeq

AutoWords == [data : Seq(Nat), hit : Nat]

\* No word twice and none of the user's that is in order, whatever the case.
NoDoubles(s) ==
    /\ \A i, j \in DOMAIN s : CheckEqualNocase(s[i].data, s[j].data) => i = j
    /\ \A i \in DOMAIN s, j \in DOMAIN extras :
           InOrderUpTo(extras, j) => ~CheckEqualNocase(s[i].data, extras[j])

\* Of two words of which the second is not in use the first has no fewer hits; the words in
\* use are in the order of their lengths.
AutoOrdered(s) ==
    /\ \A i, j \in DOMAIN s : i < j /\ j > UseAutoExtras => s[i].hit >= s[j].hit
    /\ \A i, j \in DOMAIN s : i < j /\ j <= UseAutoExtras => Len(s[i].data) <= Len(s[j].data)

AutoInv ==
    /\ a_extras \in Seq(AutoWords) /\ Len(a_extras) <= MaxAutoExtras /\ extras \in UserDicts
    /\ AutoOrdered(a_extras) /\ NoDoubles(a_extras)

\* A sorted sequence has the elements of the other, each in one place.
LEMMA SortedTwice ==
    ASSUME NEW s \in Seq(AutoWords), NEW t \in SortAuto(s)
    PROVE  /\ t \in Seq(AutoWords) /\ Len(t) = Len(s) /\ AutoOrdered(t)
           /\ \E p \in [1..Len(s) -> 1..Len(s)] : IsInjective(p) /\ \A i \in 1..Len(s) : t[i] = s[p[i]]
<1>a. PICK n, lim : n = Len(s) /\ lim = NumInUse(s)
  OBVIOUS
<1>1. /\ n \in Nat /\ DOMAIN s = 1..n /\ UseAutoExtras \in Nat /\ lim \in Nat /\ lim <= n
      /\ lim <= UseAutoExtras /\ (lim < n => lim = UseAutoExtras)
  BY <1>a, DictAssumption DEF NumInUse
<1>b. PICK v \in ByHits(s) : t \in SortInUse(v, lim)
  BY <1>a DEF SortAuto
<1>2. PICK u \in ByLength(SubSeq(v, 1, lim)) : t = u \o SubSeq(v, lim + 1, Len(v))
  BY <1>b DEF SortInUse
<1>3. PICK p \in [1..n -> 1..n] : IsInjective(p) /\ v = [i \in 1..n |-> s[p[i]]]
  BY <1>1, <1>b DEF Sorted, ByHits
<1>4. \A i, j \in 1..n : i < j => ~(v[j].hit > v[i].hit)
  BY <1>1, <1>b DEF Sorted, ByHits
<1>5. /\ v \in Seq(AutoWords) /\ Len(v) = n /\ DOMAIN v = 1..n
      /\ \A i \in 1..n : v[i] = s[p[i]] /\ p[i] \in 1..n
  <2>1. \A i \in 1..n : p[i] \in 1..n /\ s[p[i]] \in AutoWords
    BY <1>a, <1>1
  <2>2. v \in [1..n -> AutoWords]
    BY <1>3, <2>1
  <2>3. \A i \in 1..n : v[i] = s[p[i]]
    BY <1>3
  <2> QED
    BY <1>1, <2>1, <2>2, <2>3, FunctionIsSeq
<1>6. PICK h : h = SubSeq(v, 1, lim)
  OBVIOUS
<1>7. h \in Seq(AutoWords) /\ Len(h) = lim /\ DOMAIN h = 1..lim /\ \A i \in 1..lim : h[i] = v[i]
  <2>1. lim - 1 + 1 = lim /\ 1 <= lim + 1 /\ \A i \in 1..lim : 1 + i - 1 = i
    BY <1>1
  <2>2. /\ h \in Seq(AutoWords) /\ Len(h) = lim - 1 + 1 /\ DOMAIN h = 1..lim - 1 + 1
        /\ \A k \in 1..lim - 1 + 1 : h[k] = v[1 + k - 1]
    BY <1>1, <1>5, <1>6, <2>1, PieceOf
  <2> QED
    BY <2>1, <2>2
<1>8. PICK q \in [1..lim -> 1..lim] : IsInjective(q) /\ u = [i \in 1..lim |-> h[q[i]]]
  BY <1>2, <1>6, <1>7 DEF Sorted, ByLength
<1>9. \A i, j \in 1..lim : i < j => ~(Len(u[j].data) < Len(u[i].data))
  BY <1>2, <1>6, <1>7 DEF Sorted, ByLength
<1>10. u \in Seq(AutoWords) /\ Len(u) = lim /\ \A i \in 1..lim : u[i] = v[q[i]] /\ q[i] \in 1..lim
  <2>a. \A k \in 1..lim : h[k] \in AutoWords /\ h[k] = v[k]
    <3>1. \A k \in 1..Len(h) : h[k] \in AutoWords
      BY <1>7
    <3> QED
      BY <1>7, <3>1
  <2>b. \A i \in 1..lim : q[i] \in 1..lim
    BY <1>8
  <2>1. \A i \in 1..lim : q[i] \in 1..lim /\ h[q[i]] \in AutoWords /\ h[q[i]] = v[q[i]]
    BY <2>a, <2>b
  <2>2. u \in [1..lim -> AutoWords]
    BY <1>8, <2>1
  <2>3. \A i \in 1..lim : u[i] = h[q[i]]
    BY <1>8
  <2> QED
    BY <1>1, <2>1, <2>2, <2>3, FunctionIsSeq
<1>11. PICK rest : rest = SubSeq(v, lim + 1, n)
  OBVIOUS
<1>12. rest \in Seq(AutoWords) /\ Len(rest) = n - lim /\ \A i \in 1..n - lim : rest[i] = v[lim + i]
  <2>1. lim + 1 \in Nat \ {0} /\ lim + 1 <= n + 1 /\ n - (lim + 1) + 1 = n - lim
    BY <1>1
  <2>2. \A i \in 1..n - lim : lim + 1 + i - 1 = lim + i
    BY <1>1
  <2>3. /\ rest \in Seq(AutoWords) /\ Len(rest) = n - (lim + 1) + 1
        /\ \A k \in 1..n - (lim + 1) + 1 : rest[k] = v[lim + 1 + k - 1]
    <3>1. v \in Seq(AutoWords) /\ n \in Nat /\ n <= Len(v)
      BY <1>1, <1>5
    <3>2. PICK a : a = lim + 1
      OBVIOUS
    <3>3. a \in Nat \ {0} /\ a <= n + 1
      BY <2>1, <3>2
    <3>4. /\ SubSeq(v, a, n) \in Seq(AutoWords) /\ Len(SubSeq(v, a, n)) = n - a + 1
          /\ \A k \in 1..n - a + 1 : SubSeq(v, a, n)[k] = v[a + k - 1]
      BY <3>1, <3>3, PieceOf
    <3> QED
      BY <1>11, <3>2, <3>4
  <2> QED
    BY <2>1, <2>2, <2>3
<1>13. t = u \o rest
  BY <1>2, <1>5, <1>11
<1>14. /\ t \in Seq(AutoWords) /\ Len(t) = n
       /\ \A i \in 1..lim : t[i] = v[q[i]]
       /\ \A i \in 1..n : i > lim => t[i] = v[i]
  <2>1. /\ u \o rest \in Seq(AutoWords) /\ Len(u \o rest) = Len(u) + Len(rest)
        /\ \A k \in 1..Len(u) : (u \o rest)[k] = u[k]
        /\ \A k \in 1..Len(rest) : (u \o rest)[Len(u) + k] = rest[k]
    <3>1. u \in Seq(AutoWords) /\ rest \in Seq(AutoWords)
      BY <1>10, <1>12
    <3>2. u \o rest \in Seq(AutoWords) /\ Len(u \o rest) = Len(u) + Len(rest)
      BY <3>1
    <3>3. \A k \in 1..Len(u) : (u \o rest)[k] = u[k]
      BY <3>1
    <3>4. \A k \in 1..Len(rest) : (u \o rest)[Len(u) + k] = rest[k]
      BY <3>1
    <3> QED
      BY <3>2, <3>3, <3>4
  <2>2. lim + (n - lim) = n
    BY <1>1
  <2>3. t \in Seq(AutoWords) /\ Len(t) = n
    BY <1>10, <1>12, <1>13, <2>1, <2>2
  <2>4. \A i \in 1..lim : t[i] = v[q[i]]
    BY <1>10, <1>13, <2>1
  <2>5. ASSUME NEW i \in 1..n, i > lim PROVE t[i] = v[i]
    <3>1. i - lim \in 1..n - lim /\ lim + (i - lim) = i
      BY <1>1, <2>5
    <3>2. t[lim + (i - lim)] = rest[i - lim]
      BY <1>10, <1>12, <1>13, <2>1, <3>1
    <3> QED
      BY <1>12, <3>1, <3>2
  <2> QED
    BY <2>3, <2>4, <2>5
<1>15. PICK at \in [1..n -> 1..n] : \A i \in 1..n : at[i] = IF i <= lim THEN q[i] ELSE i
  <2>1. \A i \in 1..n : (IF i <= lim THEN q[i] ELSE i) \in 1..n
    BY <1>1, <1>10
  <2>2. [i \in 1..n |-> IF i <= lim THEN q[i] ELSE i] \in [1..n -> 1..n]
    BY <2>1
  <2> QED
    BY <2>2
<1>c. ASSUME NEW i \in 1..n
      PROVE  (i <= lim => i \in 1..lim /\ at[i] = q[i] /\ at[i] \in 1..lim) /\ (i > lim => at[i] = i)
  <2>1. i <= lim => i \in 1..lim /\ ~(i > lim)
    BY <1>1
  <2>2. i > lim => ~(i <= lim)
    BY <1>1
  <2> QED
    BY <1>10, <1>15, <2>1, <2>2
<1>16. \A i \in 1..n : t[i] = v[at[i]]
  <2>1. \A i \in 1..n : i <= lim \/ i > lim
    BY <1>1
  <2> QED
    BY <1>14, <1>c, <2>1
<1>17. \A i, j \in 1..n : at[i] = at[j] => i = j
  <2>1. \A i, j \in 1..lim : q[i] = q[j] => i = j
    BY <1>8 DEF IsInjective
  <2>2. ASSUME NEW i \in 1..n, NEW j \in 1..n, at[i] = at[j] PROVE i = j
    <3>1. CASE i <= lim /\ j <= lim
      BY <1>c, <2>1, <2>2, <3>1
    <3>2. CASE i > lim /\ j > lim
      BY <1>c, <2>2, <3>2
    <3>3. CASE i <= lim /\ j > lim
      <4>1. at[i] \in 1..lim /\ at[j] = j
        BY <1>c, <3>3
      <4> QED
        BY <1>1, <2>2, <3>3, <4>1
    <3>4. CASE i > lim /\ j <= lim
      <4>1. at[j] \in 1..lim /\ at[i] = i
        BY <1>c, <3>4
      <4> QED
        BY <1>1, <2>2, <3>4, <4>1
    <3> QED
      BY <1>1, <3>1, <3>2, <3>3, <3>4
  <2> QED
    BY <2>2
<1>18. PICK r \in [1..n -> 1..n] : r = [i \in 1..n |-> p[at[i]]]
  BY <1>3, <1>15
<1>19. IsInjective(r) /\ \A i \in 1..n : t[i] = s[r[i]]
  <2>1. \A i, j \in 1..n : r[i] = r[j] => i = j
    BY <1>3, <1>15, <1>17, <1>18 DEF IsInjective
  <2>2. \A i \in 1..n : t[i] = s[r[i]]
    BY <1>5, <1>15, <1>16, <1>18
  <2> QED
    BY <1>18, <2>1, <2>2 DEF IsInjective
<1>20. AutoOrdered(t)
  <2>0. DOMAIN t = 1..n /\ \A i \in 1..n : t[i] \in AutoWords
    BY <1>1, <1>14
  <2>1. ASSUME NEW i \in 1..n, NEW j \in 1..n, i < j, j > UseAutoExtras PROVE t[i].hit >= t[j].hit
    <3>1. j > lim /\ at[i] \in 1..n
      BY <1>1, <2>1
    <3>a. at[i] \in 1..lim \/ at[i] = i
      <4>1. i <= lim \/ i > lim
        BY <1>1
      <4> QED
        BY <1>c, <4>1
    <3>2. at[i] < j
      <4>1. PICK x \in 1..n : x = at[i]
        BY <3>1
      <4>2. x \in 1..lim \/ x = i
        BY <3>a, <4>1
      <4>3. x < j
        BY <1>1, <2>1, <3>1, <4>2
      <4> QED
        BY <4>1, <4>3
    <3>3. ~(v[j].hit > v[at[i]].hit)
      BY <1>4, <3>1, <3>2
    <3>4. t[j] = v[j] /\ t[i] = v[at[i]]
      BY <1>14, <1>16, <3>1
    <3>5. t[i].hit \in Nat /\ t[j].hit \in Nat
      BY <2>0 DEF AutoWords
    <3> QED
      BY <3>3, <3>4, <3>5
  <2>2. ASSUME NEW i \in 1..n, NEW j \in 1..n, i < j, j <= UseAutoExtras PROVE Len(t[i].data) <= Len(t[j].data)
    <3>1. i \in 1..lim /\ j \in 1..lim
      BY <1>1, <2>2
    <3>2. t[i] = u[i] /\ t[j] = u[j]
      BY <1>10, <1>14, <3>1
    <3>3. Len(t[i].data) \in Nat /\ Len(t[j].data) \in Nat
      BY <2>0 DEF AutoWords
    <3> QED
      BY <1>9, <2>2, <3>1, <3>2, <3>3
  <2> QED
    BY <2>0, <2>1, <2>2 DEF AutoOrdered
<1> QED
  BY <1>a, <1>14, <1>19, <1>20

\* What is sorted has no doubles when it had none before.
LEMMA SortedKeepsDistinct ==
    ASSUME NEW s \in Seq(AutoWords), NEW t \in SortAuto(s), NoDoubles(s)
    PROVE  NoDoubles(t)
<1>1. PICK p \in [1..Len(s) -> 1..Len(s)] : IsInjective(p) /\ \A i \in 1..Len(s) : t[i] = s[p[i]]
  BY SortedTwice
<1>2. DOMAIN t = 1..Len(s) /\ DOMAIN s = 1..Len(s)
  BY SortedTwice
<1> QED
  BY <1>1, <1>2 DEF NoDoubles, IsInjective

\* Words are equal either way round.
LEMMA NocaseSymmetric ==
    ASSUME NEW v, NEW w, DOMAIN v = 1..Len(v), DOMAIN w = 1..Len(w)
    PROVE  CheckEqualNocase(v, w) <=> CheckEqualNocase(w, v)
  BY DEF CheckEqualNocase

\* The search misses none of the user's words up to which they are in order.
LEMMA SearchFinds ==
    ASSUME extras \in UserDicts, NEW mem \in Seq(Nat), ~InExtras(mem)
    PROVE  \A j \in DOMAIN extras : InOrderUpTo(extras, j) => ~CheckEqualNocase(mem, extras[j])
<1> SUFFICES ASSUME NEW j \in DOMAIN extras, InOrderUpTo(extras, j), CheckEqualNocase(mem, extras[j])
             PROVE  FALSE
  OBVIOUS
<1> DEFINE long == {i \in DOMAIN extras : Len(extras[i]) >= Len(mem)}
<1>1. extras \in Seq(Seq(Nat)) /\ DOMAIN extras = 1..Len(extras) /\ Len(extras) \in Nat
  BY DictAssumption
<1>2. \A i \in DOMAIN extras : Len(extras[i]) \in Nat /\ DOMAIN extras[i] = 1..Len(extras[i])
  BY <1>1
<1>3. Len(mem) \in Nat /\ DOMAIN mem = 1..Len(mem) /\ Len(extras[j]) = Len(mem) /\ j \in long
  BY <1>2 DEF CheckEqualNocase
<1>4. long \subseteq Nat /\ long # {}
  BY <1>1, <1>3
<1>5. PICK R : R = {ss \in Nat \X Nat : ss[1] < ss[2]}
  OBVIOUS
<1>6. \E x \in long : \A y \in long : x <= y
  <2>1. IsWellFoundedOn(R, Nat)
    BY <1>5, NatLessThanWellFounded, Zenon DEF OpToRel
  <2>2. PICK x \in long : \A y \in long : ~(<<y, x>> \in R)
    BY <1>4, <2>1, WFMin, Zenon
  <2>3. ASSUME NEW y \in long PROVE x <= y
    <3>1. x \in Nat /\ y \in Nat
      BY <1>4
    <3>2. ~(y < x)
      BY <1>5, <2>2, <3>1
    <3> QED
      BY <3>1, <3>2
  <2> QED
    BY <2>3
<1>7. PICK from : from = CHOOSE i \in long : \A k \in long : i <= k
  OBVIOUS
<1>8. from \in long /\ from <= j
  BY <1>3, <1>6, <1>7
<1>9. \A k \in from..j : Len(extras[k]) = Len(mem)
  <2>1. ASSUME NEW k \in from..j PROVE Len(extras[k]) = Len(mem)
    <3>1. /\ k \in DOMAIN extras /\ from \in DOMAIN extras /\ from <= k /\ k <= j
          /\ k \in 1..j /\ from \in 1..j /\ j \in 1..j
      BY <1>1, <1>8
    <3>2. Len(extras[from]) <= Len(extras[k]) /\ Len(extras[k]) <= Len(extras[j])
      <4>1. from < k => Len(extras[from]) <= Len(extras[k])
        BY <3>1 DEF InOrderUpTo
      <4>2. k < j => Len(extras[k]) <= Len(extras[j])
        BY <3>1 DEF InOrderUpTo
      <4> QED
        BY <1>1, <1>2, <3>1, <4>1, <4>2
    <3> QED
      BY <1>2, <1>3, <1>8, <3>1, <3>2
  <2> QED
    BY <2>1
<1>10. CheckEqualNocase(extras[j], mem) /\ j \in from..Len(extras)
  BY <1>1, <1>2, <1>3, <1>8, NocaseSymmetric
<1> QED
  BY <1>4, <1>7, <1>9, <1>10 DEF InExtras

\* What MaybeAddAuto makes of the dictionary before it sorts.
Learned(s, mem) ==
    \/ \E i \in DOMAIN a_extras :
        CheckEqualNocase(a_extras[i].data, mem) /\ s = [a_extras EXCEPT ![i].hit = @ + 1]
    \/ /\ \A i \in DOMAIN a_extras : ~CheckEqualNocase(a_extras[i].data, mem)
       /\ \/ Len(a_extras) < MaxAutoExtras /\ s = Append(a_extras, [data |-> mem, hit |-> 0])
          \/ /\ Len(a_extras) >= MaxAutoExtras
             /\ \E i \in Replaceable : s = [a_extras EXCEPT ![i] = [data |-> mem, hit |-> 0]]

\* MaybeAddAuto sorts one of the three and leaves the user's words alone.
LEMMA AddLearns ==
    ASSUME NEW mem \in Offered, MaybeAddAuto(mem), Len(a_extras) \in Nat, MaxAutoExtras \in Nat
    PROVE  ~InExtras(mem) /\ extras' = extras /\ \E s : Learned(s, mem) /\ a_extras' \in SortAuto(s)
<1> DEFINE known == {i \in DOMAIN a_extras : CheckEqualNocase(a_extras[i].data, mem)}
           new == [data |-> mem, hit |-> 0]
<1>1. ~InExtras(mem) /\ extras' = extras
  BY DEF MaybeAddAuto
<1>2. PICK s \in IF known # {}
                 THEN {[a_extras EXCEPT ![i].hit = @ + 1] : i \in known}
                 ELSE IF Len(a_extras) < MaxAutoExtras THEN {Append(a_extras, new)}
                 ELSE {[a_extras EXCEPT ![i] = new] : i \in Replaceable} :
          a_extras' \in SortAuto(s)
  BY DEF MaybeAddAuto
<1>3. Learned(s, mem)
  <2>1. CASE known # {}
    <3>1. PICK i \in known : s = [a_extras EXCEPT ![i].hit = @ + 1]
      BY <1>2, <2>1
    <3> QED
      BY <3>1 DEF Learned
  <2>2. CASE known = {} /\ Len(a_extras) < MaxAutoExtras
    BY <1>2, <2>2 DEF Learned
  <2>3. CASE known = {} /\ ~(Len(a_extras) < MaxAutoExtras)
    <3>1. PICK i \in Replaceable : s = [a_extras EXCEPT ![i] = new]
      BY <1>2, <2>3
    <3>2. Len(a_extras) >= MaxAutoExtras
      BY <2>3
    <3> QED
      BY <2>3, <3>1, <3>2 DEF Learned
  <2> QED
    BY <2>1, <2>2, <2>3
<1> QED
  BY <1>1, <1>2, <1>3

\* Counting a hit changes no word.
LEMMA HitKeepsWords ==
    ASSUME NEW a \in Seq(AutoWords), NEW i \in DOMAIN a
    PROVE  LET s == [a EXCEPT ![i].hit = @ + 1]
           IN  /\ s \in Seq(AutoWords) /\ Len(s) = Len(a) /\ DOMAIN s = DOMAIN a
               /\ \A k \in DOMAIN a : s[k].data = a[k].data
<1> DEFINE s == [a EXCEPT ![i].hit = @ + 1]
<1>1. a[i] \in AutoWords /\ DOMAIN a = 1..Len(a) /\ Len(a) \in Nat /\ a \in [1..Len(a) -> AutoWords]
  OBVIOUS
<1>2. [a[i] EXCEPT !.hit = @ + 1] \in AutoWords /\ [a[i] EXCEPT !.hit = @ + 1].data = a[i].data
  <2>1. ASSUME NEW w \in AutoWords
        PROVE  [w EXCEPT !.hit = @ + 1] \in AutoWords /\ [w EXCEPT !.hit = @ + 1].data = w.data
    <3>1. w.hit + 1 \in Nat /\ w.data \in Seq(Nat)
      BY DEF AutoWords
    <3>2. [w EXCEPT !.hit = @ + 1] = [data |-> w.data, hit |-> w.hit + 1]
      <4>1. w = [data |-> w.data, hit |-> w.hit]
        BY DEF AutoWords
      <4>2. ASSUME NEW d, NEW h
            PROVE  [[data |-> d, hit |-> h] EXCEPT !.hit = @ + 1] = [data |-> d, hit |-> h + 1]
        OBVIOUS
      <4> QED
        BY <4>1, <4>2
    <3>3. [data |-> w.data, hit |-> w.hit + 1] \in AutoWords
      BY <3>1 DEF AutoWords
    <3> QED
      BY <3>2, <3>3
  <2> QED
    BY <1>1, <2>1
<1>3. s = [a EXCEPT ![i] = [a[i] EXCEPT !.hit = @ + 1]]
  OBVIOUS
<1>4. s \in [1..Len(a) -> AutoWords]
  BY <1>1, <1>2, <1>3
<1>5. s \in Seq(AutoWords) /\ Len(s) = Len(a) /\ DOMAIN s = DOMAIN a
  BY <1>1, <1>4, FunctionIsSeq
<1>6. \A k \in DOMAIN a : s[k].data = a[k].data
  <2>1. \A k \in DOMAIN a : k # i => s[k] = a[k]
    BY <1>3
  <2>2. s[i] = [a[i] EXCEPT !.hit = @ + 1]
    BY <1>3
  <2> QED
    BY <1>2, <2>1, <2>2
<1> QED
  BY <1>5, <1>6

\* A word put in a place.
LEMMA PutWord ==
    ASSUME NEW a \in Seq(AutoWords), NEW i \in DOMAIN a, NEW new \in AutoWords
    PROVE  LET s == [a EXCEPT ![i] = new]
           IN  /\ s \in Seq(AutoWords) /\ Len(s) = Len(a) /\ DOMAIN s = DOMAIN a
               /\ s[i] = new /\ \A k \in DOMAIN a : k # i => s[k] = a[k]
<1> DEFINE s == [a EXCEPT ![i] = new]
<1>1. DOMAIN a = 1..Len(a) /\ Len(a) \in Nat /\ a \in [1..Len(a) -> AutoWords]
  OBVIOUS
<1>2. s \in [1..Len(a) -> AutoWords]
  BY <1>1
<1>3. s \in Seq(AutoWords) /\ Len(s) = Len(a) /\ DOMAIN s = DOMAIN a
  BY <1>1, <1>2, FunctionIsSeq
<1>4. s[i] = new /\ \A k \in DOMAIN a : k # i => s[k] = a[k]
  OBVIOUS
<1> QED
  BY <1>3, <1>4

\* A word that is offered becomes no double, wherever it is put.
LEMMA AddKeepsDictionary ==
    ASSUME AutoInv, NEW mem \in Offered, MaybeAddAuto(mem)
    PROVE  AutoInv'
<1>0. /\ a_extras \in Seq(AutoWords) /\ Len(a_extras) \in Nat /\ DOMAIN a_extras = 1..Len(a_extras)
      /\ MaxAutoExtras \in Nat /\ Len(a_extras) <= MaxAutoExtras
  BY DictAssumption DEF AutoInv
<1>1. mem \in Seq(Nat)
  BY DictAssumption
<1>2. PICK s : Learned(s, mem) /\ a_extras' \in SortAuto(s)
  BY <1>0, AddLearns
<1>3. ~InExtras(mem) /\ extras' = extras
  BY <1>0, AddLearns
<1>4. \A j \in DOMAIN extras : InOrderUpTo(extras, j) => ~CheckEqualNocase(mem, extras[j])
  BY <1>1, <1>3, SearchFinds DEF AutoInv
<1>5. PICK new : new = [data |-> mem, hit |-> 0]
  OBVIOUS
<1>6. new \in AutoWords /\ new.data = mem
  BY <1>1, <1>5 DEF AutoWords
<1>7. \A k \in DOMAIN a_extras : a_extras[k].data \in Seq(Nat)
  <2>1. \A k \in DOMAIN a_extras : a_extras[k] \in AutoWords
    BY <1>0
  <2> QED
    BY <2>1 DEF AutoWords
<1>8. s \in Seq(AutoWords) /\ Len(s) <= MaxAutoExtras /\ NoDoubles(s)
  <2>1. ASSUME NEW i \in DOMAIN a_extras, s = [a_extras EXCEPT ![i].hit = @ + 1]
        PROVE  s \in Seq(AutoWords) /\ Len(s) <= MaxAutoExtras /\ NoDoubles(s)
    <3>1. /\ s \in Seq(AutoWords) /\ Len(s) = Len(a_extras) /\ DOMAIN s = DOMAIN a_extras
          /\ \A k \in DOMAIN a_extras : s[k].data = a_extras[k].data
      BY <1>0, <2>1, HitKeepsWords
    <3> QED
      BY <1>0, <3>1 DEF AutoInv, NoDoubles
  <2>2. ASSUME \A i \in DOMAIN a_extras : ~CheckEqualNocase(a_extras[i].data, mem),
               Len(a_extras) < MaxAutoExtras, s = Append(a_extras, new)
        PROVE  s \in Seq(AutoWords) /\ Len(s) <= MaxAutoExtras /\ NoDoubles(s)
    <3>1. s \in Seq(AutoWords) /\ Len(s) = Len(a_extras) + 1 /\ DOMAIN s = 1..Len(a_extras) + 1
      BY <1>0, <1>6, <2>2
    <3>2. s[Len(a_extras) + 1] = new /\ \A k \in DOMAIN a_extras : s[k] = a_extras[k]
      BY <1>0, <1>6, <2>2
    <3>3. \A k \in DOMAIN s : k \in DOMAIN a_extras \/ k = Len(a_extras) + 1
      BY <1>0, <3>1
    <3>4. \A k \in DOMAIN a_extras : ~CheckEqualNocase(mem, a_extras[k].data)
      BY <1>1, <1>7, <2>2, NocaseSymmetric
    <3>5. NoDoubles(s)
      BY <1>4, <1>6, <2>2, <3>2, <3>3, <3>4 DEF AutoInv, NoDoubles
    <3> QED
      BY <1>0, <2>2, <3>1, <3>5
  <2>3. ASSUME \A i \in DOMAIN a_extras : ~CheckEqualNocase(a_extras[i].data, mem),
               Len(a_extras) >= MaxAutoExtras, NEW i \in Replaceable, s = [a_extras EXCEPT ![i] = new]
        PROVE  s \in Seq(AutoWords) /\ Len(s) <= MaxAutoExtras /\ NoDoubles(s)
    <3>1. i \in DOMAIN a_extras
      <4>1. MaxAutoExtras \div 2 \in Nat
        BY <1>0
      <4> QED
        BY <1>0, <2>3, <4>1 DEF Replaceable
    <3>2. /\ s \in Seq(AutoWords) /\ Len(s) = Len(a_extras) /\ DOMAIN s = DOMAIN a_extras
          /\ s[i] = new /\ \A k \in DOMAIN a_extras : k # i => s[k] = a_extras[k]
      BY <1>0, <1>6, <2>3, <3>1, PutWord
    <3>4. \A k \in DOMAIN a_extras : ~CheckEqualNocase(mem, a_extras[k].data)
      BY <1>1, <1>7, <2>3, NocaseSymmetric
    <3>5. NoDoubles(s)
      BY <1>4, <1>6, <2>3, <3>2, <3>4 DEF AutoInv, NoDoubles
    <3> QED
      BY <1>0, <3>2, <3>5
  <2> QED
    BY <1>2, <1>5, <2>1, <2>2, <2>3 DEF Learned
<1>9. /\ a_extras' \in Seq(AutoWords) /\ Len(a_extras') = Len(s) /\ AutoOrdered(a_extras')
  BY <1>2, <1>8, SortedTwice
<1>10. NoDoubles(a_extras')
  BY <1>2, <1>8, SortedKeepsDistinct
<1>11. AutoOrdered(a_extras)' /\ NoDoubles(a_extras)'
  BY <1>3, <1>9, <1>10 DEF AutoOrdered, NoDoubles, InOrderUpTo
<1> QED
  BY <1>3, <1>8, <1>9, <1>11 DEF AutoInv

\* Sorting loses no word.
LEMMA SortedKeepsAll ==
    ASSUME NEW s \in Seq(AutoWords), NEW t \in SortAuto(s), NEW i \in DOMAIN s
    PROVE  \E k \in DOMAIN t : t[k] = s[i]
<1>1. PICK n : n = Len(s)
  OBVIOUS
<1>2. PICK p \in [1..n -> 1..n] : IsInjective(p) /\ \A k \in 1..n : t[k] = s[p[k]]
  BY <1>1, SortedTwice
<1>3. n \in Nat /\ DOMAIN s = 1..n /\ DOMAIN t = 1..n /\ 1 \in Int /\ n \in Int
  BY <1>1, SortedTwice
<1>4. IsFiniteSet(1..n)
  BY <1>3, FS_Interval
<1>5. p \in Injection(1..n, 1..n)
  BY <1>2 DEF IsInjective, Injection
<1>6. p \in Surjection(1..n, 1..n)
  BY <1>4, <1>5, FS_Injection
<1>7. \E k \in 1..n : p[k] = i
  BY <1>3, <1>6 DEF Surjection
<1> QED
  BY <1>2, <1>3, <1>7

\* What MaybeAddAuto throws out is in the lower half, where the hits are in order.
LEMMA AddKeepsHot ==
    ASSUME AutoInv, NEW mem \in Offered, MaybeAddAuto(mem), NEW i \in DOMAIN a_extras,
           \A k \in DOMAIN a_extras' : a_extras'[k].data # a_extras[i].data
    PROVE  \A j \in 1..MaxAutoExtras \div 2 : a_extras[j].hit >= a_extras[i].hit
<1>0. /\ a_extras \in Seq(AutoWords) /\ Len(a_extras) \in Nat /\ DOMAIN a_extras = 1..Len(a_extras)
      /\ MaxAutoExtras \in Nat /\ Len(a_extras) <= MaxAutoExtras /\ UseAutoExtras \in Nat
  BY DictAssumption DEF AutoInv
<1>1. mem \in Seq(Nat)
  BY DictAssumption
<1>2. PICK s : Learned(s, mem) /\ a_extras' \in SortAuto(s)
  BY <1>0, AddLearns
<1>3. PICK new : new = [data |-> mem, hit |-> 0]
  OBVIOUS
<1>4. new \in AutoWords
  BY <1>1, <1>3 DEF AutoWords
<1>5. ASSUME s \in Seq(AutoWords), i \in DOMAIN s, s[i].data = a_extras[i].data PROVE FALSE
  <2>1. PICK k \in DOMAIN a_extras' : a_extras'[k] = s[i]
    BY <1>2, <1>5, SortedKeepsAll
  <2> QED
    BY <1>5, <2>1
<1>6. ASSUME NEW h \in DOMAIN a_extras, s = [a_extras EXCEPT ![h].hit = @ + 1] PROVE FALSE
  <2>1. /\ s \in Seq(AutoWords) /\ DOMAIN s = DOMAIN a_extras
        /\ \A k \in DOMAIN a_extras : s[k].data = a_extras[k].data
    BY <1>0, <1>6, HitKeepsWords
  <2> QED
    BY <1>5, <2>1
<1>7. ASSUME s = Append(a_extras, new) PROVE FALSE
  <2>1. s \in Seq(AutoWords) /\ DOMAIN s = 1..Len(a_extras) + 1
    BY <1>0, <1>4, <1>7
  <2>2. s[i] = a_extras[i] /\ i \in DOMAIN s
    BY <1>0, <1>4, <1>7, <2>1
  <2> QED
    BY <1>5, <2>1, <2>2
<1>8. ASSUME NEW r \in Replaceable, Len(a_extras) >= MaxAutoExtras, s = [a_extras EXCEPT ![r] = new]
      PROVE  \A j \in 1..MaxAutoExtras \div 2 : a_extras[j].hit >= a_extras[i].hit
  <2>0. MaxAutoExtras \div 2 \in Nat /\ MaxAutoExtras \div 2 <= MaxAutoExtras /\ UseAutoExtras <= MaxAutoExtras \div 2
    BY <1>0, DictAssumption
  <2>1. r \in DOMAIN a_extras /\ r > MaxAutoExtras \div 2 /\ r > UseAutoExtras
    BY <1>0, <1>8, <2>0 DEF Replaceable
  <2>2. /\ s \in Seq(AutoWords) /\ DOMAIN s = DOMAIN a_extras
        /\ \A k \in DOMAIN a_extras : k # r => s[k] = a_extras[k]
    BY <1>0, <1>4, <1>8, <2>1, PutWord
  <2>3. i = r
    BY <1>5, <2>2
  <2>4. \A j \in 1..MaxAutoExtras \div 2 : j \in DOMAIN a_extras /\ j < r
    BY <1>0, <1>8, <2>0, <2>1
  <2> QED
    BY <2>1, <2>3, <2>4 DEF AutoInv, AutoOrdered
<1> QED
  BY <1>2, <1>3, <1>6, <1>7, <1>8 DEF Learned

-----------------------------------------------------------------------------
(* The stages.                                                             *)

\* While words are written over the seed from smallest to largest the buffer differs from
\* it under the last word only, and no word to come is shorter than that one; while words
\* are inserted the buffer begins with the seed's head.
Covered ==
    /\ \A k \in 1..Len(FuzzedSeed) :
           k < dict_pos \/ k > dict_pos + last_len - 1 => dict_buf[k] = FuzzedSeed[k]
    /\ \A k \in 1..Len(WordsInUse) : k >= dict_next => last_len <= Len(WordsInUse[k])
    /\ sent # <<>> => \E w \in Range(WordsInUse) : sent = Replaced(FuzzedSeed, dict_pos, w)

Overwriting ==
    /\ dict_pos \in 1..Len(FuzzedSeed) /\ Len(dict_buf) = Len(FuzzedSeed)
    /\ dict_pos + last_len - 1 <= Len(FuzzedSeed)
    /\ dict_next = 1 => last_len = 0
    /\ InSizeOrder => Covered

Inserting ==
    /\ dict_pos \in 1..Len(FuzzedSeed) + 1 /\ dict_pos - 1 <= Len(dict_buf)
    /\ \A k \in 1..dict_pos - 1 : dict_buf[k] = FuzzedSeed[k]
    /\ sent # <<>> => \E w \in Range(extras) :
           sent = SubSeq(FuzzedSeed, 1, dict_pos - 1) \o w \o SubSeq(FuzzedSeed, dict_pos, Len(FuzzedSeed))

BufInv ==
    /\ dict_stage \in {"none", "auto", "user", "insert"}
    /\ dict_pos \in Nat \ {0} /\ dict_next \in Nat \ {0} /\ last_len \in Nat /\ dict_buf \in Seq(Nat)
    /\ dict_stage \in {"auto", "user"} => Overwriting
    /\ dict_stage = "insert" => Inserting
    /\ dict_stage = "none" => sent = <<>>

\* The words a stage takes; in an orderly one they are in the order of their lengths.
LEMMA UsedInOrder ==
    ASSUME AutoInv
    PROVE  /\ WordsInUse \in Seq(Seq(Nat)) /\ Len(WordsInUse) \in Nat /\ DOMAIN WordsInUse = 1..Len(WordsInUse)
           /\ \A i \in 1..Len(WordsInUse) :
                  WordsInUse[i] \in Seq(Nat) /\ Len(WordsInUse[i]) \in Nat /\ WordsInUse[i] \in Range(WordsInUse)
           /\ InSizeOrder => \A i, j \in 1..Len(WordsInUse) : i < j => Len(WordsInUse[i]) <= Len(WordsInUse[j])
<1>1. CASE dict_stage = "auto"
  <2>1. PICK n : n = NumInUse(a_extras)
    OBVIOUS
  <2>2. n \in Nat /\ n <= Len(a_extras) /\ n <= UseAutoExtras /\ UseAutoExtras \in Nat /\ DOMAIN a_extras = 1..Len(a_extras)
        /\ Len(a_extras) \in Nat
    BY <2>1, DictAssumption DEF AutoInv, NumInUse
  <2>3. \A i \in 1..n : i \in DOMAIN a_extras
    BY <2>2
  <2>4. \A i \in DOMAIN a_extras : a_extras[i].data \in Seq(Nat)
    <3>1. \A i \in DOMAIN a_extras : a_extras[i] \in AutoWords
      BY DEF AutoInv
    <3> QED
      BY <3>1 DEF AutoWords
  <2>5. WordsInUse = [i \in 1..n |-> a_extras[i].data]
    BY <1>1, <2>1 DEF WordsInUse
  <2>6. WordsInUse \in [1..n -> Seq(Nat)]
    BY <2>3, <2>4, <2>5
  <2>7. WordsInUse \in Seq(Seq(Nat)) /\ Len(WordsInUse) = n /\ DOMAIN WordsInUse = 1..n
    BY <2>2, <2>6, FunctionIsSeq
  <2>8. \A i \in 1..n : WordsInUse[i] = a_extras[i].data /\ WordsInUse[i] \in Seq(Nat)
    BY <2>3, <2>4, <2>5
  <2>9. \A i, j \in 1..n : i < j => Len(a_extras[i].data) <= Len(a_extras[j].data)
    <3>1. \A j \in 1..n : j <= UseAutoExtras
      BY <2>2
    <3> QED
      BY <2>3, <3>1 DEF AutoInv, AutoOrdered
  <2>10. \A i \in 1..n : Len(WordsInUse[i]) \in Nat
    BY <2>8
  <2>11. \A i \in 1..n : WordsInUse[i] \in Range(WordsInUse)
    BY <2>7 DEF Range
  <2> QED
    BY <2>2, <2>7, <2>8, <2>9, <2>10, <2>11
<1>2. CASE dict_stage # "auto"
  <2>1. WordsInUse = extras /\ extras \in Seq(Seq(Nat)) /\ extras \in UserDicts
    BY <1>2, DictAssumption DEF WordsInUse, AutoInv
  <2>2. DOMAIN extras = 1..Len(extras) /\ Len(extras) \in Nat
    BY <2>1
  <2>3. \A i \in 1..Len(extras) : extras[i] \in Seq(Nat)
    BY <2>1
  <2>4. \A i \in 1..Len(extras) : Len(extras[i]) \in Nat
    BY <2>3
  <2>5. \A i \in 1..Len(extras) : extras[i] \in Range(extras)
    BY <2>2 DEF Range
  <2>6. InSizeOrder => \A i, j \in 1..Len(extras) : i < j => Len(extras[i]) <= Len(extras[j])
    BY <1>2 DEF InSizeOrder, InOrder, InOrderUpTo
  <2> QED
    BY <2>1, <2>2, <2>3, <2>4, <2>5, <2>6
<1> QED
  BY <1>1, <1>2

\* The words in use have lengths.
LEMMA UsedTyped == AutoInv => \A i \in 1..Len(WordsInUse) : Len(WordsInUse[i]) \in Nat
  BY UsedInOrder

\* A word written over a buffer.
LEMMA ReplacedIs ==
    ASSUME NEW b \in Seq(Nat), Len(b) = Len(FuzzedSeed), NEW p \in 1..Len(FuzzedSeed), NEW w \in Seq(Nat),
           p + Len(w) - 1 <= Len(FuzzedSeed)
    PROVE  Replaced(b, p, w) \in Seq(Nat) /\ Len(Replaced(b, p, w)) = Len(FuzzedSeed)
<1>1. PICK n, m : n = Len(FuzzedSeed) /\ m = Len(w)
  OBVIOUS
<1>2. n \in Nat /\ m \in Nat /\ DOMAIN b = 1..n /\ DOMAIN w = 1..m /\ p \in 1..n
  BY <1>1, DictAssumption
<1>4. Replaced(b, p, w) = [k \in 1..n |-> IF k \in p..p + m - 1 THEN w[k - p + 1] ELSE b[k]]
  BY <1>1, <1>2 DEF Replaced
<1>6. \A k \in 1..n : (IF k \in p..p + m - 1 THEN w[k - p + 1] ELSE b[k]) \in Nat
  <2>1. \A k \in 1..n : b[k] \in Nat
    BY <1>2
  <2>2. \A k \in 1..n : k \in p..p + m - 1 => k - p + 1 \in 1..m
    BY <1>2
  <2>3. \A k \in 1..m : w[k] \in Nat
    BY <1>2
  <2> QED
    BY <2>1, <2>2, <2>3
<1>7. Replaced(b, p, w) \in [1..n -> Nat]
  BY <1>4, <1>6
<1> QED
  BY <1>1, <1>2, <1>7, FunctionIsSeq

\* A word written over a buffer that differs from the seed under the word only.
LEMMA WrittenOver ==
    ASSUME NEW b \in Seq(Nat), Len(b) = Len(FuzzedSeed), NEW p \in 1..Len(FuzzedSeed), NEW w \in Seq(Nat),
           p + Len(w) - 1 <= Len(FuzzedSeed), NEW l \in Nat, l <= Len(w),
           \A k \in 1..Len(FuzzedSeed) : k < p \/ k > p + l - 1 => b[k] = FuzzedSeed[k]
    PROVE  /\ Replaced(b, p, w) = Replaced(FuzzedSeed, p, w)
           /\ \A k \in 1..Len(FuzzedSeed) : k < p \/ k > p + Len(w) - 1 => Replaced(b, p, w)[k] = FuzzedSeed[k]
<1>1. PICK n, m : n = Len(FuzzedSeed) /\ m = Len(w)
  OBVIOUS
<1>2. n \in Nat /\ m \in Nat /\ DOMAIN b = 1..n /\ DOMAIN FuzzedSeed = 1..n /\ DOMAIN w = 1..m /\ p \in 1..n
  BY <1>1, DictAssumption
<1>3. \A k \in 1..n : k \in p..p + m - 1 \/ (b[k] = FuzzedSeed[k] /\ k \notin p..p + m - 1)
  BY <1>1, <1>2
<1>4. /\ Replaced(b, p, w) = [k \in 1..n |-> IF k \in p..p + m - 1 THEN w[k - p + 1] ELSE b[k]]
      /\ Replaced(FuzzedSeed, p, w) = [k \in 1..n |-> IF k \in p..p + m - 1 THEN w[k - p + 1] ELSE FuzzedSeed[k]]
  BY <1>1, <1>2 DEF Replaced
<1>5. Replaced(b, p, w) = Replaced(FuzzedSeed, p, w)
  BY <1>3, <1>4
<1>9. \A k \in 1..n : k < p \/ k > p + m - 1 => Replaced(b, p, w)[k] = FuzzedSeed[k]
  <2>1. \A k \in 1..n : k < p \/ k > p + m - 1 => k \notin p..p + m - 1
    BY <1>2
  <2> QED
    BY <1>3, <1>4, <2>1
<1> QED
  BY <1>1, <1>5, <1>9

\* DictOverwrite: in an orderly stage the word covers what the one before it has written.
LEMMA OverwriteKeeps ==
    ASSUME AutoInv, BufInv, DictOverwrite
    PROVE  BufInv'
<1> DEFINE w == WordsInUse[dict_next]
<1>0. /\ dict_stage \in {"auto", "user"} /\ dict_next <= Len(WordsInUse) /\ dict_next' = dict_next + 1
      /\ UNCHANGED <<extras, a_extras, dict_stage, dict_pos>>
  BY DEF DictOverwrite
<1>1. WordsInUse' = WordsInUse /\ InSizeOrder' = InSizeOrder
  BY <1>0 DEF WordsInUse, InSizeOrder
<1>2. Overwriting /\ dict_next \in Nat \ {0} /\ last_len \in Nat /\ dict_buf \in Seq(Nat) /\ dict_pos \in Nat \ {0}
      /\ dict_next + 1 \in Nat \ {0} /\ dict_next + 1 # 1
  BY <1>0 DEF BufInv
<1>3. /\ Len(WordsInUse) \in Nat /\ dict_next \in 1..Len(WordsInUse)
      /\ \A i \in 1..Len(WordsInUse) :
             WordsInUse[i] \in Seq(Nat) /\ Len(WordsInUse[i]) \in Nat /\ WordsInUse[i] \in Range(WordsInUse)
      /\ InSizeOrder => \A i, j \in 1..Len(WordsInUse) : i < j => Len(WordsInUse[i]) <= Len(WordsInUse[j])
  BY <1>0, <1>2, UsedInOrder
<1>4. \A k \in 1..Len(WordsInUse) : k >= dict_next + 1 => k >= dict_next /\ dict_next < k
  BY <1>2
<1>5. w \in Seq(Nat) /\ Len(w) \in Nat /\ w \in Range(WordsInUse)
  BY <1>3
<1>6. CASE UNCHANGED <<dict_buf, last_len, sent>>
  <2>1. ASSUME Covered PROVE Covered'
    <3>1. \A k \in 1..Len(WordsInUse) : k >= dict_next + 1 => last_len <= Len(WordsInUse[k])
      BY <1>4, <2>1 DEF Covered
    <3> QED
      BY <1>0, <1>1, <1>6, <2>1, <3>1 DEF Covered, Replaced
  <2>2. Overwriting'
    BY <1>0, <1>1, <1>2, <1>6, <2>1 DEF Overwriting
  <2> QED
    BY <1>0, <1>2, <1>6, <2>2 DEF BufInv
<1>7. CASE /\ ~(Len(w) > Len(FuzzedSeed) - dict_pos + 1)
           /\ dict_buf' = Replaced(dict_buf, dict_pos, w) /\ last_len' = Len(w) /\ sent' = dict_buf'
  <2>1. Len(FuzzedSeed) \in Nat /\ dict_pos \in 1..Len(FuzzedSeed) /\ Len(dict_buf) = Len(FuzzedSeed)
    BY <1>2, DictAssumption DEF Overwriting
  <2>2. dict_pos + Len(w) - 1 <= Len(FuzzedSeed)
    BY <1>5, <1>7, <2>1
  <2>3. dict_buf' \in Seq(Nat) /\ Len(dict_buf') = Len(FuzzedSeed)
    BY <1>2, <1>5, <1>7, <2>1, <2>2, ReplacedIs
  <2>4. ASSUME InSizeOrder, Covered PROVE Covered'
    <3>1. \A k \in 1..Len(FuzzedSeed) :
              k < dict_pos \/ k > dict_pos + last_len - 1 => dict_buf[k] = FuzzedSeed[k]
      BY <2>4 DEF Covered
    <3>2. last_len <= Len(w)
      BY <1>2, <1>3, <2>4 DEF Covered
    <3>3. /\ dict_buf' = Replaced(FuzzedSeed, dict_pos, w)
          /\ \A k \in 1..Len(FuzzedSeed) :
                 k < dict_pos \/ k > dict_pos + Len(w) - 1 => dict_buf'[k] = FuzzedSeed[k]
      BY <1>2, <1>5, <1>7, <2>1, <2>2, <3>1, <3>2, WrittenOver
    <3>4. \A k \in 1..Len(WordsInUse) : k >= dict_next + 1 => Len(w) <= Len(WordsInUse[k])
      BY <1>3, <1>4, <2>4
    <3>5. \E v \in Range(WordsInUse) : sent' = Replaced(FuzzedSeed, dict_pos, v)
      BY <1>5, <1>7, <3>3
    <3>6. (\E v \in Range(WordsInUse) : sent = Replaced(FuzzedSeed, dict_pos, v))'
      BY <1>0, <1>1, <3>5 DEF Replaced
    <3> HIDE DEF w
    <3> QED
      BY <1>0, <1>1, <1>7, <3>3, <3>4, <3>6 DEF Covered
  <2>5. Overwriting'
    BY <1>0, <1>1, <1>2, <1>5, <1>7, <2>1, <2>2, <2>3, <2>4 DEF Overwriting
  <2> QED
    BY <1>0, <1>2, <1>5, <1>7, <2>3, <2>5 DEF BufInv
<1> QED
  BY <1>6, <1>7 DEF DictOverwrite

\* What the last word covered is brought back.
LEMMA RestoreKeeps ==
    ASSUME AutoInv, BufInv, Restore
    PROVE  BufInv'
<1>0. /\ dict_stage \in {"auto", "user"} /\ dict_next' = 1 /\ last_len' = 0 /\ sent' = <<>>
      /\ dict_buf' = Replaced(dict_buf, dict_pos, SubSeq(FuzzedSeed, dict_pos, dict_pos + last_len - 1))
      /\ \/ dict_stage' = "none" /\ dict_pos' = dict_pos
         \/ dict_pos # Len(FuzzedSeed) /\ dict_pos' = dict_pos + 1 /\ dict_stage' = dict_stage
      /\ UNCHANGED <<extras, a_extras>>
  BY DEF Restore
<1>1. Overwriting /\ last_len \in Nat /\ dict_buf \in Seq(Nat) /\ dict_pos \in Nat \ {0}
  BY <1>0 DEF BufInv
<1>2. PICK n, e : n = Len(FuzzedSeed) /\ e = dict_pos + last_len - 1
  OBVIOUS
<1>3. /\ n \in Nat /\ FuzzedSeed \in Seq(Nat) /\ DOMAIN FuzzedSeed = 1..n /\ DOMAIN dict_buf = 1..n
      /\ dict_pos \in 1..n /\ e \in Nat /\ e <= n /\ dict_pos <= e + 1 /\ e - dict_pos + 1 = last_len
  BY <1>1, <1>2, DictAssumption DEF Overwriting
<1>4. PICK w : w = SubSeq(FuzzedSeed, dict_pos, e)
  OBVIOUS
<1>5. /\ w \in Seq(Nat) /\ Len(w) = last_len
      /\ \A k \in 1..last_len : w[k] = FuzzedSeed[dict_pos + k - 1]
  BY <1>1, <1>2, <1>3, <1>4, PieceOf
<1>6. dict_buf' \in Seq(Nat) /\ Len(dict_buf') = n
  BY <1>0, <1>1, <1>2, <1>3, <1>4, <1>5, ReplacedIs DEF Overwriting
<1>7. Replaced(dict_buf, dict_pos, w) =
        [k \in 1..n |-> IF k \in dict_pos..e THEN w[k - dict_pos + 1] ELSE dict_buf[k]]
  BY <1>2, <1>3, <1>5 DEF Replaced
<1>9. ASSUME InSizeOrder PROVE dict_buf' = FuzzedSeed
  <2>1. ASSUME NEW k \in 1..n, k \in dict_pos..e PROVE w[k - dict_pos + 1] = FuzzedSeed[k]
    <3>1. k - dict_pos + 1 \in 1..last_len /\ dict_pos + (k - dict_pos + 1) - 1 = k
      BY <1>3, <2>1
    <3> QED
      BY <1>5, <3>1
  <2>2. ASSUME NEW k \in 1..n, k \notin dict_pos..e PROVE dict_buf[k] = FuzzedSeed[k]
    <3>1. k < dict_pos \/ k > dict_pos + last_len - 1
      BY <1>2, <1>3, <2>2
    <3> QED
      BY <1>1, <1>2, <1>9, <3>1 DEF Overwriting, Covered
  <2>3. FuzzedSeed = [k \in 1..n |-> FuzzedSeed[k]]
    BY <1>3
  <2> QED
    BY <1>0, <1>2, <1>4, <1>7, <2>1, <2>2, <2>3
<1>10. CASE dict_stage' = "none" /\ dict_pos' = dict_pos
  BY <1>0, <1>1, <1>3, <1>6, <1>10 DEF BufInv
<1>11. CASE dict_pos # Len(FuzzedSeed) /\ dict_pos' = dict_pos + 1 /\ dict_stage' = dict_stage
  <2>1. dict_pos' \in 1..n /\ dict_pos' \in Nat \ {0} /\ dict_pos' + 0 - 1 <= n
    BY <1>2, <1>3, <1>11
  <2>2. WordsInUse' = WordsInUse /\ InSizeOrder' = InSizeOrder
    BY <1>0, <1>11 DEF WordsInUse, InSizeOrder
  <2>3. \A k \in 1..Len(WordsInUse) : 0 <= Len(WordsInUse[k])
    BY UsedInOrder
  <2>4. Overwriting'
    BY <1>0, <1>2, <1>6, <1>9, <2>1, <2>2, <2>3 DEF Overwriting, Covered
  <2> QED
    BY <1>0, <1>3, <1>6, <1>11, <2>1, <2>4 DEF BufInv
<1> QED
  BY <1>0, <1>10, <1>11

\* The head of the buffer is the head of the seed.
LEMMA SameHead ==
    ASSUME NEW b \in Seq(Nat), NEW p \in 1..Len(FuzzedSeed) + 1, p - 1 <= Len(b),
           \A k \in 1..p - 1 : b[k] = FuzzedSeed[k]
    PROVE  /\ SubSeq(b, 1, p - 1) = SubSeq(FuzzedSeed, 1, p - 1)
           /\ SubSeq(b, 1, p - 1) \in Seq(Nat) /\ Len(SubSeq(b, 1, p - 1)) = p - 1
           /\ \A k \in 1..p - 1 : SubSeq(b, 1, p - 1)[k] = FuzzedSeed[k]
<1>1. PICK m : m = p - 1
  OBVIOUS
<1>2. /\ m \in Nat /\ 1 <= m + 1 /\ m <= Len(b) /\ m <= Len(FuzzedSeed) /\ FuzzedSeed \in Seq(Nat) /\ m - 1 + 1 = m
      /\ 1 \in Nat \ {0}
  BY <1>1, DictAssumption
<1>3. \A k \in 1..m : 1 + k - 1 = k
  BY <1>2
<1>4. SubSeq(b, 1, m) \in Seq(Nat) /\ Len(SubSeq(b, 1, m)) = m /\ \A k \in 1..m : SubSeq(b, 1, m)[k] = b[k]
  BY <1>2, <1>3, PieceOf
<1>5. /\ SubSeq(FuzzedSeed, 1, m) \in Seq(Nat) /\ Len(SubSeq(FuzzedSeed, 1, m)) = m
      /\ \A k \in 1..m : SubSeq(FuzzedSeed, 1, m)[k] = FuzzedSeed[k]
  BY <1>2, <1>3, PieceOf
<1>6. \A k \in 1..m : SubSeq(b, 1, m)[k] = SubSeq(FuzzedSeed, 1, m)[k]
  BY <1>1, <1>4, <1>5
<1>7. SubSeq(b, 1, m) = SubSeq(FuzzedSeed, 1, m)
  BY <1>2, <1>4, <1>5, <1>6
<1> QED
  BY <1>1, <1>4, <1>5, <1>7

\* UserDictInsert: the head stays, the word and the tail come behind it.
LEMMA InsertKeeps ==
    ASSUME AutoInv, BufInv, DictInsert
    PROVE  BufInv'
<1>0. /\ dict_stage = "insert" /\ dict_next <= Len(extras)
      /\ UNCHANGED <<extras, a_extras, dict_stage, dict_pos, last_len>>
  BY DEF DictInsert
<1>1. Inserting /\ dict_buf \in Seq(Nat) /\ dict_pos \in Nat \ {0} /\ dict_next \in Nat \ {0} /\ last_len \in Nat
  BY <1>0 DEF BufInv
<1>2. extras \in Seq(Seq(Nat)) /\ Len(extras) \in Nat /\ DOMAIN extras = 1..Len(extras)
  BY DictAssumption DEF AutoInv
<1>3. CASE dict_next' = Len(extras) + 1 /\ UNCHANGED <<dict_buf, sent>>
  <2>1. Inserting'
    BY <1>0, <1>1, <1>3 DEF Inserting
  <2>2. Len(extras) + 1 \in Nat \ {0}
    BY <1>2
  <2> QED
    BY <1>0, <1>1, <1>3, <2>1, <2>2 DEF BufInv
<1>4. CASE /\ dict_next' = dict_next + 1
           /\ dict_buf' = SubSeq(dict_buf, 1, dict_pos - 1) \o extras[dict_next]
                              \o SubSeq(FuzzedSeed, dict_pos, Len(FuzzedSeed))
           /\ sent' = dict_buf'
  <2>1. PICK w, h, t : /\ w = extras[dict_next] /\ h = SubSeq(dict_buf, 1, dict_pos - 1)
                       /\ t = SubSeq(FuzzedSeed, dict_pos, Len(FuzzedSeed))
    OBVIOUS
  <2>2. w \in Seq(Nat) /\ w \in Range(extras)
    <3>1. dict_next \in 1..Len(extras)
      BY <1>0, <1>1, <1>2
    <3>2. \A i \in 1..Len(extras) : extras[i] \in Seq(Nat)
      BY <1>2
    <3> QED
      BY <1>2, <2>1, <3>1, <3>2 DEF Range
  <2>3. /\ h = SubSeq(FuzzedSeed, 1, dict_pos - 1) /\ h \in Seq(Nat) /\ Len(h) = dict_pos - 1
        /\ \A k \in 1..dict_pos - 1 : h[k] = FuzzedSeed[k]
    BY <1>1, <2>1, SameHead DEF Inserting
  <2>4. t \in Seq(Nat)
    <3>1. FuzzedSeed \in Seq(Nat) /\ Len(FuzzedSeed) \in Nat /\ dict_pos <= Len(FuzzedSeed) + 1
      BY <1>1, DictAssumption DEF Inserting
    <3> QED
      BY <1>1, <2>1, <3>1, PieceOf
  <2>5. h \o w \in Seq(Nat) /\ Len(h \o w) = Len(h) + Len(w) /\ \A k \in 1..Len(h) : (h \o w)[k] = h[k]
    BY <2>2, <2>3
  <2>6. PICK hw : hw = h \o w
    OBVIOUS
  <2>7. hw \o t \in Seq(Nat) /\ Len(hw \o t) = Len(hw) + Len(t) /\ \A k \in 1..Len(hw) : (hw \o t)[k] = hw[k]
    BY <2>4, <2>5, <2>6
  <2>8. dict_buf' = hw \o t
    BY <1>4, <2>1, <2>6
  <2>9. Len(w) \in Nat /\ Len(t) \in Nat /\ Len(hw) \in Nat /\ Len(h) <= Len(hw) /\ Len(h) <= Len(hw \o t)
    <3>1. Len(w) \in Nat /\ Len(t) \in Nat /\ Len(h) \in Nat
      BY <2>2, <2>3, <2>4
    <3> QED
      BY <2>5, <2>6, <2>7, <3>1
  <2>10. \A k \in 1..dict_pos - 1 : dict_buf'[k] = FuzzedSeed[k]
    <3>1. \A k \in 1..dict_pos - 1 : k \in 1..Len(h) /\ k \in 1..Len(hw)
      BY <1>1, <2>3, <2>9
    <3> QED
      BY <2>3, <2>5, <2>6, <2>7, <2>8, <3>1
  <2>11. dict_pos - 1 <= Len(dict_buf') /\ dict_buf' \in Seq(Nat)
    BY <2>3, <2>7, <2>8, <2>9
  <2>12. sent' = SubSeq(FuzzedSeed, 1, dict_pos - 1) \o w \o SubSeq(FuzzedSeed, dict_pos, Len(FuzzedSeed))
    BY <1>4, <2>1, <2>3
  <2>13. Inserting'
    BY <1>0, <1>1, <2>2, <2>10, <2>11, <2>12 DEF Inserting
  <2> QED
    BY <1>0, <1>1, <1>4, <2>11, <2>13 DEF BufInv
<1> QED
  BY <1>3, <1>4 DEF DictInsert

\* The head grows by the seed's next byte.
LEMMA HeadKeeps ==
    ASSUME BufInv, InsertHead
    PROVE  BufInv'
<1>0. /\ dict_stage = "insert" /\ dict_next' = 1 /\ sent' = <<>> /\ UNCHANGED last_len
      /\ \/ dict_stage' = "none" /\ UNCHANGED <<dict_pos, dict_buf>>
         \/ /\ ~(dict_pos > Len(FuzzedSeed)) /\ dict_pos' = dict_pos + 1 /\ UNCHANGED dict_stage
            /\ dict_buf' = Append(SubSeq(dict_buf, 1, dict_pos - 1), FuzzedSeed[dict_pos])
  BY DEF InsertHead
<1>1. Inserting /\ dict_buf \in Seq(Nat) /\ dict_pos \in Nat \ {0} /\ last_len \in Nat
  BY <1>0 DEF BufInv
<1>2. CASE dict_stage' = "none" /\ UNCHANGED <<dict_pos, dict_buf>>
  BY <1>0, <1>1, <1>2 DEF BufInv
<1>3. CASE /\ ~(dict_pos > Len(FuzzedSeed)) /\ dict_pos' = dict_pos + 1 /\ UNCHANGED dict_stage
           /\ dict_buf' = Append(SubSeq(dict_buf, 1, dict_pos - 1), FuzzedSeed[dict_pos])
  <2>1. PICK h : h = SubSeq(dict_buf, 1, dict_pos - 1)
    OBVIOUS
  <2>2. h \in Seq(Nat) /\ Len(h) = dict_pos - 1 /\ \A k \in 1..dict_pos - 1 : h[k] = FuzzedSeed[k]
    BY <1>1, <2>1, SameHead DEF Inserting
  <2>3. FuzzedSeed \in Seq(Nat) /\ Len(FuzzedSeed) \in Nat /\ dict_pos \in 1..Len(FuzzedSeed) /\ FuzzedSeed[dict_pos] \in Nat
    BY <1>1, <1>3, DictAssumption
  <2>4. PICK x \in Nat : x = FuzzedSeed[dict_pos]
    BY <2>3
  <2>5. Append(h, x) \in Seq(Nat) /\ Len(Append(h, x)) = dict_pos
    BY <1>1, <2>2
  <2>6. \A k \in 1..dict_pos - 1 : Append(h, x)[k] = h[k]
    BY <2>2
  <2>7. Append(h, x)[dict_pos] = x
    BY <1>1, <2>2
  <2>8. dict_pos' - 1 = dict_pos /\ dict_pos' \in 1..Len(FuzzedSeed) + 1 /\ dict_pos' \in Nat \ {0}
    BY <1>3, <2>3
  <2>9. \A k \in 1..dict_pos : k \in 1..dict_pos - 1 \/ k = dict_pos
    BY <1>1
  <2>10. \A k \in 1..dict_pos : dict_buf'[k] = FuzzedSeed[k]
    BY <1>3, <2>1, <2>2, <2>4, <2>6, <2>7, <2>9
  <2>11. dict_buf' \in Seq(Nat) /\ Len(dict_buf') = dict_pos
    BY <1>3, <2>1, <2>4, <2>5
  <2>12. dict_pos <= dict_pos
    BY <1>1
  <2>13. Inserting'
    BY <1>0, <2>8, <2>10, <2>11, <2>12 DEF Inserting
  <2> QED
    BY <1>0, <1>1, <1>3, <2>8, <2>11, <2>13 DEF BufInv
<1> QED
  BY <1>0, <1>2, <1>3

\* A stage starts from the seed, or from an empty buffer.
LEMMA StartKeeps ==
    ASSUME AutoInv, AutoInv', NEW stage \in {"auto", "user", "insert"}, StartStage(stage)
    PROVE  BufInv'
<1>0. /\ dict_stage' = stage /\ dict_pos' = 1 /\ dict_next' = 1 /\ last_len' = 0 /\ sent' = <<>>
      /\ dict_buf' = IF stage = "insert" THEN <<>> ELSE FuzzedSeed
  BY DEF StartStage
<1>1. FuzzedSeed \in Seq(Nat) /\ Len(FuzzedSeed) \in Nat /\ Len(FuzzedSeed) # 0
  BY DictAssumption
<1>2. \A k \in 1..Len(WordsInUse)' : 0 <= Len(WordsInUse[k])'
  <2>1. (\A i \in 1..Len(WordsInUse) : Len(WordsInUse[i]) \in Nat)'
    BY UsedTyped, PTL
  <2> QED
    BY <2>1
<1>3. CASE stage = "insert"
  BY <1>0, <1>1, <1>3 DEF BufInv, Inserting
<1>4. CASE stage # "insert"
  <2>1. Overwriting'
    BY <1>0, <1>1, <1>2, <1>4 DEF Overwriting, Covered
  <2> QED
    BY <1>0, <1>1, <1>4, <2>1 DEF BufInv
<1> QED
  BY <1>3, <1>4

\* The automatic dictionary is empty in the beginning.
LEMMA AutoInitHolds == DictInit => AutoInv
  BY DictAssumption DEF DictInit, AutoInv, AutoOrdered, NoDoubles

\* Only MaybeAddAuto changes the automatic dictionary.
LEMMA AutoNextKeeps == AutoInv /\ [DictNext]_dictVars => AutoInv'
<1> SUFFICES ASSUME AutoInv, [DictNext]_dictVars PROVE AutoInv'
  OBVIOUS
<1>1. CASE \E mem \in Offered : MaybeAddAuto(mem)
  BY <1>1, AddKeepsDictionary
<1>2. CASE UNCHANGED <<extras, a_extras>>
  BY <1>2 DEF AutoInv, AutoOrdered, NoDoubles
<1> QED
  BY <1>1, <1>2 DEF DictNext, StartStage, DictOverwrite, Restore, DictInsert, InsertHead, dictVars

\* No stage runs in the beginning.
LEMMA BufInitHolds == DictInit => BufInv
  BY DictAssumption DEF DictInit, BufInv

\* Each step of the stages keeps what they rely on.
LEMMA BufNextKeeps ==
    ASSUME AutoInv, BufInv, [DictNext]_dictVars
    PROVE  BufInv'
<1>1. CASE \E mem \in Offered : MaybeAddAuto(mem)
  BY <1>1 DEF MaybeAddAuto, BufInv, dictStageVars
<1>2. CASE \E stage \in {"auto", "user", "insert"} : StartStage(stage)
  BY <1>2, AutoNextKeeps, StartKeeps
<1>3. CASE DictOverwrite
  BY <1>3, OverwriteKeeps
<1>4. CASE Restore
  BY <1>4, RestoreKeeps
<1>5. CASE DictInsert
  BY <1>5, InsertKeeps
<1>6. CASE InsertHead
  BY <1>6, HeadKeeps
<1>7. CASE UNCHANGED dictVars
  BY <1>7 DEF dictVars, dictStageVars, BufInv, Overwriting, Covered, InSizeOrder, Inserting, WordsInUse, NumInUse
<1> QED
  BY <1>1, <1>2, <1>3, <1>4, <1>5, <1>6, <1>7 DEF DictNext

\* The invariants have the properties of the dictionary stages.
LEMMA DictInvMeans == AutoInv /\ BufInv => AutoDistinct /\ OverwriteRestores /\ OneWordAtATime
<1> SUFFICES ASSUME AutoInv, BufInv PROVE AutoDistinct /\ OverwriteRestores /\ OneWordAtATime
  OBVIOUS
<1>1. AutoDistinct
  BY DEF AutoInv, NoDoubles, AutoDistinct
<1>2. OverwriteRestores
  <2> SUFFICES ASSUME InSizeOrder, dict_stage \in {"auto", "user"}, dict_next = 1 PROVE dict_buf = FuzzedSeed
    BY DEF OverwriteRestores, SeedRestored
  <2>1. dict_buf \in Seq(Nat) /\ FuzzedSeed \in Seq(Nat) /\ Len(dict_buf) = Len(FuzzedSeed)
        /\ last_len = 0 /\ dict_pos \in Nat /\ Len(FuzzedSeed) \in Nat
    BY DictAssumption DEF BufInv, Overwriting
  <2>2. \A k \in 1..Len(FuzzedSeed) : k < dict_pos \/ k > dict_pos + last_len - 1
    BY <2>1
  <2>3. \A k \in 1..Len(FuzzedSeed) : dict_buf[k] = FuzzedSeed[k]
    BY <2>2 DEF BufInv, Overwriting, Covered
  <2> QED
    BY <2>1, <2>3
<1>3. OneWordAtATime
  BY DEF BufInv, Overwriting, Covered, Inserting, OneWordAtATime
<1> QED
  BY <1>1, <1>2, <1>3

\* THEOREM: whatever the user's dictionary, a word that MaybeAddAuto throws out had no more
\* hits than any word of the upper half.
THEOREM HotStay == LearnsSpec => HotWordsKept
<1>1. AutoInv /\ [DictNext]_dictVars => HotWordsStay
  <2> SUFFICES ASSUME AutoInv, DictNext, NEW i \in DOMAIN a_extras,
                      \A k \in DOMAIN a_extras' : a_extras'[k].data # a_extras[i].data
               PROVE  \A j \in 1..MaxAutoExtras \div 2 : a_extras[j].hit >= a_extras[i].hit
    BY DEF HotWordsStay
  <2>1. PICK mem \in Offered : MaybeAddAuto(mem)
    <3>1. a_extras' # a_extras
      OBVIOUS
    <3> QED
      BY <3>1 DEF DictNext, StartStage, DictOverwrite, Restore, DictInsert, InsertHead
  <2> QED
    BY <2>1, AddKeepsHot
<1> QED
  BY <1>1, AutoInitHolds, AutoNextKeeps, PTL DEF LearnsSpec, HotWordsKept

\* THEOREM: what AFL learns of a seed is true of it, for every dictionary file: the
\* automatic words have no doubles, the ones used most stay, and every mutant is the seed
\* with one word, the user's words being in the order of their lengths where that matters.
THEOREM LearnsRight == LearnsSpec => AflLearnsRight
<1>1. DetSeed /\ DetBlank /\ DictInit => DetInv /\ AutoInv /\ BufInv
  BY DetInitHolds, AutoInitHolds, BufInitHolds
<1>2. DetInv /\ AutoInv /\ BufInv /\ [DetNext]_detVars /\ [DictNext]_dictVars => DetInv' /\ AutoInv' /\ BufInv'
  BY DetNextKeeps, AutoNextKeeps, BufNextKeeps
<1>3. DetInv /\ AutoInv /\ BufInv 
            => /\ TokensAreWords /\ EffCountExact /\ SkipsNoEffect
               /\ AutoDistinct /\ OverwriteRestores /\ OneWordAtATime
  BY DetInvMeans, DictInvMeans
<1> QED
  BY <1>1, <1>2, <1>3, HotStay, PTL DEF LearnsSpec, AflLearnsRight

-----------------------------------------------------------------------------
(* Havoc and splicing.                                                     *)

Buffer == [cap : Nat, len : Nat, data : {"none", "source", "spliced", "havoc"}]

\* The length and the contents of what the stage mutates.
StageLen == IF spliced = 0 THEN source ELSE spliced
StageData == IF spliced = 0 THEN "source" ELSE "spliced"

MutatorTypes ==
    /\ source \in SourceLens /\ spliced \in TargetLens \cup {0}
    /\ outbuf \in Buffer /\ tmpbuf \in Buffer /\ splbuf \in Buffer
    /\ access \in [reach : Nat, len : Nat]
    /\ mpc \in {"idle", "stage", "stack", "run", "gone"}
    /\ havoc_cur \in Nat /\ stage_max \in Nat /\ perf_score \in Nat

\* While mutations are stacked, the other buffer holds what the stage mutates, and the
\* turn that is under way is one of the budget's.
HavocUnderWay ==
    mpc \in {"stack", "run", "gone"} =>
        /\ tmpbuf.len = StageLen /\ tmpbuf.data = StageData
        /\ outbuf.len \in 1..MaxFile
        /\ outbuf.len = MaxFile => StageLen = MaxFile
        /\ havoc_cur < stage_max

SourceKept == spliced # 0 => splbuf.data = "source" /\ splbuf.len = source

MutatorInv ==
    MutatorTypes /\ AccessInside /\ RestoredToStage /\ HavocUnderWay /\ SourceKept /\ StageBudget

LEMMA StageLenIs ==
    ASSUME MutatorTypes
    PROVE  StageLen \in 1..MaxFile /\ StageLen \in Nat /\ StageLen >= 1 /\ source \in Nat
  BY MutatorAssumption DEF MutatorTypes, StageLen

\* A block is not empty, at most as long as the limit and as the largest block.
LEMMA BlockLens ==
    ASSUME NEW limit \in Nat \ {0}, NEW n \in ChooseBlockLen(limit)
    PROVE  n \in Nat /\ 1 <= n /\ n <= limit /\ n <= HavocBlk[4]
  <1>1. /\ HavocBlk[1] \in Nat \ {0} /\ HavocBlk[2] \in Nat \ {0} /\ HavocBlk[3] \in Nat \ {0}
        /\ HavocBlk[4] \in Nat \ {0}
        /\ HavocBlk[1] <= HavocBlk[2] /\ HavocBlk[2] <= HavocBlk[3] /\ HavocBlk[3] <= HavocBlk[4]
    <2>1. /\ HavocBlk[1] <= HavocBlk[1 + 1] /\ HavocBlk[2] <= HavocBlk[2 + 1]
          /\ HavocBlk[3] <= HavocBlk[3 + 1]
      BY MutatorAssumption
    <2>2. 1 \in 1..4 /\ 2 \in 1..4 /\ 3 \in 1..4 /\ 4 \in 1..4 /\ 1 + 1 = 2 /\ 2 + 1 = 3 /\ 3 + 1 = 4
      OBVIOUS
    <2> QED
      BY <2>1, <2>2, MutatorAssumption
  <1>2. ASSUME NEW lo \in Nat \ {0}, NEW hi \in Nat, hi <= HavocBlk[4],
               n \in (IF lo >= limit THEN 1 ELSE lo)..(IF hi < limit THEN hi ELSE limit)
        PROVE  n \in Nat /\ 1 <= n /\ n <= limit /\ n <= HavocBlk[4]
    BY <1>1, <1>2
  <1>3. \/ n \in (IF 1 >= limit THEN 1 ELSE 1)..(IF HavocBlk[1] < limit THEN HavocBlk[1] ELSE limit)
        \/ \E i \in 1..3 : n \in (IF HavocBlk[i] >= limit THEN 1 ELSE HavocBlk[i])
                                   ..(IF HavocBlk[i + 1] < limit THEN HavocBlk[i + 1] ELSE limit)
    BY DEF ChooseBlockLen
  <1>4. CASE n \in (IF 1 >= limit THEN 1 ELSE 1)..(IF HavocBlk[1] < limit THEN HavocBlk[1] ELSE limit)
    BY <1>1, <1>2, <1>4
  <1>5. ASSUME NEW i \in 1..3,
               n \in (IF HavocBlk[i] >= limit THEN 1 ELSE HavocBlk[i])
                       ..(IF HavocBlk[i + 1] < limit THEN HavocBlk[i + 1] ELSE limit)
        PROVE  n \in Nat /\ 1 <= n /\ n <= limit /\ n <= HavocBlk[4]
    <2>1. HavocBlk[i] \in Nat \ {0} /\ HavocBlk[i + 1] \in Nat /\ HavocBlk[i + 1] <= HavocBlk[4]
      <3>1. i = 1 \/ i = 2 \/ i = 3
        OBVIOUS
      <3>2. 1 + 1 = 2 /\ 2 + 1 = 3 /\ 3 + 1 = 4
        OBVIOUS
      <3> QED
        BY <1>1, <3>1, <3>2
    <2>2. PICK hi \in Nat : hi = HavocBlk[i + 1]
      BY <2>1
    <2>3. PICK lo \in Nat \ {0} : lo = HavocBlk[i]
      BY <2>1
    <2> QED
      BY <1>2, <1>5, <2>1, <2>2, <2>3
  <1> QED
    BY <1>3, <1>4, <1>5

\* What is true of every effect of a mutation of len bytes.
Right(e, len) ==
    /\ e.reach \in Nat /\ e.len \in Nat /\ e.moved \in BOOLEAN
    /\ e.reach <= len
    /\ e.len \in 1..MaxFile
    /\ IF e.moved THEN e.len < MaxFile ELSE e.len <= len

LEMMA EffectIs ==
    ASSUME NEW r, NEW l, NEW m
    PROVE  Effect(r, l, m).reach = r /\ Effect(r, l, m).len = l /\ Effect(r, l, m).moved = m
  BY DEF Effect

LEMMA RightInPlace ==
    ASSUME NEW len \in Nat, NEW r \in Nat, NEW l \in Nat, r <= len, l \in 1..MaxFile, l <= len
    PROVE  Right(Effect(r, l, FALSE), len)
  BY DEF Right, Effect

LEMMA RightMoved ==
    ASSUME NEW len \in Nat, NEW r \in Nat, NEW l \in Nat, r <= len, l \in 1..MaxFile, l < MaxFile
    PROVE  Right(Effect(r, l, TRUE), len)
  BY DEF Right, Effect

LEMMA Blk4 == HavocBlk[4] \in Nat \ {0} /\ MaxFile \in Nat
  BY MutatorAssumption

LEMMA FixedWidthRight ==
    ASSUME NEW len \in 1..MaxFile, NEW e \in FixedWidth(len)
    PROVE  Right(e, len)
  <1>0. len \in Nat /\ len >= 1
    BY MutatorAssumption
  <1>1. CASE \E pos \in 0..len * 8 - 1 : e = Effect(pos \div 8 + 1, len, FALSE)
    <2>1. PICK pos \in 0..len * 8 - 1 : e = Effect(pos \div 8 + 1, len, FALSE)
      BY <1>1
    <2>2. pos \div 8 + 1 \in Nat /\ pos \div 8 + 1 <= len /\ len <= len
      BY <1>0
    <2> QED
      BY <1>0, <2>1, <2>2, RightInPlace
  <1>2. CASE \E w \in {1, 2, 4} : w <= len /\ \E pos \in 0..len - w : e = Effect(pos + w, len, FALSE)
    <2>1. PICK w \in {1, 2, 4} : w <= len /\ \E p \in 0..len - w : e = Effect(p + w, len, FALSE)
      BY <1>2
    <2>2. PICK p \in 0..len - w : e = Effect(p + w, len, FALSE)
      BY <2>1
    <2>3. p + w \in Nat /\ p + w <= len /\ len <= len
      BY <1>0, <2>1
    <2> QED
      BY <1>0, <2>2, <2>3, RightInPlace
  <1> QED
    BY <1>1, <1>2 DEF FixedWidth

LEMMA DeleteRight ==
    ASSUME NEW len \in 1..MaxFile, NEW e \in DeleteBytes(len)
    PROVE  Right(e, len)
  <1>a. ~(len < 2)
    BY DEF DeleteBytes
  <1>0. len \in Nat /\ len >= 2 /\ MaxFile \in Nat
    BY <1>a, Blk4
  <1>1. PICK n \in ChooseBlockLen(len - 1) : e = Effect(len, len - n, FALSE)
    BY <1>a DEF DeleteBytes
  <1>2. n \in Nat /\ 1 <= n /\ n <= len - 1
    <2>1. len - 1 \in Nat \ {0}
      BY <1>0
    <2> QED
      BY <2>1, BlockLens
  <1>3. len - n \in Nat /\ len - n \in 1..MaxFile /\ len - n <= len /\ len <= len
    BY <1>0, <1>2
  <1> QED
    BY <1>0, <1>1, <1>3, RightInPlace

LEMMA CloneRight ==
    ASSUME NEW len \in 1..MaxFile, NEW e \in CloneBytes(len)
    PROVE  Right(e, len)
  <1>0. len \in Nat \ {0} /\ MaxFile \in Nat /\ HavocBlk[4] \in Nat /\ len + HavocBlk[4] < MaxFile
    <2>1. ~(len + HavocBlk[4] >= MaxFile)
      BY DEF CloneBytes
    <2> QED
      BY <2>1, Blk4
  <1>1. PICK n \in ChooseBlockLen(len) : \E from \in 0..len - n : e = Effect(from + n, len + n, TRUE)
    BY DEF CloneBytes
  <1>2. n \in Nat /\ 1 <= n /\ n <= len /\ n <= HavocBlk[4]
    BY <1>0, BlockLens
  <1>3. PICK from \in 0..len - n : e = Effect(from + n, len + n, TRUE)
    BY <1>1
  <1>4. from + n \in Nat /\ from + n <= len /\ len + n \in Nat /\ len + n \in 1..MaxFile /\ len + n < MaxFile
    BY <1>0, <1>2
  <1> QED
    BY <1>0, <1>3, <1>4, RightMoved

LEMMA InsertSameRight ==
    ASSUME NEW len \in 1..MaxFile, NEW e \in InsertSameByte(len)
    PROVE  Right(e, len)
  <1>0. len \in Nat \ {0} /\ MaxFile \in Nat /\ HavocBlk[4] \in Nat \ {0} /\ len + HavocBlk[4] < MaxFile
    <2>1. ~(len + HavocBlk[4] >= MaxFile)
      BY DEF InsertSameByte
    <2> QED
      BY <2>1, Blk4
  <1>1. PICK n \in ChooseBlockLen(HavocBlk[4]) : e = Effect(len, len + n, TRUE)
    BY DEF InsertSameByte
  <1>2. n \in Nat /\ 1 <= n /\ n <= HavocBlk[4]
    BY <1>0, BlockLens
  <1>3. len + n \in Nat /\ len + n \in 1..MaxFile /\ len + n < MaxFile /\ len <= len
    BY <1>0, <1>2
  <1> QED
    BY <1>0, <1>1, <1>3, RightMoved

LEMMA OverwriteRight ==
    ASSUME NEW len \in 1..MaxFile, NEW e \in OverwriteBytes(len)
    PROVE  Right(e, len)
  <1>a. ~(len < 2)
    BY DEF OverwriteBytes
  <1>0. len \in Nat /\ len >= 2 /\ MaxFile \in Nat
    BY <1>a, Blk4
  <1>1. PICK n \in ChooseBlockLen(len - 1) : \E at \in 0..len - n : e = Effect(at + n, len, FALSE)
    BY <1>a DEF OverwriteBytes
  <1>2. n \in Nat /\ 1 <= n /\ n <= len - 1
    <2>1. len - 1 \in Nat \ {0}
      BY <1>0
    <2> QED
      BY <2>1, BlockLens
  <1>3. PICK at \in 0..len - n : e = Effect(at + n, len, FALSE)
    BY <1>1
  <1>4. at + n \in Nat /\ at + n <= len /\ len <= len
    BY <1>0, <1>2
  <1> QED
    BY <1>0, <1>3, <1>4, RightInPlace

LEMMA ExtraRight ==
    ASSUME NEW len \in 1..MaxFile, NEW words, words \subseteq Nat \ {0},
           NEW e \in OverwriteExtra(len, words) \cup InsertExtra(len, words)
    PROVE  Right(e, len)
  <1>0. len \in Nat /\ len >= 1 /\ MaxFile \in Nat
    BY MutatorAssumption
  <1>1. CASE e \in OverwriteExtra(len, words)
    <2>1. PICK n \in words : n <= len /\ \E at \in 0..len - n : e = Effect(at + n, len, FALSE)
      BY <1>1 DEF OverwriteExtra
    <2>2. PICK at \in 0..len - n : e = Effect(at + n, len, FALSE)
      BY <2>1
    <2>3. at + n \in Nat /\ at + n <= len /\ len <= len
      BY <1>0, <2>1
    <2> QED
      BY <1>0, <2>2, <2>3, RightInPlace
  <1>2. CASE e \in InsertExtra(len, words)
    <2>1. PICK n \in words : len + n < MaxFile /\ e = Effect(len, len + n, TRUE)
      BY <1>2 DEF InsertExtra
    <2>2. len + n \in Nat /\ len + n \in 1..MaxFile /\ len + n < MaxFile /\ len <= len
      BY <1>0, <2>1
    <2> QED
      BY <1>0, <2>1, <2>2, RightMoved
  <1> QED
    BY <1>1, <1>2

LEMMA HavocCasesRight ==
    ASSUME NEW len \in 1..MaxFile, NEW e \in HavocCases(len)
    PROVE  Right(e, len)
  <1>1. \/ e \in FixedWidth(len) \/ e \in CloneBytes(len) \/ e \in InsertSameByte(len)
        \/ e \in OverwriteBytes(len) \/ e \in DeleteBytes(len)
        \/ e \in OverwriteExtra(len, ExtraLens) \cup InsertExtra(len, ExtraLens)
        \/ e \in OverwriteExtra(len, AExtraLens) \cup InsertExtra(len, AExtraLens)
    BY DEF HavocCases
  <1>2. ExtraLens \subseteq Nat \ {0} /\ AExtraLens \subseteq Nat \ {0}
    BY MutatorAssumption
  <1> QED
    BY <1>1, <1>2, FixedWidthRight, CloneRight, InsertSameRight, OverwriteRight, DeleteRight, ExtraRight

LEMMA MutatorInitHolds == ASSUME MutatorInit PROVE MutatorInv
  <1>1. source \in SourceLens /\ source \in Nat
    BY MutatorAssumption DEF MutatorInit
  <1> QED
    BY <1>1 DEF MutatorInit, MutatorInv, MutatorTypes, Buffer, NoBuf, AccessInside, RestoredToStage,
                HavocUnderWay, SourceKept, StageBudget

LEMMA BufferFields ==
    ASSUME NEW b \in Buffer
    PROVE  b.cap \in Nat /\ b.len \in Nat /\ b.data \in {"none", "source", "spliced", "havoc"}
  BY DEF Buffer

LEMMA DoHavocKeeps == ASSUME MutatorInv, DoHavoc PROVE MutatorInv'
  <1>1. /\ mpc = "idle" /\ mpc' = "stage" /\ havoc_cur' = 0 /\ stage_max' = StageMax /\ perf_score' = 1
        /\ UNCHANGED <<source, buffers, spliced, access>>
    BY DEF DoHavoc
  <1>2. UNCHANGED <<source, outbuf, tmpbuf, splbuf, spliced, access>>
    BY <1>1 DEF buffers
  <1>3. StageMax \in Nat \ {0} /\ PerfLimit \in Nat \ {0}
    BY MutatorAssumption
  <1>4. StageBudget'
    BY <1>1, <1>3 DEF StageBudget
  <1> QED
    BY <1>1, <1>2, <1>3, <1>4
       DEF MutatorInv, MutatorTypes, AccessInside, RestoredToStage, HavocUnderWay, SourceKept

LEMMA BeginKeeps == ASSUME MutatorInv, HavocBegin PROVE MutatorInv'
  <1>0. PICK room : room = IF tmpbuf.len < outbuf.len \/ tmpbuf.data = "none" THEN outbuf.len ELSE tmpbuf.cap
    OBVIOUS
  <1>1. /\ mpc = "stage" /\ havoc_cur < stage_max /\ mpc' = "stack"
        /\ outbuf' = [outbuf EXCEPT !.cap = room] /\ tmpbuf' = outbuf
        /\ access' = [reach |-> outbuf.len, len |-> room]
        /\ UNCHANGED <<source, splbuf, spliced, havoc_cur, stage_max, perf_score>>
    BY <1>0 DEF HavocBegin, stageVars
  <1>2. outbuf \in Buffer /\ tmpbuf \in Buffer /\ splbuf \in Buffer
    BY DEF MutatorInv, MutatorTypes
  <1>3. outbuf.len <= outbuf.cap /\ tmpbuf.len <= tmpbuf.cap /\ splbuf.len <= splbuf.cap
    BY DEF MutatorInv, AccessInside
  <1>4. room \in Nat /\ outbuf.len <= room
    BY <1>0, <1>2, <1>3, BufferFields
  <1>5. outbuf' \in Buffer /\ outbuf'.len = outbuf.len /\ outbuf'.cap = room
    BY <1>1, <1>2, <1>4 DEF Buffer
  <1>8. outbuf.len = StageLen /\ outbuf.data = StageData /\ StageLen' = StageLen /\ StageData' = StageData
    BY <1>1 DEF MutatorInv, RestoredToStage, StageLen, StageData
  <1>9. StageLen \in 1..MaxFile
    BY StageLenIs DEF MutatorInv
  <1>10. MutatorTypes'
    BY <1>1, <1>2, <1>4, <1>5, BufferFields DEF MutatorInv, MutatorTypes
  <1>11. AccessInside'
    BY <1>1, <1>2, <1>3, <1>4, <1>5, BufferFields DEF AccessInside
  <1>12. HavocUnderWay'
    BY <1>1, <1>5, <1>8, <1>9 DEF HavocUnderWay
  <1>13. SourceKept' /\ RestoredToStage' /\ StageBudget'
    BY <1>1 DEF MutatorInv, SourceKept, RestoredToStage, StageBudget
  <1> QED
    BY <1>10, <1>11, <1>12, <1>13 DEF MutatorInv

LEMMA HavocCaseKeeps == ASSUME MutatorInv, HavocCase PROVE MutatorInv'
  <1>1. /\ mpc = "stack" /\ mpc' \in {"stack", "run"}
        /\ UNCHANGED <<source, tmpbuf, splbuf, spliced, havoc_cur, stage_max, perf_score>>
    BY DEF HavocCase, stageVars
  <1>2. outbuf \in Buffer /\ tmpbuf \in Buffer /\ splbuf \in Buffer
    BY DEF MutatorInv, MutatorTypes
  <1>3. outbuf.len <= outbuf.cap /\ tmpbuf.len <= tmpbuf.cap /\ splbuf.len <= splbuf.cap
    BY DEF MutatorInv, AccessInside
  <1>4. /\ outbuf.len \in 1..MaxFile /\ outbuf.len \in Nat /\ outbuf.cap \in Nat
        /\ outbuf.len = MaxFile => StageLen = MaxFile
    BY <1>1, <1>2, BufferFields DEF MutatorInv, HavocUnderWay
  <1>6. StageLen' = StageLen /\ StageData' = StageData
    BY <1>1 DEF StageLen, StageData
  <1>7. /\ outbuf' \in Buffer /\ outbuf'.len \in 1..MaxFile /\ outbuf'.len <= outbuf'.cap
        /\ outbuf'.len = MaxFile => StageLen = MaxFile
        /\ access' \in [reach : Nat, len : Nat] /\ access'.reach <= access'.len
    <2>1. CASE UNCHANGED <<outbuf, access>>
      BY <1>2, <1>3, <1>4, <2>1 DEF MutatorInv, MutatorTypes, AccessInside
    <2>2. CASE \E e \in HavocCases(outbuf.len) :
                 /\ outbuf' = [cap |-> IF e.moved THEN e.len ELSE outbuf.cap, len |-> e.len,
                               data |-> "havoc"]
                 /\ access' = [reach |-> e.reach, len |-> outbuf.len]
      <3>1. PICK e \in HavocCases(outbuf.len) :
                 /\ outbuf' = [cap |-> IF e.moved THEN e.len ELSE outbuf.cap, len |-> e.len,
                               data |-> "havoc"]
                 /\ access' = [reach |-> e.reach, len |-> outbuf.len]
        BY <2>2
      <3>2. Right(e, outbuf.len)
        BY <1>4, HavocCasesRight
      <3>3. PICK c : c = IF e.moved THEN e.len ELSE outbuf.cap
        OBVIOUS
      <3>4. c \in Nat /\ e.len \in Nat /\ e.len \in 1..MaxFile /\ e.len <= c
            /\ (e.len = MaxFile => StageLen = MaxFile) /\ e.reach \in Nat /\ e.reach <= outbuf.len
        BY <1>3, <1>4, <3>2, <3>3, Blk4 DEF Right
      <3>5. outbuf' = [cap |-> c, len |-> e.len, data |-> "havoc"]
        BY <3>1, <3>3
      <3>6. outbuf' \in Buffer /\ outbuf'.len = e.len /\ outbuf'.cap = c
        BY <3>4, <3>5 DEF Buffer
      <3>7. access' \in [reach : Nat, len : Nat] /\ access'.reach <= access'.len
        BY <1>4, <3>1, <3>4
      <3> QED
        BY <3>4, <3>6, <3>7
    <2> QED
      BY <2>1, <2>2 DEF HavocCase
  <1>8. MutatorTypes'
    BY <1>1, <1>2, <1>7 DEF MutatorInv, MutatorTypes
  <1>9. AccessInside'
    BY <1>1, <1>3, <1>7 DEF AccessInside
  <1>10. HavocUnderWay'
    BY <1>1, <1>6, <1>7 DEF MutatorInv, HavocUnderWay
  <1>11. SourceKept' /\ RestoredToStage' /\ StageBudget'
    BY <1>1 DEF MutatorInv, SourceKept, RestoredToStage, StageBudget
  <1> QED
    BY <1>8, <1>9, <1>10, <1>11 DEF MutatorInv

LEMMA ExecuteKeeps ==
    ASSUME MutatorInv, NEW found \in BOOLEAN, NEW stop \in BOOLEAN, ExecuteMutant(found, stop)
    PROVE  MutatorInv'
  <1>1. mpc = "run" /\ UNCHANGED <<source, spliced, access>>
    BY DEF ExecuteMutant
  <1>2. CASE stop
    <2>1. /\ mpc' = "gone"
          /\ UNCHANGED <<outbuf, tmpbuf, splbuf, havoc_cur, stage_max, perf_score>>
      BY <1>2 DEF ExecuteMutant, buffers, stageVars
    <2>2. StageLen' = StageLen /\ StageData' = StageData
      BY <1>1 DEF StageLen, StageData
    <2> QED
      BY <1>1, <2>1, <2>2
         DEF MutatorInv, MutatorTypes, AccessInside, RestoredToStage, HavocUnderWay, SourceKept, StageBudget
  <1>3. CASE ~stop
    <2>1. /\ outbuf' = tmpbuf /\ tmpbuf' = outbuf /\ splbuf' = splbuf
          /\ mpc' = "stage" /\ havoc_cur' = havoc_cur + 1
          /\ \/ found /\ perf_score <= PerfLimit /\ stage_max' = stage_max * 2 /\ perf_score' = perf_score * 2
             \/ stage_max' = stage_max /\ perf_score' = perf_score
      BY <1>3 DEF ExecuteMutant, RestoreHavoc
    <2>2. /\ havoc_cur \in Nat /\ stage_max \in Nat /\ perf_score \in Nat /\ havoc_cur < stage_max
          /\ stage_max = StageMax * perf_score /\ perf_score <= 2 * PerfLimit
          /\ StageMax \in Nat /\ PerfLimit \in Nat
      BY <1>1, MutatorAssumption DEF MutatorInv, MutatorTypes, HavocUnderWay, StageBudget
    <2>3. StageMax * perf_score * 2 = StageMax * (perf_score * 2)
      BY <2>2
    <2>4. /\ havoc_cur' \in Nat /\ stage_max' \in Nat /\ perf_score' \in Nat
      BY <2>1, <2>2
    <2>5. StageBudget'
      BY <2>1, <2>2, <2>3 DEF StageBudget
    <2>6. MutatorTypes'
      BY <1>1, <2>1, <2>4 DEF MutatorInv, MutatorTypes
    <2>7. AccessInside'
      BY <1>1, <2>1 DEF MutatorInv, AccessInside
    <2>8. RestoredToStage' /\ SourceKept' /\ HavocUnderWay'
      BY <1>1, <2>1 DEF MutatorInv, RestoredToStage, SourceKept, HavocUnderWay, StageLen, StageData
    <2> QED
      BY <2>5, <2>6, <2>7, <2>8 DEF MutatorInv
  <1> QED
    BY <1>2, <1>3

LEMMA SplicingKeeps == ASSUME MutatorInv, SplicingTurn PROVE MutatorInv'
  <1>1. /\ mpc = "stage" /\ spliced = 0 /\ havoc_cur' = 0 /\ stage_max' = StageMax /\ perf_score' = 1
        /\ UNCHANGED <<source, mpc>>
    BY DEF SplicingTurn
  <1>2. PICK target \in TargetLens : Splice(target) /\ spliced' = target
    BY DEF SplicingTurn
  <1>3. PICK room : room = IF splbuf.data = "none" \/ splbuf.len < target THEN target ELSE splbuf.cap
    OBVIOUS
  <1>4. PICK l \in 0..(IF outbuf.len < target THEN outbuf.len ELSE target) - 1 :
          \E f \in 0..(IF outbuf.len < target THEN outbuf.len ELSE target) - 1 :
            /\ \E split_at \in f..l - 1 : access' = [reach |-> split_at, len |-> outbuf.len]
            /\ outbuf' = [cap |-> room, len |-> target, data |-> "spliced"]
            /\ splbuf' = outbuf
            /\ UNCHANGED tmpbuf
    BY <1>2, <1>3 DEF Splice
  <1>5. outbuf \in Buffer /\ tmpbuf \in Buffer /\ splbuf \in Buffer
    BY DEF MutatorInv, MutatorTypes
  <1>6. target \in Nat /\ target >= 1 /\ target # 0
    BY MutatorAssumption
  <1>7. room \in Nat /\ target <= room
    BY <1>3, <1>5, <1>6, BufferFields DEF MutatorInv, AccessInside
  <1>8. outbuf' \in Buffer /\ outbuf'.len = target /\ outbuf'.cap = room /\ outbuf'.data = "spliced"
    BY <1>4, <1>6, <1>7 DEF Buffer
  <1>9. PICK split_at \in Nat : /\ access' = [reach |-> split_at, len |-> outbuf.len]
                                /\ split_at <= outbuf.len
    BY <1>4, <1>5, <1>6, BufferFields
  <1>10. outbuf.data = "source" /\ outbuf.len = source /\ outbuf.len \in Nat
    BY <1>1, <1>5, BufferFields DEF MutatorInv, RestoredToStage
  <1>11. StageMax \in Nat \ {0} /\ PerfLimit \in Nat \ {0}
    BY MutatorAssumption
  <1>12. StageBudget'
    BY <1>1, <1>11 DEF StageBudget
  <1>13. splbuf' = outbuf /\ tmpbuf' = tmpbuf
    BY <1>4
  <1>14. MutatorTypes'
    BY <1>1, <1>2, <1>5, <1>8, <1>9, <1>10, <1>11, <1>13 DEF MutatorInv, MutatorTypes
  <1>15. AccessInside'
    BY <1>7, <1>8, <1>9, <1>13 DEF MutatorInv, AccessInside
  <1>16. RestoredToStage' /\ SourceKept' /\ HavocUnderWay'
    BY <1>1, <1>2, <1>6, <1>8, <1>10, <1>13 DEF RestoredToStage, SourceKept, HavocUnderWay
  <1> QED
    BY <1>12, <1>14, <1>15, <1>16 DEF MutatorInv

LEMMA RestoreSpliceKeeps == ASSUME MutatorInv, RestoreSplice PROVE MutatorInv'
  <1>1. /\ mpc = "stage" /\ spliced # 0 /\ outbuf' = splbuf /\ splbuf' = outbuf /\ spliced' = 0
        /\ UNCHANGED <<source, tmpbuf, mpc, havoc_cur, stage_max, perf_score, access>>
    BY DEF RestoreSplice, stageVars
  <1>2. MutatorTypes' /\ AccessInside'
    BY <1>1 DEF MutatorInv, MutatorTypes, AccessInside
  <1> QED
    BY <1>1, <1>2 DEF MutatorInv, RestoredToStage, SourceKept, HavocUnderWay, StageBudget

LEMMA MutatorNextKeeps == ASSUME MutatorInv, [MutatorNext]_mutatorVars PROVE MutatorInv'
  <1>1. CASE SplicingFails \/ UNCHANGED mutatorVars
    <2>1. UNCHANGED <<source, outbuf, tmpbuf, splbuf, spliced, mpc, havoc_cur, stage_max,
                      perf_score, access>>
      BY <1>1 DEF SplicingFails, mutatorVars, buffers, stageVars
    <2> QED
      BY <2>1 DEF MutatorInv, MutatorTypes, AccessInside, RestoredToStage, HavocUnderWay, SourceKept,
                  StageBudget, StageLen, StageData
  <1> QED
    BY <1>1, DoHavocKeeps, BeginKeeps, HavocCaseKeeps, ExecuteKeeps, SplicingKeeps,
       RestoreSpliceKeeps DEF MutatorNext

\* Havoc and splicing stay inside their buffers, their limit and their budget and give the
\* buffer back, for every length, block size, dictionary and budget.
THEOREM HavocSound == MutatorSpec => []HavocRight
  <1>1. MutatorInit => MutatorInv
    BY MutatorInitHolds
  <1>2. MutatorInv /\ [MutatorNext]_mutatorVars => MutatorInv'
    BY MutatorNextKeeps
  <1>3. MutatorInv => HavocRight
    BY DEF MutatorInv, HavocRight, MutantLength, HavocUnderWay
  <1> QED
    BY <1>1, <1>2, <1>3, PTL DEF MutatorSpec

LEMMA LeastNumber ==
    ASSUME NEW T, T \subseteq Nat, T # {}
    PROVE  \E x \in T : \A y \in T : x <= y
  <1> DEFINE R == OpToRel(<, Nat)
  <1>1. IsWellFoundedOn(R, Nat)
    BY NatLessThanWellFounded, Zenon
  <1>2. \A x, y \in Nat : x < y => <<x, y>> \in R
    BY DEF OpToRel
  <1> HIDE DEF R
  <1>3. PICK x \in T : \A y \in T : ~(<<y, x>> \in R)
    BY <1>1, WFMin, Zenon
  <1>4. ASSUME NEW y \in T PROVE x <= y
    <2>1. x \in Nat /\ y \in Nat
      OBVIOUS
    <2>2. ~(y < x)
      BY <1>2, <1>3, <2>1, Zenon
    <2> QED
      BY <2>1, <2>2
  <1> QED
    BY <1>4

\* Of the numbers for which something fails, one is the first: it holds for the number before.
LEMMA FirstFailure ==
    ASSUME NEW T, T \subseteq Nat, T # {}
    PROVE  \E m \in T : m = 0 \/ (m - 1 \in Nat /\ m - 1 \notin T)
  <1>1. PICK m \in T : \A y \in T : m <= y
    BY LeastNumber
  <1>2. m \in Nat
    OBVIOUS
  <1>3. m # 0 => m - 1 \in Nat /\ ~(m <= m - 1)
    BY <1>2
  <1>4. m = 0 \/ (m - 1 \in Nat /\ m - 1 \notin T)
    BY <1>1, <1>3, Zenon
  <1> QED
    BY <1>4, Zenon

-----------------------------------------------------------------------------
(* Sums.                                                                    *)

SumTable(f, n, s) == s = [m \in 0..n |-> IF m = 0 THEN 0 ELSE s[m - 1] + f[m]]

LEMMA SumDefined ==
    ASSUME NEW f, NEW n \in Nat
    PROVE  \E s : SumTable(f, n, s) /\ SumUpTo(f, n) = s[n]
  <1> DEFINE T == {m \in Nat : ~ \E s : SumTable(f, m, s)}
  <1>1. T = {}
    <2> SUFFICES ASSUME T # {} PROVE FALSE
      OBVIOUS
    <2>1. PICK m \in T : m = 0 \/ (m - 1 \in Nat /\ m - 1 \notin T)
      BY FirstFailure
    <2>2. m \in Nat /\ ~ \E s : SumTable(f, m, s)
      OBVIOUS
    <2>3. m # 0
      <3>1. SumTable(f, 0, [k \in 0..0 |-> 0])
        BY DEF SumTable
      <3> QED
        BY <3>1, <2>2
    <2>4. PICK s : SumTable(f, m - 1, s)
      BY <2>1, <2>3, Zenon
    <2>5. SumTable(f, m, [k \in 0..m |-> IF k = m THEN s[m - 1] + f[m] ELSE s[k]])
      BY <2>2, <2>3, <2>4 DEF SumTable
    <2> QED
      BY <2>2, <2>5
  <1>2. \E s : SumTable(f, n, s)
    BY <1>1
  <1>3. SumTable(f, n, CHOOSE s : SumTable(f, n, s))
    BY <1>2, Zenon
  <1>4. SumUpTo(f, n) = (CHOOSE s : SumTable(f, n, s))[n]
    BY DEF SumUpTo, SumTable
  <1> QED
    BY <1>3, <1>4, Zenon

LEMMA SumTablesAgree ==
    ASSUME NEW f, NEW n \in Nat, NEW s, NEW r, SumTable(f, n, s), SumTable(f, n + 1, r)
    PROVE  s[n] = r[n]
  <1> DEFINE T == {m \in Nat : m <= n /\ s[m] # r[m]}
  <1> SUFFICES ASSUME T # {} PROVE FALSE
    OBVIOUS
  <1>1. PICK m \in T : m = 0 \/ (m - 1 \in Nat /\ m - 1 \notin T)
    BY FirstFailure
  <1>2. m \in Nat /\ m <= n /\ s[m] # r[m]
    OBVIOUS
  <1>3. m # 0 => s[m - 1] = r[m - 1]
    BY <1>1, <1>2
  <1>4. m \in 0..n /\ m \in 0..n + 1
    BY <1>2
  <1>5. s[m] = (IF m = 0 THEN 0 ELSE s[m - 1] + f[m])
    BY <1>4 DEF SumTable
  <1>6. r[m] = (IF m = 0 THEN 0 ELSE r[m - 1] + f[m])
    BY <1>4 DEF SumTable
  <1> QED
    BY <1>2, <1>3, <1>5, <1>6

\* The sum of nothing, and one summand more.
LEMMA SumSteps ==
    ASSUME NEW f, NEW n \in Nat
    PROVE  SumUpTo(f, 0) = 0 /\ SumUpTo(f, n + 1) = SumUpTo(f, n) + f[n + 1]
  <1>1. PICK z : SumTable(f, 0, z) /\ SumUpTo(f, 0) = z[0]
    BY SumDefined
  <1>2. PICK s : SumTable(f, n, s) /\ SumUpTo(f, n) = s[n]
    BY SumDefined
  <1>3. PICK r : SumTable(f, n + 1, r) /\ SumUpTo(f, n + 1) = r[n + 1]
    BY SumDefined
  <1>4. s[n] = r[n]
    BY <1>2, <1>3, SumTablesAgree
  <1>5. z[0] = 0
    BY <1>1 DEF SumTable
  <1>6. n + 1 \in 0..n + 1 /\ n + 1 # 0 /\ (n + 1) - 1 = n
    OBVIOUS
  <1>7. r[n + 1] = r[n] + f[n + 1]
    BY <1>3, <1>6 DEF SumTable
  <1> QED
    BY <1>1, <1>2, <1>3, <1>4, <1>5, <1>7

Summands(f, N) == N \in Nat /\ f \in [1..N -> Int]

LEMMA SumType ==
    ASSUME NEW f, NEW N, Summands(f, N), NEW n \in 0..N
    PROVE  SumUpTo(f, n) \in Int
  <1> DEFINE T == {m \in Nat : m <= N /\ SumUpTo(f, m) \notin Int}
  <1>0. N \in Nat /\ f \in [1..N -> Int]
    BY DEF Summands
  <1>1. T = {}
    <2> SUFFICES ASSUME T # {} PROVE FALSE
      OBVIOUS
    <2>1. PICK m \in T : m = 0 \/ (m - 1 \in Nat /\ m - 1 \notin T)
      BY FirstFailure
    <2>2. m \in Nat /\ m <= N /\ SumUpTo(f, m) \notin Int
      OBVIOUS
    <2>3. m # 0
      BY <2>2, SumSteps
    <2>4. m - 1 \in Nat /\ SumUpTo(f, m - 1) \in Int
      BY <2>1, <2>2, <2>3, <1>0
    <2>5. SumUpTo(f, (m - 1) + 1) = SumUpTo(f, m - 1) + f[(m - 1) + 1]
      BY <2>4, SumSteps
    <2>6. (m - 1) + 1 = m /\ m \in 1..N
      BY <2>2, <2>3, <1>0
    <2> QED
      BY <2>2, <2>4, <2>5, <2>6, <1>0
  <1> QED
    BY <1>0, <1>1

\* A sum of numbers that are not negative is zero only if they all are.
LEMMA SumOfNats ==
    ASSUME NEW f, NEW N, Summands(f, N), \A j \in 1..N : f[j] >= 0
    PROVE  /\ SumUpTo(f, N) >= 0
           /\ SumUpTo(f, N) = 0 => \A j \in 1..N : f[j] = 0
  <1> DEFINE Good(m) == SumUpTo(f, m) >= 0 /\ \A j \in 1..m : f[j] <= SumUpTo(f, m)
             T == {m \in Nat : m <= N /\ ~Good(m)}
  <1>0. N \in Nat /\ f \in [1..N -> Int]
    BY DEF Summands
  <1>1. T = {}
    <2> SUFFICES ASSUME T # {} PROVE FALSE
      OBVIOUS
    <2>1. PICK m \in T : m = 0 \/ (m - 1 \in Nat /\ m - 1 \notin T)
      BY FirstFailure
    <2>2. m \in Nat /\ m <= N /\ ~Good(m)
      OBVIOUS
    <2>3. m # 0
      BY <2>2, SumSteps
    <2>4. m - 1 \in Nat /\ Good(m - 1)
      BY <2>1, <2>2, <2>3, <1>0
    <2>5. SumUpTo(f, (m - 1) + 1) = SumUpTo(f, m - 1) + f[(m - 1) + 1]
      BY <2>4, SumSteps
    <2>6. (m - 1) + 1 = m /\ m \in 1..N /\ m - 1 \in 0..N
      BY <2>2, <2>3, <1>0
    <2>7. SumUpTo(f, m - 1) \in Int
      BY <2>6, SumType
    <2>8. SumUpTo(f, m) = SumUpTo(f, m - 1) + f[m]
      BY <2>5, <2>6
    <2>9. f[m] \in Int /\ f[m] >= 0
      BY <1>0, <2>6
    <2>10. ASSUME NEW j \in 1..m PROVE f[j] <= SumUpTo(f, m)
      <3>1. CASE j = m
        BY <3>1, <2>4, <2>7, <2>8, <2>9
      <3>2. CASE j # m
        <4>1. j \in 1..m - 1 /\ j \in 1..N
          BY <3>2, <2>2, <1>0
        <4>2. f[j] <= SumUpTo(f, m - 1) /\ f[j] \in Int
          BY <4>1, <2>4, <1>0
        <4> QED
          BY <4>2, <2>7, <2>8, <2>9
      <3> QED
        BY <3>1, <3>2
    <2> QED
      BY <2>2, <2>4, <2>7, <2>8, <2>9, <2>10
  <1>2. Good(N)
    BY <1>0, <1>1
  <1> QED
    BY <1>0, <1>2

\* One summand changes.
LEMMA SumOneChanged ==
    ASSUME NEW N, NEW f, NEW g, Summands(f, N), Summands(g, N), NEW k \in 1..N,
           \A j \in 1..N : j # k => g[j] = f[j]
    PROVE  SumUpTo(g, N) = SumUpTo(f, N) + (g[k] - f[k])
  <1> DEFINE Good(m) == SumUpTo(g, m) = SumUpTo(f, m) + (IF m < k THEN 0 ELSE g[k] - f[k])
             T == {m \in Nat : m <= N /\ ~Good(m)}
  <1>0. N \in Nat /\ f \in [1..N -> Int] /\ g \in [1..N -> Int] /\ k \in Nat /\ 1 <= k /\ k <= N
    BY DEF Summands
  <1>1. T = {}
    <2> SUFFICES ASSUME T # {} PROVE FALSE
      OBVIOUS
    <2>1. PICK m \in T : m = 0 \/ (m - 1 \in Nat /\ m - 1 \notin T)
      BY FirstFailure
    <2>2. m \in Nat /\ m <= N /\ ~Good(m)
      OBVIOUS
    <2>3. m # 0
      BY <2>2, <1>0, SumSteps
    <2>4. m - 1 \in Nat /\ Good(m - 1)
      BY <2>1, <2>2, <2>3, <1>0
    <2>5. /\ SumUpTo(f, (m - 1) + 1) = SumUpTo(f, m - 1) + f[(m - 1) + 1]
          /\ SumUpTo(g, (m - 1) + 1) = SumUpTo(g, m - 1) + g[(m - 1) + 1]
      BY <2>4, SumSteps
    <2>6. (m - 1) + 1 = m /\ m \in 1..N /\ m - 1 \in 0..N
      BY <2>2, <2>3, <1>0
    <2>7. SumUpTo(f, m - 1) \in Int /\ SumUpTo(g, m - 1) \in Int
      BY <2>6, SumType
    <2>8. f[m] \in Int /\ g[m] \in Int /\ f[k] \in Int /\ g[k] \in Int
      BY <1>0, <2>6
    <2>9. m # k => g[m] = f[m]
      BY <2>6
    <2> QED
      BY <1>0, <2>2, <2>4, <2>5, <2>6, <2>7, <2>8, <2>9
  <1>2. Good(N)
    BY <1>0, <1>1
  <1> QED
    BY <1>0, <1>2

\* Every summand is scaled and shifted.
LEMMA SumScaled ==
    ASSUME NEW N, NEW f, NEW g, Summands(f, N), Summands(g, N), NEW c \in Int, NEW d \in Int,
           \A j \in 1..N : g[j] = f[j] * c - d
    PROVE  SumUpTo(g, N) = SumUpTo(f, N) * c - N * d
  <1> DEFINE Good(m) == SumUpTo(g, m) = SumUpTo(f, m) * c - m * d
             T == {m \in Nat : m <= N /\ ~Good(m)}
  <1>0. N \in Nat /\ f \in [1..N -> Int] /\ g \in [1..N -> Int]
    BY DEF Summands
  <1>1. T = {}
    <2> SUFFICES ASSUME T # {} PROVE FALSE
      OBVIOUS
    <2>1. PICK m \in T : m = 0 \/ (m - 1 \in Nat /\ m - 1 \notin T)
      BY FirstFailure
    <2>2. m \in Nat /\ m <= N /\ ~Good(m)
      OBVIOUS
    <2>3. m # 0
      BY <2>2, SumSteps
    <2>4. m - 1 \in Nat /\ Good(m - 1)
      BY <2>1, <2>2, <2>3, <1>0
    <2>5. /\ SumUpTo(f, (m - 1) + 1) = SumUpTo(f, m - 1) + f[(m - 1) + 1]
          /\ SumUpTo(g, (m - 1) + 1) = SumUpTo(g, m - 1) + g[(m - 1) + 1]
      BY <2>4, SumSteps
    <2>6. (m - 1) + 1 = m /\ m \in 1..N /\ m - 1 \in 0..N
      BY <2>2, <2>3, <1>0
    <2>7. SumUpTo(f, m - 1) \in Int /\ SumUpTo(g, m - 1) \in Int
      BY <2>6, SumType
    <2>8. f[m] \in Int /\ g[m] = f[m] * c - d
      BY <1>0, <2>6
    <2>9. \A a, b \in Int : (a + b) * c - m * d = (a * c - (m - 1) * d) + (b * c - d)
      BY <2>2
    <2>10. SumUpTo(g, m) = (SumUpTo(f, m - 1) * c - (m - 1) * d) + (f[m] * c - d)
      BY <2>4, <2>5, <2>6, <2>8
    <2>11. SumUpTo(g, m) = (SumUpTo(f, m - 1) + f[m]) * c - m * d
      BY <2>7, <2>8, <2>9, <2>10
    <2> QED
      BY <2>2, <2>5, <2>6, <2>11
  <1>2. Good(N)
    <2>1. ASSUME ~Good(N) PROVE FALSE
      <3>1. N <= N
        BY <1>0
      <3> HIDE DEF Good
      <3> QED
        BY <1>0, <1>1, <2>1, <3>1
    <2> QED
      BY <2>1
  <1> QED
    BY <1>2

\* One summand only.
LEMMA SumOfOne ==
    ASSUME NEW N, NEW g, Summands(g, N), NEW k \in 1..N, \A j \in 1..N : j # k => g[j] = 0
    PROVE  SumUpTo(g, N) = g[k]
  <1> DEFINE z == [j \in 1..N |-> 0]
             c == 0
  <1>0. N \in Nat /\ g \in [1..N -> Int]
    BY DEF Summands
  <1>1. Summands(z, N)
    BY <1>0 DEF Summands
  <1>2. \A j \in 1..N : z[j] = 0 /\ z[j] = z[j] * c - c
    OBVIOUS
  <1>c. c \in Int /\ c = 0
    OBVIOUS
  <1> HIDE DEF z, c
  <1>3. N \in 0..N
    BY <1>0
  <1>4. SumUpTo(z, N) \in Int
    BY <1>1, <1>3, SumType
  <1>5. SumUpTo(z, N) = SumUpTo(z, N) * c - N * c
    BY <1>1, <1>2, <1>c, SumScaled
  <1>6. SumUpTo(z, N) = 0
    BY <1>0, <1>4, <1>5, <1>c
  <1>7. SumUpTo(g, N) = SumUpTo(z, N) + (g[k] - z[k])
    BY <1>1, <1>2, SumOneChanged
  <1> QED
    BY <1>0, <1>2, <1>6, <1>7

-----------------------------------------------------------------------------
(* Stacks.                                                                  *)

On(s) == {s[i] : i \in 1..Len(s)}

\* A stack of entries below N, none twice.
Stack(s, N) == s \in Seq(1..N) /\ \A a, b \in 1..Len(s) : s[a] = s[b] => a = b

LEMMA Push ==
    ASSUME NEW N, NEW s, Stack(s, N), NEW x \in 1..N, x \notin On(s)
    PROVE  Stack(Append(s, x), N) /\ On(Append(s, x)) = On(s) \cup {x}
  <1>1. s \in Seq(1..N) /\ Len(s) \in Nat
    BY DEF Stack
  <1>2. /\ Append(s, x) \in Seq(1..N) /\ Len(Append(s, x)) = Len(s) + 1
        /\ \A a \in 1..Len(s) : Append(s, x)[a] = s[a]
        /\ Append(s, x)[Len(s) + 1] = x
    BY <1>1
  <1>3. \A a \in 1..Len(s) + 1 : a \in 1..Len(s) \/ a = Len(s) + 1
    BY <1>1
  <1>4. \A a \in 1..Len(s) : s[a] # x
    BY DEF On
  <1>5. ASSUME NEW a \in 1..Len(s) + 1, NEW b \in 1..Len(s) + 1, Append(s, x)[a] = Append(s, x)[b]
        PROVE  a = b
    BY <1>2, <1>3, <1>4, <1>5 DEF Stack
  <1>6. On(Append(s, x)) = On(s) \cup {x}
    <2>1. Len(s) + 1 \in 1..Len(s) + 1 /\ \A a \in 1..Len(s) : a \in 1..Len(s) + 1
      BY <1>1
    <2> QED
      BY <1>2, <1>3, <2>1 DEF On
  <1> QED
    BY <1>2, <1>5, <1>6 DEF Stack

LEMMA Pop ==
    ASSUME NEW N, NEW s, Stack(s, N), s # <<>>
    PROVE  /\ Stack(Front(s), N) /\ On(Front(s)) = On(s) \ {Last(s)}
           /\ Last(s) \in On(s) /\ Last(s) \in 1..N
  <1>1. s \in Seq(1..N) /\ Len(s) \in Nat /\ Len(s) # 0
    BY DEF Stack
  <1> DEFINE L == Len(s)
  <1>2. /\ Front(s) \in Seq(1..N) /\ Len(Front(s)) = L - 1
        /\ \A a \in 1..L - 1 : Front(s)[a] = s[a]
    <2>1. L - 1 \in Nat /\ L - 1 <= L /\ L - 1 - 1 + 1 = L - 1 /\ L - 1 \in 0..L
      BY <1>1
    <2>2. \A a \in 1..L - 1 : a \in 1..L /\ s[a] \in 1..N
      <3>1. \A a \in 1..L - 1 : a \in 1..L
        BY <1>1
      <3> QED
        BY <1>1, <3>1, ElementOfSeq
    <2> QED
      BY <1>1, <2>1, <2>2 DEF Front
  <1>3. Last(s) = s[L] /\ L \in 1..L
    BY <1>1 DEF Last
  <1>4. s[L] \in 1..N
    BY <1>1, <1>3, ElementOfSeq
  <1>5. \A a \in 1..L : a \in 1..L - 1 \/ a = L
    BY <1>1
  <1>6. \A a \in 1..L - 1 : a \in 1..L /\ a # L
    BY <1>1
  <1>7. \A a \in 1..L - 1 : s[a] # s[L]
    BY <1>3, <1>6 DEF Stack
  <1>8. On(Front(s)) = On(s) \ {Last(s)}
    BY <1>2, <1>3, <1>5, <1>6, <1>7 DEF On
  <1>9. Stack(Front(s), N)
    BY <1>2, <1>6 DEF Stack
  <1> QED
    BY <1>3, <1>4, <1>8, <1>9 DEF On

\* The stack s after the loop looked at m.
Looked(S, s, m) == IF m \in S THEN Append(s, m) ELSE s

PushTable(S, n, s) == s = [m \in 0..n |-> IF m = 0 THEN <<>> ELSE Looked(S, s[m - 1], m)]

\* The loop that pushes makes a stack of the members of S.
LEMMA PushedAll ==
    ASSUME NEW N \in Nat, NEW S \in SUBSET (1..N)
    PROVE  Stack(StackOf(S, N), N) /\ On(StackOf(S, N)) = S
  <1> DEFINE T == {m \in Nat : ~ \E s : PushTable(S, m, s)}
  <1>1. T = {}
    <2> SUFFICES ASSUME T # {} PROVE FALSE
      OBVIOUS
    <2>1. PICK m \in T : m = 0 \/ (m - 1 \in Nat /\ m - 1 \notin T)
      BY FirstFailure
    <2>2. m \in Nat /\ ~ \E s : PushTable(S, m, s)
      OBVIOUS
    <2>3. m # 0
      <3>1. PushTable(S, 0, [k \in 0..0 |-> <<>>])
        BY DEF PushTable
      <3> QED
        BY <3>1, <2>2
    <2>4. PICK s : PushTable(S, m - 1, s)
      BY <2>1, <2>3, Zenon
    <2> DEFINE top == Looked(S, s[m - 1], m)
    <2>5. PushTable(S, m, [k \in 0..m |-> IF k = m THEN top ELSE s[k]])
      BY <2>2, <2>3, <2>4 DEF PushTable
    <2> QED
      BY <2>2, <2>5
  <1>2. \E s : PushTable(S, N, s)
    BY <1>1
  <1>3. PICK s : s = CHOOSE w : PushTable(S, N, w)
    OBVIOUS
  <1>4. PushTable(S, N, s)
    BY <1>2, <1>3, Zenon
  <1>5. StackOf(S, N) = s[N]
    BY <1>3 DEF StackOf, PushTable, Looked
  <1> DEFINE Good(m) == Stack(s[m], N) /\ On(s[m]) = S \cap 1..m
             B == {m \in Nat : m <= N /\ ~Good(m)}
  <1>6. B = {}
    <2> SUFFICES ASSUME B # {} PROVE FALSE
      OBVIOUS
    <2>1. PICK m \in B : m = 0 \/ (m - 1 \in Nat /\ m - 1 \notin B)
      BY FirstFailure
    <2>2. m \in Nat /\ m <= N /\ ~Good(m) /\ m \in 0..N
      OBVIOUS
    <2>3. m # 0
      <3>1. 0 \in 0..N
        OBVIOUS
      <3>2. s[0] = <<>>
        BY <1>4, <3>1 DEF PushTable
      <3>3. Stack(<<>>, N) /\ On(<<>>) = {} /\ S \cap 1..0 = {}
        BY DEF Stack, On
      <3> QED
        BY <2>2, <3>2, <3>3
    <2>4. m - 1 \in Nat /\ Good(m - 1)
      BY <2>1, <2>2, <2>3
    <2>5. s[m] = (IF m \in S THEN Append(s[m - 1], m) ELSE s[m - 1])
      BY <1>4, <2>2, <2>3 DEF PushTable, Looked
    <2>6. m \in 1..N /\ 1..m = (1..m - 1) \cup {m} /\ m \notin 1..m - 1
      BY <2>2, <2>3
    <2>7. m \notin On(s[m - 1])
      BY <2>4, <2>6
    <2>8. Stack(Append(s[m - 1], m), N) /\ On(Append(s[m - 1], m)) = On(s[m - 1]) \cup {m}
      BY <2>4, <2>6, <2>7, Push
    <2> QED
      BY <2>2, <2>4, <2>5, <2>6, <2>8
  <1>7. Good(N)
    <2>1. N <= N
      OBVIOUS
    <2> HIDE DEF Good
    <2> QED
      BY <1>6, <2>1
  <1> QED
    BY <1>5, <1>7

-----------------------------------------------------------------------------
(* The tables.                                                              *)

Entries == 1..Len(weights)

\* The entries that still wait for a partner.
Unpaired == On(small) \cup On(large)

\* What an entry that waits is above the mean, below it if negative.
Surplus(j) == IF j \in Unpaired THEN threshold[j] - Total(weights) ELSE 0

\* The throws at entry j that choose i, once j is as it is now.
Share(i, j) ==
    (IF j = i THEN threshold[j] ELSE 0)
  + (IF index[j] = i /\ j \notin Unpaired THEN Total(weights) - threshold[j] ELSE 0)

\* While entries are paired: the small ones are those below the mean, the surplus of the
\* large ones is what the small ones lack, and every index has its share.
TablesRight ==
    /\ threshold \in [Entries -> Nat] /\ index \in [Entries -> Entries]
    /\ Stack(small, Len(weights)) /\ Stack(large, Len(weights)) /\ On(small) \cap On(large) = {}
    /\ \A j \in On(small) : threshold[j] < Total(weights)
    /\ \A j \in On(large) : threshold[j] >= Total(weights)
    /\ \A j \in Entries \ Unpaired : threshold[j] <= Total(weights)
    /\ \A j \in Unpaired : index[j] = j
    /\ SumUpTo([j \in Entries |-> Surplus(j)], Len(weights)) = 0
    /\ \A i \in Entries : SumUpTo([j \in Entries |-> Share(i, j)], Len(weights)) = weights[i] * Len(weights)

WalkerInv ==
    /\ weights \in Seq(Nat) /\ weights # <<>>
    /\ wpc \in {"pair", "ready"} => TablesRight
    /\ wpc = "ready" => small = <<>> \/ large = <<>>

LEMMA WeightFacts ==
    ASSUME weights \in Seq(Nat), weights # <<>>
    PROVE  /\ Len(weights) \in Nat \ {0} /\ DOMAIN weights = Entries
           /\ weights \in [Entries -> Nat] /\ Summands(weights, Len(weights))
           /\ Total(weights) \in Nat
  <1>1. Len(weights) \in Nat \ {0} /\ DOMAIN weights = Entries /\ weights \in [Entries -> Nat]
    BY DEF Entries
  <1>2. Summands(weights, Len(weights))
    BY <1>1 DEF Summands, Entries
  <1>3. Len(weights) \in 0..Len(weights) /\ \A j \in 1..Len(weights) : weights[j] >= 0
    BY <1>1 DEF Entries
  <1>4. SumUpTo(weights, Len(weights)) \in Int
    BY <1>2, <1>3, SumType
  <1>5. SumUpTo(weights, Len(weights)) >= 0
    BY <1>2, <1>3, SumOfNats
  <1> QED
    BY <1>1, <1>2, <1>4, <1>5 DEF Total

\* The normalized weights and the two groups.
LEMMA NormalizeRight ==
    ASSUME WalkerInv, Normalize
    PROVE  WalkerInv'
  <1> DEFINE N == Len(weights)
             T == Total(weights)
  <1>1. /\ N \in Nat \ {0} /\ DOMAIN weights = Entries /\ weights \in [Entries -> Nat]
        /\ Summands(weights, N) /\ T \in Nat
    BY WeightFacts DEF WalkerInv
  <1>2. CASE T = 0
    BY <1>2 DEF Normalize, WalkerInv
  <1>3. CASE T # 0
    <2> DEFINE p == [i \in Entries |-> weights[i] * N]
               A == {i \in Entries : p[i] < T}
               C == {i \in Entries : p[i] >= T}
    <2>1. /\ threshold' = p /\ index' = [i \in Entries |-> i] /\ small' = StackOf(A, N)
          /\ large' = StackOf(C, N) /\ weights' = weights /\ wpc' = "pair"
      BY <1>1, <1>3 DEF Normalize
    <2>2. \A i \in Entries : p[i] \in Nat
      BY <1>1
    <2>3. p \in [Entries -> Nat]
      BY <2>2
    <2>4. A \in SUBSET (1..N) /\ C \in SUBSET (1..N) /\ A \cap C = {} /\ A \cup C = Entries
      BY <1>1, <2>2 DEF Entries
    <2>5. Stack(small', N) /\ On(small') = A /\ Stack(large', N) /\ On(large') = C
      BY <1>1, <2>1, <2>4, PushedAll
    <2>6. Unpaired' = Entries /\ Entries' = Entries /\ Total(weights') = T /\ Len(weights') = N
      BY <2>1, <2>4, <2>5 DEF Unpaired, Entries
    <2> DEFINE G == [j \in Entries |-> p[j] - T]
    <2>7. [j \in Entries |-> Surplus(j)]' = G
      BY <2>1, <2>6 DEF Surplus
    <2>8. SumUpTo(G, N) = 0
      <3>1. Summands(G, N)
        BY <1>1, <2>2 DEF Summands, Entries
      <3>2. \A j \in 1..N : G[j] = weights[j] * N - T
        BY DEF Entries
      <3>0. N \in Int /\ T \in Int
        BY <1>1
      <3> HIDE DEF G, N, T
      <3>3. SumUpTo(G, N) = SumUpTo(weights, N) * N - N * T
        BY <1>1, <3>0, <3>1, <3>2, SumScaled
      <3>4. SumUpTo(weights, N) = T
        BY DEF Total, N, T
      <3>5. T * N - N * T = 0
        BY <1>1
      <3> QED
        BY <3>3, <3>4, <3>5
    <2>9. ASSUME NEW i \in Entries
          PROVE  SumUpTo([j \in Entries |-> Share(i, j)]', N) = weights[i] * N
      <3> DEFINE F == [j \in Entries |-> IF j = i THEN p[j] ELSE 0]
      <3>1. [j \in Entries |-> Share(i, j)]' = F
        BY <2>1, <2>2, <2>6 DEF Share
      <3>2. Summands(F, N) /\ F[i] = weights[i] * N /\ i \in 1..N
        BY <1>1, <2>2 DEF Summands, Entries
      <3>3. \A j \in 1..N : j # i => F[j] = 0
        BY DEF Entries
      <3> HIDE DEF F
      <3>4. SumUpTo(F, N) = F[i]
        BY <3>2, <3>3, SumOfOne
      <3> QED
        BY <3>1, <3>2, <3>4
    <2>10. TablesRight'
      <3>1. threshold' \in [Entries' -> Nat] /\ index' \in [Entries' -> Entries']
        BY <2>1, <2>3, <2>6
      <3>2. \A j \in On(small') : threshold'[j] < T
        BY <2>1, <2>5
      <3>3. \A j \in On(large') : threshold'[j] >= T
        BY <2>1, <2>5
      <3>4. \A j \in Unpaired' : index'[j] = j
        BY <2>1, <2>6
      <3>5. On(small') \cap On(large') = {}
        BY <2>4, <2>5
      <3>6. SumUpTo([j \in Entries |-> Surplus(j)]', N) = 0
        BY <2>7, <2>8
      <3>7. /\ Total(weights)' = T /\ Len(weights)' = N /\ Entries' = Entries
            /\ Unpaired' = Entries /\ weights' = weights
        BY <2>1, <2>6
      <3> HIDE DEF p, A, C, G, T, N
      <3> QED
        BY <2>5, <2>9, <3>1, <3>2, <3>3, <3>4, <3>5, <3>6, <3>7 DEF TablesRight
    <2> QED
      BY <2>1, <2>10 DEF WalkerInv
  <1> QED
    BY <1>2, <1>3

\* Two summands change and what one loses the other gets.
LEMMA SumMoved ==
    ASSUME NEW N, NEW f, NEW g, Summands(f, N), Summands(g, N), NEW j \in 1..N, NEW k \in 1..N, j # k,
           \A m \in 1..N : m # j /\ m # k => g[m] = f[m], g[j] + g[k] = f[j] + f[k]
    PROVE  SumUpTo(g, N) = SumUpTo(f, N)
  <1> DEFINE h == [f EXCEPT ![j] = g[j]]
  <1>0. N \in Nat /\ f \in [1..N -> Int] /\ g \in [1..N -> Int]
    BY DEF Summands
  <1>1. /\ Summands(h, N) /\ h[j] = g[j] /\ h[k] = f[k]
        /\ \A m \in 1..N : m # j => h[m] = f[m]
        /\ \A m \in 1..N : m # k => g[m] = h[m]
    BY <1>0 DEF Summands
  <1> HIDE DEF h
  <1>2. SumUpTo(h, N) = SumUpTo(f, N) + (h[j] - f[j])
    BY <1>1, SumOneChanged
  <1>3. SumUpTo(g, N) = SumUpTo(h, N) + (g[k] - h[k])
    BY <1>1, SumOneChanged
  <1>4. SumUpTo(f, N) \in Int /\ f[j] \in Int /\ f[k] \in Int /\ g[j] \in Int /\ g[k] \in Int
    <2>1. N \in 0..N
      BY <1>0
    <2> QED
      BY <1>0, <2>1, SumType
  <1> QED
    BY <1>1, <1>2, <1>3, <1>4

\* A turn of the loop moves the lack of the small entry to the large one.
LEMMA PairUpRight ==
    ASSUME WalkerInv, PairUp
    PROVE  WalkerInv'
  <1> DEFINE N == Len(weights)
             T == Total(weights)
             j == Last(small)
             k == Last(large)
             rest == threshold[k] - (T - threshold[j])
  <1>1. /\ N \in Nat \ {0} /\ DOMAIN weights = Entries /\ weights \in [Entries -> Nat] /\ T \in Nat
    BY WeightFacts DEF WalkerInv
  <1>2. TablesRight /\ small # <<>> /\ large # <<>> /\ wpc = "pair"
    BY DEF PairUp, WalkerInv
  <1>3. /\ Stack(Front(small), N) /\ On(Front(small)) = On(small) \ {j} /\ j \in On(small) /\ j \in Entries
        /\ Stack(Front(large), N) /\ On(Front(large)) = On(large) \ {k} /\ k \in On(large) /\ k \in Entries
    BY <1>2, Pop DEF TablesRight, Entries
  <1>4. j # k /\ j \in Unpaired /\ k \in Unpaired
    BY <1>2, <1>3 DEF TablesRight, Unpaired
  <1>5. /\ threshold \in [Entries -> Nat] /\ index \in [Entries -> Entries]
        /\ threshold[j] < T /\ threshold[k] >= T /\ index[j] = j /\ index[k] = k
    BY <1>2, <1>3, <1>4 DEF TablesRight
  <1>6. /\ threshold[j] \in Nat /\ threshold[k] \in Nat /\ rest \in Nat
        /\ rest - T = (threshold[k] - T) + (threshold[j] - T)
    BY <1>1, <1>3, <1>5
  <1>7. /\ threshold' = [threshold EXCEPT ![k] = rest] /\ index' = [index EXCEPT ![j] = k]
        /\ weights' = weights /\ wpc' = "pair"
        /\ rest < T => small' = Append(Front(small), k) /\ large' = Front(large)
        /\ ~(rest < T) => small' = Front(small) /\ large' = large
    BY DEF PairUp
  <1>8. Entries' = Entries /\ Total(weights)' = T /\ Len(weights)' = N
    BY <1>7 DEF Entries
  <1>9. k \notin On(Front(small)) /\ k \in 1..N
    BY <1>2, <1>3 DEF TablesRight, Entries
  <1>10. Stack(Append(Front(small), k), N) /\ On(Append(Front(small), k)) = On(Front(small)) \cup {k}
    BY <1>3, <1>9, Push
  <1>11. /\ rest < T => On(small)' = (On(small) \ {j}) \cup {k} /\ On(large)' = On(large) \ {k}
         /\ ~(rest < T) => On(small)' = On(small) \ {j} /\ On(large)' = On(large)
         /\ Stack(small', N) /\ Stack(large', N)
    <2>1. CASE rest < T
      BY <2>1, <1>3, <1>7, <1>8, <1>10
    <2>2. CASE ~(rest < T)
      BY <2>2, <1>2, <1>3, <1>7, <1>8 DEF TablesRight
    <2> QED
      BY <2>1, <2>2
  <1>12. On(small) \cap On(large) = {}
    BY <1>2 DEF TablesRight
  <1>13. Unpaired' = Unpaired \ {j}
    <2>1. CASE rest < T
      BY <2>1, <1>3, <1>4, <1>11, <1>12 DEF Unpaired
    <2>2. CASE ~(rest < T)
      BY <2>2, <1>3, <1>4, <1>11, <1>12 DEF Unpaired
    <2> QED
      BY <2>1, <2>2
  <1>14. On(small)' \cap On(large)' = {}
    BY <1>3, <1>4, <1>11, <1>12
  <1> HIDE DEF rest, T, N, j, k
  <1>15. /\ threshold' \in [Entries -> Nat] /\ index' \in [Entries -> Entries]
         /\ threshold'[k] = rest /\ threshold'[j] = threshold[j] /\ index'[j] = k
         /\ \A m \in Entries : m # k => threshold'[m] = threshold[m]
         /\ \A m \in Entries : m # j => index'[m] = index[m]
    BY <1>3, <1>4, <1>5, <1>6, <1>7
  <1>16. \A m \in Unpaired : m \in Entries
    <2>1. On(small) \subseteq Entries /\ On(large) \subseteq Entries
      <3>1. small \in Seq(Entries) /\ large \in Seq(Entries)
        BY <1>2 DEF TablesRight, Stack, Entries
      <3> QED
        BY <3>1, ElementOfSeq DEF On
    <2> QED
      BY <2>1 DEF Unpaired
  <1>17. \A m \in On(small)' : threshold'[m] < T
    <2>1. ASSUME NEW m \in On(small), m # j PROVE threshold'[m] < T
      <3>1. m # k /\ m \in Entries
        BY <2>1, <1>3, <1>12, <1>16 DEF Unpaired
      <3>2. threshold'[m] = threshold[m]
        BY <1>15, <3>1
      <3> QED
        BY <1>2, <2>1, <3>2 DEF TablesRight, T
    <2>2. rest < T => threshold'[k] < T
      BY <1>15
    <2> QED
      BY <1>11, <2>1, <2>2
  <1>18. \A m \in On(large)' : threshold'[m] >= T
    <2>1. rest \in Int /\ T \in Int
      BY <1>1, <1>6
    <2> QED
      BY <2>1, <1>2, <1>4, <1>11, <1>12, <1>15, <1>16 DEF TablesRight, T, Unpaired
  <1>19. \A m \in Entries \ Unpaired' : threshold'[m] <= T
    <2>1. threshold[j] <= T
      BY <1>1, <1>5, <1>6
    <2> QED
      BY <2>1, <1>2, <1>4, <1>13, <1>15 DEF TablesRight, T
  <1>20. \A m \in Unpaired' : index'[m] = m
    BY <1>2, <1>13, <1>15, <1>16 DEF TablesRight
  <1>21. SumUpTo([m \in Entries |-> Surplus(m)]', N) = 0
    <2> DEFINE f == [m \in Entries |-> Surplus(m)]
               g == [m \in Entries |-> Surplus(m)']
    <2>1. \A m \in Entries : Surplus(m) \in Int
      BY <1>1, <1>5 DEF Surplus, T
    <2>2. \A m \in Entries : Surplus(m)' \in Int
      BY <1>1, <1>8, <1>15 DEF Surplus
    <2>3. Summands(f, N) /\ Summands(g, N)
      BY <1>1, <2>1, <2>2 DEF Summands, Entries, N
    <2>4. \A m \in 1..N : m # j /\ m # k => g[m] = f[m]
      BY <1>8, <1>13, <1>15 DEF Surplus, Entries, N, T
    <2>5. /\ f[j] = threshold[j] - T /\ f[k] = threshold[k] - T
          /\ g[j] = 0 /\ g[k] = rest - T
      BY <1>3, <1>4, <1>8, <1>13, <1>15 DEF Surplus, T
    <2>6. g[j] + g[k] = f[j] + f[k]
      BY <2>5, <1>1, <1>6
    <2>7. j \in 1..N /\ k \in 1..N
      BY <1>3 DEF Entries, N
    <2>8. SumUpTo(f, N) = 0
      BY <1>2 DEF TablesRight, N
    <2>9. [m \in Entries |-> Surplus(m)]' = g
      BY <1>8
    <2> HIDE DEF f, g
    <2>10. SumUpTo(g, N) = SumUpTo(f, N)
      BY <1>4, <2>3, <2>4, <2>6, <2>7, SumMoved
    <2> QED
      BY <2>8, <2>9, <2>10
  <1>22. ASSUME NEW i \in Entries
         PROVE  SumUpTo([m \in Entries |-> Share(i, m)]', N) = weights[i] * N
    <2> DEFINE f == [m \in Entries |-> Share(i, m)]
               g == [m \in Entries |-> Share(i, m)']
    <2>1. \A m \in Entries : Share(i, m) \in Int
      BY <1>1, <1>5 DEF Share, T
    <2>2. \A m \in Entries : Share(i, m)' \in Int
      BY <1>1, <1>8, <1>15 DEF Share
    <2>3. Summands(f, N) /\ Summands(g, N)
      BY <1>1, <2>1, <2>2 DEF Summands, Entries, N
    <2>4. \A m \in 1..N : m # j /\ m # k => g[m] = f[m]
      BY <1>8, <1>13, <1>15 DEF Share, Entries, N, T
    <2>5. /\ f[j] = (IF j = i THEN threshold[j] ELSE 0)
          /\ f[k] = (IF k = i THEN threshold[k] ELSE 0)
          /\ g[j] = (IF j = i THEN threshold[j] ELSE 0) + (IF k = i THEN T - threshold[j] ELSE 0)
          /\ g[k] = (IF k = i THEN rest ELSE 0)
      BY <1>1, <1>3, <1>4, <1>6, <1>8, <1>13, <1>15 DEF Share, T
    <2>6. g[j] + g[k] = f[j] + f[k]
      BY <2>5, <1>1, <1>6, <1>4
    <2>7. j \in 1..N /\ k \in 1..N
      BY <1>3 DEF Entries, N
    <2>8. SumUpTo(f, N) = weights[i] * N
      BY <1>2 DEF TablesRight, N
    <2>9. [m \in Entries |-> Share(i, m)]' = g
      BY <1>8
    <2> HIDE DEF f, g
    <2>10. SumUpTo(g, N) = SumUpTo(f, N)
      BY <1>4, <2>3, <2>4, <2>6, <2>7, SumMoved
    <2> QED
      BY <2>8, <2>9, <2>10
  <1>23. TablesRight'
    <2>1. /\ threshold' \in [Entries' -> Nat] /\ index' \in [Entries' -> Entries']
          /\ \A m \in On(small)' : threshold'[m] < Total(weights)'
          /\ \A m \in On(large)' : threshold'[m] >= Total(weights)'
          /\ \A m \in Entries' \ Unpaired' : threshold'[m] <= Total(weights)'
      BY <1>8, <1>15, <1>17, <1>18, <1>19
    <2>2. \A i \in Entries' : SumUpTo([m \in Entries |-> Share(i, m)]', N) = weights'[i] * N
      BY <1>7, <1>8, <1>22
    <2>3. /\ Stack(small', Len(weights)') /\ Stack(large', Len(weights)')
          /\ SumUpTo([m \in Entries |-> Surplus(m)]', Len(weights)') = 0
          /\ \A i \in Entries' : SumUpTo([m \in Entries |-> Share(i, m)]', Len(weights)')
                                   = weights'[i] * Len(weights)'
      BY <1>8, <1>11, <1>21, <2>2
    <2> QED
      BY <1>14, <1>20, <2>1, <2>3 DEF TablesRight
  <1> QED
    BY <1>7, <1>23 DEF WalkerInv

\* When one stack is empty, no entry that waits has more or less than the mean.
LEMMA NothingLeftOver ==
    ASSUME WalkerInv, wpc = "ready"
    PROVE  \A j \in Entries : /\ threshold[j] \in Nat /\ threshold[j] <= Total(weights)
                              /\ j \in Unpaired => threshold[j] = Total(weights)
  <1> DEFINE N == Len(weights)
             T == Total(weights)
             f == [j \in Entries |-> Surplus(j)]
             e == [j \in Entries |-> 0 - Surplus(j)]
  <1>1. /\ N \in Nat \ {0} /\ T \in Nat /\ TablesRight /\ threshold \in [Entries -> Nat]
        /\ SumUpTo(f, N) = 0
    BY WeightFacts DEF WalkerInv, TablesRight
  <1>2. \A j \in Entries : Surplus(j) \in Int /\ 0 - Surplus(j) \in Int
    BY <1>1 DEF Surplus
  <1>3. Summands(f, N) /\ Summands(e, N)
    BY <1>1, <1>2 DEF Summands, Entries
  <1>4. CASE small = <<>>
    <2>1. On(small) = {}
      BY <1>4 DEF On
    <2>2. \A j \in 1..N : f[j] >= 0
      BY <1>1, <2>1 DEF Entries, TablesRight, Surplus, Unpaired
    <2>3. \A j \in 1..N : f[j] = 0
      <3> HIDE DEF f
      <3> QED
        BY <1>1, <1>3, <2>2, SumOfNats
    <2>4. \A j \in Entries : Surplus(j) = 0
      BY <2>3 DEF Entries
    <2> QED
      BY <1>1, <2>4 DEF Surplus, TablesRight
  <1>5. CASE large = <<>>
    <2>1. On(large) = {}
      BY <1>5 DEF On
    <2>2. \A j \in 1..N : e[j] >= 0
      BY <1>1, <2>1 DEF Entries, TablesRight, Surplus, Unpaired
    <2>3. SumUpTo(e, N) = 0
      <3>1. \A j \in 1..N : e[j] = f[j] * (0 - 1) - 0
        BY <1>2 DEF Entries
      <3> DEFINE c == 0 - 1
                 d == 0
      <3>2. c \in Int /\ d \in Int /\ 0 * c - N * d = 0
        BY <1>1
      <3>3. \A j \in 1..N : e[j] = f[j] * c - d
        BY <3>1
      <3> HIDE DEF c, d, e, f
      <3>4. SumUpTo(e, N) = SumUpTo(f, N) * c - N * d
        BY <1>3, <3>2, <3>3, SumScaled
      <3> QED
        BY <1>1, <3>2, <3>4
    <2>4. \A j \in 1..N : e[j] = 0
      <3> HIDE DEF e
      <3> QED
        BY <1>3, <2>2, <2>3, SumOfNats
    <2>5. \A j \in Entries : Surplus(j) = 0
      BY <1>2, <2>4 DEF Entries
    <2> QED
      BY <1>1, <2>5 DEF Surplus, TablesRight
  <1> QED
    BY <1>4, <1>5 DEF WalkerInv

\* The finished tables choose every index by its share.
LEMMA ReadyExact ==
    ASSUME WalkerInv
    PROVE  WalkerExact
  <1> SUFFICES ASSUME wpc = "ready", NEW i \in DOMAIN weights
               PROVE  Chance(i) = weights[i] * Len(weights)
    BY DEF WalkerExact
  <1>1. DOMAIN weights = Entries /\ i \in Entries /\ Total(weights) \in Nat
    BY WeightFacts DEF WalkerInv
  <1>2. \A j \in Entries : /\ threshold[j] \in Nat /\ threshold[j] <= Total(weights)
                           /\ j \in Unpaired => threshold[j] = Total(weights)
    BY NothingLeftOver
  <1> DEFINE Own(j) == IF threshold[j] > Total(weights) THEN Total(weights) ELSE threshold[j]
             Of(j) == (IF j = i THEN Own(j) ELSE 0) + (IF index[j] = i THEN Total(weights) - Own(j) ELSE 0)
  <1>3. \A j \in Entries : Own(j) = threshold[j]
    BY <1>1, <1>2
  <1>4. \A j \in Entries : Of(j) = Share(i, j)
    BY <1>1, <1>2, <1>3 DEF Share
  <1>5. Chance(i) = SumUpTo([j \in Entries |-> Of(j)], Len(weights))
    BY <1>1 DEF Chance
  <1> HIDE DEF Of
  <1>6. [j \in Entries |-> Of(j)] = [j \in Entries |-> Share(i, j)]
    BY <1>4
  <1> QED
    BY <1>1, <1>5, <1>6 DEF WalkerInv, TablesRight

\* From every sequence of weights, WalkerDiscreteDistribution makes tables from which each
\* index is drawn exactly as often as its weight says.
THEOREM WalkerTablesExact == WalkerSpec => []WalkerExact
  <1>1. WalkerInit => WalkerInv
    BY WalkerAssumption DEF WalkerInit, WalkerInv
  <1>2. WalkerInv /\ [WalkerNext]_walkerVars => WalkerInv'
    <2> SUFFICES ASSUME WalkerInv, [WalkerNext]_walkerVars PROVE WalkerInv'
      OBVIOUS
    <2>1. CASE PairUpDone
      BY <2>1 DEF PairUpDone, WalkerInv, TablesRight, Unpaired, Surplus, Share, Entries
    <2>2. CASE UNCHANGED walkerVars
      BY <2>2 DEF walkerVars, WalkerInv, TablesRight, Unpaired, Surplus, Share, Entries
    <2> QED
      BY <2>1, <2>2, NormalizeRight, PairUpRight DEF WalkerNext
  <1> QED
    BY <1>1, <1>2, ReadyExact, PTL DEF WalkerSpec
=============================================================================
