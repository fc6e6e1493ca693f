--------------------------- MODULE AflScoreProofs ---------------------------
(***************************************************************************)
(* Proofs about AflScore, for every number of testcases and every map      *)
(* size. The five invariants are inductive together.                       *)
(*                                                                         *)
(* The last part is about the two loops over the map (AflScoreLoop): that  *)
(* they compute the closed forms of AflScore is shown by looking at the    *)
(* first byte of the map where they would disagree.                        *)
(***************************************************************************)
EXTENDS AflScoreLoop, FiniteSetTheorems, WellFoundedInduction, TLAPS

ScoreInv ==
    /\ ScoreTypeOK /\ RefsCountSlots /\ PendingCounted /\ FavoredCountSafe
    /\ FavoredCoverMap

-----------------------------------------------------------------------------
(* Finite sets.                                                            *)

\* The slots of the map are finitely many, and so is every set of testcases.
LEMMA Finite ==
    /\ IsFiniteSet(Slot)
    /\ \A S \in SUBSET Slot : IsFiniteSet(S) /\ Cardinality(S) \in Nat
    /\ \A S \in SUBSET Case : IsFiniteSet(S) /\ Cardinality(S) \in Nat
  <1>1. IsFiniteSet(Slot)
    BY ScoreAssumption, FS_Interval DEF Slot
  <1> QED
    BY <1>1, ScoreAssumption, FS_Subset, FS_CardinalityType

\* Picking a testcase for every slot of P picks no more testcases than slots,
\* and as many if no testcase is picked twice.
LEMMA ImageSize ==
    ASSUME NEW P \in SUBSET Slot, NEW S, NEW f \in [P -> S]
    PROVE  /\ Cardinality({f[i] : i \in P}) <= Cardinality(P)
           /\ (\A i, j \in P : f[i] = f[j] => i = j)
                  => Cardinality({f[i] : i \in P}) = Cardinality(P)
  <1> DEFINE T == {f[i] : i \in P}
  <1>1. f \in Surjection(P, T)
    BY DEF Surjection
  <1>2. (\A i, j \in P : f[i] = f[j] => i = j) => f \in Injection(P, T)
    BY DEF Injection, IsInjective
  <1>3. IsFiniteSet(P)
    BY Finite
  <1> HIDE DEF T
  <1>4. Cardinality(T) <= Cardinality(P)
    BY <1>1, <1>3, FS_Surjection
  <1>5. f \in Injection(P, T) => Cardinality(T) = Cardinality(P)
    BY <1>1, <1>3, FS_Surjection
  <1> QED
    BY <1>2, <1>4, <1>5 DEF T

-----------------------------------------------------------------------------
(* UpdateBitmapScore.                                                      *)

\* How many slots s is top rated for once t has taken the slots W.
LEMMA RatedAfter ==
    ASSUME ScoreTypeOK, RefsCountSlots,
           NEW t \in Case, NEW W \in SUBSET Slot, NEW s \in Case,
           top_rated' = [i \in Slot |-> IF i \in W THEN t ELSE top_rated[i]]
    PROVE  /\ RefAfter(s, t, W) = Cardinality(RatedAt(s)')
           /\ RefAfter(s, t, W) \in Nat
           /\ s = t /\ W # {} => RefAfter(s, t, W) > 0
           /\ Lost(s, W) = {} /\ s # t => RefAfter(s, t, W) = tc_ref[s]
           /\ Lost(s, W) # {} => tc_ref[s] > 0
  <1> DEFINE A == RatedAt(s)
  <1>1. A \in SUBSET Slot /\ Lost(s, W) = A \cap W /\ Lost(s, W) \in SUBSET Slot
    BY DEF RatedAt, Lost
  <1>2. tc_ref[s] = Cardinality(A)
    BY DEF RefsCountSlots
  <1>3. /\ Cardinality(A) \in Nat /\ Cardinality(W) \in Nat
        /\ Cardinality(A \cap W) \in Nat
        /\ IsFiniteSet(A) /\ IsFiniteSet(W) /\ IsFiniteSet(A \cap W)
    BY <1>1, Finite
  <1>4. A \cap W # {} => Cardinality(A) > 0
    BY <1>3, FS_EmptySet
  <1>5. CASE s = t
    <2>1. RatedAt(s)' = A \cup W
      BY <1>5, ScoreAssumption DEF RatedAt, ScoreTypeOK
    <2>2. Cardinality(A \cup W) = Cardinality(A) + Cardinality(W) - Cardinality(A \cap W)
      BY <1>3, FS_Union
    <2>3. Cardinality(A \cup W) \in Nat /\ (W # {} => Cardinality(A \cup W) > 0)
      BY <1>1, <1>3, Finite, FS_Union, FS_EmptySet, FS_CardinalityType
    <2> HIDE DEF A
    <2> QED
      BY <1>1, <1>2, <1>3, <1>4, <1>5, <2>1, <2>2, <2>3 DEF RefAfter
  <1>6. CASE s # t
    <2>1. RatedAt(s)' = A \ W
      BY <1>6, ScoreAssumption DEF RatedAt, ScoreTypeOK
    <2>2. Cardinality(A \ W) = Cardinality(A) - Cardinality(A \cap W)
      BY <1>3, FS_Difference
    <2>3. Cardinality(A \ W) \in Nat
      BY <1>3, FS_Difference, FS_CardinalityType
    <2>4. A \cap W = {} => Cardinality(A \cap W) = 0
      BY FS_EmptySet
    <2> HIDE DEF A
    <2> QED
      BY <1>1, <1>2, <1>3, <1>4, <1>6, <2>1, <2>2, <2>3, <2>4 DEF RefAfter
  <1> QED
    BY <1>5, <1>6

\* NoTrace is not a set of slots.
LEMMA NoTraceIsNone == \A S \in SUBSET Slot : S # NoTrace
  BY ScoreAssumption DEF Slot, NoTrace

\* Scoring keeps the types of the ranking, the reference counts and the rule
\* that trace_mini lives as long as its references; a ranking that has not
\* changed is still covered.
LEMMA ScoreKeeps ==
    ASSUME ScoreInv, NEW t \in case_queue, NEW trace \in SUBSET Slot,
           UpdateBitmapScore(t, trace), t \in calibrated',
           calibrated \subseteq calibrated', favored' = favored
    PROVE  /\ top_rated' \in [Slot -> calibrated' \cup {Nil}]
           /\ tc_ref' \in [Case -> Nat]
           /\ trace_mini' \in [Case -> (SUBSET Slot) \cup {NoTrace}]
           /\ score_changed' \in BOOLEAN
           /\ RefsCountSlots'
           /\ FavoredCoverMap'
  <1> USE DEF ScoreInv
  <1>1. PICK W \in SUBSET trace :
            /\ top_rated' = [i \in Slot |-> IF i \in W THEN t ELSE top_rated[i]]
            /\ tc_ref' = [s \in Case |-> RefAfter(s, t, W)]
            /\ trace_mini' = [s \in Case |-> MiniAfter(s, t, W, trace)]
            /\ score_changed' = (score_changed \/ W # {})
    <2> DEFINE V == Wins([s \in Case |-> exec_us'[s] * len'[s]], t, trace)
    <2>1. V \in SUBSET trace
      BY DEF Wins
    <2> QED
      BY <2>1 DEF UpdateBitmapScore
  <1>2. t \in Case /\ W \in SUBSET Slot /\ t # Nil
    BY <1>1, ScoreAssumption DEF ScoreTypeOK
  <1>3. \A s \in Case :
            /\ RefAfter(s, t, W) = Cardinality(RatedAt(s)')
            /\ RefAfter(s, t, W) \in Nat
            /\ s = t /\ W # {} => RefAfter(s, t, W) > 0
            /\ Lost(s, W) = {} /\ s # t => RefAfter(s, t, W) = tc_ref[s]
            /\ Lost(s, W) # {} => tc_ref[s] > 0
    BY <1>1, <1>2, RatedAfter
  <1>4. top_rated' \in [Slot -> calibrated' \cup {Nil}]
    BY <1>1, <1>2 DEF ScoreTypeOK
  <1>5. tc_ref' \in [Case -> Nat]
    BY <1>1, <1>3
  <1>6. trace_mini' \in [Case -> (SUBSET Slot) \cup {NoTrace}]
    BY <1>1 DEF MiniAfter, ScoreTypeOK
  <1>7. ASSUME NEW s \in Case
        PROVE  MiniAfter(s, t, W, trace) # NoTrace <=> RefAfter(s, t, W) > 0
    <2>1. /\ trace_mini[s] # NoTrace <=> tc_ref[s] > 0
          /\ tc_ref[s] \in Nat
      BY DEF RefsCountSlots, ScoreTypeOK
    <2>2. trace # NoTrace
      BY NoTraceIsNone
    <2>3. CASE s # t
      BY <1>3, <2>1, <2>3 DEF MiniAfter
    <2>4. CASE s = t /\ W # {}
      BY <1>3, <2>1, <2>2, <2>4 DEF MiniAfter
    <2>5. CASE s = t /\ W = {}
      <3>1. Lost(s, W) = {}
        BY <2>5 DEF Lost
      <3>2. Cardinality(Lost(s, W)) = 0 /\ Cardinality(W) = 0
        BY <2>5, <3>1, FS_EmptySet
      <3>3. RefAfter(s, t, W) = tc_ref[s]
        BY <2>1, <3>2 DEF RefAfter
      <3> QED
        BY <2>1, <2>5, <3>3 DEF MiniAfter
    <2> QED
      BY <2>3, <2>4, <2>5
  <1>8. RefsCountSlots'
    BY <1>1, <1>3, <1>7 DEF RefsCountSlots
  <1>9. FavoredCoverMap'
    <2>1. CASE W # {}
      BY <1>1, <2>1 DEF FavoredCoverMap
    <2>2. CASE W = {}
      <3>1. \A s \in Case : Lost(s, W) = {}
        BY <2>2 DEF Lost
      <3>2. trace_mini' = trace_mini
        BY <1>1, <2>2, <3>1 DEF MiniAfter, ScoreTypeOK
      <3>3. top_rated' = top_rated
        BY <1>1, <2>2 DEF ScoreTypeOK
      <3> QED
        BY <1>1, <2>2, <3>2, <3>3 DEF FavoredCoverMap
    <2> QED
      BY <2>1, <2>2
  <1>10. score_changed' \in BOOLEAN
    BY <1>1 DEF ScoreTypeOK
  <1> QED
    BY <1>4, <1>5, <1>6, <1>8, <1>9, <1>10

-----------------------------------------------------------------------------
(* One lemma per operation.                                                *)

\* AddToQueue, with the counter of the testcases never fuzzed.
LEMMA AddToQueueKeeps ==
    ASSUME ScoreInv, NEW t \in Case, NEW n \in Sizes, AddToQueue(t, n)
    PROVE  ScoreInv'
  <1> USE DEF ScoreInv, AddToQueue, rankVars, cullVars
  <1>1. ScoreTypeOK'
    BY ScoreAssumption DEF ScoreTypeOK
  <1>2. RefsCountSlots' /\ FavoredCountSafe' /\ FavoredCoverMap'
    BY DEF RefsCountSlots, RatedAt, FavoredCountSafe, FavoredCoverMap
  <1>3. PendingCounted'
    <2> DEFINE S == case_queue \ fuzzed
    <2>1. (case_queue \ fuzzed)' = S \cup {t} /\ t \notin S
      BY DEF ScoreTypeOK
    <2>2. IsFiniteSet(S)
      BY Finite DEF ScoreTypeOK
    <2> HIDE DEF S
    <2>3. Cardinality(S \cup {t}) = Cardinality(S) + 1
      BY <2>1, <2>2, FS_AddElement
    <2> QED
      BY <2>1, <2>3 DEF PendingCounted, S
  <1> QED
    BY <1>1, <1>2, <1>3

\* Load changes nothing but len.
LEMMA LoadKeeps ==
    ASSUME ScoreInv, NEW t \in Case, Load(t)
    PROVE  ScoreInv'
  <1> USE DEF ScoreInv, Load, rankVars, cullVars
  <1>1. ScoreTypeOK'
    BY DEF ScoreTypeOK
  <1> QED
    BY <1>1 DEF RefsCountSlots, RatedAt, PendingCounted, FavoredCountSafe,
                FavoredCoverMap

\* Calibrate scores the testcase for the first time.
LEMMA CalibrateKeeps ==
    ASSUME ScoreInv, NEW t \in Case, NEW us \in Times, NEW trace \in SUBSET Slot,
           Calibrate(t, us, trace)
    PROVE  ScoreInv'
  <1> USE DEF ScoreInv
  <1>1. /\ UpdateBitmapScore(t, trace) /\ t \in case_queue
        /\ calibrated' = calibrated \cup {t} /\ favored' = favored
    BY DEF Calibrate, ScoreCalibration, cullVars
  <1>2. /\ top_rated' \in [Slot -> calibrated' \cup {Nil}]
        /\ tc_ref' \in [Case -> Nat]
        /\ trace_mini' \in [Case -> (SUBSET Slot) \cup {NoTrace}]
        /\ score_changed' \in BOOLEAN
        /\ RefsCountSlots'
        /\ FavoredCoverMap'
    BY <1>1, ScoreKeeps
  <1>3. ScoreTypeOK'
    BY <1>1, <1>2, ScoreAssumption DEF ScoreTypeOK, Calibrate, ScoreCalibration, cullVars
  <1>4. PendingCounted' /\ FavoredCountSafe'
    BY DEF Calibrate, ScoreCalibration, cullVars, PendingCounted, FavoredCountSafe
  <1> QED
    BY <1>2, <1>3, <1>4

\* Shorten changes only lengths.
LEMMA ShortenKeeps ==
    ASSUME ScoreInv, NEW t \in Case, NEW n \in Sizes, Shorten(t, n)
    PROVE  ScoreInv'
  <1> USE DEF ScoreInv, Shorten, rankVars, cullVars
  <1>1. ScoreTypeOK'
    BY ScoreAssumption DEF ScoreTypeOK
  <1> QED
    BY <1>1 DEF RefsCountSlots, RatedAt, PendingCounted, FavoredCountSafe,
                FavoredCoverMap

\* Rescore scores the testcase again.
LEMMA RescoreKeeps ==
    ASSUME ScoreInv, NEW t \in Case, NEW trace \in SUBSET Slot, Rescore(t, trace)
    PROVE  ScoreInv'
  <1> USE DEF ScoreInv
  <1>1. /\ UpdateBitmapScore(t, trace) /\ t \in case_queue /\ t \in calibrated'
        /\ calibrated' = calibrated /\ favored' = favored
    BY DEF Rescore, cullVars, ScoreTypeOK
  <1>2. /\ top_rated' \in [Slot -> calibrated' \cup {Nil}]
        /\ tc_ref' \in [Case -> Nat]
        /\ trace_mini' \in [Case -> (SUBSET Slot) \cup {NoTrace}]
        /\ score_changed' \in BOOLEAN
        /\ RefsCountSlots'
        /\ FavoredCoverMap'
    BY <1>1, ScoreKeeps
  <1>3. ScoreTypeOK'
    BY <1>1, <1>2 DEF ScoreTypeOK, Rescore, cullVars
  <1>4. PendingCounted' /\ FavoredCountSafe'
    BY DEF Rescore, cullVars, PendingCounted, FavoredCountSafe
  <1> QED
    BY <1>2, <1>3, <1>4

\* CullQueue picks anew: its picks cover the map, and it counts at least as many
\* pending favorites as there are.
LEMMA CullQueueKeeps ==
    ASSUME ScoreInv, CullQueue
    PROVE  ScoreInv'
  <1> USE DEF ScoreInv
  <1>1. PICK P \in SUBSET Rated :
            /\ Picked(P)
            /\ favored' = {top_rated[i] : i \in P}
            /\ queued_favored' = Cardinality(P)
            /\ pending_favored' = Cardinality({i \in P : top_rated[i] \notin fuzzed})
            /\ redundant' = case_queue \ favored'
    BY DEF CullQueue
  <1> DEFINE Q == {i \in P : top_rated[i] \notin fuzzed}
  <1>2. P \in SUBSET Slot /\ Q \in SUBSET Slot
    BY <1>1 DEF Rated
  <1>3. favored' \subseteq calibrated
    BY <1>1, <1>2 DEF Rated, ScoreTypeOK
  <1>4. ScoreTypeOK'
    <2>1. Cardinality(P) \in Nat /\ Cardinality(Q) \in Nat
      BY <1>2, Finite
    <2> QED
      BY <1>1, <1>3, <2>1 DEF CullQueue, caseVars, ScoreTypeOK
  <1>5. RefsCountSlots' /\ PendingCounted'
    BY DEF CullQueue, caseVars, RefsCountSlots, RatedAt, PendingCounted
  <1>6. FavoredCountSafe'
    <2> DEFINE f == [i \in Q |-> top_rated[i]]
    <2>1. (favored \ fuzzed)' = {f[i] : i \in Q}
      BY <1>1 DEF CullQueue, caseVars
    <2>2. f \in [Q -> calibrated \cup {Nil}]
      BY <1>2 DEF ScoreTypeOK
    <2> HIDE DEF f, Q
    <2>3. Cardinality({f[i] : i \in Q}) <= Cardinality(Q)
      BY <1>2, <2>2, ImageSize
    <2>4. Cardinality(Q) \in Nat /\ Cardinality({f[i] : i \in Q}) \in Nat
      <3>1. {f[i] : i \in Q} \in SUBSET Case
        BY <1>3, <2>1 DEF ScoreTypeOK
      <3> QED
        BY <1>2, <3>1, Finite
    <2> QED
      BY <1>1, <2>1, <2>3, <2>4 DEF FavoredCountSafe, Q
  <1>7. FavoredCoverMap'
    <2>1. ASSUME NEW i \in Slot, top_rated[i] # Nil
          PROVE  \/ top_rated[i] \in favored'
                 \/ \E t \in favored' : i \in trace_mini[t]
      <3>1. CASE i \in P
        BY <1>1, <3>1
      <3>2. CASE i \notin P
        <4>1. i \in UNION {trace_mini[top_rated[j]] : j \in {k \in P : k < i}}
          BY <1>1, <2>1, <3>2 DEF Picked, Rated
        <4>2. PICK j \in P : i \in trace_mini[top_rated[j]]
          BY <4>1
        <4> QED
          BY <1>1, <4>2
      <3> QED
        BY <3>1, <3>2
    <2> QED
      BY <2>1 DEF CullQueue, FavoredCoverMap
  <1> QED
    BY <1>4, <1>5, <1>6, <1>7

\* AbandonEntry counts down once per testcase, and only what was counted.
LEMMA AbandonEntryKeeps ==
    ASSUME ScoreInv, NEW t \in Case, AbandonEntry(t)
    PROVE  ScoreInv'
  <1> USE DEF ScoreInv
  <1> DEFINE S == case_queue \ fuzzed
             F == favored \ fuzzed
  <1>1. /\ S' = S \ {t} /\ t \in S
        /\ F' = F \ {t} /\ (t \in F <=> t \in favored)
    BY DEF AbandonEntry, MarkFuzzed, cullVars, ScoreTypeOK
  <1>2. /\ IsFiniteSet(S) /\ Cardinality(S) \in Nat
        /\ IsFiniteSet(F) /\ Cardinality(F) \in Nat
    BY Finite DEF ScoreTypeOK
  <1>3. /\ pending_not_fuzzed = Cardinality(S)
        /\ pending_favored >= Cardinality(F) /\ pending_favored \in Nat
    BY DEF PendingCounted, FavoredCountSafe, ScoreTypeOK
  <1>4. /\ pending_not_fuzzed' = pending_not_fuzzed - 1
        /\ pending_favored' = pending_favored - (IF t \in favored THEN 1 ELSE 0)
    BY DEF AbandonEntry, MarkFuzzed
  <1>5. RefsCountSlots' /\ FavoredCoverMap'
    BY DEF AbandonEntry, MarkFuzzed, rankVars, cullVars, RefsCountSlots, RatedAt, FavoredCoverMap
  <1> HIDE DEF S, F
  <1>6. Cardinality(S \ {t}) = Cardinality(S) - 1 /\ Cardinality(S \ {t}) \in Nat
    BY <1>1, <1>2, FS_RemoveElement, FS_CardinalityType
  <1>7. /\ t \in F => Cardinality(F \ {t}) = Cardinality(F) - 1
        /\ t \notin F => F \ {t} = F
        /\ Cardinality(F \ {t}) \in Nat
    BY <1>2, FS_RemoveElement, FS_CardinalityType
  <1>8. PendingCounted' /\ FavoredCountSafe'
    BY <1>1, <1>2, <1>3, <1>4, <1>6, <1>7 DEF PendingCounted, FavoredCountSafe, S, F
  <1>9. pending_not_fuzzed' \in Nat /\ pending_favored' \in Nat
    BY <1>1, <1>2, <1>3, <1>4, <1>6, <1>7
  <1>10. ScoreTypeOK'
    BY <1>9 DEF AbandonEntry, MarkFuzzed, rankVars, cullVars, ScoreTypeOK
  <1> QED
    BY <1>5, <1>8, <1>10

-----------------------------------------------------------------------------
(* The theorems.                                                           *)

\* Initially the queue is empty and nothing is rated.
LEMMA ScoreInitHolds == ScoreInit => ScoreInv
  <1> SUFFICES ASSUME ScoreInit PROVE ScoreInv
    OBVIOUS
  <1> USE DEF ScoreInit
  <1>1. Cardinality({}) = 0
    BY FS_EmptySet
  <1>2. \A t \in Case : RatedAt(t) = {}
    BY ScoreAssumption DEF RatedAt
  <1>3. ScoreTypeOK
    BY DEF ScoreTypeOK
  <1> QED
    BY <1>1, <1>2, <1>3 DEF ScoreInv, RefsCountSlots, PendingCounted,
                            FavoredCountSafe, FavoredCoverMap

\* Every operation keeps the five invariants together.
LEMMA ScoreNextKeeps == ScoreInv /\ [ScoreNext]_scoreVars => ScoreInv'
  <1> SUFFICES ASSUME ScoreInv, [ScoreNext]_scoreVars PROVE ScoreInv'
    OBVIOUS
  <1>1. CASE \E t \in Case, n \in Sizes : AddToQueue(t, n)
    BY <1>1, AddToQueueKeeps
  <1>2. CASE \E t \in Case : Load(t) \/ AbandonEntry(t)
    BY <1>2, LoadKeeps, AbandonEntryKeeps
  <1>3. CASE \E t \in Case, us \in Times, trace \in SUBSET Slot : Calibrate(t, us, trace)
    BY <1>3, CalibrateKeeps
  <1>4. CASE \E t \in Case, n \in Sizes : Shorten(t, n)
    BY <1>4, ShortenKeeps
  <1>7. CASE \E t \in Case, trace \in SUBSET Slot : Rescore(t, trace)
    BY <1>7, RescoreKeeps
  <1>5. CASE CullQueue
    BY <1>5, CullQueueKeeps
  <1>6. CASE UNCHANGED scoreVars
    BY <1>6 DEF scoreVars, caseVars, rankVars, cullVars, ScoreInv, ScoreTypeOK,
                RefsCountSlots, RatedAt, PendingCounted, FavoredCountSafe,
                FavoredCoverMap
  <1> QED
    BY <1>1, <1>2, <1>3, <1>4, <1>5, <1>6, <1>7 DEF ScoreNext

\* The ranking's invariants hold together, for every number of testcases, every
\* map size and every PUT.
THEOREM ScoreInvariant == ScoreSpec => []ScoreInv
  BY ScoreInitHolds, ScoreNextKeeps, PTL DEF ScoreSpec

\* The ranking's state has its types: no counter falls below zero, only
\* calibrated testcases are rated, favored or fuzzed.
THEOREM ScoreTypes == ScoreSpec => []ScoreTypeOK
  BY ScoreInvariant, PTL DEF ScoreInv

\* tc_ref is the number of slots a testcase is top rated for, and trace_mini is
\* there when CullQueue reads it.
THEOREM ReferencesCounted == ScoreSpec => []RefsCountSlots
  BY ScoreInvariant, PTL DEF ScoreInv

\* pending_not_fuzzed is the number of queued testcases never fuzzed.
THEOREM NotFuzzedCounted == ScoreSpec => []PendingCounted
  BY ScoreInvariant, PTL DEF ScoreInv

\* The decrements of pending_favored never take it below zero.
THEOREM FavoredNeverUnderflows == ScoreSpec => []FavoredCountSafe
  BY ScoreInvariant, PTL DEF ScoreInv

\* The favored testcases cover every slot somebody is top rated for.
THEOREM FavoredCover == ScoreSpec => []FavoredCoverMap
  BY ScoreInvariant, PTL DEF ScoreInv

-----------------------------------------------------------------------------
(* A PUT that always touches the same bytes.                               *)

SteadyInv ==
    /\ \A t \in Case : trace_mini[t] \in {NoTrace, hits[t]}
    /\ \A i \in Slot : top_rated[i] # Nil => i \in hits[top_rated[i]]
    /\ FavoredCounted

\* If the PUT always touches the same bytes for an input, trace_mini is exact, so
\* CullQueue picks no testcase twice and its two counters are exact.
THEOREM SteadyCountsExact ==
    ASSUME ~VaryingPut
    PROVE  ScoreSpec => []FavoredCounted
  <1>1. ScoreInit => SteadyInv
    BY FS_EmptySet DEF ScoreInit, SteadyInv, FavoredCounted
  <1>2. ScoreInv /\ SteadyInv /\ [ScoreNext]_scoreVars => SteadyInv'
    <2> SUFFICES ASSUME ScoreInv, SteadyInv, [ScoreNext]_scoreVars
                 PROVE  SteadyInv'
      OBVIOUS
    <2> USE DEF ScoreInv
    <2>1. ASSUME NEW t \in case_queue, NEW trace \in SUBSET Slot,
                 UpdateBitmapScore(t, trace), hits' = [hits EXCEPT ![t] = trace],
                 \/ trace = hits[t]
                 \/ t \notin calibrated,
                 favored' = favored, queued_favored' = queued_favored,
                 pending_favored' = pending_favored, fuzzed' = fuzzed
          PROVE  SteadyInv'
      <3>1. PICK W \in SUBSET trace :
                /\ top_rated' = [i \in Slot |-> IF i \in W THEN t ELSE top_rated[i]]
                /\ trace_mini' = [s \in Case |-> MiniAfter(s, t, W, trace)]
        <4> DEFINE V == Wins([s \in Case |-> exec_us'[s] * len'[s]], t, trace)
        <4>1. V \in SUBSET trace
          BY DEF Wins
        <4> QED
          BY <2>1, <4>1 DEF UpdateBitmapScore
      <3>2. t \in Case
        BY DEF ScoreTypeOK
      <3>3. \A s \in Case : hits'[s] = IF s = t THEN trace ELSE hits[s]
        BY <2>1, <3>2 DEF ScoreTypeOK
      <3>4. t \notin calibrated =>
                trace_mini[t] = NoTrace /\ \A i \in Slot : top_rated[i] # t
        <4> SUFFICES ASSUME t \notin calibrated
                     PROVE  trace_mini[t] = NoTrace /\ \A i \in Slot : top_rated[i] # t
          OBVIOUS
        <4>1. \A i \in Slot : top_rated[i] # t
          BY <3>2, ScoreAssumption DEF ScoreTypeOK
        <4>2. RatedAt(t) = {}
          BY <4>1 DEF RatedAt
        <4>3. tc_ref[t] = 0
          BY <3>2, <4>2, FS_EmptySet DEF RefsCountSlots
        <4> QED
          BY <3>2, <4>1, <4>3 DEF RefsCountSlots
      <3>5. \A s \in Case : trace_mini'[s] \in {NoTrace, hits'[s]}
        BY <2>1, <3>1, <3>3, <3>4 DEF MiniAfter, SteadyInv
      <3>6. \A i \in Slot : top_rated'[i] # Nil => i \in hits'[top_rated'[i]]
        <4>1. ASSUME NEW i \in Slot, top_rated'[i] # Nil
              PROVE  i \in hits'[top_rated'[i]]
          <5>1. CASE i \in W
            BY <3>1, <3>2, <3>3, <5>1
          <5>2. CASE i \notin W
            <6>1. top_rated'[i] = top_rated[i] /\ top_rated[i] \in calibrated
              BY <3>1, <4>1, <5>2 DEF ScoreTypeOK
            <6>2. i \in hits[top_rated[i]]
              BY <4>1, <6>1 DEF SteadyInv
            <6>3. top_rated[i] = t => trace = hits[t]
              BY <2>1, <6>1
            <6> QED
              BY <3>3, <6>1, <6>2, <6>3 DEF ScoreTypeOK
          <5> QED
            BY <5>1, <5>2
        <4> QED
          BY <4>1
      <3>7. FavoredCounted'
        BY <2>1 DEF SteadyInv, FavoredCounted
      <3> QED
        BY <3>5, <3>6, <3>7 DEF SteadyInv
    <2>2. CASE \E t \in Case, n \in Sizes : AddToQueue(t, n)
      BY <2>2 DEF AddToQueue, rankVars, cullVars, SteadyInv, FavoredCounted
    <2>3. ASSUME NEW t \in Case, Load(t)
          PROVE  SteadyInv'
      BY <2>3 DEF Load, rankVars, cullVars, SteadyInv, FavoredCounted
    <2>4. ASSUME NEW t \in Case, NEW us \in Times, NEW trace \in SUBSET Slot,
                 Calibrate(t, us, trace)
          PROVE  SteadyInv'
      BY <2>1, <2>4 DEF Calibrate, ScoreCalibration, cullVars
    <2>5. ASSUME NEW t \in Case, NEW trace \in SUBSET Slot, Rescore(t, trace)
          PROVE  SteadyInv'
      <3>1. trace = hits[t] /\ t \in case_queue
        BY <2>5 DEF Rescore, ScoreTypeOK
      <3> QED
        BY <2>1, <2>5, <3>1 DEF Rescore, cullVars
    <2>9. ASSUME NEW t \in Case, NEW n \in Sizes, Shorten(t, n)
          PROVE  SteadyInv'
      BY <2>9 DEF Shorten, rankVars, cullVars, SteadyInv, FavoredCounted
    <2>6. CASE CullQueue
      <3>1. PICK P \in SUBSET Rated :
                /\ Picked(P)
                /\ favored' = {top_rated[i] : i \in P}
                /\ queued_favored' = Cardinality(P)
                /\ pending_favored' = Cardinality({i \in P : top_rated[i] \notin fuzzed})
        BY <2>6 DEF CullQueue
      <3> DEFINE Q == {i \in P : top_rated[i] \notin fuzzed}
                 f == [i \in P |-> top_rated[i]]
                 g == [i \in Q |-> top_rated[i]]
      <3>2. P \in SUBSET Slot /\ Q \in SUBSET Slot
        BY <3>1 DEF Rated
      <3>3. ASSUME NEW i \in P, NEW j \in P, i < j
            PROVE  top_rated[i] # top_rated[j]
        <4>1. j \notin trace_mini[top_rated[i]]
          BY <3>1, <3>3 DEF Picked
        <4>2. top_rated[i] \in Case /\ top_rated[j] \in Case /\ top_rated[i] # Nil
                 /\ top_rated[j] # Nil
          BY <3>2 DEF ScoreTypeOK, Rated
        <4>3. trace_mini[top_rated[i]] = hits[top_rated[i]]
          <5>1. i \in RatedAt(top_rated[i]) /\ RatedAt(top_rated[i]) \in SUBSET Slot
            BY <3>2 DEF RatedAt
          <5>2. IsFiniteSet(RatedAt(top_rated[i]))
            BY <5>1, Finite
          <5>3. Cardinality(RatedAt(top_rated[i])) \in Nat
                   /\ Cardinality(RatedAt(top_rated[i])) # 0
            BY <5>1, <5>2, FS_EmptySet, FS_CardinalityType
          <5>4. trace_mini[top_rated[i]] # NoTrace
            BY <4>2, <5>3 DEF RefsCountSlots
          <5> QED
            BY <4>2, <5>4 DEF SteadyInv
        <4>4. j \in hits[top_rated[j]]
          BY <3>2, <4>2 DEF SteadyInv
        <4> QED
          BY <4>1, <4>3, <4>4
      <3>4. \A i, j \in P : top_rated[i] = top_rated[j] => i = j
        BY <3>2, <3>3, ScoreAssumption DEF Slot
      <3>5. /\ f \in [P -> calibrated \cup {Nil}] /\ g \in [Q -> calibrated \cup {Nil}]
            /\ \A i, j \in P : f[i] = f[j] => i = j
            /\ \A i, j \in Q : g[i] = g[j] => i = j
        BY <3>2, <3>4 DEF ScoreTypeOK
      <3>6. /\ favored' = {f[i] : i \in P}
            /\ (favored \ fuzzed)' = {g[i] : i \in Q}
        <4>1. fuzzed' = fuzzed
          BY <2>6 DEF CullQueue, caseVars
        <4>2. favored' = {f[i] : i \in P}
          BY <3>1
        <4>3. favored' \ fuzzed = {g[i] : i \in Q}
          BY <3>1
        <4> QED
          BY <4>1, <4>2, <4>3
      <3> HIDE DEF f, g, Q
      <3>7. Cardinality({f[i] : i \in P}) = Cardinality(P)
        <4>1. \A S : \A R \in SUBSET Slot : \A h \in [R -> S] :
                (\A i, j \in R : h[i] = h[j] => i = j)
                    => Cardinality({h[i] : i \in R}) = Cardinality(R)
          BY ImageSize
        <4> QED
          BY <3>2, <3>5, <4>1
      <3>8. Cardinality({g[i] : i \in Q}) = Cardinality(Q)
        BY <3>2, <3>5, ImageSize
      <3>9. FavoredCounted'
        BY <3>1, <3>6, <3>7, <3>8 DEF FavoredCounted, Q
      <3> QED
        BY <2>6, <3>9 DEF CullQueue, caseVars, SteadyInv
    <2>7. ASSUME NEW t \in Case, AbandonEntry(t)
          PROVE  SteadyInv'
      <3> DEFINE F == favored \ fuzzed
      <3>1. F' = F \ {t} /\ (t \in F <=> t \in favored)
        BY <2>7 DEF AbandonEntry, MarkFuzzed, cullVars
      <3>2. IsFiniteSet(F)
        BY Finite DEF ScoreTypeOK
      <3>3. pending_favored = Cardinality(F) /\ pending_favored \in Nat
        BY DEF SteadyInv, FavoredCounted, ScoreTypeOK
      <3>4. pending_favored' = pending_favored - (IF t \in favored THEN 1 ELSE 0)
        BY <2>7 DEF AbandonEntry, MarkFuzzed
      <3> HIDE DEF F
      <3>5. Cardinality(F \ {t}) = pending_favored'
        BY <3>1, <3>2, <3>3, <3>4, FS_RemoveElement
      <3>6. FavoredCounted'
        BY <2>7, <3>1, <3>5 DEF AbandonEntry, MarkFuzzed, cullVars, SteadyInv, FavoredCounted, F
      <3> QED
        BY <2>7, <3>6 DEF AbandonEntry, MarkFuzzed, rankVars, SteadyInv
    <2>8. CASE UNCHANGED scoreVars
      BY <2>8 DEF scoreVars, caseVars, rankVars, cullVars, SteadyInv, FavoredCounted
    <2> QED
      BY <2>2, <2>3, <2>4, <2>5, <2>6, <2>7, <2>8, <2>9 DEF ScoreNext
  <1> QED
    BY <1>1, <1>2, ScoreInvariant, PTL DEF ScoreSpec, SteadyInv

-----------------------------------------------------------------------------
(* The loops over the coverage map and their closed forms.                  *)

\* Every set of naturals has a least element, from which inductions over the map follow.
LEMMA LeastNat ==
    ASSUME NEW T, T \subseteq Nat, T # {}
    PROVE  \E x \in T : \A y \in T : x <= y
  <1> DEFINE R == OpToRel(<, Nat)
  <1>1. IsWellFoundedOn(R, Nat)
    BY NatLessThanWellFounded, Zenon
  <1>2. \A x, y \in Nat : x < y => <<x, y>> \in R
    BY DEF OpToRel
  <1> HIDE DEF R
  <1>3. PICK x \in T : \A y \in T : ~(<<y, x>> \in R)
    BY <1>1, WFMin, Zenon
  <1>4. ASSUME NEW y \in T PROVE x <= y
    <2>1. x \in Nat /\ y \in Nat
      OBVIOUS
    <2>2. ~(y < x)
      BY <1>2, <1>3, <2>1, Zenon
    <2> QED
      BY <2>1, <2>2
  <1> QED
    BY <1>4

\* U is V with slot i added.
OneMore(V, i, U) == V \in SUBSET Slot /\ i \in Slot \ V /\ U = V \cup {i}

\* What one more slot of W does to the reference counts.
LEMMA OneMoreSlot ==
    ASSUME ScoreTypeOK, RefsCountSlots, NEW t \in Case, NEW s \in Case,
           NEW V, NEW i, NEW U, OneMore(V, i, U)
    PROVE  /\ RefAfter(s, t, V) \in Nat
           /\ top_rated[i] = s /\ s # t => RefAfter(s, t, U) = RefAfter(s, t, V) - 1
           /\ top_rated[i] # s /\ s = t => RefAfter(s, t, U) = RefAfter(s, t, V) + 1
           /\ (top_rated[i] = s <=> s = t) => RefAfter(s, t, U) = RefAfter(s, t, V)
           /\ top_rated[i] = s => RefAfter(s, t, V) >= 1 /\ tc_ref[s] >= 1
           /\ top_rated[i] = s /\ s = t /\ V # {} => RefAfter(s, t, V) >= 2
           /\ tc_ref[s] \in Nat
  <1>0. V \in SUBSET Slot /\ i \in Slot \ V /\ U = V \cup {i}
    BY DEF OneMore
  <1> DEFINE A == RatedAt(s)
             L == Lost(s, V)
  <1>1. A \in SUBSET Slot /\ L = A \cap V /\ i \notin V /\ L \in SUBSET Slot /\ i \notin L
    BY <1>0 DEF RatedAt, Lost
  <1>2. tc_ref[s] = Cardinality(A)
    BY DEF RefsCountSlots
  <1>3. /\ IsFiniteSet(A) /\ IsFiniteSet(V) /\ IsFiniteSet(L)
        /\ Cardinality(A) \in Nat /\ Cardinality(V) \in Nat /\ Cardinality(L) \in Nat
    BY <1>0, <1>1, Finite
  <1>4. Cardinality(L) <= Cardinality(A)
    BY <1>1, <1>3, FS_Subset
  <1>5. Cardinality(U) = Cardinality(V) + 1
    BY <1>0, <1>1, <1>3, FS_AddElement
  <1>6. Cardinality(L \cup {i}) = Cardinality(L) + 1
    BY <1>0, <1>1, <1>3, FS_AddElement
  <1>7. ASSUME top_rated[i] = s PROVE Cardinality(L) + 1 <= Cardinality(A)
    <2>1. L \cup {i} \subseteq A
      BY <1>0, <1>1, <1>7 DEF RatedAt
    <2> QED
      BY <2>1, <1>3, <1>6, FS_Subset
  <1>8. Lost(s, U) = IF top_rated[i] = s THEN L \cup {i} ELSE L
    BY <1>0 DEF Lost
  <1>9. V # {} => Cardinality(V) >= 1
    BY <1>3, FS_EmptySet
  <1> HIDE DEF A, L
  <1>10. RefAfter(s, t, V) = Cardinality(A) - Cardinality(L) + (IF s = t THEN Cardinality(V) ELSE 0)
    BY <1>2 DEF RefAfter, L
  <1>11. RefAfter(s, t, U) = Cardinality(A) - Cardinality(Lost(s, U))
                                        + (IF s = t THEN Cardinality(U) ELSE 0)
    BY <1>2 DEF RefAfter
  <1> QED
    BY <1>2, <1>3, <1>4, <1>5, <1>6, <1>7, <1>8, <1>9, <1>10, <1>11 DEF L

\* The loop of UpdateBitmapScoreWithRawTrace goes through the whole map.
LEMMA ScoreLoopDefined ==
    ASSUME NEW factor, NEW t, NEW trace
    PROVE  \E done :
             /\ done = [n \in 0..MapSize |->
                          IF n = 0
                          THEN [top |-> top_rated, ref |-> tc_ref, mini |-> trace_mini,
                                changed |-> score_changed]
                          ELSE ScoreSlot(done[n - 1], factor, n - 1, t, trace)]
             /\ ScoreLoop(factor, t, trace) = done[MapSize]
  <1> DEFINE base == [top |-> top_rated, ref |-> tc_ref, mini |-> trace_mini,
                      changed |-> score_changed]
             Step(r, n) == ScoreSlot(r, factor, n, t, trace)
             Upto(m, w) == w = [n \in 0..m |-> IF n = 0 THEN base ELSE Step(w[n - 1], n - 1)]
             T == {m \in Nat : ~ \E w : Upto(m, w)}
  <1>0. ScoreLoop(factor, t, trace) = (CHOOSE w : Upto(MapSize, w))[MapSize]
    BY DEF ScoreLoop
  <1> HIDE DEF base, Step
  <1>1. T = {}
    <2> SUFFICES ASSUME T # {} PROVE FALSE
      OBVIOUS
    <2>1. PICK m \in T : \A y \in T : m <= y
      BY LeastNat
    <2>2. m \in Nat /\ ~ \E w : Upto(m, w)
      OBVIOUS
    <2>3. m # 0
      <3>1. Upto(0, [n \in 0..0 |-> base])
        OBVIOUS
      <3> QED
        BY <3>1, <2>2
    <2>4. m - 1 \in Nat /\ ~(m <= m - 1)
      BY <2>2, <2>3
    <2>5. m - 1 \notin T
      <3> HIDE DEF T
      <3> QED
        BY <2>1, <2>4, Zenon
    <2>6. PICK w : Upto(m - 1, w)
      BY <2>4, <2>5, Zenon
    <2>7. Upto(m, [n \in 0..m |-> IF n = m THEN Step(w[m - 1], m - 1) ELSE w[n]])
      BY <2>2, <2>3, <2>6
    <2> QED
      BY <2>2, <2>7
  <1>2. \E w : Upto(MapSize, w)
    BY <1>1, ScoreAssumption
  <1>3. Upto(MapSize, CHOOSE w : Upto(MapSize, w))
    <2> HIDE DEF Upto
    <2> QED
      BY <1>2, Zenon
  <1> QED
    BY <1>0, <1>3 DEF base, Step

\* What Take and Release make of a record.
LEMMA TakeIs ==
    ASSUME NEW top, NEW ref, NEW mini, NEW changed, NEW i, NEW t, NEW trace
    PROVE  Take([top |-> top, ref |-> ref, mini |-> mini, changed |-> changed], i, t, trace) =
             [top |-> [top EXCEPT ![i] = t], ref |-> [ref EXCEPT ![t] = @ + 1],
              mini |-> [mini EXCEPT ![t] = IF @ = NoTrace THEN trace ELSE @], changed |-> TRUE]
  BY DEF Take

LEMMA ReleaseIs ==
    ASSUME NEW top, NEW ref, NEW mini, NEW changed, NEW s
    PROVE  Release([top |-> top, ref |-> ref, mini |-> mini, changed |-> changed], s) =
             [top |-> top, ref |-> [ref EXCEPT ![s] = @ - 1],
              mini |-> [mini EXCEPT ![s] = IF ref[s] = 1 THEN NoTrace ELSE @], changed |-> changed]
  BY DEF Release

\* What one more slot of W does to the trace_mini of a testcase.
LEMMA OneMoreMini ==
    ASSUME ScoreTypeOK, RefsCountSlots, NEW t \in Case, NEW s \in Case, NEW trace \in SUBSET Slot,
           NEW V \in SUBSET Slot, NEW i \in Slot, \A j \in V : j < i,
           NEW U, U = V \cup {i}
    PROVE  LET last == top_rated[i] = s /\ RefAfter(s, t, V) = 1
           IN  /\ s # t /\ last => MiniAfter(s, t, U, trace) = NoTrace
               /\ s # t /\ ~last => MiniAfter(s, t, U, trace) = MiniAfter(s, t, V, trace)
               /\ s = t /\ (last \/ MiniAfter(s, t, V, trace) = NoTrace)
                     => MiniAfter(s, t, U, trace) = trace
               /\ s = t /\ ~last /\ MiniAfter(s, t, V, trace) # NoTrace
                     => MiniAfter(s, t, U, trace) = MiniAfter(s, t, V, trace)
  <1>0. i \in Slot \ V
    BY ScoreAssumption DEF Slot
  <1>1. /\ i \in Slot \ V /\ i \in Nat /\ U \in SUBSET Slot /\ U # {}
        /\ \A j \in V : j \in Nat
    BY ScoreAssumption DEF Slot
  <1>L. /\ top_rated[i] = s => Lost(s, U) = Lost(s, V) \cup {i}
        /\ top_rated[i] # s => Lost(s, U) = Lost(s, V)
    BY DEF Lost
  <1>2. /\ RefAfter(s, t, V) \in Nat
        /\ top_rated[i] = s /\ s # t => RefAfter(s, t, U) = RefAfter(s, t, V) - 1
        /\ top_rated[i] # s /\ s = t => RefAfter(s, t, U) = RefAfter(s, t, V) + 1
        /\ (top_rated[i] = s <=> s = t) => RefAfter(s, t, U) = RefAfter(s, t, V)
        /\ top_rated[i] = s => RefAfter(s, t, V) >= 1 /\ tc_ref[s] >= 1
        /\ top_rated[i] = s /\ s = t /\ V # {} => RefAfter(s, t, V) >= 2
        /\ tc_ref[s] \in Nat
    <2>1. OneMore(V, i, U)
      BY <1>0 DEF OneMore
    <2> QED
      BY <2>1, OneMoreSlot
  <1>3. trace_mini[s] # NoTrace <=> tc_ref[s] > 0
    BY DEF RefsCountSlots
  <1>4. trace # NoTrace
    BY NoTraceIsNone
  <1>5. CASE s # t
    <2>1. /\ MiniAfter(s, t, U, trace) = IF Lost(s, U) # {} /\ RefAfter(s, t, U) = 0 THEN NoTrace ELSE trace_mini[s]
          /\ MiniAfter(s, t, V, trace) = IF Lost(s, V) # {} /\ RefAfter(s, t, V) = 0 THEN NoTrace ELSE trace_mini[s]
      BY <1>5 DEF MiniAfter
    <2>2. CASE top_rated[i] = s
      <3>1. Lost(s, U) # {} /\ RefAfter(s, t, U) = RefAfter(s, t, V) - 1 /\ RefAfter(s, t, V) >= 1
        BY <1>2, <1>5, <1>L, <2>2
      <3> QED
        BY <1>2, <1>5, <2>1, <2>2, <3>1
    <2>3. CASE top_rated[i] # s
      <3>1. RefAfter(s, t, U) = RefAfter(s, t, V)
        BY <1>2, <1>5, <2>3
      <3>2. Lost(s, U) = Lost(s, V)
        BY <1>L, <2>3
      <3> QED
        BY <1>5, <2>1, <2>3, <3>1, <3>2
    <2> QED
      BY <2>2, <2>3
  <1>6. CASE s = t /\ V = {}
    <2>1. Lost(s, V) = {} /\ Lost(s, U) = IF top_rated[i] = s THEN {i} ELSE {}
      BY <1>L, <1>6 DEF Lost
    <2>2. U = {i}
      BY <1>6
    <2>3. Cardinality(V) = 0 /\ Cardinality(Lost(s, V)) = 0
      BY <1>6, <2>1, FS_EmptySet, Zenon
    <2>4. RefAfter(s, t, V) = tc_ref[s]
      BY <1>2, <2>3 DEF RefAfter
    <2>5. (\E k \in Lost(s, U) : \A j \in U : k <= j) <=> top_rated[i] = s
      BY <1>1, <2>1, <2>2
    <2> QED
      BY <1>2, <1>3, <1>4, <1>6, <2>1, <2>2, <2>4, <2>5 DEF MiniAfter
  <1>7. CASE s = t /\ V # {}
    <2>1. Lost(s, V) \subseteq V
      BY DEF Lost
    <2>2. (\E k \in Lost(s, U) : \A j \in U : k <= j)
            <=> (\E k \in Lost(s, V) : \A j \in V : k <= j)
      <3>1. ASSUME NEW k \in Lost(s, V), \A j \in V : k <= j
            PROVE  k \in Lost(s, U) /\ \A j \in U : k <= j
        <4>1. k \in Lost(s, U) /\ k \in V
          BY <1>L, <2>1
        <4>2. k \in Nat /\ i \in Nat /\ k < i
          BY <1>1, <4>1
        <4>3. ASSUME NEW j \in U PROVE k <= j
          BY <3>1, <4>2
        <4> QED
          BY <4>1, <4>3
      <3>2. ASSUME NEW k \in Lost(s, U), \A j \in U : k <= j
            PROVE  k \in Lost(s, V) /\ \A j \in V : k <= j
        <4>1. PICK v \in V : TRUE
          BY <1>7
        <4>2. v < i /\ k <= v /\ v \in Nat
          BY <1>1, <3>2, <4>1
        <4>3. k # i
          BY <1>1, <4>2
        <4> QED
          BY <1>L, <3>2, <4>3
      <3> QED
        BY <3>1, <3>2
    <2>3. MiniAfter(s, t, U, trace) = MiniAfter(s, t, V, trace)
      BY <1>1, <1>7, <2>2 DEF MiniAfter
    <2>4. MiniAfter(s, t, V, trace) # NoTrace
      BY <1>4, <1>7 DEF MiniAfter
    <2>5. ~(top_rated[i] = s /\ RefAfter(s, t, V) = 1)
      BY <1>2, <1>7
    <2> QED
      BY <1>7, <2>3, <2>4, <2>5
  <1> QED
    BY <1>5, <1>6, <1>7

\* The state the closed form gives once t has taken the slots of V.
Taken(t, trace, V) ==
    [top |-> [j \in Slot |-> IF j \in V THEN t ELSE top_rated[j]],
     ref |-> [s \in Case |-> RefAfter(s, t, V)],
     mini |-> [s \in Case |-> MiniAfter(s, t, V, trace)],
     changed |-> (score_changed \/ V # {})]

\* One iteration of the loop takes the state the closed form gives for the slots V below i
\* to the one it gives with i among them.
ScoreArgs(factor, t, trace, V, i) ==
    /\ t \in Case /\ trace \in SUBSET Slot /\ factor \in [Case -> Nat]
    /\ V \in SUBSET Slot /\ i \in Slot /\ \A j \in V : j < i

LEMMA ScoreSlotStep ==
    ASSUME NEW factor, NEW t, NEW trace, NEW V, NEW i,
           ScoreTypeOK, RefsCountSlots, ScoreArgs(factor, t, trace, V, i)
    PROVE  /\ i \notin Wins(factor, t, trace) =>
                ScoreSlot(Taken(t, trace, V), factor, i, t, trace)
                  = Taken(t, trace, V)
           /\ i \in Wins(factor, t, trace) =>
                ScoreSlot(Taken(t, trace, V), factor, i, t, trace)
                  = Taken(t, trace, V \cup {i})
  <1>a. /\ t \in Case /\ trace \in SUBSET Slot /\ factor \in [Case -> Nat]
        /\ V \in SUBSET Slot /\ i \in Slot /\ \A j \in V : j < i
    BY DEF ScoreArgs
  <1>u. PICK U : U = V \cup {i}
    OBVIOUS
  <1>0. i \in Slot \ V
    BY <1>a, ScoreAssumption DEF Slot
  <1>4. ASSUME NEW s \in Case
        PROVE  /\ RefAfter(s, t, V) \in Nat
               /\ top_rated[i] = s /\ s # t => RefAfter(s, t, U) = RefAfter(s, t, V) - 1
               /\ top_rated[i] # s /\ s = t => RefAfter(s, t, U) = RefAfter(s, t, V) + 1
               /\ (top_rated[i] = s <=> s = t) => RefAfter(s, t, U) = RefAfter(s, t, V)
    <2>1. OneMore(V, i, U)
      BY <1>a, <1>0, <1>u DEF OneMore
    <2> QED
      BY <1>a, <2>1, OneMoreSlot
  <1>5. ASSUME NEW s \in Case
        PROVE  LET last == top_rated[i] = s /\ RefAfter(s, t, V) = 1
               IN  /\ s # t /\ last => MiniAfter(s, t, U, trace) = NoTrace
                   /\ s # t /\ ~last => MiniAfter(s, t, U, trace) = MiniAfter(s, t, V, trace)
                   /\ s = t /\ (last \/ MiniAfter(s, t, V, trace) = NoTrace)
                         => MiniAfter(s, t, U, trace) = trace
                   /\ s = t /\ ~last /\ MiniAfter(s, t, V, trace) # NoTrace
                         => MiniAfter(s, t, U, trace) = MiniAfter(s, t, V, trace)
    BY <1>a, <1>u, OneMoreMini
  <1> DEFINE top == [j \in Slot |-> IF j \in V THEN t ELSE top_rated[j]]
             ref == [s \in Case |-> RefAfter(s, t, V)]
             mini == [s \in Case |-> MiniAfter(s, t, V, trace)]
             r == Taken(t, trace, V)
             W == Wins(factor, t, trace)
             topU == [j \in Slot |-> IF j \in U THEN t ELSE top_rated[j]]
             refU == [s \in Case |-> RefAfter(s, t, U)]
             miniU == [s \in Case |-> MiniAfter(s, t, U, trace)]
  <1>1. top[i] = top_rated[i] /\ (top_rated[i] = Nil \/ top_rated[i] \in Case)
    BY <1>a, <1>0 DEF ScoreTypeOK
  <1>2. i \in W <=> i \in trace /\ (top_rated[i] = Nil \/ factor[t] <= factor[top_rated[i]])
    BY <1>a, <1>1 DEF Wins
  <1>3. top_rated[i] # Nil =>
          (factor[t] <= factor[top_rated[i]] <=> ~(factor[t] > factor[top_rated[i]]))
    BY <1>a, <1>1
  <1>6. [top EXCEPT ![i] = t] = topU
    BY <1>a, <1>u
  <1>70. Nil \notin Case
    BY ScoreAssumption
  <1>71. top_rated[i] = Nil => [ref EXCEPT ![t] = @ + 1] = refU
    <2> SUFFICES ASSUME top_rated[i] = Nil PROVE [ref EXCEPT ![t] = @ + 1] = refU
      OBVIOUS
    <2>1. ASSUME NEW s \in Case PROVE [ref EXCEPT ![t] = @ + 1][s] = refU[s]
      BY <1>a, <1>4, <1>70
    <2> QED
      BY <1>a, <2>1
  <1> DEFINE ref1 == [ref EXCEPT ![top_rated[i]] = @ - 1]
             mini1 == [mini EXCEPT ![top_rated[i]] = IF ref[top_rated[i]] = 1 THEN NoTrace ELSE @]
  <1>72. top_rated[i] \in Case => [ref1 EXCEPT ![t] = @ + 1] = refU
    <2> SUFFICES ASSUME top_rated[i] \in Case PROVE [ref1 EXCEPT ![t] = @ + 1] = refU
      OBVIOUS
    <2>1. ASSUME NEW s \in Case PROVE [ref1 EXCEPT ![t] = @ + 1][s] = refU[s]
      <3>1. ref1[s] = IF s = top_rated[i] THEN RefAfter(s, t, V) - 1 ELSE RefAfter(s, t, V)
        BY <1>a
      <3>2. [ref1 EXCEPT ![t] = @ + 1][s] = IF s = t THEN ref1[s] + 1 ELSE ref1[s]
        BY <1>a
      <3>3. refU[s] = RefAfter(s, t, U)
        OBVIOUS
      <3> HIDE DEF ref1, refU
      <3>4. /\ RefAfter(s, t, V) \in Nat
            /\ top_rated[i] = s /\ s # t => RefAfter(s, t, U) = RefAfter(s, t, V) - 1
            /\ top_rated[i] # s /\ s = t => RefAfter(s, t, U) = RefAfter(s, t, V) + 1
            /\ (top_rated[i] = s <=> s = t) => RefAfter(s, t, U) = RefAfter(s, t, V)
        BY <1>a, <1>4
      <3> QED
        BY <3>1, <3>2, <3>3, <3>4
    <2> QED
      BY <1>a, <2>1
  <1>8. /\ top_rated[i] = Nil => [mini EXCEPT ![t] = IF @ = NoTrace THEN trace ELSE @] = miniU
        /\ top_rated[i] \in Case =>
             [mini1 EXCEPT ![t] = IF @ = NoTrace THEN trace ELSE @] = miniU
    BY <1>a, <1>5, ScoreAssumption
  <1>c. PICK changed : changed = (score_changed \/ V # {})
    OBVIOUS
  <1>90. r = [top |-> top, ref |-> ref, mini |-> mini, changed |-> changed]
    BY <1>c DEF Taken
  <1>91. Taken(t, trace, U) = [top |-> topU, ref |-> refU, mini |-> miniU, changed |-> TRUE]
    <2>1. (score_changed \/ U # {}) = TRUE
      BY <1>u
    <2> QED
      BY <2>1 DEF Taken
  <1> HIDE DEF top, mini, W, topU, refU, miniU
  <1>92. mini1 = [mini EXCEPT ![top_rated[i]] = IF ref[top_rated[i]] = 1 THEN NoTrace ELSE @]
    OBVIOUS
  <1> HIDE DEF ref
  <1>93. ref1 = [ref EXCEPT ![top_rated[i]] = @ - 1]
    OBVIOUS
  <1> HIDE DEF ref1, mini1, r
  <1>9. r.top[i] = top_rated[i]
    BY <1>a, <1>1, <1>90
  <1>10. CASE i \notin W
    <2>1. ScoreSlot(r, factor, i, t, trace) = r
      BY <1>1, <1>2, <1>3, <1>9, <1>10 DEF ScoreSlot
    <2> QED
      BY <1>10, <2>1 DEF r, W
  <1>11. CASE i \in W /\ top_rated[i] = Nil
    <2>1. ScoreSlot(r, factor, i, t, trace) = Take(r, i, t, trace)
      BY <1>2, <1>9, <1>11 DEF ScoreSlot
    <2>2. Take(r, i, t, trace) = [top |-> topU, ref |-> refU, mini |-> miniU, changed |-> TRUE]
      BY <1>6, <1>71, <1>8, <1>90, <1>11, TakeIs
    <2> QED
      BY <1>11, <1>u, <1>91, <2>1, <2>2 DEF r, W
  <1>12. CASE i \in W /\ top_rated[i] # Nil
    <2>1. ScoreSlot(r, factor, i, t, trace) = Take(Release(r, top_rated[i]), i, t, trace)
      BY <1>2, <1>3, <1>9, <1>12 DEF ScoreSlot
    <2>2. Release(r, top_rated[i]) = [top |-> top, ref |-> ref1, mini |-> mini1, changed |-> changed]
      BY <1>90, <1>92, <1>93, ReleaseIs
    <2>3. Take([top |-> top, ref |-> ref1, mini |-> mini1, changed |-> changed], i, t, trace) =
            [top |-> topU, ref |-> refU, mini |-> miniU, changed |-> TRUE]
      BY <1>1, <1>6, <1>72, <1>8, <1>12, TakeIs
    <2> QED
      BY <1>12, <1>u, <1>91, <2>1, <2>2, <2>3 DEF r, W
  <1> QED
    BY <1>u, <1>10, <1>11, <1>12 DEF r, W

\* The loop of UpdateBitmapScoreWithRawTrace, after n slots, has done what its closed
\* form says of the slots below n.
LEMMA ScoreLoopComputes ==
    ASSUME ScoreInv, NEW t \in case_queue, NEW trace \in SUBSET Slot,
           NEW factor \in [Case -> Nat]
    PROVE  LET W == Wins(factor, t, trace)
               r == ScoreLoop(factor, t, trace)
           IN  /\ r.top = [i \in Slot |-> IF i \in W THEN t ELSE top_rated[i]]
               /\ r.ref = [s \in Case |-> RefAfter(s, t, W)]
               /\ r.mini = [s \in Case |-> MiniAfter(s, t, W, trace)]
               /\ r.changed = (score_changed \/ W # {})
  <1> DEFINE W == Wins(factor, t, trace)
             Below(n) == {i \in W : i < n}
             After(V) == Taken(t, trace, V)
  <1>0. /\ ScoreTypeOK /\ RefsCountSlots /\ t \in Case /\ t # Nil /\ MapSize \in Nat
        /\ W \in SUBSET Slot
    BY ScoreAssumption DEF ScoreInv, ScoreTypeOK, Wins
  <1>1. PICK done :
             /\ done = [n \in 0..MapSize |->
                          IF n = 0
                          THEN [top |-> top_rated, ref |-> tc_ref, mini |-> trace_mini,
                                changed |-> score_changed]
                          ELSE ScoreSlot(done[n - 1], factor, n - 1, t, trace)]
             /\ ScoreLoop(factor, t, trace) = done[MapSize]
    BY ScoreLoopDefined
  <1>2. done[0] = After(Below(0))
    <2>1. Below(0) = {}
      BY <1>0 DEF Slot
    <2>2. \A s \in Case : Lost(s, {}) = {}
      BY DEF Lost
    <2>3. \A s \in Case : RefAfter(s, t, {}) = tc_ref[s] /\ MiniAfter(s, t, {}, trace) = trace_mini[s]
      <3>1. Cardinality({}) = 0
        BY FS_EmptySet
      <3>2. \A s \in Case : tc_ref[s] \in Nat
        BY <1>0 DEF ScoreTypeOK
      <3> QED
        BY <2>2, <3>1, <3>2 DEF RefAfter, MiniAfter
    <2>4. done[0] = [top |-> top_rated, ref |-> tc_ref, mini |-> trace_mini,
                     changed |-> score_changed]
      BY <1>0, <1>1
    <2>5. /\ top_rated = [i \in Slot |-> top_rated[i]] /\ tc_ref = [s \in Case |-> tc_ref[s]]
          /\ trace_mini = [s \in Case |-> trace_mini[s]] /\ score_changed \in BOOLEAN
      BY <1>0 DEF ScoreTypeOK
    <2>6. (score_changed \/ {} # {}) = score_changed
      BY <2>5
    <2>7. Taken(t, trace, {})
            = [top |-> top_rated, ref |-> tc_ref, mini |-> trace_mini, changed |-> score_changed]
      BY <2>3, <2>5, <2>6 DEF Taken
    <2> QED
      BY <2>1, <2>4, <2>7
  <1>3. ASSUME NEW V \in SUBSET Slot, NEW i \in Slot, \A j \in V : j < i, V \subseteq trace
        PROVE  ScoreSlot(After(V), factor, i, t, trace) = After(IF i \in W THEN V \cup {i} ELSE V)
    <2>1. ScoreArgs(factor, t, trace, V, i)
      BY <1>0, <1>3 DEF ScoreArgs
    <2> QED
      BY <1>0, <2>1, ScoreSlotStep
  <1>4. ASSUME NEW n \in 0..MapSize, n # MapSize, done[n] = After(Below(n))
        PROVE  done[n + 1] = After(Below(n + 1))
    <2>1. n \in Slot /\ n + 1 \in 0..MapSize
      BY <1>0, <1>4 DEF Slot
    <2>2. done[n + 1] = ScoreSlot(done[n], factor, n, t, trace)
      BY <1>1, <2>1
    <2>3. /\ Below(n) \in SUBSET Slot /\ Below(n) \subseteq trace /\ \A j \in Below(n) : j < n
          /\ Below(n + 1) = IF n \in W THEN Below(n) \cup {n} ELSE Below(n)
      BY <1>0, <2>1 DEF Wins, Slot
    <2> HIDE DEF After, Below, W
    <2> QED
      BY <1>3, <1>4, <2>1, <2>2, <2>3
  <1>5. done[MapSize] = After(Below(MapSize))
    <2> DEFINE T == {n \in 0..MapSize : done[n] # After(Below(n))}
    <2> HIDE DEF After, Below
    <2> SUFFICES ASSUME T # {} PROVE FALSE
      BY <1>0
    <2>0. T \subseteq Nat
      BY <1>0
    <2>1. PICK m \in T : \A y \in T : m <= y
      <3> HIDE DEF T
      <3> QED
        BY <2>0, LeastNat
    <2>2. m \in 0..MapSize /\ m # 0 /\ m - 1 \in 0..MapSize /\ m - 1 # MapSize /\ ~(m <= m - 1)
      BY <1>0, <1>2
    <2>3. m - 1 \notin T
      BY <2>1, <2>2
    <2>4. done[m - 1] = After(Below(m - 1))
      BY <2>2, <2>3
    <2>5. done[m - 1 + 1] = After(Below(m - 1 + 1))
      BY <1>4, <2>2, <2>4
    <2>6. m - 1 + 1 = m
      BY <2>2
    <2> QED
      BY <2>5, <2>6
  <1>6. Below(MapSize) = W
    BY <1>0 DEF Slot
  <1>7. ScoreLoop(factor, t, trace) = After(W)
    <2> HIDE DEF Below, W, After
    <2> QED
      BY <1>1, <1>5, <1>6
  <1> HIDE DEF W
  <1>8. LET r == ScoreLoop(factor, t, trace)
        IN  /\ r.top = [i \in Slot |-> IF i \in W THEN t ELSE top_rated[i]]
            /\ r.ref = [s \in Case |-> RefAfter(s, t, W)]
            /\ r.mini = [s \in Case |-> MiniAfter(s, t, W, trace)]
            /\ r.changed = (score_changed \/ W # {})
    BY <1>7 DEF Taken
  <1> QED
    BY <1>8 DEF W

\* The loop of CullQueue goes through the whole map.
LEMMA CullLoopDefined ==
    \E done :
      /\ done = [n \in 0..MapSize |->
                   IF n = 0 THEN [has |-> {}, picked |-> {}] ELSE CullSlot(done[n - 1], n - 1)]
      /\ CullLoop = done[MapSize]
  <1> DEFINE base == [has |-> {}, picked |-> {}]
             Upto(m, w) == w = [n \in 0..m |-> IF n = 0 THEN base ELSE CullSlot(w[n - 1], n - 1)]
             T == {m \in Nat : ~ \E w : Upto(m, w)}
  <1>0. CullLoop = (CHOOSE w : Upto(MapSize, w))[MapSize]
    BY DEF CullLoop
  <1> HIDE DEF base
  <1>1. T = {}
    <2> SUFFICES ASSUME T # {} PROVE FALSE
      OBVIOUS
    <2>1. PICK m \in T : \A y \in T : m <= y
      BY LeastNat
    <2>2. m \in Nat /\ ~ \E w : Upto(m, w)
      OBVIOUS
    <2>3. m # 0
      <3>1. Upto(0, [n \in 0..0 |-> base])
        OBVIOUS
      <3> QED
        BY <3>1, <2>2
    <2>4. m - 1 \in Nat /\ ~(m <= m - 1)
      BY <2>2, <2>3
    <2>5. m - 1 \notin T
      <3> HIDE DEF T
      <3> QED
        BY <2>1, <2>4, Zenon
    <2>6. PICK w : Upto(m - 1, w)
      BY <2>4, <2>5, Zenon
    <2>7. Upto(m, [n \in 0..m |-> IF n = m THEN CullSlot(w[m - 1], m - 1) ELSE w[n]])
      BY <2>2, <2>3, <2>6
    <2> QED
      BY <2>2, <2>7
  <1>2. \E w : Upto(MapSize, w)
    BY <1>1, ScoreAssumption
  <1>3. Upto(MapSize, CHOOSE w : Upto(MapSize, w))
    <2> HIDE DEF Upto
    <2> QED
      BY <1>2, Zenon
  <1> QED
    BY <1>0, <1>3 DEF base

\* What the winners of the slots in Q cover.
Covered(Q) == UNION {trace_mini[top_rated[j]] : j \in Q}

\* The picked slots below n, given that P are the slots picked below n.
PickedBelow(P, n) == P = {i \in Rated : i < n /\ i \notin Covered({k \in P : k < i})}

LEMMA PickedIs ==
    ASSUME NEW P
    PROVE  Picked(P) <=> P = {i \in Rated : i \notin Covered({k \in P : k < i})}
  BY DEF Picked, Covered

\* One iteration of the loop of CullQueue decides whether slot n is picked.
LEMMA CullSlotStep ==
    ASSUME NEW n \in Slot, NEW has, NEW P, PickedBelow(P, n), has = Covered(P)
    PROVE  \E Q : /\ CullSlot([has |-> has, picked |-> P], n) = [has |-> Covered(Q), picked |-> Q]
                  /\ PickedBelow(Q, n + 1)
  <1>1. n \in Nat /\ \A i \in Rated : i \in Nat
    BY ScoreAssumption DEF Slot, Rated
  <1>2. \A i \in P : i \in Nat /\ i < n
    BY <1>1 DEF PickedBelow
  <1>3. n \in Rated <=> top_rated[n] # Nil
    BY DEF Rated
  <1>4. {k \in P : k < n} = P
    BY <1>2
  <1>5. CASE n \in Rated /\ n \notin has
    <2>1. PICK Q : Q = P \cup {n}
      OBVIOUS
    <2>2. CullSlot([has |-> has, picked |-> P], n) = [has |-> has \cup trace_mini[top_rated[n]], picked |-> Q]
      BY <1>3, <1>5, <2>1 DEF CullSlot
    <2>3. Covered(Q) = has \cup trace_mini[top_rated[n]]
      BY <2>1 DEF Covered
    <2>4. ASSUME NEW i \in Rated, i < n PROVE {k \in Q : k < i} = {k \in P : k < i}
      BY <1>1, <2>1, <2>4
    <2>5. {k \in Q : k < n} = P
      BY <1>1, <1>2, <2>1
    <2>6. \A i : i \in P <=> i \in Rated /\ i < n /\ i \notin Covered({k \in P : k < i})
      BY DEF PickedBelow
    <2>7. ASSUME NEW i
          PROVE  i \in Q <=> i \in Rated /\ i < n + 1 /\ i \notin Covered({k \in Q : k < i})
      <3>1. CASE i = n
        BY <1>1, <1>5, <2>1, <2>5, <3>1
      <3>2. CASE i # n
        <4>1. i \in Q <=> i \in P
          BY <2>1, <3>2
        <4>2. i \in Rated => (i < n + 1 <=> i < n)
          BY <1>1, <3>2
        <4>3. i \in Rated /\ i < n => {k \in Q : k < i} = {k \in P : k < i}
          BY <2>4
        <4> QED
          BY <2>6, <4>1, <4>2, <4>3, Zenon
      <3> QED
        BY <3>1, <3>2
    <2>8. PickedBelow(Q, n + 1)
      BY <2>7 DEF PickedBelow
    <2>9. [has |-> Covered(Q), picked |-> Q] = [has |-> has \cup trace_mini[top_rated[n]], picked |-> Q]
      BY <2>3
    <2> QED
      BY <2>2, <2>8, <2>9
  <1>6. CASE ~(n \in Rated /\ n \notin has)
    <2>1. CullSlot([has |-> has, picked |-> P], n) = [has |-> has, picked |-> P]
      BY <1>3, <1>6 DEF CullSlot
    <2>6. \A i : i \in P <=> i \in Rated /\ i < n /\ i \notin Covered({k \in P : k < i})
      BY DEF PickedBelow
    <2>7. ASSUME NEW i
          PROVE  i \in P <=> i \in Rated /\ i < n + 1 /\ i \notin Covered({k \in P : k < i})
      <3>1. CASE i = n
        BY <1>1, <1>2, <1>4, <1>6, <3>1
      <3>2. CASE i # n
        <4>2. i \in Rated => (i < n + 1 <=> i < n)
          BY <1>1, <3>2
        <4> QED
          BY <2>6, <4>2, Zenon
      <3> QED
        BY <3>1, <3>2
    <2>8. PickedBelow(P, n + 1)
      BY <2>7 DEF PickedBelow
    <2> QED
      BY <2>1, <2>8
  <1> QED
    BY <1>5, <1>6

\* The loop of CullQueue picks a set of slots that Picked describes.
LEMMA CullLoopPicks ==
    \E P : CullLoop.picked = P /\ P \in SUBSET Rated /\ Picked(P)
  <1>1. PICK done :
          /\ done = [n \in 0..MapSize |->
                       IF n = 0 THEN [has |-> {}, picked |-> {}] ELSE CullSlot(done[n - 1], n - 1)]
          /\ CullLoop = done[MapSize]
    BY CullLoopDefined
  <1>2. MapSize \in Nat
    BY ScoreAssumption
  <1> DEFINE Good(n) == \E P : done[n] = [has |-> Covered(P), picked |-> P] /\ PickedBelow(P, n)
             T == {n \in 0..MapSize : ~Good(n)}
  <1>3. Good(0)
    <2>1. done[0] = [has |-> {}, picked |-> {}]
      BY <1>1, <1>2
    <2>2. Covered({}) = {}
      BY DEF Covered
    <2>3. PickedBelow({}, 0)
      BY <1>2 DEF PickedBelow, Rated, Slot
    <2> QED
      BY <2>1, <2>2, <2>3
  <1>4. ASSUME NEW n \in 0..MapSize, n # MapSize, Good(n) PROVE Good(n + 1)
    <2>1. n \in Slot /\ n + 1 \in 0..MapSize
      BY <1>2, <1>4 DEF Slot
    <2>2. PICK P : done[n] = [has |-> Covered(P), picked |-> P] /\ PickedBelow(P, n)
      BY <1>4
    <2>3. done[n + 1] = CullSlot(done[n], n)
      <3>1. n + 1 # 0 /\ n + 1 - 1 = n
        BY <1>2
      <3>2. PICK m \in 0..MapSize : m = n + 1
        BY <2>1
      <3>3. done[m] = CullSlot(done[m - 1], m - 1)
        BY <1>1, <3>1, <3>2
      <3> QED
        BY <3>1, <3>2, <3>3
    <2>4. PICK has : has = Covered(P)
      OBVIOUS
    <2>5. PICK Q : /\ CullSlot([has |-> has, picked |-> P], n) = [has |-> Covered(Q), picked |-> Q]
                   /\ PickedBelow(Q, n + 1)
      BY <2>1, <2>2, <2>4, CullSlotStep
    <2> QED
      BY <2>2, <2>3, <2>4, <2>5
  <1>5. Good(MapSize)
    <2> HIDE DEF Good
    <2> SUFFICES ASSUME T # {} PROVE FALSE
      BY <1>2
    <2>0. T \subseteq Nat
      BY <1>2
    <2>1. PICK m \in T : \A y \in T : m <= y
      <3> HIDE DEF T
      <3> QED
        BY <2>0, LeastNat
    <2>2. m \in 0..MapSize /\ m # 0 /\ m - 1 \in 0..MapSize /\ m - 1 # MapSize /\ ~(m <= m - 1)
      BY <1>2, <1>3
    <2>3. m - 1 \notin T
      BY <2>1, <2>2
    <2>4. Good(m - 1)
      BY <2>2, <2>3
    <2>5. Good(m - 1 + 1)
      BY <1>4, <2>2, <2>4
    <2>6. m - 1 + 1 = m
      BY <2>2
    <2> QED
      BY <2>5, <2>6
  <1>6. PICK P : done[MapSize] = [has |-> Covered(P), picked |-> P] /\ PickedBelow(P, MapSize)
    BY <1>5
  <1>7. \A i \in Rated : i < MapSize
    BY <1>2 DEF Rated, Slot
  <1>8. P = {i \in Rated : i \notin Covered({k \in P : k < i})}
    BY <1>6, <1>7 DEF PickedBelow
  <1>9. Picked(P)
    BY <1>8, PickedIs
  <1>10. P \in SUBSET Rated
    <2> DEFINE C(i) == Covered({k \in P : k < i})
    <2>1. P = {i \in Rated : i \notin C(i)}
      BY <1>8
    <2> HIDE DEF C
    <2> QED
      BY <2>1
  <1>11. CullLoop.picked = P
    BY <1>1, <1>6
  <1> QED
    BY <1>9, <1>10, <1>11

\* Only one set of slots is as Picked describes: the least slot at which two of them
\* differed would be decided by the same slots below it.
LEMMA PickedUnique ==
    ASSUME NEW P, NEW Q, P \subseteq Rated, Q \subseteq Rated, Picked(P), Picked(Q)
    PROVE  P = Q
  <1> SUFFICES ASSUME P # Q PROVE FALSE
    OBVIOUS
  <1> DEFINE T == (P \ Q) \cup (Q \ P)
  <1>1. \A i \in Rated : i \in Nat
    BY ScoreAssumption DEF Rated, Slot
  <1>2. T \subseteq Nat /\ T # {}
    BY <1>1
  <1>3. PICK m \in T : \A y \in T : m <= y
    <2> HIDE DEF T
    <2> QED
      BY <1>2, LeastNat
  <1>4. {k \in P : k < m} = {k \in Q : k < m}
    BY <1>1, <1>3
  <1>5. m \in Rated
    OBVIOUS
  <1>6. m \in P <=> m \in Q
    <2> DEFINE A == Covered({k \in P : k < m})
               B == Covered({k \in Q : k < m})
    <2>1. A = B
      BY <1>4
    <2>2. m \in P <=> m \in Rated /\ m \notin A
      BY PickedIs
    <2>3. m \in Q <=> m \in Rated /\ m \notin B
      BY PickedIs
    <2> HIDE DEF A, B
    <2> QED
      BY <2>1, <2>2, <2>3
  <1> QED
    BY <1>6

LEMMA LoopsAgreeHere ==
    ASSUME ScoreInv
    PROVE  LoopsAgree
  <1>1. ScoreLoopAgrees
    <2> SUFFICES ASSUME NEW t \in case_queue \ trimmed, NEW trace \in SUBSET Slot
                 PROVE  LET factor == [s \in Case |-> exec_us[s] * len[s]]
                            W == Wins(factor, t, trace)
                            r == ScoreLoop(factor, t, trace)
                        IN  /\ r.top = [i \in Slot |-> IF i \in W THEN t ELSE top_rated[i]]
                            /\ r.ref = [s \in Case |-> RefAfter(s, t, W)]
                            /\ r.mini = [s \in Case |-> MiniAfter(s, t, W, trace)]
                            /\ r.changed = (score_changed \/ W # {})
      BY DEF ScoreLoopAgrees
    <2>1. PICK factor : factor = [s \in Case |-> exec_us[s] * len[s]]
      OBVIOUS
    <2>2. exec_us \in [Case -> Nat] /\ len \in [Case -> Nat]
      BY DEF ScoreInv, ScoreTypeOK
    <2>3. ASSUME NEW a \in Nat, NEW b \in Nat PROVE a * b \in Nat
      OBVIOUS
    <2>4. factor \in [Case -> Nat]
      BY <2>1, <2>2, <2>3
    <2>5. t \in case_queue
      OBVIOUS
    <2> QED
      BY <2>1, <2>4, <2>5, ScoreLoopComputes
  <1>2. CullLoopAgrees
    <2>1. PICK P : CullLoop.picked = P /\ P \in SUBSET Rated /\ Picked(P)
      BY CullLoopPicks
    <2>2. \A Q \in SUBSET Rated : Picked(Q) => Q = P
      BY <2>1, PickedUnique
    <2> QED
      BY <2>1, <2>2 DEF CullLoopAgrees
  <1> QED
    BY <1>1, <1>2 DEF LoopsAgree

\* The two loops over the coverage map, run on any ranking the campaign can reach and with
\* any trace, compute what the closed forms of AflScore say.
THEOREM ScoreLoopsAgree == ScoreSpec => []LoopsAgree
  <1>1. ScoreInv => LoopsAgree
    BY LoopsAgreeHere
  <1> QED
    BY <1>1, ScoreInvariant, PTL

=============================================================================
