-------------------------- MODULE AflVariantProofs --------------------------
(***************************************************************************)
(* Proofs about AFLFast, IJON and DIE: AflVariantsRight, for any number of *)
(* seeds, paths, slots, scripts and rounds.                                *)
(***************************************************************************)
EXTENDS AflVariants, FiniteSetTheorems, SequenceTheorems, TLAPS

-----------------------------------------------------------------------------
(* DIE.                                                                    *)

\* As long as esfuzz was not stopped between two files, the directory holds pairs, also
\* where an earlier round has left them.
DieInv ==
    /\ die_n \in Nat \ {0}
    /\ ~die_torn => \A n \in Scripts : js_dir[n] = ty_dir[n] \/ NoFile \in {js_dir[n], ty_dir[n]}
    /\ DOMAIN die_saved = {"tmout", "crash"}
    /\ \E S : die_queue \in Seq(S)
    /\ PairsMatch

\* The seeds that DIE read have their own type files.
LEMMA DieInitHolds == die_queue = ReadScripts /\ DieBlank => DieInv
<1> SUFFICES ASSUME die_queue = ReadScripts, DieBlank PROVE DieInv
  OBVIOUS
<1>1. die_queue \in Seq([js : {0} \X Nat, ty : {0} \X Nat])
  BY DEF ReadScripts
<1>2. \A t \in Range(die_queue) : t.js = t.ty
  BY DEF ReadScripts, Range
<1>3. die_saved.tmout = {} /\ die_saved.crash = {} /\ DOMAIN die_saved = {"tmout", "crash"}
  BY DEF DieBlank
<1> QED
  BY <1>1, <1>2, <1>3 DEF DieBlank, DieInv, PairsMatch

\* What is kept of a run is the pair that was run.
LEMMA DieSaves ==
    ASSUME DieInv, NEW run, SaveIfInteresting(run), UNCHANGED dieDirs,
           die_n \in Scripts, js_dir[die_n] # NoFile, ty_dir[die_n] # NoFile, die_n' \in Nat \ {0}
    PROVE  DieInv'
<1>1. PICK S : die_queue \in Seq(S)
  BY DEF DieInv
<1>2. PICK pair : pair = Pair(die_n)
  OBVIOUS
<1>3. die_queue' = die_queue \/ die_queue' = Append(die_queue, pair)
  BY <1>2 DEF SaveIfInteresting
<1>4. /\ DOMAIN die_saved' = {"tmout", "crash"}
      /\ die_saved'["tmout"] \subseteq die_saved["tmout"] \cup {pair}
      /\ die_saved'["crash"] \subseteq die_saved["crash"] \cup {pair}
  BY <1>2 DEF SaveIfInteresting, DieInv
<1>5. ~die_torn => pair.js = pair.ty
  BY <1>2 DEF DieInv, Pair
<1>6. die_queue \in Seq(S \cup {pair}) /\ die_queue' \in Seq(S \cup {pair})
  BY <1>1, <1>3
<1>7. Range(die_queue') \subseteq Range(die_queue) \cup {pair}
  BY <1>1, <1>3 DEF Range
<1>8. die_torn' = die_torn /\ js_dir' = js_dir /\ ty_dir' = ty_dir
  BY DEF dieDirs
<1>9. PairsMatch'
  BY <1>4, <1>5, <1>7, <1>8 DEF DieInv, PairsMatch
<1> QED
  BY <1>4, <1>6, <1>8, <1>9 DEF DieInv

\* Every step keeps the pairs together.
LEMMA DieNextKeeps == DieInv /\ [DieNext]_dieVars => DieInv'
<1> SUFFICES ASSUME DieInv, [DieNext]_dieVars PROVE DieInv'
  OBVIOUS
<1>1. CASE DieSelect \/ DieSkip \/ DieRoundEnds \/ UNCHANGED dieVars
  <2>1. UNCHANGED <<die_queue, die_saved, js_dir, ty_dir, die_torn>> /\ die_n' \in {die_n, die_n + 1}
    BY <1>1 DEF DieSelect, DieSkip, DieRoundEnds, dieVars, dieDirs
  <2> QED
    BY <2>1 DEF DieInv, PairsMatch
<1>2. CASE DieMutate
  <2>1. UNCHANGED <<die_queue, die_saved>> /\ die_n' = 1
    BY <1>2 DEF DieMutate
  <2>2. CASE UNCHANGED dieDirs
    BY <2>1, <2>2 DEF DieInv, PairsMatch, dieDirs
  <2>3. ASSUME NEW k \in Nat, NEW cut, Esfuzz(k, cut) PROVE DieInv'
    <3>1. ~die_torn' => ~die_torn /\ (k < MutCnt => cut[1] = cut[2] \/ NoFile \in {cut[1], cut[2]})
      BY <2>3, Zenon DEF Esfuzz
    <3>2. ASSUME ~die_torn', NEW n \in Scripts
          PROVE  js_dir'[n] = ty_dir'[n] \/ NoFile \in {js_dir'[n], ty_dir'[n]}
      <4>1. n \in Nat /\ n <= MutCnt
        BY DieAssumption DEF Scripts
      <4>2. CASE n <= k
        BY <2>3, <4>2 DEF Esfuzz
      <4>3. CASE n = k + 1
        <5>1. js_dir'[n] = cut[1] /\ ty_dir'[n] = cut[2] /\ k < MutCnt
          BY <2>3, <4>1, <4>3, DieAssumption DEF Esfuzz
        <5> QED
          BY <3>1, <3>2, <5>1
      <4>4. CASE n > k + 1
        <5>1. js_dir'[n] = js_dir[n] /\ ty_dir'[n] = ty_dir[n]
          BY <2>3, <4>1, <4>4 DEF Esfuzz
        <5> QED
          BY <3>1, <3>2, <5>1 DEF DieInv
      <4> QED
        BY <4>1, <4>2, <4>3, <4>4
    <3> QED
      BY <2>1, <3>1, <3>2 DEF DieInv, PairsMatch
  <2>4. \A k \in Scripts : k - 1 \in Nat
    BY DieAssumption DEF Scripts
  <2> QED
    BY <1>2, <2>2, <2>3, <2>4, DieAssumption DEF DieMutate
<1>3. ASSUME NEW run, NEW given_up, DieExecute(run, given_up)
      PROVE  DieInv'
  <2>1. /\ die_n \in Scripts /\ die_n' \in Nat \ {0} /\ UNCHANGED dieDirs
        /\ js_dir[die_n] # NoFile /\ ty_dir[die_n] # NoFile
    BY <1>3, DieAssumption DEF DieExecute, DieInv, Scripts
  <2>2. CASE SaveIfInteresting(run)
    BY <2>1, <2>2, DieSaves
  <2>3. CASE UNCHANGED <<die_queue, die_saved>>
    BY <2>1, <2>3 DEF DieInv, PairsMatch, dieDirs
  <2> QED
    BY <1>3, <2>2, <2>3 DEF DieExecute
<1> QED
  BY <1>1, <1>2, <1>3 DEF DieNext

-----------------------------------------------------------------------------
(* IJON.                                                                   *)

\* A slot has an input when its value is above 0, and then only; without one its known
\* length is 0, so that no input is shorter.
IjonInv ==
    /\ \A i \in MaxSlots :
         /\ max_map[i] \in Nat /\ known_len[i] \in Nat
         /\ all_inputs[i] \in Inputs \cup {Nothing}
         /\ all_inputs[i] # Nothing <=> max_map[i] > 0
         /\ all_inputs[i] = Nothing => known_len[i] = 0
    /\ known_len = [i \in MaxSlots |-> known_len[i]]
    /\ nonempty_inputs \in Seq(MaxSlots)
    /\ seen \subseteq Inputs
    /\ NonemptyExact /\ StoredReaches

\* In a finite set of numbers every element has a rank of its own, and every rank is taken.
LEMMA EveryRank ==
    ASSUME NEW S, S \subseteq Nat, IsFiniteSet(S)
    PROVE  /\ Cardinality(S) \in Nat
           /\ [i \in S |-> Cardinality({j \in S : j < i}) + 1] \in Bijection(S, 1..Cardinality(S))
           /\ \A i \in S : Cardinality({j \in S : j < i}) \in Nat
<1> DEFINE Before(i) == {j \in S : j < i}
           rank == [i \in S |-> Cardinality(Before(i)) + 1]
           C == Cardinality(S)
<1>1. C \in Nat
  BY FS_CardinalityType
<1>2. ASSUME NEW i \in S
      PROVE  /\ IsFiniteSet(Before(i)) /\ Cardinality(Before(i)) \in Nat
             /\ Cardinality(Before(i)) < C
  <2>1. IsFiniteSet(Before(i))
    BY FS_Subset
  <2>2. IsFiniteSet(Before(i) \cup {i}) /\ Cardinality(Before(i) \cup {i}) = Cardinality(Before(i)) + 1
    <3>1. i \notin Before(i)
      OBVIOUS
    <3> QED
      BY <2>1, <3>1, FS_AddElement
  <2>3. Cardinality(Before(i) \cup {i}) <= C
    BY FS_Subset
  <2>4. Cardinality(Before(i)) \in Nat
    BY <2>1, FS_CardinalityType
  <2> HIDE DEF Before, C
  <2> QED
    BY <1>1, <2>1, <2>2, <2>3, <2>4
<1>3. ASSUME NEW i \in S, NEW k \in S, i < k
      PROVE  Cardinality(Before(i)) < Cardinality(Before(k))
  <2>1. Cardinality(Before(i) \cup {i}) = Cardinality(Before(i)) + 1
    <3>1. i \notin Before(i)
      OBVIOUS
    <3> QED
      BY <1>2, <3>1, FS_AddElement
  <2>2. Before(i) \cup {i} \subseteq Before(k)
    <3>1. ASSUME NEW j \in S, j < i PROVE j < k
      <4>1. i \in Nat /\ j \in Nat /\ k \in Nat
        OBVIOUS
      <4> QED
        BY <1>3, <3>1, <4>1
    <3> QED
      BY <1>3, <3>1
  <2>3. Cardinality(Before(i) \cup {i}) <= Cardinality(Before(k))
    BY <1>2, <2>2, FS_Subset
  <2>4. Cardinality(Before(i)) \in Nat /\ Cardinality(Before(k)) \in Nat
    BY <1>2
  <2> HIDE DEF Before
  <2> QED
    BY <2>1, <2>3, <2>4
<1>4. rank \in Injection(S, 1..C)
  <2>1. rank \in [S -> 1..C]
    <3> HIDE DEF Before, C
    <3> QED
      BY <1>1, <1>2
  <2>2. ASSUME NEW i \in S, NEW k \in S, rank[i] = rank[k]
        PROVE  i = k
    <3>1. Cardinality(Before(i)) = Cardinality(Before(k))
      <4>1. Cardinality(Before(i)) \in Nat /\ Cardinality(Before(k)) \in Nat
        BY <1>2
      <4> HIDE DEF Before
      <4> QED
        BY <2>2, <4>1
    <3>2. Cardinality(Before(i)) \in Nat
      BY <1>2
    <3>3. ~(i < k) /\ ~(k < i)
      <4> HIDE DEF Before
      <4> QED
        BY <1>3, <3>1, <3>2
    <3> QED
      BY <3>3
  <2> HIDE DEF rank
  <2> QED
    BY <2>1, <2>2 DEF Injection, IsInjective
<1>5. rank \in Surjection(S, 1..C)
  <2>1. IsFiniteSet(1..C) /\ Cardinality(1..C) = C
    <3> HIDE DEF C
    <3> QED
      BY <1>1, FS_Interval
  <2> HIDE DEF rank
  <2> QED
    BY <1>4, <2>1, FS_Injection DEF C
<1> HIDE DEF rank
<1> QED
  BY <1>1, <1>2, <1>4, <1>5 DEF Bijection, rank, C, Before

\* A sequence that is the inverse of a ranking lists each element once.
LEMMA ByRank ==
    ASSUME NEW S, NEW C \in Nat, NEW rank \in Bijection(S, 1..C), NEW s,
           DOMAIN s = 1..C, s = [n \in DOMAIN s |-> s[n]],
           \A n \in 1..C : s[n] \in S /\ rank[s[n]] = n
    PROVE  s \in Seq(S) /\ IsInjective(s) /\ Range(s) = S
<1>1. \A i \in S : rank[i] \in 1..C
  BY DEF Bijection, Injection
<1>2. \A i, k \in S : rank[i] = rank[k] => i = k
  BY DEF Bijection, Injection, IsInjective
<1>5. s \in [1..C -> S]
  OBVIOUS
<1>6. s \in Seq(S)
  BY <1>5, SeqDef
<1>7. IsInjective(s)
  BY <1>5 DEF IsInjective
<1>8. \A i \in S : s[rank[i]] = i
  BY <1>1, <1>2
<1>9. Range(s) = S
  BY <1>1, <1>5, <1>8 DEF Range
<1> QED
  BY <1>6, <1>7, <1>9

\* The slots of one execution that get their first input are listed once each.
LEMMA PushedOnce ==
    ASSUME NEW x
    PROVE  /\ Pushed(x) \in Seq({i \in MaxSlots : Greater(x, i) /\ max_map[i] = 0})
           /\ IsInjective(Pushed(x))
           /\ Range(Pushed(x)) = {i \in MaxSlots : Greater(x, i) /\ max_map[i] = 0}
<1>1. PICK new : new = {i \in MaxSlots : Greater(x, i) /\ max_map[i] = 0}
  OBVIOUS
<1>2. new \subseteq Nat /\ IsFiniteSet(new)
  BY <1>1, IjonAssumption, FS_Subset
<1>3. PICK C : C = Cardinality(new)
  OBVIOUS
<1> DEFINE Before(i) == Cardinality({j \in new : j < i})
           rank == [i \in new |-> Before(i) + 1]
           s == [n \in 1..C |-> CHOOSE i \in new : Before(i) = n - 1]
<1>4. C \in Nat /\ rank \in Bijection(new, 1..C) /\ \A i \in new : Before(i) \in Nat
  BY <1>2, <1>3, EveryRank
<1>5. Pushed(x) = s
  BY <1>1, <1>3 DEF Pushed
<1> HIDE DEF Before
<1>6. ASSUME NEW n \in 1..C PROVE s[n] \in new /\ rank[s[n]] = n
  <2>1. PICK i \in new : rank[i] = n
    <3> HIDE DEF rank
    <3> QED
      BY <1>4 DEF Bijection, Surjection
  <2>2. Before(i) = n - 1
    BY <1>4, <2>1
  <2>3. s[n] \in new /\ Before(s[n]) = n - 1
    BY <2>2
  <2> HIDE DEF s
  <2> QED
    BY <1>4, <2>3
<1>7. DOMAIN s = 1..C /\ s = [n \in DOMAIN s |-> s[n]]
  OBVIOUS
<1>8. s \in Seq(new) /\ IsInjective(s) /\ Range(s) = new
  <2> HIDE DEF s, rank
  <2> QED
    BY <1>4, <1>6, <1>7, ByRank
<1> QED
  BY <1>1, <1>5, <1>8

\* Two lists without repetition that share no element make one.
LEMMA ConcatOnce ==
    ASSUME NEW S, NEW s \in Seq(S), NEW t \in Seq(S), IsInjective(s), IsInjective(t),
           Range(s) \cap Range(t) = {}
    PROVE  s \o t \in Seq(S) /\ IsInjective(s \o t) /\ Range(s \o t) = Range(s) \cup Range(t)
<1>1. PICK u : u = s \o t
  OBVIOUS
<1>2. /\ u \in Seq(S) /\ DOMAIN u = 1..(Len(s) + Len(t))
      /\ \A n \in 1..Len(s) : u[n] = s[n]
      /\ \A n \in 1..Len(t) : u[Len(s) + n] = t[n]
      /\ \A n \in (Len(s) + 1)..(Len(s) + Len(t)) : n - Len(s) \in 1..Len(t) /\ u[n] = t[n - Len(s)]
  BY <1>1
<1>3. Len(s) \in Nat /\ Len(t) \in Nat /\ DOMAIN s = 1..Len(s) /\ DOMAIN t = 1..Len(t)
  OBVIOUS
<1>4. \A n \in DOMAIN u : n \in 1..Len(s) \/ n \in (Len(s) + 1)..(Len(s) + Len(t))
  BY <1>2, <1>3
<1>5. \A m \in DOMAIN s, n \in DOMAIN t : s[m] # t[n]
  BY DEF Range
<1>6. ASSUME NEW m \in DOMAIN u, NEW n \in DOMAIN u, u[m] = u[n] PROVE m = n
  <2>1. CASE m \in 1..Len(s) /\ n \in 1..Len(s)
    BY <1>2, <1>3, <1>6, <2>1 DEF IsInjective
  <2>2. CASE m \in (Len(s) + 1)..(Len(s) + Len(t)) /\ n \in (Len(s) + 1)..(Len(s) + Len(t))
    <3>1. /\ m - Len(s) \in DOMAIN t /\ n - Len(s) \in DOMAIN t
          /\ t[m - Len(s)] = t[n - Len(s)]
      BY <1>2, <1>3, <1>6, <2>2
    <3>2. m - Len(s) = n - Len(s)
      BY <3>1 DEF IsInjective
    <3> QED
      BY <1>3, <2>2, <3>2
  <2>3. CASE m \in 1..Len(s) /\ n \in (Len(s) + 1)..(Len(s) + Len(t))
    <3>1. m \in DOMAIN s /\ n - Len(s) \in DOMAIN t /\ u[m] = s[m] /\ u[n] = t[n - Len(s)]
      BY <1>2, <1>3, <2>3
    <3> QED
      BY <1>5, <1>6, <3>1
  <2>4. CASE n \in 1..Len(s) /\ m \in (Len(s) + 1)..(Len(s) + Len(t))
    <3>1. n \in DOMAIN s /\ m - Len(s) \in DOMAIN t /\ u[n] = s[n] /\ u[m] = t[m - Len(s)]
      BY <1>2, <1>3, <2>4
    <3> QED
      BY <1>5, <1>6, <3>1
  <2> QED
    BY <1>4, <2>1, <2>2, <2>3, <2>4
<1>7. \A n \in 1..Len(s) : n \in DOMAIN u
  BY <1>2, <1>3
<1>8. \A n \in 1..Len(t) : Len(s) + n \in DOMAIN u
  BY <1>2, <1>3
<1>9. Range(u) = Range(s) \cup Range(t)
  <2>1. \A n \in DOMAIN u : u[n] \in Range(s) \cup Range(t)
    BY <1>2, <1>3, <1>4 DEF Range
  <2>2. \A n \in DOMAIN s : s[n] \in Range(u)
    BY <1>2, <1>3, <1>7 DEF Range
  <2>3. \A n \in DOMAIN t : t[n] \in Range(u)
    BY <1>2, <1>3, <1>8 DEF Range
  <2>4. Range(u) \subseteq Range(s) \cup Range(t)
    BY <2>1 DEF Range
  <2>5. Range(s) \subseteq Range(u) /\ Range(t) \subseteq Range(u)
    BY <2>2, <2>3 DEF Range
  <2> QED
    BY <2>4, <2>5
<1> QED
  BY <1>1, <1>2, <1>6, <1>9 DEF IsInjective

\* No slot has an input at the start.
LEMMA IjonInitHolds == IjonInit => IjonInv
  BY IjonAssumption DEF IjonInit, IjonInv, NonemptyExact, StoredReaches, IsInjective, Range

\* A slot is listed when it gets its first input, and a file that is replaced for its
\* length reaches the same value.
LEMMA UpdateMaxKeeps ==
    ASSUME IjonInv, NEW x \in Inputs, UpdateMax(x), UNCHANGED <<known_len, ijon_flow, max_base>>
    PROVE  IjonInv'
<1> DEFINE new == {i \in MaxSlots : Greater(x, i) /\ max_map[i] = 0}
           has == {i \in MaxSlots : all_inputs[i] # Nothing}
<1>1. \A i \in MaxSlots : Reached(x, i) \in Nat /\ InputLen(x) \in Nat
  BY IjonAssumption
<1>2. ASSUME NEW i \in MaxSlots
      PROVE  /\ max_map'[i] \in Nat /\ known_len'[i] \in Nat
             /\ all_inputs'[i] \in Inputs \cup {Nothing}
             /\ all_inputs'[i] # Nothing <=> max_map'[i] > 0
             /\ all_inputs'[i] = Nothing => known_len'[i] = 0
             /\ all_inputs'[i] # Nothing => Reached(all_inputs'[i], i) = max_map'[i]
             /\ \A y \in seen' : Reached(y, i) <= max_map'[i]
             /\ all_inputs'[i] # Nothing <=> i \in has \cup new
  <2>1. /\ max_map[i] \in Nat /\ known_len[i] \in Nat
        /\ all_inputs[i] \in Inputs \cup {Nothing}
        /\ all_inputs[i] # Nothing <=> max_map[i] > 0
        /\ all_inputs[i] = Nothing => known_len[i] = 0
        /\ all_inputs[i] # Nothing => Reached(all_inputs[i], i) = max_map[i]
        /\ \A y \in seen : Reached(y, i) <= max_map[i]
    BY DEF IjonInv, StoredReaches
  <2>2. /\ Reached(x, i) \in Nat /\ x # Nothing /\ known_len'[i] = known_len[i]
        /\ \A y \in seen : Reached(y, i) \in Nat
    BY <1>1, IjonAssumption, NothingIsNoInput DEF IjonInv
  <2>3. seen' = seen \cup {x}
    BY DEF UpdateMax
  <2>4. CASE Reached(x, i) > max_map[i]
    <3>1. max_map'[i] = Reached(x, i) /\ all_inputs'[i] = x
      BY <2>4 DEF UpdateMax, Greater, Stored
    <3>2. i \in has \cup new
      BY <2>1, <2>4 DEF Greater
    <3> HIDE DEF has, new
    <3> QED
      BY <2>1, <2>2, <2>3, <2>4, <3>1, <3>2
  <2>5. CASE ~(Reached(x, i) > max_map[i]) /\ Shorter(x, i)
    <3>1. max_map'[i] = max_map[i] /\ all_inputs'[i] = x
      BY <2>5 DEF UpdateMax, Greater, Stored
    <3>2. Reached(x, i) = max_map[i] /\ known_len[i] > 0
      BY <1>1, <2>1, <2>5 DEF Shorter
    <3>3. all_inputs[i] # Nothing
      BY <2>1, <3>2
    <3> QED
      BY <2>1, <2>2, <2>3, <3>1, <3>2, <3>3
  <2>6. CASE ~(Reached(x, i) > max_map[i]) /\ ~Shorter(x, i)
    <3>1. max_map'[i] = max_map[i] /\ all_inputs'[i] = all_inputs[i] /\ i \notin new
      BY <2>6 DEF UpdateMax, Greater, Stored
    <3>2. \A y \in seen' : Reached(y, i) <= max_map'[i]
      BY <2>1, <2>2, <2>3, <2>6, <3>1
    <3> HIDE DEF new
    <3> QED
      BY <2>1, <2>2, <3>1, <3>2
  <2> QED
    BY <2>4, <2>5, <2>6
<1>3. /\ Pushed(x) \in Seq(new) /\ IsInjective(Pushed(x)) /\ Range(Pushed(x)) = new
  BY PushedOnce
<1>4. new \cap has = {}
  BY DEF IjonInv
<1>5. Range(nonempty_inputs) = has /\ IsInjective(nonempty_inputs) /\ nonempty_inputs \in Seq(MaxSlots)
  BY DEF IjonInv, NonemptyExact
<1>6. new \subseteq MaxSlots
  OBVIOUS
<1>7. /\ nonempty_inputs' \in Seq(MaxSlots) /\ IsInjective(nonempty_inputs')
      /\ Range(nonempty_inputs') = has \cup new
  <2>1. Pushed(x) \in Seq(MaxSlots)
    <3> HIDE DEF new
    <3> QED
      BY <1>3, <1>6, SeqMonotonic
  <2>2. nonempty_inputs' = nonempty_inputs \o Pushed(x)
    BY DEF UpdateMax
  <2> HIDE DEF has, new
  <2> QED
    BY <1>3, <1>4, <1>5, <2>1, <2>2, ConcatOnce
<1>8. has \cup new = {i \in MaxSlots : all_inputs'[i] # Nothing}
  BY <1>2
<1>9. NonemptyExact'
  BY <1>7, <1>8 DEF NonemptyExact, IjonInv
<1>10. StoredReaches'
  BY <1>2 DEF StoredReaches
<1>11. seen' \subseteq Inputs /\ known_len' = [i \in MaxSlots |-> known_len'[i]]
  BY DEF UpdateMax, IjonInv
<1> QED
  BY <1>2, <1>7, <1>9, <1>10, <1>11 DEF IjonInv

\* Every step keeps the maxima and their inputs together.
LEMMA IjonNextKeeps == IjonInv /\ [IjonNext]_ijonVars => IjonInv'
<1> SUFFICES ASSUME IjonInv, [IjonNext]_ijonVars PROVE IjonInv'
  OBVIOUS
<1>1. CASE AflFlow \/ LoopEnds \/ UNCHANGED ijonVars
  <2>1. /\ UNCHANGED <<max_map, all_inputs, known_len, nonempty_inputs, seen>>
        /\ ijon_flow' = "ijon" => ijon_flow = "ijon" /\ max_base' = max_base
    BY <1>1 DEF AflFlow, LoopEnds, ijonVars, ijonLoop
  <2> QED
    BY <2>1 DEF IjonInv, NonemptyExact, StoredReaches
<1>2. CASE SelectMax
  <2>1. PICK n \in DOMAIN nonempty_inputs :
          LET i == nonempty_inputs[n]
          IN  /\ max_selected' = i /\ max_base' = all_inputs[i]
              /\ known_len' = [known_len EXCEPT ![i] = InputLen(all_inputs[i])]
    BY <1>2 DEF SelectMax
  <2>2. PICK i : i = nonempty_inputs[n]
    OBVIOUS
  <2>3. i \in MaxSlots /\ all_inputs[i] # Nothing /\ all_inputs[i] \in Inputs
    BY <2>2 DEF IjonInv, NonemptyExact, Range
  <2>4. /\ max_base' # Nothing
        /\ known_len' = [known_len EXCEPT ![i] = InputLen(all_inputs[i])]
        /\ InputLen(all_inputs[i]) \in Nat
    BY <2>1, <2>2, <2>3, IjonAssumption
  <2>5. UNCHANGED <<max_map, all_inputs, nonempty_inputs, seen>>
    BY <1>2 DEF SelectMax
  <2>6. /\ known_len' = [k \in MaxSlots |-> known_len'[k]]
        /\ \A k \in MaxSlots : known_len'[k] \in Nat /\ (k # i => known_len'[k] = known_len[k])
    BY <2>3, <2>4 DEF IjonInv
  <2> QED
    BY <2>3, <2>4, <2>5, <2>6 DEF IjonInv, NonemptyExact, StoredReaches
<1>3. ASSUME NEW x \in Inputs, NEW regular \in BOOLEAN, Execute(x, regular)
      PROVE  IjonInv'
  <2>1. UNCHANGED <<known_len, ijon_flow, max_base>>
    BY <1>3 DEF Execute
  <2>2. CASE regular
    <3>1. UpdateMax(x)
      BY <1>3, <2>2 DEF Execute
    <3> QED
      BY <2>1, <3>1, UpdateMaxKeeps
  <2>3. CASE ~regular
    <3>1. UNCHANGED <<nonempty_inputs, max_map, all_inputs, seen>>
      BY <1>3, <2>3 DEF Execute
    <3> QED
      BY <2>1, <3>1 DEF IjonInv, NonemptyExact, StoredReaches
  <2> QED
    BY <2>2, <2>3
<1> QED
  BY <1>1, <1>2, <1>3 DEF IjonNext

-----------------------------------------------------------------------------
(* AFLFast.                                                                *)

FastSeeds ==
    [path : SUBSET FastBytes, cksum : SUBSET FastBytes, n_fuzz : Nat, fuzz_level : Nat,
     favored : BOOLEAN, cal_failed : Nat, trimmed : BOOLEAN]

\* The seed whose turn it is.
InTurn(i) == i = fast_cur /\ fast_pc \notin {"cull", "select"}

\* Before its first turn a seed is scored once, so that its trace_mini has all the bytes that
\* it wins.
ScoredOnce ==
    \A b \in FastBytes :
        /\ fast_top[b] # NoSeed /\ ~WasFuzzed(fast_queue[fast_top[b]]) /\ ~InTurn(fast_top[b])
        => b \in fast_mini[fast_top[b]]

\* A seed that wins a byte, or is favored, was calibrated: only those leave both counters
\* at their first turn.
FastInv ==
    /\ fast_queue \in Seq(FastSeeds) /\ Len(fast_queue) > 0
    /\ fast_top \in [FastBytes -> Nat]
    /\ \A b \in FastBytes : fast_top[b] # NoSeed =>
          fast_top[b] \in DOMAIN fast_queue /\ fast_queue[fast_top[b]].cal_failed = 0
    /\ \A i \in DOMAIN fast_queue : fast_queue[i].favored => fast_queue[i].cal_failed = 0
    /\ fast_mini \in Seq(SUBSET FastBytes) /\ Len(fast_mini) = Len(fast_queue) /\ ScoredOnce
    /\ fast_cur \in 0..Len(fast_queue)
    /\ fast_pc = "trim" => fast_queue[fast_cur].cal_failed = 0
    /\ fast_pc \notin {"cull", "select"} => fast_cur \in DOMAIN fast_queue
    /\ fast_leaked \in Nat
    /\ PendingLeaks /\ PendingFavoredReal

\* What the invariant says of the seeds and the winners, apart from the counters.
LEMMA FastTyped ==
    ASSUME FastInv
    PROVE  /\ Len(fast_queue) \in Nat \ {0} /\ DOMAIN fast_queue = 1..Len(fast_queue)
           /\ fast_queue = [i \in DOMAIN fast_queue |-> fast_queue[i]]
           /\ \A i \in DOMAIN fast_queue : fast_queue[i] \in FastSeeds
           /\ fast_mini \in [DOMAIN fast_queue -> SUBSET FastBytes]
           /\ IsFiniteSet(Unfuzzed) /\ Cardinality(Unfuzzed) \in Nat
           /\ IsFiniteSet(Waiting) /\ Cardinality(Waiting) \in Nat
           /\ fast_pending \in Nat /\ fast_pending_favored \in Nat
<1>1. /\ Len(fast_queue) \in Nat \ {0} /\ DOMAIN fast_queue = 1..Len(fast_queue)
      /\ fast_queue = [i \in DOMAIN fast_queue |-> fast_queue[i]]
      /\ \A i \in DOMAIN fast_queue : fast_queue[i] \in FastSeeds
  <2> HIDE DEF FastSeeds
  <2> QED
    BY DEF FastInv
<1>2. IsFiniteSet(DOMAIN fast_queue)
  <2>1. IsFiniteSet(1..Len(fast_queue))
    <3>1. 1 \in Int /\ Len(fast_queue) \in Int
      BY <1>1
    <3> QED
      BY <3>1, FS_Interval
  <2> QED
    BY <1>1, <2>1
<1>3. Unfuzzed \subseteq DOMAIN fast_queue /\ Waiting \subseteq DOMAIN fast_queue
  BY DEF Unfuzzed, Waiting
<1>4. /\ IsFiniteSet(Unfuzzed) /\ Cardinality(Unfuzzed) \in Nat
      /\ IsFiniteSet(Waiting) /\ Cardinality(Waiting) \in Nat
  BY <1>2, <1>3, FS_Subset, FS_CardinalityType
<1>5. fast_mini \in [DOMAIN fast_queue -> SUBSET FastBytes]
  BY <1>1 DEF FastInv
<1> QED
  BY <1>1, <1>4, <1>5 DEF FastInv, PendingLeaks, PendingFavoredReal

\* A step that changes neither the level nor the mark of a seed leaves the waiting seeds.
LEMMA SameWaiting ==
    ASSUME DOMAIN fast_queue' = DOMAIN fast_queue,
           \A i \in DOMAIN fast_queue :
               /\ fast_queue'[i].fuzz_level = fast_queue[i].fuzz_level
               /\ fast_queue'[i].favored = fast_queue[i].favored
    PROVE  Unfuzzed' = Unfuzzed /\ Waiting' = Waiting
<1>1. Unfuzzed' = Unfuzzed
  BY DEF Unfuzzed, WasFuzzed
<1>2. \A i \in Unfuzzed : i \in DOMAIN fast_queue
  BY DEF Unfuzzed
<1> QED
  BY <1>1, <1>2 DEF Waiting

\* A byte goes to the seed itself or stays with its winner, which then keeps its trace; a
\* seed that is scored for the first time takes the trace that it wins by.
LEMMA ScoreKeeps ==
    ASSUME FastInv, NEW q, NEW minis \in [DOMAIN q -> SUBSET FastBytes], NEW t \in DOMAIN q, t \in Nat,
           NEW trace \in SUBSET FastBytes, UpdateBitmapScore(q, minis, t, trace)
    PROVE  /\ fast_top' \in [FastBytes -> Nat]
           /\ \A b \in FastBytes : fast_top'[b] \in {t, fast_top[b]}
           /\ fast_mini' \in [DOMAIN q -> SUBSET FastBytes]
           /\ \A b \in FastBytes : fast_top'[b] # t /\ fast_top'[b] \in DOMAIN q =>
                 fast_mini'[fast_top'[b]] = minis[fast_top'[b]]
           /\ minis[t] = NoPath /\ (\A b \in FastBytes : fast_top[b] # t) =>
                 \A b \in FastBytes : fast_top'[b] = t => b \in fast_mini'[t]
<1>1. PICK cheaper \in SUBSET (DOMAIN q \ {t}), won \in SUBSET trace :
        /\ fast_top' = [b \in FastBytes |-> IF b \in won THEN t ELSE fast_top[b]]
        /\ fast_mini' = [s \in DOMAIN q |-> MiniAfter(minis[s], s, t, won, trace)]
  BY DEF UpdateBitmapScore
<1>2. fast_top \in [FastBytes -> Nat]
  BY DEF FastInv
<1>3. fast_mini' \in [DOMAIN q -> SUBSET FastBytes]
  <2>1. \A s \in DOMAIN q : MiniAfter(minis[s], s, t, won, trace) \in {minis[s], trace, NoPath}
    BY DEF MiniAfter
  <2> QED
    BY <1>1, <2>1 DEF NoPath
<1>4. ASSUME NEW b \in FastBytes, fast_top'[b] # t, fast_top'[b] \in DOMAIN q
      PROVE  fast_mini'[fast_top'[b]] = minis[fast_top'[b]]
  <2>1. b \notin won /\ fast_top'[b] = fast_top[b]
    BY <1>1, <1>4
  <2>2. ~({c \in FastBytes : fast_top[c] = fast_top[b]} \subseteq won)
    BY <2>1
  <2>3. MiniAfter(minis[fast_top[b]], fast_top[b], t, won, trace) = minis[fast_top[b]]
    BY <1>4, <2>1, <2>2 DEF MiniAfter
  <2> QED
    BY <1>1, <1>4, <2>1, <2>3
<1>5. ASSUME minis[t] = NoPath, \A b \in FastBytes : fast_top[b] # t, NEW b \in FastBytes, fast_top'[b] = t
      PROVE  b \in fast_mini'[t]
  <2>1. b \in won /\ b \in trace
    BY <1>1, <1>5
  <2>2. MiniAfter(minis[t], t, t, won, trace) = trace
    BY <1>5, <2>1 DEF MiniAfter
  <2> QED
    BY <1>1, <2>1, <2>2
<1> QED
  BY <1>1, <1>2, <1>3, <1>4, <1>5

\* After the dry run the only seed is calibrated and waits.
LEMMA FastInitHolds == FastInit => FastInv
<1> SUFFICES ASSUME FastInit PROVE FastInv
  OBVIOUS
<1>1. PICK path \in FastPaths, trace \in FastPaths :
        /\ fast_queue = <<NewSeed(path, 0)>>
        /\ fast_top = [b \in FastBytes |-> IF b \in trace THEN 1 ELSE NoSeed]
        /\ fast_mini = <<trace>>
        /\ fast_pending = 1 /\ fast_pending_favored = 0 /\ fast_leaked = 0
        /\ fast_pc = "cull" /\ fast_cur = 0
  <2>1. PICK path \in FastPaths : fast_queue = <<NewSeed(path, 0)>>
    BY DEF FastInit
  <2>2. fast_queue[1].path = path
    BY <2>1 DEF NewSeed
  <2>3. PICK trace \in Traces(path) :
          /\ fast_top = [b \in FastBytes |-> IF b \in trace THEN 1 ELSE NoSeed]
          /\ fast_mini = <<trace>>
    BY <2>2 DEF FastInit
  <2>4. trace \in FastPaths
    BY <2>1, <2>3 DEF Traces
  <2> QED
    BY <2>1, <2>3, <2>4 DEF FastInit
<1>2. PICK t : t = NewSeed(path, 0)
  OBVIOUS
<1>3. t \in FastSeeds /\ t.cal_failed = 0 /\ t.fuzz_level = 0 /\ t.favored = FALSE
  BY <1>2, FastAssumption DEF NewSeed, FastSeeds
<1>4. fast_queue \in Seq(FastSeeds) /\ Len(fast_queue) = 1 /\ DOMAIN fast_queue = {1} /\ fast_queue[1] = t
  BY <1>1, <1>2, <1>3
<1>5. Unfuzzed = {1} /\ Waiting = {}
  <2>1. Unfuzzed = {1}
    BY <1>3, <1>4 DEF Unfuzzed, WasFuzzed
  <2> QED
    BY <1>3, <1>4, <2>1 DEF Waiting
<1>6. Cardinality(Unfuzzed) = 1 /\ Cardinality(Waiting) = 0
  BY <1>5, FS_Singleton, FS_EmptySet
<1>7. fast_top \in [FastBytes -> Nat] /\ \A b \in FastBytes : fast_top[b] \in {1, NoSeed}
  BY <1>1 DEF NoSeed
<1>8. /\ fast_mini \in Seq(SUBSET FastBytes) /\ Len(fast_mini) = 1 /\ fast_mini[1] = trace
  BY <1>1, FastAssumption
<1>9. ScoredOnce
  BY <1>1, <1>8 DEF ScoredOnce, NoSeed
<1> QED
  BY <1>1, <1>3, <1>4, <1>6, <1>7, <1>8, <1>9 DEF FastInv, PendingLeaks, PendingFavoredReal

\* The seeds that CullQueue marks are winners.  It counts a byte for each that waits, and no
\* two bytes for one: the trace_mini of a waiting seed has all its bytes.
LEMMA CullKeeps == FastInv /\ FastCull => FastInv'
<1> SUFFICES ASSUME FastInv, FastCull PROVE FastInv'
  OBVIOUS
<1>1. /\ UNCHANGED <<fast_top, fast_mini, fast_pending, fast_leaked, fast_cur>>
      /\ fast_pc = "cull" /\ fast_pc' = "select"
  BY DEF FastCull
<1>2. CASE ~fast_changed
  <2>1. UNCHANGED <<fast_queue, fast_pending_favored>>
    BY <1>2 DEF FastCull
  <2> QED
    BY <1>1, <2>1 DEF FastInv, PendingLeaks, PendingFavoredReal, Waiting, Unfuzzed, WasFuzzed, ScoredOnce, InTurn
<1>3. CASE fast_changed
  <2>1. PICK P \in SUBSET Won :
          /\ Picked(P)
          /\ fast_queue' = [i \in DOMAIN fast_queue |->
                [fast_queue[i] EXCEPT !.favored = \E b \in P : fast_top[b] = i]]
          /\ fast_pending_favored' = Cardinality({b \in P : ~WasFuzzed(fast_queue[fast_top[b]])})
    BY <1>3 DEF FastCull
  <2>2. ASSUME NEW i \in DOMAIN fast_queue
        PROVE  /\ fast_queue'[i] \in FastSeeds
               /\ fast_queue'[i].fuzz_level = fast_queue[i].fuzz_level
               /\ fast_queue'[i].cal_failed = fast_queue[i].cal_failed
               /\ fast_queue'[i].favored <=> \E b \in P : fast_top[b] = i
    <3>1. PICK mark \in BOOLEAN : mark <=> \E b \in P : fast_top[b] = i
      OBVIOUS
    <3>2. fast_queue'[i] = [fast_queue[i] EXCEPT !.favored = mark]
      <4>1. mark = (\E b \in P : fast_top[b] = i)
        BY <3>1, Zenon
      <4> QED
        BY <2>1, <4>1, Zenon
    <3>3. fast_queue[i] \in FastSeeds
      BY FastTyped
    <3> QED
      BY <3>1, <3>2, <3>3 DEF FastSeeds
  <2>3. /\ fast_queue' \in Seq(FastSeeds) /\ Len(fast_queue') = Len(fast_queue)
        /\ DOMAIN fast_queue' = DOMAIN fast_queue
    <3>1. PICK n \in Nat : n = Len(fast_queue) /\ DOMAIN fast_queue = 1..n
      BY FastTyped
    <3>2. DOMAIN fast_queue' = 1..n /\ fast_queue' = [i \in 1..n |-> fast_queue'[i]]
      BY <2>1, <3>1
    <3>3. fast_queue' \in [1..n -> FastSeeds]
      BY <2>2, <3>1, <3>2
    <3> QED
      BY <3>1, <3>2, <3>3
  <2>4. \A b \in P : /\ b \in FastBytes /\ fast_top[b] # NoSeed
                     /\ fast_top[b] \in DOMAIN fast_queue /\ fast_queue[fast_top[b]].cal_failed = 0
    BY DEF FastInv, Won
  <2>5. Unfuzzed' = Unfuzzed
    BY <2>2, <2>3 DEF Unfuzzed, WasFuzzed
  <2>6. PICK U : U = {b \in P : ~WasFuzzed(fast_queue[fast_top[b]])}
    OBVIOUS
  <2>7. Waiting' = {fast_top[b] : b \in U}
    <3>1. \A i \in Waiting' : \E b \in U : i = fast_top[b]
      BY <2>2, <2>5, <2>6 DEF Waiting, Unfuzzed
    <3>2. \A b \in U : fast_top[b] \in Waiting'
      BY <2>2, <2>4, <2>5, <2>6 DEF Waiting, Unfuzzed
    <3> QED
      BY <3>1, <3>2
  <2>8. \A b, c \in U : b < c => fast_top[b] # fast_top[c]
    <3> SUFFICES ASSUME NEW b \in U, NEW c \in U, b < c, fast_top[b] = fast_top[c] PROVE FALSE
      OBVIOUS
    <3>1. c \in fast_mini[fast_top[c]]
      BY <1>1, <2>4, <2>6 DEF FastInv, ScoredOnce, InTurn
    <3>2. c \notin fast_mini[fast_top[b]]
      BY <2>1, <2>6 DEF Picked
    <3> QED
      BY <3>1, <3>2
  <2>9. Cardinality(U) = Cardinality(Waiting')
    <3>1. U \subseteq FastBytes
      BY <2>4, <2>6
    <3>2. IsFiniteSet(U)
      BY <3>1, FastAssumption, FS_Subset
    <3>3. \A b, c \in U : b # c => fast_top[b] # fast_top[c]
      BY <2>8, <3>1, FastAssumption
    <3>4. [b \in U |-> fast_top[b]] \in Bijection(U, Waiting')
      BY <2>7, <3>3 DEF Bijection, Injection, Surjection, IsInjective
    <3>5. ExistsBijection(U, Waiting')
      BY <3>4 DEF ExistsBijection
    <3> QED
      BY <3>2, <3>5, FS_Bijection
  <2>10. /\ \A b \in FastBytes : fast_top'[b] # NoSeed =>
              fast_top'[b] \in DOMAIN fast_queue' /\ fast_queue'[fast_top'[b]].cal_failed = 0
         /\ \A i \in DOMAIN fast_queue' : fast_queue'[i].favored => fast_queue'[i].cal_failed = 0
    <3>1. \A i \in DOMAIN fast_queue : fast_queue'[i].favored => fast_queue[i].cal_failed = 0
      BY <2>2, <2>4
    <3> QED
      BY <1>1, <2>2, <2>3, <3>1 DEF FastInv
  <2>11. PendingLeaks' /\ PendingFavoredReal'
    BY <1>1, <2>1, <2>5, <2>6, <2>9 DEF FastInv, PendingLeaks, PendingFavoredReal
  <2>12. ScoredOnce'
    <3>1. \A b \in FastBytes : fast_top[b] # NoSeed =>
            WasFuzzed(fast_queue'[fast_top[b]]) = WasFuzzed(fast_queue[fast_top[b]])
      BY <2>2 DEF FastInv, WasFuzzed
    <3> QED
      BY <1>1, <3>1 DEF FastInv, ScoredOnce, InTurn
  <2> QED
    BY <1>1, <2>3, <2>10, <2>11, <2>12 DEF FastInv
<1> QED
  BY <1>2, <1>3

\* A step that touches neither the queue, nor the winners, nor the counters.
LEMMA FastLoopKeeps ==
    ASSUME FastInv, UNCHANGED <<fast_queue, fast_top, fast_mini, fastCounters>>,
           fast_cur' \in 0..Len(fast_queue),
           fast_pc \notin {"cull", "select"} => fast_cur' = fast_cur /\ fast_pc' \notin {"cull", "select"},
           fast_pc' \notin {"cull", "select"} => fast_cur' \in DOMAIN fast_queue,
           fast_pc' = "trim" => fast_queue[fast_cur'].cal_failed = 0
    PROVE  FastInv'
<1>1. ScoredOnce'
  BY DEF FastInv, ScoredOnce, InTurn, WasFuzzed
<1> QED
  BY <1>1 DEF FastInv, PendingLeaks, PendingFavoredReal, Waiting, Unfuzzed, WasFuzzed, fastCounters

\* The seeds are taken in turn.
LEMMA SelectKeeps == FastInv /\ FastSelect => FastInv'
<1> SUFFICES ASSUME FastInv, FastSelect PROVE FastInv'
  OBVIOUS
<1>1. /\ UNCHANGED <<fast_queue, fast_top, fast_mini, fastCounters>>
      /\ fast_pc = "select" /\ fast_pc' \in {"calibrate", "cull"}
  BY DEF FastSelect, fastRank
<1>2. fast_cur' \in 1..Len(fast_queue)
  BY FastTyped DEF FastSelect, FastInv
<1>3. fast_cur' \in 0..Len(fast_queue) /\ fast_cur' \in DOMAIN fast_queue
  BY <1>2, FastTyped
<1> QED
  BY <1>1, <1>3, FastLoopKeeps

\* The calibration and the trimming of the chosen seed: it stays calibrated, and only one that
\* is calibrated can win a byte.
LEMMA TurnKeeps ==
    ASSUME FastInv, fast_pc \notin {"cull", "select"}, fast_pc' \notin {"cull", "select"},
           UNCHANGED <<fast_cur, fastCounters>>,
           NEW s \in FastSeeds, fast_queue' = [fast_queue EXCEPT ![fast_cur] = s],
           s.fuzz_level = fast_queue[fast_cur].fuzz_level, s.favored = fast_queue[fast_cur].favored,
           fast_queue[fast_cur].cal_failed = 0 => s.cal_failed = 0,
           fast_pc' = "trim" => s.cal_failed = 0,
           \/ UNCHANGED <<fast_top, fast_mini>>
           \/ /\ s.cal_failed = 0
              /\ \E trace \in SUBSET FastBytes : UpdateBitmapScore(fast_queue', fast_mini, fast_cur, trace)
    PROVE  FastInv'
<1>1. fast_cur \in DOMAIN fast_queue
  BY DEF FastInv
<1>2. ASSUME NEW i \in DOMAIN fast_queue
      PROVE  /\ fast_queue'[i] \in FastSeeds
             /\ fast_queue'[i].fuzz_level = fast_queue[i].fuzz_level
             /\ fast_queue'[i].favored = fast_queue[i].favored
             /\ fast_queue[i].cal_failed = 0 => fast_queue'[i].cal_failed = 0
             /\ i = fast_cur => fast_queue'[i] = s
  <2>1. fast_queue[i] \in FastSeeds
    BY FastTyped
  <2>2. fast_queue'[i] = IF i = fast_cur THEN s ELSE fast_queue[i]
    OBVIOUS
  <2> QED
    BY <2>1, <2>2
<1>3. /\ fast_queue' \in Seq(FastSeeds) /\ Len(fast_queue') = Len(fast_queue)
      /\ DOMAIN fast_queue' = DOMAIN fast_queue
  <2>1. PICK n \in Nat : n = Len(fast_queue) /\ DOMAIN fast_queue = 1..n
    BY FastTyped
  <2>2. DOMAIN fast_queue' = 1..n /\ fast_queue' = [i \in 1..n |-> fast_queue'[i]]
    BY <2>1
  <2>3. fast_queue' \in [1..n -> FastSeeds]
    BY <1>2, <2>1, <2>2
  <2>4. \A q : DOMAIN q = 1..n /\ q \in [1..n -> FastSeeds] => q \in Seq(FastSeeds) /\ Len(q) = n
    OBVIOUS
  <2> QED
    BY <2>1, <2>2, <2>3, <2>4, Zenon
<1>4. Unfuzzed' = Unfuzzed /\ Waiting' = Waiting
  BY <1>2, <1>3, SameWaiting
<1> DEFINE Ranked ==
      /\ fast_top' \in [FastBytes -> Nat]
      /\ \A b \in FastBytes :
            /\ fast_top'[b] = fast_top[b] \/ (fast_top'[b] = fast_cur /\ s.cal_failed = 0)
            /\ fast_top'[b] # fast_cur /\ fast_top'[b] \in DOMAIN fast_queue =>
                  fast_mini'[fast_top'[b]] = fast_mini[fast_top'[b]]
      /\ fast_mini' \in [DOMAIN fast_queue -> SUBSET FastBytes]
<1>5. Ranked
  <2>1. CASE UNCHANGED <<fast_top, fast_mini>>
    BY <2>1, FastTyped DEF FastInv
  <2>2. ASSUME s.cal_failed = 0, NEW trace \in SUBSET FastBytes,
               UpdateBitmapScore(fast_queue', fast_mini, fast_cur, trace)
        PROVE  Ranked
    <3>1. PICK q : q = fast_queue'
      OBVIOUS
    <3>2. /\ fast_mini \in [DOMAIN q -> SUBSET FastBytes] /\ fast_cur \in DOMAIN q /\ fast_cur \in Nat
          /\ UpdateBitmapScore(q, fast_mini, fast_cur, trace)
      <4>1. UpdateBitmapScore(q, fast_mini, fast_cur, trace)
        BY <2>2, <3>1, Zenon
      <4>2. DOMAIN q = DOMAIN fast_queue
        BY <1>3, <3>1, Zenon
      <4>3. DOMAIN fast_queue \subseteq Nat
        BY FastTyped
      <4> QED
        BY <1>1, <4>1, <4>2, <4>3, FastTyped, Zenon
    <3>3. /\ fast_top' \in [FastBytes -> Nat]
          /\ \A b \in FastBytes : fast_top'[b] \in {fast_cur, fast_top[b]}
          /\ fast_mini' \in [DOMAIN q -> SUBSET FastBytes]
          /\ \A b \in FastBytes : fast_top'[b] # fast_cur /\ fast_top'[b] \in DOMAIN q =>
                fast_mini'[fast_top'[b]] = fast_mini[fast_top'[b]]
      BY <3>2, ScoreKeeps
    <3> QED
      BY <1>3, <2>2, <3>1, <3>3
  <2> QED
    BY <2>1, <2>2
<1>6. ASSUME NEW b \in FastBytes, fast_top'[b] # NoSeed
      PROVE  fast_top'[b] \in DOMAIN fast_queue' /\ fast_queue'[fast_top'[b]].cal_failed = 0
  <2>1. CASE fast_top'[b] = fast_top[b]
    BY <1>2, <1>3, <1>6, <2>1 DEF FastInv
  <2>2. CASE fast_top'[b] = fast_cur /\ s.cal_failed = 0
    BY <1>1, <1>2, <1>3, <2>2
  <2> QED
    BY <1>5, <2>1, <2>2
<1>7. \A i \in DOMAIN fast_queue' : fast_queue'[i].favored => fast_queue'[i].cal_failed = 0
  BY <1>2, <1>3 DEF FastInv
<1>8. ScoredOnce'
  <2> SUFFICES ASSUME NEW b \in FastBytes, fast_top'[b] # NoSeed,
                      ~WasFuzzed(fast_queue'[fast_top'[b]]),
                      ~(fast_top'[b] = fast_cur' /\ fast_pc' \notin {"cull", "select"})
               PROVE  b \in fast_mini'[fast_top'[b]]
    BY DEF ScoredOnce, InTurn
  <2>1. fast_top'[b] # fast_cur /\ fast_top'[b] \in DOMAIN fast_queue
    BY <1>3, <1>6 DEF InTurn
  <2>2. fast_top'[b] = fast_top[b] /\ fast_mini'[fast_top'[b]] = fast_mini[fast_top[b]]
    BY <1>5, <2>1
  <2>3. ~WasFuzzed(fast_queue[fast_top[b]]) /\ ~InTurn(fast_top[b])
    BY <1>2, <2>1, <2>2 DEF WasFuzzed, InTurn
  <2> QED
    BY <2>2, <2>3 DEF FastInv, ScoredOnce
<1>9. fast_mini' \in Seq(SUBSET FastBytes) /\ Len(fast_mini') = Len(fast_queue')
  BY <1>3, <1>5, FastTyped
<1>10. PendingLeaks' /\ PendingFavoredReal'
  BY <1>4 DEF FastInv, PendingLeaks, PendingFavoredReal, fastCounters
<1>11. /\ fast_leaked' \in Nat /\ fast_cur' \in 0..Len(fast_queue') /\ Len(fast_queue') > 0
       /\ fast_cur' \in DOMAIN fast_queue'
       /\ fast_pc' = "trim" => fast_queue'[fast_cur'].cal_failed = 0
  BY <1>1, <1>2, <1>3 DEF FastInv, fastCounters
<1> QED
  BY <1>3, <1>5, <1>6, <1>7, <1>8, <1>9, <1>10, <1>11 DEF FastInv

\* Another chance for a seed that was not calibrated.
LEMMA CalibrateKeeps == FastInv /\ FastCalibrate => FastInv'
<1> SUFFICES ASSUME FastInv, FastCalibrate PROVE FastInv'
  OBVIOUS
<1>1. /\ fast_cur \in DOMAIN fast_queue /\ UNCHANGED <<fast_cur, fastCounters>>
      /\ fast_pc = "calibrate" /\ fast_pc' \in {"trim", "abandon"}
  BY DEF FastCalibrate, FastInv
<1>2. PICK t \in FastSeeds : t = fast_queue[fast_cur]
  BY <1>1, FastTyped
<1>3. t.cal_failed \in Nat /\ t.path \in SUBSET FastBytes
  BY <1>2 DEF FastSeeds
<1>4. \A sum \in Traces(t.path) : sum \in SUBSET FastBytes
  BY <1>3, FastAssumption DEF Traces
<1>5. CASE UNCHANGED <<fast_queue, fastRank>> /\ (fast_pc' = "trim" => t.cal_failed = 0)
  BY <1>1, <1>2, <1>5, FastLoopKeeps DEF FastInv, fastRank
<1>6. ASSUME NEW sum \in Traces(t.path), NEW trace \in Traces(t.path),
             fast_queue' = [fast_queue EXCEPT ![fast_cur] = [t EXCEPT !.cal_failed = 0, !.cksum = sum]],
             UpdateBitmapScore(fast_queue', fast_mini, fast_cur, trace)
      PROVE  FastInv'
  <2>1. PICK s : s = [t EXCEPT !.cal_failed = 0, !.cksum = sum]
    OBVIOUS
  <2>2. s \in FastSeeds /\ s.cal_failed = 0 /\ s.fuzz_level = t.fuzz_level /\ s.favored = t.favored
    BY <1>4, <2>1 DEF FastSeeds
  <2>3. fast_queue' = [fast_queue EXCEPT ![fast_cur] = s] /\ trace \in SUBSET FastBytes
    BY <1>4, <1>6, <2>1
  <2> QED
    BY <1>1, <1>2, <1>6, <2>2, <2>3, TurnKeeps
<1>7. ASSUME NEW sum \in Traces(t.path) \cup {NoPath}, t.cal_failed > 0, fast_pc' = "abandon",
             fast_queue' = [fast_queue EXCEPT ![fast_cur] = [t EXCEPT !.cal_failed = @ + 1, !.cksum = sum]],
             UNCHANGED fastRank
      PROVE  FastInv'
  <2>1. PICK s : s = [t EXCEPT !.cal_failed = @ + 1, !.cksum = sum]
    OBVIOUS
  <2>2. sum \in SUBSET FastBytes
    BY <1>4 DEF NoPath
  <2>3. s \in FastSeeds /\ s.fuzz_level = t.fuzz_level /\ s.favored = t.favored
    <3>1. PICK k \in Nat : k = t.cal_failed + 1
      BY <1>3
    <3>2. s = [t EXCEPT !.cal_failed = k, !.cksum = sum]
      BY <2>1, <3>1
    <3> QED
      BY <2>2, <3>2 DEF FastSeeds
  <2>4. fast_queue' = [fast_queue EXCEPT ![fast_cur] = s] /\ t.cal_failed # 0
    BY <1>3, <1>7, <2>1
  <2> QED
    BY <1>1, <1>2, <1>7, <2>3, <2>4, TurnKeeps DEF fastRank
<1>8. 1..CalChances - 1 \subseteq {k \in Nat : k > 0}
  BY FastAssumption
<1>9. \/ UNCHANGED <<fast_queue, fastRank>> /\ (fast_pc' = "trim" => t.cal_failed = 0)
      \/ \E sum, trace \in Traces(t.path) :
            /\ fast_queue' = [fast_queue EXCEPT ![fast_cur] = [t EXCEPT !.cal_failed = 0, !.cksum = sum]]
            /\ UpdateBitmapScore(fast_queue', fast_mini, fast_cur, trace)
      \/ /\ t.cal_failed > 0 /\ fast_pc' = "abandon" /\ UNCHANGED fastRank
         /\ \E sum \in Traces(t.path) \cup {NoPath} :
              fast_queue' = [fast_queue EXCEPT ![fast_cur] = [t EXCEPT !.cal_failed = @ + 1, !.cksum = sum]]
  BY <1>2, <1>8, Zenon DEF FastCalibrate
<1> QED
  BY <1>5, <1>6, <1>7, <1>9

\* A seed that is trimmed was calibrated.
LEMMA TrimKeeps == FastInv /\ FastTrim => FastInv'
<1> SUFFICES ASSUME FastInv, FastTrim PROVE FastInv'
  OBVIOUS
<1>1. /\ fast_cur \in DOMAIN fast_queue /\ UNCHANGED <<fast_cur, fastCounters>>
      /\ fast_pc = "trim" /\ fast_pc' = "score" /\ fast_queue[fast_cur].cal_failed = 0
  BY DEF FastTrim, FastInv
<1>2. PICK t \in FastSeeds : t = fast_queue[fast_cur]
  BY <1>1, FastTyped
<1>3. CASE UNCHANGED <<fast_queue, fastRank>>
  BY <1>1, <1>3, FastLoopKeeps DEF FastInv, fastRank
<1>4. CASE /\ fast_queue' = [fast_queue EXCEPT ![fast_cur] = [t EXCEPT !.trimmed = TRUE]]
           /\ UNCHANGED fastRank \/ UpdateBitmapScore(fast_queue', fast_mini, fast_cur, t.cksum)
  <2>1. PICK s : s = [t EXCEPT !.trimmed = TRUE]
    OBVIOUS
  <2>2. /\ s \in FastSeeds /\ s.cal_failed = 0 /\ s.fuzz_level = t.fuzz_level /\ s.favored = t.favored
        /\ t.cksum \in SUBSET FastBytes
    BY <1>1, <1>2, <2>1 DEF FastSeeds
  <2>3. fast_queue' = [fast_queue EXCEPT ![fast_cur] = s]
    BY <1>4, <2>1
  <2>4. UNCHANGED <<fast_top, fast_mini>> \/
          \E trace \in SUBSET FastBytes : UpdateBitmapScore(fast_queue', fast_mini, fast_cur, trace)
    BY <1>4, <2>2 DEF fastRank
  <2> QED
    BY <1>1, <1>2, <2>2, <2>3, <2>4, TurnKeeps
<1> QED
  BY <1>2, <1>3, <1>4 DEF FastTrim

\* Counting a path changes nothing that the counters of waiting seeds look at.
LEMMA CountedSame ==
    ASSUME FastInv, NEW path
    PROVE  /\ Counted(path) \in Seq(FastSeeds) /\ Len(Counted(path)) = Len(fast_queue)
           /\ DOMAIN Counted(path) = DOMAIN fast_queue
           /\ \A i \in DOMAIN fast_queue :
                 /\ Counted(path)[i].fuzz_level = fast_queue[i].fuzz_level
                 /\ Counted(path)[i].favored = fast_queue[i].favored
                 /\ Counted(path)[i].cal_failed = fast_queue[i].cal_failed
<1>1. PICK c : c = Counted(path)
  OBVIOUS
<1>2. PICK n \in Nat : n = Len(fast_queue) /\ DOMAIN fast_queue = 1..n
  BY FastTyped
<1>3. ASSUME NEW i \in 1..n
      PROVE  /\ c[i] \in FastSeeds
             /\ c[i].fuzz_level = fast_queue[i].fuzz_level
             /\ c[i].favored = fast_queue[i].favored
             /\ c[i].cal_failed = fast_queue[i].cal_failed
  <2>1. fast_queue[i] \in FastSeeds
    BY <1>2, FastTyped
  <2>2. PICK k : k = CutScore(fast_queue[i].n_fuzz + 1, MaxCount)
    OBVIOUS
  <2>3. k \in Nat
    BY <2>1, <2>2, FastAssumption DEF CutScore, FastSeeds
  <2>4. c[i] = fast_queue[i] \/ c[i] = [fast_queue[i] EXCEPT !.n_fuzz = k]
    BY <1>1, <1>2, <2>2 DEF Counted
  <2> QED
    BY <2>1, <2>3, <2>4 DEF FastSeeds
<1>4. DOMAIN c = 1..n /\ c = [i \in 1..n |-> c[i]]
  BY <1>1, <1>2 DEF Counted
<1>5. c \in [1..n -> FastSeeds]
  BY <1>3, <1>4
<1>6. c \in Seq(FastSeeds) /\ Len(c) = n
  BY <1>4, <1>5
<1> QED
  BY <1>1, <1>2, <1>3, <1>4, <1>6

\* A new seed waits, is not favored, and wins bytes only when it was calibrated.
LEMMA ExecuteKeeps ==
    ASSUME FastInv, NEW path \in FastPaths, NEW new \in BOOLEAN, NEW failed \in {0, 1},
           FastExecute(path, new, failed)
    PROVE  FastInv'
<1>1. /\ UNCHANGED <<fast_pending_favored, fast_leaked, fast_pc, fast_cur>>
      /\ fast_cur \in DOMAIN fast_queue
  BY DEF FastExecute, FastInv
<1>2. PICK c : c = Counted(path)
  OBVIOUS
<1>3. PICK n \in Nat \ {0} : n = Len(fast_queue) /\ DOMAIN fast_queue = 1..n
  BY FastTyped
<1>4. /\ c \in Seq(FastSeeds) /\ Len(c) = n /\ DOMAIN c = 1..n
      /\ \A i \in 1..n : /\ c[i].fuzz_level = fast_queue[i].fuzz_level
                         /\ c[i].favored = fast_queue[i].favored
                         /\ c[i].cal_failed = fast_queue[i].cal_failed
  BY <1>2, <1>3, CountedSame
<1>5. CASE /\ fast_queue' = c /\ UNCHANGED <<fast_pending, fast_top, fast_mini>>
  <2>1. Unfuzzed' = Unfuzzed /\ Waiting' = Waiting
    BY <1>3, <1>4, <1>5, SameWaiting
  <2>2. PendingLeaks' /\ PendingFavoredReal'
    BY <1>1, <1>5, <2>1 DEF FastInv, PendingLeaks, PendingFavoredReal
  <2>3. \A b \in FastBytes : fast_top'[b] # NoSeed =>
          fast_top'[b] \in DOMAIN fast_queue' /\ fast_queue'[fast_top'[b]].cal_failed = 0
    BY <1>3, <1>4, <1>5 DEF FastInv
  <2>4. \A i \in DOMAIN fast_queue' : fast_queue'[i].favored => fast_queue'[i].cal_failed = 0
    BY <1>3, <1>4, <1>5 DEF FastInv
  <2>5. fast_queue' \in Seq(FastSeeds) /\ Len(fast_queue') > 0
    BY <1>3, <1>4, <1>5
  <2>6. fast_cur' \in 0..Len(fast_queue') /\ fast_cur' \in DOMAIN fast_queue'
    BY <1>1, <1>3, <1>4, <1>5
  <2>7. ScoredOnce' /\ Len(fast_mini') = Len(fast_queue')
    <3>1. \A b \in FastBytes : fast_top[b] # NoSeed =>
            fast_queue'[fast_top[b]].fuzz_level = fast_queue[fast_top[b]].fuzz_level
      BY <1>3, <1>4, <1>5 DEF FastInv
    <3> QED
      BY <1>1, <1>3, <1>4, <1>5, <3>1 DEF FastInv, ScoredOnce, InTurn, WasFuzzed
  <2>8. fast_pc' # "trim"
    BY <1>1 DEF FastExecute
  <2> QED
    BY <1>1, <1>5, <2>2, <2>3, <2>4, <2>5, <2>6, <2>7, <2>8 DEF FastInv
<1>6. CASE /\ fast_queue' = Append(c, NewSeed(path, failed)) /\ fast_pending' = fast_pending + 1
           /\ \/ /\ failed = 0
                 /\ \E trace \in Traces(path) :
                      UpdateBitmapScore(fast_queue', Append(fast_mini, NoPath), Len(fast_queue'), trace)
              \/ UNCHANGED fast_top /\ fast_mini' = Append(fast_mini, NoPath)
  <2>1. PICK t : t = NewSeed(path, failed)
    OBVIOUS
  <2>2. t \in FastSeeds /\ t.fuzz_level = 0 /\ t.favored = FALSE /\ t.cal_failed = failed
    BY <2>1, FastAssumption DEF NewSeed, FastSeeds
  <2>3. /\ fast_queue' \in Seq(FastSeeds) /\ Len(fast_queue') = n + 1
        /\ DOMAIN fast_queue' = 1..(n + 1)
        /\ fast_queue'[n + 1] = t
        /\ \A i \in 1..n : fast_queue'[i] = c[i]
    BY <1>3, <1>4, <1>6, <2>1, <2>2
  <2>4. \A i \in DOMAIN fast_queue' : i = n + 1 \/ i \in 1..n
    BY <1>3, <2>3
  <2>5. n + 1 \in DOMAIN fast_queue' /\ n + 1 \notin 1..n /\ 1..n \subseteq DOMAIN fast_queue'
    BY <1>3, <2>3
  <2>6. Unfuzzed' = Unfuzzed \cup {n + 1} /\ n + 1 \notin Unfuzzed
    <3>1. \A i \in 1..n : fast_queue'[i].fuzz_level = fast_queue[i].fuzz_level
      BY <1>4, <2>3
    <3> QED
      BY <1>3, <2>2, <2>3, <2>4, <2>5, <3>1 DEF Unfuzzed, WasFuzzed
  <2>7. Waiting' = Waiting
    <3>1. \A i \in Unfuzzed : i \in 1..n /\ fast_queue'[i].favored = fast_queue[i].favored
      BY <1>3, <1>4, <2>3 DEF Unfuzzed
    <3>2. fast_queue'[n + 1].favored = FALSE
      BY <2>2, <2>3
    <3> QED
      BY <2>6, <3>1, <3>2 DEF Waiting
  <2>8. Cardinality(Unfuzzed') = Cardinality(Unfuzzed) + 1
    BY <2>6, FastTyped, FS_AddElement
  <2>9. PendingLeaks' /\ PendingFavoredReal'
    <3>1. PendingLeaks'
      BY <1>1, <1>6, <2>8, FastTyped DEF FastInv, PendingLeaks
    <3> QED
      BY <1>1, <2>7, <3>1 DEF FastInv, PendingFavoredReal
  <2> DEFINE m == Append(fast_mini, NoPath)
             Ranked ==
               /\ fast_top' \in [FastBytes -> Nat]
               /\ \A b \in FastBytes :
                     /\ fast_top'[b] = fast_top[b] \/ (fast_top'[b] = n + 1 /\ failed = 0)
                     /\ fast_top'[b] \in 1..n => fast_mini'[fast_top'[b]] = fast_mini[fast_top'[b]]
                     /\ fast_top'[b] = n + 1 => b \in fast_mini'[n + 1]
               /\ fast_mini' \in [1..(n + 1) -> SUBSET FastBytes]
  <2>14. /\ m \in [1..(n + 1) -> SUBSET FastBytes] /\ m[n + 1] = NoPath
         /\ \A i \in 1..n : m[i] = fast_mini[i]
    <3>1. fast_mini \in Seq(SUBSET FastBytes) /\ Len(fast_mini) = n /\ NoPath \in SUBSET FastBytes
      BY <1>3 DEF FastInv, NoPath
    <3>2. m \in Seq(SUBSET FastBytes) /\ Len(m) = n + 1
      BY <3>1
    <3>3. m[n + 1] = NoPath /\ \A i \in 1..n : m[i] = fast_mini[i]
      BY <1>3, <3>1
    <3> HIDE DEF m
    <3> QED
      BY <1>3, <3>2, <3>3
  <2>15. \A b \in FastBytes : fast_top[b] # n + 1 /\ fast_top[b] \in Nat
    BY <1>3, <2>5 DEF FastInv, NoSeed
  <2>10. Ranked
    <3> HIDE DEF m
    <3>1. ASSUME failed = 0, NEW trace \in Traces(path), UpdateBitmapScore(fast_queue', m, Len(fast_queue'), trace)
          PROVE  Ranked
      <4>1. PICK q : q = fast_queue'
        OBVIOUS
      <4>2. /\ m \in [DOMAIN q -> SUBSET FastBytes] /\ n + 1 \in DOMAIN q /\ n + 1 \in Nat
            /\ UpdateBitmapScore(q, m, n + 1, trace) /\ trace \in SUBSET FastBytes
        BY <2>3, <2>5, <2>14, <3>1, <4>1, FastAssumption DEF Traces
      <4>3. /\ fast_top' \in [FastBytes -> Nat]
            /\ \A b \in FastBytes : fast_top'[b] \in {n + 1, fast_top[b]}
            /\ fast_mini' \in [DOMAIN q -> SUBSET FastBytes]
            /\ \A b \in FastBytes : fast_top'[b] # n + 1 /\ fast_top'[b] \in DOMAIN q =>
                  fast_mini'[fast_top'[b]] = m[fast_top'[b]]
            /\ m[n + 1] = NoPath /\ (\A b \in FastBytes : fast_top[b] # n + 1) =>
                  \A b \in FastBytes : fast_top'[b] = n + 1 => b \in fast_mini'[n + 1]
        BY <4>2, ScoreKeeps
      <4>4. DOMAIN q = 1..(n + 1)
        BY <2>3, <4>1
      <4> QED
        BY <2>5, <2>14, <2>15, <3>1, <4>3, <4>4
    <3>2. CASE UNCHANGED fast_top /\ fast_mini' = m
      BY <2>14, <2>15, <3>2 DEF FastInv
    <3> QED
      BY <1>6, <3>1, <3>2 DEF m
  <2>11. ASSUME NEW b \in FastBytes, fast_top'[b] # NoSeed
         PROVE  fast_top'[b] \in DOMAIN fast_queue' /\ fast_queue'[fast_top'[b]].cal_failed = 0
    <3>1. CASE fast_top'[b] = fast_top[b]
      <4>1. fast_top[b] \in 1..n /\ fast_queue[fast_top[b]].cal_failed = 0
        BY <1>3, <2>11, <3>1 DEF FastInv
      <4> QED
        BY <1>4, <2>3, <2>5, <3>1, <4>1
    <3>2. CASE fast_top'[b] = n + 1 /\ failed = 0
      BY <2>2, <2>3, <2>5, <3>2
    <3> QED
      BY <2>10, <3>1, <3>2
  <2>12. \A i \in DOMAIN fast_queue' : fast_queue'[i].favored => fast_queue'[i].cal_failed = 0
    <3>1. \A i \in 1..n : fast_queue'[i].favored => fast_queue'[i].cal_failed = 0
      BY <1>3, <1>4, <2>3 DEF FastInv
    <3>2. fast_queue'[n + 1].favored = FALSE
      BY <2>2, <2>3
    <3> QED
      BY <2>4, <3>1, <3>2
  <2>13. fast_cur' \in 0..Len(fast_queue') /\ fast_cur' \in DOMAIN fast_queue' /\ Len(fast_queue') > 0
    BY <1>1, <1>3, <2>3
  <2>16. fast_mini' \in Seq(SUBSET FastBytes) /\ Len(fast_mini') = Len(fast_queue')
    BY <1>3, <2>3, <2>10
  <2>17. ScoredOnce'
    <3> SUFFICES ASSUME NEW b \in FastBytes, fast_top'[b] # NoSeed,
                        ~WasFuzzed(fast_queue'[fast_top'[b]]),
                        ~(fast_top'[b] = fast_cur' /\ fast_pc' \notin {"cull", "select"})
                 PROVE  b \in fast_mini'[fast_top'[b]]
      BY DEF ScoredOnce, InTurn
    <3>1. CASE fast_top'[b] = n + 1
      BY <2>10, <3>1
    <3>2. CASE fast_top'[b] = fast_top[b]
      <4>1. fast_top[b] \in 1..n
        BY <1>3, <3>2 DEF FastInv
      <4>2. ~WasFuzzed(fast_queue[fast_top[b]]) /\ ~InTurn(fast_top[b])
        BY <1>1, <1>4, <2>3, <3>2, <4>1 DEF WasFuzzed, InTurn
      <4>3. b \in fast_mini[fast_top[b]]
        BY <3>2, <4>2 DEF FastInv, ScoredOnce
      <4> QED
        BY <2>10, <3>2, <4>1, <4>3
    <3> QED
      BY <2>10, <3>1, <3>2
  <2>18. fast_pc' # "trim"
    BY <1>1 DEF FastExecute
  <2> QED
    BY <1>1, <2>3, <2>9, <2>10, <2>11, <2>12, <2>13, <2>16, <2>17, <2>18 DEF FastInv
<1> QED
  <2>1. \/ /\ fast_queue' = c /\ UNCHANGED <<fast_pending, fastRank>>
        \/ /\ fast_queue' = Append(c, NewSeed(path, failed)) /\ fast_pending' = fast_pending + 1
           /\ \/ /\ failed = 0
                 /\ \E trace \in Traces(path) :
                      UpdateBitmapScore(fast_queue', Append(fast_mini, NoPath), Len(fast_queue'), trace)
              \/ UNCHANGED fast_top /\ fast_mini' = Append(fast_mini, NoPath)
    BY <1>2, Zenon DEF FastExecute
  <2> QED
    BY <1>5, <1>6, <2>1 DEF fastRank

\* The first turn of a seed takes it out of the waiting ones, and out of the counters when
\* it was calibrated.
LEMMA AbandonKeeps == FastInv /\ FastAbandon => FastInv'
<1> SUFFICES ASSUME FastInv, FastAbandon PROVE FastInv'
  OBVIOUS
<1>1. PICK t : t = fast_queue[fast_cur]
  OBVIOUS
<1>2. /\ fast_cur \in DOMAIN fast_queue /\ fast_pc' = "cull" /\ UNCHANGED <<fast_top, fast_mini, fast_cur>>
      /\ fast_queue' = [fast_queue EXCEPT ![fast_cur].fuzz_level = CutScore(@ + 1, MaxLevel)]
  BY DEF FastAbandon, FastInv, fastRank
<1>3. t \in FastSeeds /\ t.fuzz_level \in Nat /\ t.favored \in BOOLEAN /\ t.cal_failed \in Nat
  <2>1. t \in FastSeeds
    BY <1>1, <1>2, FastTyped
  <2> QED
    BY <2>1 DEF FastSeeds
<1>4. PICK level \in Nat \ {0} : level = CutScore(t.fuzz_level + 1, MaxLevel)
  BY <1>3, FastAssumption DEF CutScore
<1>5. ASSUME NEW i \in DOMAIN fast_queue
      PROVE  /\ fast_queue'[i] \in FastSeeds
             /\ fast_queue'[i].favored = fast_queue[i].favored
             /\ fast_queue'[i].cal_failed = fast_queue[i].cal_failed
             /\ i = fast_cur => fast_queue'[i].fuzz_level = level
             /\ i # fast_cur => fast_queue'[i].fuzz_level = fast_queue[i].fuzz_level
  <2>1. fast_queue[i] \in FastSeeds
    BY FastTyped
  <2>2. CASE i = fast_cur
    <3>1. fast_queue'[i] = [fast_queue[i] EXCEPT !.fuzz_level = level]
      BY <1>1, <1>2, <1>4, <2>2
    <3> QED
      BY <1>4, <2>1, <2>2, <3>1 DEF FastSeeds
  <2>3. CASE i # fast_cur
    <3>1. fast_queue'[i] = fast_queue[i]
      BY <1>2, <2>3
    <3> QED
      BY <2>1, <2>3, <3>1
  <2> QED
    BY <2>2, <2>3
<1>6. /\ fast_queue' \in Seq(FastSeeds) /\ Len(fast_queue') = Len(fast_queue)
      /\ DOMAIN fast_queue' = DOMAIN fast_queue
  <2>1. PICK n \in Nat : n = Len(fast_queue) /\ DOMAIN fast_queue = 1..n
    BY FastTyped
  <2>2. DOMAIN fast_queue' = 1..n /\ fast_queue' = [i \in 1..n |-> fast_queue'[i]]
    BY <1>2, <2>1
  <2>3. fast_queue' \in [1..n -> FastSeeds]
    BY <1>5, <2>1, <2>2
  <2> QED
    BY <2>1, <2>2, <2>3
<1>7. /\ \A b \in FastBytes : fast_top'[b] # NoSeed =>
           fast_top'[b] \in DOMAIN fast_queue' /\ fast_queue'[fast_top'[b]].cal_failed = 0
      /\ \A i \in DOMAIN fast_queue' : fast_queue'[i].favored => fast_queue'[i].cal_failed = 0
  BY <1>2, <1>5, <1>6 DEF FastInv
<1>8. Unfuzzed' = Unfuzzed \ {fast_cur} /\ Waiting' = Waiting \ {fast_cur}
  <2>1. Unfuzzed' = Unfuzzed \ {fast_cur}
    BY <1>2, <1>4, <1>5, <1>6 DEF Unfuzzed, WasFuzzed
  <2>2. \A i \in Unfuzzed : i \in DOMAIN fast_queue
    BY DEF Unfuzzed
  <2> QED
    BY <1>5, <2>1, <2>2 DEF Waiting
<1>9. /\ fast_cur \in Unfuzzed <=> ~WasFuzzed(t)
      /\ fast_cur \in Waiting <=> ~WasFuzzed(t) /\ t.favored
      /\ t.favored => t.cal_failed = 0
  BY <1>1, <1>2 DEF Unfuzzed, Waiting, FastInv
<1>10. /\ Cardinality(Unfuzzed') = IF ~WasFuzzed(t) THEN Cardinality(Unfuzzed) - 1 ELSE Cardinality(Unfuzzed)
       /\ Cardinality(Waiting') = IF ~WasFuzzed(t) /\ t.favored THEN Cardinality(Waiting) - 1
                                  ELSE Cardinality(Waiting)
  <2>1. \A S : IsFiniteSet(S) => Cardinality(S \ {fast_cur}) =
                  IF fast_cur \in S THEN Cardinality(S) - 1 ELSE Cardinality(S)
    BY FS_RemoveElement
  <2> QED
    BY <1>8, <1>9, <2>1, FastTyped
<1>11. PendingLeaks' /\ PendingFavoredReal' /\ fast_leaked' \in Nat
  <2>1. /\ fast_pending = Cardinality(Unfuzzed) + fast_leaked
        /\ fast_pending_favored = Cardinality(Waiting) /\ fast_leaked \in Nat
        /\ Cardinality(Unfuzzed) \in Nat /\ Cardinality(Waiting) \in Nat
    BY FastTyped DEF FastInv, PendingLeaks, PendingFavoredReal
  <2>2. CASE WasFuzzed(t)
    <3>1. UNCHANGED fastCounters
      BY <1>1, <2>2 DEF FastAbandon, fastCounters
    <3> QED
      BY <1>10, <2>1, <2>2, <3>1 DEF PendingLeaks, PendingFavoredReal, fastCounters
  <2>3. CASE ~WasFuzzed(t) /\ t.cal_failed = 0
    <3>1. /\ fast_pending' = fast_pending - 1 /\ fast_leaked' = fast_leaked
          /\ fast_pending_favored' = IF t.favored THEN fast_pending_favored - 1 ELSE fast_pending_favored
      BY <1>1, <2>3 DEF FastAbandon
    <3> QED
      BY <1>10, <2>1, <2>3, <3>1 DEF PendingLeaks, PendingFavoredReal
  <2>4. CASE ~WasFuzzed(t) /\ t.cal_failed # 0
    <3>1. /\ fast_pending' = fast_pending /\ fast_leaked' = fast_leaked + 1
          /\ fast_pending_favored' = fast_pending_favored
      BY <1>1, <2>4 DEF FastAbandon
    <3>2. ~t.favored
      BY <1>9, <2>4
    <3> QED
      BY <1>10, <2>1, <2>4, <3>1, <3>2 DEF PendingLeaks, PendingFavoredReal
  <2> QED
    BY <2>2, <2>3, <2>4
<1>12. fast_cur' \in 0..Len(fast_queue') /\ fast_top' \in [FastBytes -> Nat] /\ Len(fast_queue') > 0
  BY <1>2, <1>6 DEF FastInv
<1>13. ScoredOnce'
  <2> SUFFICES ASSUME NEW b \in FastBytes, fast_top[b] # NoSeed, ~WasFuzzed(fast_queue'[fast_top[b]])
               PROVE  b \in fast_mini[fast_top[b]]
    BY <1>2 DEF ScoredOnce
  <2>1. fast_top[b] \in DOMAIN fast_queue
    BY DEF FastInv
  <2>2. fast_top[b] # fast_cur /\ ~WasFuzzed(fast_queue[fast_top[b]])
    BY <1>4, <1>5, <2>1 DEF WasFuzzed
  <2> QED
    BY <2>2 DEF FastInv, ScoredOnce, InTurn
<1> QED
  BY <1>2, <1>6, <1>7, <1>11, <1>12, <1>13 DEF FastInv

\* Every step keeps the counters of AFLFast.
LEMMA FastNextKeeps == FastInv /\ [FastNext]_fastVars => FastInv'
<1> SUFFICES ASSUME FastInv, [FastNext]_fastVars PROVE FastInv'
  OBVIOUS
<1>1. CASE FastScore \/ FastDet \/ FastMutated \/ UNCHANGED fastVars
  <2>1. /\ UNCHANGED <<fast_queue, fast_top, fast_mini, fastCounters>> /\ fast_cur' = fast_cur
        /\ fast_pc' \notin {"cull", "select"} <=> fast_pc \notin {"cull", "select"}
        /\ fast_pc' = "trim" => fast_pc = "trim"
    BY <1>1 DEF FastScore, FastDet, FastMutated, fastVars, fastLoop, fastCounters, fastRank
  <2> QED
    BY <2>1, FastLoopKeeps DEF FastInv
<1>2. ASSUME NEW path \in FastPaths, NEW new \in BOOLEAN, NEW failed \in {0, 1},
             FastExecute(path, new, failed)
      PROVE  FastInv'
  BY <1>2, ExecuteKeeps
<1> QED
  BY <1>1, <1>2, CullKeeps, SelectKeeps, CalibrateKeeps, TrimKeeps, AbandonKeeps DEF FastNext

-----------------------------------------------------------------------------
(* The three together.                                                     *)

\* What each of AFLFast, IJON and DIE keeps of its own holds in every state, for any
\* map, number of seeds, slots and scripts, and any bound.
THEOREM VariantsInvariant == VariantsSpec => [](FastInv /\ IjonInv /\ DieInv)
<1>1. FastInit /\ IjonInit /\ die_queue = ReadScripts /\ DieBlank => FastInv /\ IjonInv /\ DieInv
  BY FastInitHolds, IjonInitHolds, DieInitHolds
<1>2. FastInv /\ [FastNext]_fastVars => FastInv'
  BY FastNextKeeps
<1>3. IjonInv /\ [IjonNext]_ijonVars => IjonInv'
  BY IjonNextKeeps
<1>4. DieInv /\ [DieNext]_dieVars => DieInv'
  BY DieNextKeeps
<1> QED
  BY <1>1, <1>2, <1>3, <1>4, PTL DEF VariantsSpec, FastSpec, IjonSpec, DieSpec

\* AFLFast's counters miss no seed that waits, the inputs IJON keeps reach the maxima, and
\* DIE keeps a script with its own types.
THEOREM VariantsRight == VariantsSpec => []AflVariantsRight
<1>1. FastInv /\ IjonInv /\ DieInv => AflVariantsRight
  BY DEF FastInv, IjonInv, DieInv, AflVariantsRight
<1> QED
  BY <1>1, VariantsInvariant, PTL
=============================================================================
