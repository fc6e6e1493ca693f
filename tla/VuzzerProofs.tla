---------------------------- MODULE VuzzerProofs ----------------------------
(***************************************************************************)
(* Proofs about VUzzer: VuzzerSound and TrimKeepsCoverage, for any number  *)
(* of blocks, seeds and generations and any lengths of inputs.             *)
(***************************************************************************)
EXTENDS VuzzerWhole, FiniteSetTheorems, SequenceTheorems, WellFoundedInduction, TLAPS

-----------------------------------------------------------------------------
(* Numbers, sequences and bit vectors.                                     *)

\* A set of numbers that is not empty has a least one.
LEMMA LowestIsLeast ==
    ASSUME NEW S, S \subseteq Nat, S # {}
    PROVE  Lowest(S) \in S /\ \A j \in S : Lowest(S) <= j
<1>1. PICK R : R = {ss \in Nat \X Nat : ss[1] < ss[2]}
  OBVIOUS
<1>2. IsWellFoundedOn(R, Nat)
  BY <1>1, NatLessThanWellFounded, Zenon DEF OpToRel
<1>3. PICK x \in S : \A y \in S : ~(<<y, x>> \in R)
  BY <1>2, WFMin, Zenon
<1>4. ASSUME NEW y \in S PROVE x <= y
  <2>1. x \in Nat /\ y \in Nat
    OBVIOUS
  <2>2. y < x => <<y, x>> \in R
    BY <1>1, <2>1
  <2> QED
    BY <1>3, <2>1, <2>2
<1> QED
  BY <1>4 DEF Lowest

\* SetToSeq lists every element of a finite set.
LEMMA SetToSeqLists ==
    ASSUME NEW S, IsFiniteSet(S)
    PROVE  SetToSeq(S) \in Seq(S) /\ \A x \in S : \E i \in DOMAIN SetToSeq(S) : SetToSeq(S)[i] = x
<1>1. PICK n : n = Cardinality(S)
  OBVIOUS
<1>2. n \in Nat
  BY <1>1, FS_CardinalityType
<1>3. \E f \in [1..n -> S] : IsInjective(f)
  <2>1. PICK m \in Nat : ExistsBijection(1..m, S)
    BY FS_NatBijection
  <2>2. m = n
    BY <1>1, <2>1, FS_CountingElements
  <2> QED
    BY <2>1, <2>2 DEF ExistsBijection, Bijection, Injection
<1>4. PICK s : s = SetToSeq(S)
  OBVIOUS
<1>5. s \in [1..n -> S] /\ IsInjective(s)
  BY <1>1, <1>3, <1>4 DEF SetToSeq
<1>6. s \in Surjection(1..n, S)
  <2>1. s \in Injection(1..n, S)
    BY <1>5 DEF Injection
  <2>2. Cardinality(1..n) = n
    BY <1>2, FS_Interval
  <2> QED
    BY <1>1, <2>1, <2>2, FS_Injection
<1>7. s \in Seq(S)
  BY <1>2, <1>5, SeqDef
<1> QED
  BY <1>4, <1>5, <1>6, <1>7 DEF Surjection

\* The key table only grows at its end, and holds every block of the run.
LEMMA AddKeysAppends ==
    ASSUME NEW keys \in Seq(Blocks), NEW cov \in SUBSET Blocks
    PROVE  LET all == AddKeys(keys, cov)
           IN  /\ all \in Seq(Blocks) /\ Len(keys) <= Len(all)
               /\ \A i \in DOMAIN keys : all[i] = keys[i]
               /\ \A b \in cov : \E i \in DOMAIN all : all[i] = b
<1>1. PICK new : new = cov \ {keys[i] : i \in DOMAIN keys}
  OBVIOUS
<1>2. IsFiniteSet(new) /\ new \subseteq Blocks
  BY <1>1, VuzzerAssumption, FS_Subset
<1>3. PICK t : t = SetToSeq(new)
  OBVIOUS
<1>4. t \in Seq(Blocks) /\ \A x \in new : \E i \in DOMAIN t : t[i] = x
  <2>1. t \in Seq(new) /\ \A x \in new : \E i \in DOMAIN t : t[i] = x
    BY <1>2, <1>3, SetToSeqLists
  <2> QED
    BY <1>2, <2>1, SeqMonotonic
<1>5. PICK all : all = keys \o t
  OBVIOUS
<1>6. AddKeys(keys, cov) = all
  BY <1>1, <1>3, <1>5 DEF AddKeys
<1>7. /\ all \in Seq(Blocks) /\ Len(all) = Len(keys) + Len(t) /\ DOMAIN all = 1..(Len(keys) + Len(t))
      /\ \A i \in DOMAIN keys : i \in DOMAIN all /\ all[i] = keys[i]
      /\ \A i \in DOMAIN t : Len(keys) + i \in DOMAIN all /\ all[Len(keys) + i] = t[i]
  BY <1>4, <1>5
<1>8. Len(keys) \in Nat /\ Len(t) \in Nat
  BY <1>4
<1>9. ASSUME NEW b \in cov PROVE \E i \in DOMAIN all : all[i] = b
  <2>1. CASE b \in new
    BY <1>4, <1>7, <2>1
  <2>2. CASE b \notin new
    BY <1>1, <1>7, <2>2
  <2> QED
    BY <2>1, <2>2
<1> QED
  BY <1>6, <1>7, <1>8, <1>9

\* The blocks a bit vector stands for under a key table.
KeyBlocks(keys, bits) == {keys[i] : i \in {j \in DOMAIN bits : bits[j]}}

\* A vector that is filled with zeros stands for the same blocks, also under a table that
\* has grown.
LEMMA ResizeKeepsBlocks ==
    ASSUME NEW keys, NEW all, NEW bits \in Seq(BOOLEAN), NEW n \in Nat, Len(bits) <= n,
           \A i \in DOMAIN bits : all[i] = keys[i]
    PROVE  /\ Resize(bits, n) \in Seq(BOOLEAN) /\ Len(Resize(bits, n)) = n
           /\ KeyBlocks(all, Resize(bits, n)) = KeyBlocks(keys, bits)
           /\ KeyBlocks(all, bits) = KeyBlocks(keys, bits)
<1>1. PICK r : r = Resize(bits, n)
  OBVIOUS
<1>2. r \in [1..n -> BOOLEAN]
  BY <1>1 DEF Resize
<1>3. r \in Seq(BOOLEAN) /\ Len(r) = n /\ DOMAIN r = 1..n
  BY <1>2
<1>4. DOMAIN bits = 1..Len(bits) /\ Len(bits) \in Nat
  OBVIOUS
<1>5. \A i \in DOMAIN r : r[i] <=> i \in DOMAIN bits /\ bits[i]
  BY <1>1, <1>3, <1>4 DEF Resize
<1>6. \A i \in DOMAIN bits : i \in DOMAIN r
  BY <1>3, <1>4
<1>7. {j \in DOMAIN r : r[j]} = {j \in DOMAIN bits : bits[j]}
  BY <1>5, <1>6
<1>8. KeyBlocks(all, r) = KeyBlocks(keys, bits) /\ KeyBlocks(all, bits) = KeyBlocks(keys, bits)
  BY <1>7 DEF KeyBlocks
<1> QED
  BY <1>1, <1>3, <1>8

\* The vector of a run stands for the blocks of the run.
LEMMA BitsOfRun ==
    ASSUME NEW keys \in Seq(Blocks), NEW cov, \A b \in cov : \E i \in DOMAIN keys : keys[i] = b
    PROVE  /\ DictToBitsWithKeys(keys, cov) \in Seq(BOOLEAN)
           /\ Len(DictToBitsWithKeys(keys, cov)) = Len(keys)
           /\ \A i \in DOMAIN keys : DictToBitsWithKeys(keys, cov)[i] <=> keys[i] \in cov
           /\ KeyBlocks(keys, DictToBitsWithKeys(keys, cov)) = cov
<1>1. PICK n \in Nat : DOMAIN keys = 1..n /\ Len(keys) = n
  OBVIOUS
<1>2. PICK bits : bits = DictToBitsWithKeys(keys, cov)
  OBVIOUS
<1>3. bits \in [1..n -> BOOLEAN] /\ \A i \in 1..n : bits[i] <=> keys[i] \in cov
  <2>1. bits = [i \in 1..n |-> keys[i] \in cov]
    BY <1>1, <1>2, Zenon DEF DictToBitsWithKeys
  <2>2. \A i \in 1..n : bits[i] <=> keys[i] \in cov
    BY <2>1, Zenon
  <2>3. bits \in [1..n -> BOOLEAN]
    BY <2>1
  <2> QED
    BY <2>2, <2>3
<1>4. bits \in Seq(BOOLEAN) /\ Len(bits) = n /\ DOMAIN bits = 1..n
  BY <1>3
<1>5. KeyBlocks(keys, bits) = cov
  <2>1. \A i \in {j \in DOMAIN bits : bits[j]} : keys[i] \in cov
    BY <1>3, <1>4
  <2>2. \A b \in cov : \E i \in {j \in DOMAIN bits : bits[j]} : keys[i] = b
    BY <1>1, <1>3, <1>4
  <2> QED
    BY <2>1, <2>2, Zenon DEF KeyBlocks
<1> QED
  BY <1>1, <1>2, <1>3, <1>4, <1>5

\* The greater of two numbers when the second is.
LEMMA LargerSecond == \A a, b \in Nat : a <= b => Larger(a, b) = b
  BY DEF Larger

\* The comparison of two vectors, although one may be shorter, is that of their blocks.
LEMMA SubsetOfRun ==
    ASSUME NEW keys \in Seq(Blocks), NEW cov, NEW a \in Seq(BOOLEAN), Len(a) <= Len(keys),
           NEW bits \in Seq(BOOLEAN), Len(bits) = Len(keys),
           \A i \in DOMAIN keys : bits[i] <=> keys[i] \in cov
    PROVE  IsSubsetOf(a, bits) <=> KeyBlocks(keys, a) \subseteq cov
<1>1. PICK n \in Nat : DOMAIN keys = 1..n /\ Len(keys) = n
  OBVIOUS
<1>2. DOMAIN a = 1..Len(a) /\ Len(a) \in Nat /\ Len(a) <= n /\ DOMAIN bits = 1..n
  BY <1>1
<1>3. Larger(Len(a), Len(bits)) = n
  <2>1. Len(bits) = n
    BY <1>1
  <2> QED
    BY <1>2, <2>1, LargerSecond
<1>4. ASSUME NEW i \in 1..n
      PROVE  Resize(a, n)[i] <=> i \in DOMAIN a /\ a[i]
  <2>1. i <= Len(a) <=> i \in DOMAIN a
    BY <1>2
  <2>2. Resize(a, n)[i] = (i <= Len(a) /\ a[i])
    BY DEF Resize
  <2> QED
    BY <2>1, <2>2, Zenon
<1>5. ASSUME NEW i \in 1..n
      PROVE  Resize(bits, n)[i] <=> keys[i] \in cov
  <2>1. i <= Len(bits) /\ (bits[i] <=> keys[i] \in cov)
    BY <1>1, <1>2
  <2>2. Resize(bits, n)[i] = (i <= Len(bits) /\ bits[i])
    BY DEF Resize
  <2> QED
    BY <2>1, <2>2, Zenon
<1>6. IsSubsetOf(a, bits) <=> \A i \in 1..n : Resize(a, n)[i] => Resize(bits, n)[i]
  BY <1>3 DEF IsSubsetOf
<1>7. IsSubsetOf(a, bits) <=> \A i \in 1..n : (i \in DOMAIN a /\ a[i]) => keys[i] \in cov
  BY <1>4, <1>5, <1>6
<1>8. \A i \in DOMAIN a : i \in 1..n
  BY <1>2
<1> QED
  BY <1>7, <1>8 DEF KeyBlocks

-----------------------------------------------------------------------------
(* The evolutionary loop.                                                  *)

\* The order of the ids: what waits was made after everything that has run.
IdsInOrder ==
    /\ queued_paths \in Nat
    /\ pending_queue \subseteq 1..queued_paths /\ seed_queue \subseteq 1..queued_paths
    /\ taint_queue \subseteq 1..queued_paths
    /\ \A s \in seed_queue \cup taint_queue, p \in pending_queue : s < p

\* A seed that is referred to has its trace, a record is no longer than the table.
RecordsTyped ==
    /\ seed_queue \subseteq DOMAIN trace /\ taint_queue \subseteq DOMAIN trace
    /\ \A s \in DOMAIN trace : trace[s] \subseteq Blocks
    /\ bb_keys \in Seq(Blocks)
    /\ \A s \in DOMAIN bb_covs : bb_covs[s] \in Seq(BOOLEAN) /\ Len(bb_covs[s]) <= Len(bb_keys)

\* Nothing was run before the first pass of the loop.
VInv ==
    /\ IdsInOrder /\ RecordsTyped
    /\ vpc \in {"start", "dry", "fill"} => seed_queue = {} /\ taint_queue = {} /\ seen_bbs = {}
    /\ vpc = "start" => pending_queue = {}
    /\ BitsFaithful /\ RecordsTrimmed /\ SeenHasTaintSeed

LoopDefs == <<queued_paths, pending_queue, seed_queue, taint_queue, trace, seen_bbs, bb_keys, bb_covs>>

\* A step that leaves the queues, the traces and the records alone.
LEMMA RecordsUnchanged ==
    ASSUME VInv, UNCHANGED LoopDefs, vpc' = "start" => vpc = "start",
           vpc' \in {"start", "dry", "fill"} => vpc \in {"start", "dry", "fill"}
    PROVE  VInv'
  BY DEF VInv, LoopDefs, IdsInOrder, RecordsTyped, BitsFaithful, RecordsTrimmed, SeenHasTaintSeed, BlocksOf

\* The ids that AddToQueue hands out come after all others.
LEMMA NewIdsLast ==
    ASSUME VInv, NEW n \in Nat, queued_paths' = queued_paths + n,
           pending_queue' = pending_queue \cup AddToQueue(n),
           UNCHANGED <<seed_queue, taint_queue, trace, seen_bbs, bb_keys, bb_covs>>, vpc' # "start",
           vpc' \in {"start", "dry", "fill"} => vpc \in {"start", "dry", "fill"}
    PROVE  VInv'
<1>1. IdsInOrder'
  <2>1. queued_paths' \in Nat /\ queued_paths <= queued_paths'
    BY DEF VInv, IdsInOrder
  <2>2. \A i \in AddToQueue(n) : i \in 1..queued_paths' /\ queued_paths < i
    BY DEF VInv, IdsInOrder, AddToQueue
  <2>3. \A i \in 1..queued_paths : i \in 1..queued_paths'
    BY <2>1 DEF VInv, IdsInOrder
  <2>4. \A s \in 1..queued_paths, p \in AddToQueue(n) : s < p
    BY <2>1, <2>2 DEF VInv, IdsInOrder
  <2>5. pending_queue' \subseteq 1..queued_paths' /\ seed_queue' \subseteq 1..queued_paths'
          /\ taint_queue' \subseteq 1..queued_paths'
    BY <2>2, <2>3 DEF VInv, IdsInOrder
  <2>6. \A s \in seed_queue' \cup taint_queue', p \in pending_queue' : s < p
    BY <2>4 DEF VInv, IdsInOrder
  <2> QED
    BY <2>1, <2>5, <2>6 DEF IdsInOrder
<1>2. RecordsTyped' /\ BitsFaithful' /\ RecordsTrimmed' /\ SeenHasTaintSeed'
  BY DEF VInv, RecordsTyped, BitsFaithful, RecordsTrimmed, SeenHasTaintSeed, BlocksOf
<1> QED
  BY <1>1, <1>2 DEF VInv

\* Nothing is recorded at the start.
LEMMA VInitHolds == VInit => VInv
<1> SUFFICES ASSUME VInit PROVE VInv
  OBVIOUS
<1>1. /\ trace = Empty /\ bb_covs = Empty /\ DOMAIN Empty = {}
      /\ seed_queue = {} /\ taint_queue = {} /\ pending_queue = {} /\ seen_bbs = {}
      /\ queued_paths = 0 /\ bb_keys = <<>>
  BY DEF VInit, Empty
<1>2. bb_keys \in Seq(Blocks)
  BY <1>1
<1> QED
  BY <1>1, <1>2 DEF VInv, IdsInOrder, RecordsTyped, BitsFaithful, RecordsTrimmed, SeenHasTaintSeed

\* The initial seeds are run; nothing was recorded of them yet.
LEMMA DryRunKeeps == VInv /\ PerformDryRun => VInv'
<1> SUFFICES ASSUME VInv, PerformDryRun PROVE VInv'
  OBVIOUS
<1>1. /\ UNCHANGED <<queued_paths, pending_queue, seed_queue, taint_queue, seen_bbs, bb_keys, bb_covs>>
      /\ trace' \in [pending_queue -> SUBSET Blocks]
      /\ seed_queue = {} /\ taint_queue = {} /\ seen_bbs = {} /\ vpc' = "fill"
  BY DEF PerformDryRun, VInv
<1>2. DOMAIN bb_covs = {}
  BY <1>1 DEF VInv, RecordsTrimmed
<1>3. IdsInOrder'
  BY <1>1 DEF VInv, IdsInOrder
<1>4. RecordsTyped'
  BY <1>1, <1>2 DEF VInv, RecordsTyped
<1> QED
  BY <1>1, <1>2, <1>3, <1>4 DEF VInv, BitsFaithful, RecordsTrimmed, SeenHasTaintSeed

\* A seed that leaves seed_queue leaves with its record; the traces of those that stay
\* queued anywhere are kept.
LEMMA UpdateQueueKeeps == VInv /\ UpdateQueue => VInv'
<1> SUFFICES ASSUME VInv, UpdateQueue PROVE VInv'
  OBVIOUS
<1>1. PICK S \in SUBSET seed_queue :
        /\ seed_queue' = S
        /\ bb_covs' = Drop(bb_covs, seed_queue \ S)
        /\ trace' = Drop(trace, DOMAIN trace \ (S \cup taint_queue \cup keep_queue \cup pending_queue))
  BY DEF UpdateQueue, Elites
<1>2. UNCHANGED <<queued_paths, pending_queue, taint_queue, seen_bbs, bb_keys>> /\ vpc' = "keep"
  BY DEF UpdateQueue
<1>3. /\ DOMAIN bb_covs' = DOMAIN bb_covs \ (seed_queue \ S)
      /\ \A s \in DOMAIN bb_covs' : bb_covs'[s] = bb_covs[s]
  BY <1>1 DEF Drop
<1>4. /\ DOMAIN trace' \subseteq DOMAIN trace
      /\ \A s \in DOMAIN trace : s \in S \cup taint_queue => s \in DOMAIN trace'
      /\ \A s \in DOMAIN trace' : trace'[s] = trace[s]
  BY <1>1 DEF Drop
<1>5. \A s \in DOMAIN bb_covs' : s \in S /\ s \in DOMAIN bb_covs /\ s \in DOMAIN trace'
  BY <1>3, <1>4 DEF VInv, RecordsTrimmed, RecordsTyped
<1>6. IdsInOrder'
  BY <1>1, <1>2 DEF VInv, IdsInOrder
<1>7. RecordsTyped'
  BY <1>1, <1>2, <1>3, <1>4, <1>5 DEF VInv, RecordsTyped
<1>8. BitsFaithful'
  BY <1>2, <1>3, <1>4, <1>5 DEF VInv, BitsFaithful, BlocksOf
<1>9. RecordsTrimmed'
  <2>1. \A s, t \in DOMAIN bb_covs' : trace'[s] = trace[s] /\ trace'[t] = trace[t]
    BY <1>4, <1>5
  <2>2. \A s, t \in DOMAIN bb_covs' : s < t => ~(trace[s] \subseteq trace[t])
    BY <1>5 DEF VInv, RecordsTrimmed
  <2>3. \A s, t \in DOMAIN bb_covs' : s < t => ~(trace'[s] \subseteq trace'[t])
    BY <2>1, <2>2
  <2>4. DOMAIN bb_covs' \subseteq seed_queue'
    BY <1>1, <1>5
  <2> QED
    BY <2>3, <2>4 DEF RecordsTrimmed
<1>10. SeenHasTaintSeed'
  BY <1>2, <1>4 DEF VInv, SeenHasTaintSeed, RecordsTyped
<1> QED
  BY <1>2, <1>6, <1>7, <1>8, <1>9, <1>10 DEF VInv

\* TrimQueue drops exactly the records that the new seed covers, and what it keeps stands
\* for the same blocks under the longer table.
LEMMA TrimExact ==
    ASSUME VInv, NEW s, NEW cov \in SUBSET Blocks, s \notin seed_queue, TrimQueue(s, cov)
    PROVE  /\ bb_keys' \in Seq(Blocks)
           /\ s \in seed_queue' /\ seed_queue' \subseteq seed_queue \cup {s}
           /\ s \in DOMAIN bb_covs' /\ DOMAIN bb_covs' \subseteq seed_queue'
           /\ bb_covs'[s] \in Seq(BOOLEAN) /\ Len(bb_covs'[s]) <= Len(bb_keys')
           /\ KeyBlocks(bb_keys', bb_covs'[s]) = cov
           /\ \A r \in DOMAIN bb_covs : r \in DOMAIN bb_covs' \/ trace[r] \subseteq cov
           /\ \A r \in DOMAIN bb_covs' : r # s =>
                 /\ r \in DOMAIN bb_covs /\ ~(trace[r] \subseteq cov)
                 /\ bb_covs'[r] \in Seq(BOOLEAN) /\ Len(bb_covs'[r]) <= Len(bb_keys')
                 /\ KeyBlocks(bb_keys', bb_covs'[r]) = trace[r]
<1>1. PICK keys, bits : keys = AddKeys(bb_keys, cov) /\ bits = DictToBitsWithKeys(keys, cov)
  OBVIOUS
<1>2. /\ keys \in Seq(Blocks) /\ Len(bb_keys) <= Len(keys)
      /\ \A i \in DOMAIN bb_keys : keys[i] = bb_keys[i]
      /\ \A b \in cov : \E i \in DOMAIN keys : keys[i] = b
  BY <1>1, AddKeysAppends DEF VInv, RecordsTyped
<1>3. /\ bits \in Seq(BOOLEAN) /\ Len(bits) = Len(keys)
      /\ \A i \in DOMAIN keys : bits[i] <=> keys[i] \in cov
      /\ KeyBlocks(keys, bits) = cov
  BY <1>1, <1>2, BitsOfRun
<1>4. Len(keys) \in Nat /\ Len(bb_keys) \in Nat /\ DOMAIN bb_keys = 1..Len(bb_keys)
  BY <1>2 DEF VInv, RecordsTyped
<1>5. ASSUME NEW r \in DOMAIN bb_covs
      PROVE  /\ r \in seed_queue /\ r # s
             /\ bb_covs[r] \in Seq(BOOLEAN) /\ Len(bb_covs[r]) <= Len(keys)
             /\ KeyBlocks(keys, bb_covs[r]) = trace[r]
             /\ Resize(bb_covs[r], Len(keys)) \in Seq(BOOLEAN)
             /\ Len(Resize(bb_covs[r], Len(keys))) = Len(keys)
             /\ KeyBlocks(keys, Resize(bb_covs[r], Len(keys))) = trace[r]
             /\ IsSubsetOf(bb_covs[r], bits) <=> trace[r] \subseteq cov
  <2>1. r \in seed_queue /\ r # s
    BY DEF VInv, RecordsTrimmed
  <2>2. PICK a \in Seq(BOOLEAN) : a = bb_covs[r] /\ Len(a) <= Len(bb_keys)
    BY DEF VInv, RecordsTyped
  <2>3. KeyBlocks(bb_keys, a) = trace[r]
    BY <2>2 DEF VInv, BitsFaithful, BlocksOf, KeyBlocks
  <2>4. Len(a) \in Nat /\ Len(a) <= Len(keys) /\ DOMAIN a = 1..Len(a)
    BY <1>2, <1>4, <2>2
  <2>5. \A i \in DOMAIN a : keys[i] = bb_keys[i]
    BY <1>2, <1>4, <2>2, <2>4
  <2>6. /\ Resize(a, Len(keys)) \in Seq(BOOLEAN) /\ Len(Resize(a, Len(keys))) = Len(keys)
        /\ KeyBlocks(keys, Resize(a, Len(keys))) = trace[r]
        /\ KeyBlocks(keys, a) = trace[r]
    <3>1. PICK n \in Nat : n = Len(keys)
      BY <1>4
    <3>2. Len(a) <= n
      BY <2>4, <3>1
    <3>3. /\ Resize(a, n) \in Seq(BOOLEAN) /\ Len(Resize(a, n)) = n
          /\ KeyBlocks(keys, Resize(a, n)) = KeyBlocks(bb_keys, a)
          /\ KeyBlocks(keys, a) = KeyBlocks(bb_keys, a)
      BY <2>5, <3>2, ResizeKeepsBlocks, Zenon
    <3> QED
      BY <2>3, <3>1, <3>3
  <2>7. IsSubsetOf(a, bits) <=> trace[r] \subseteq cov
    <3>1. IsSubsetOf(a, bits) <=> KeyBlocks(keys, a) \subseteq cov
      BY <1>2, <1>3, <2>4, SubsetOfRun, Zenon
    <3> QED
      BY <2>6, <3>1
  <2> QED
    BY <2>1, <2>2, <2>4, <2>6, <2>7
<1>6. PICK gone : gone = Trimmed(bits)
  OBVIOUS
<1>7. \A r \in DOMAIN bb_covs : r \in gone <=> trace[r] \subseteq cov
  BY <1>5, <1>6 DEF Trimmed
<1>8. /\ bb_keys' = keys /\ seed_queue' = (seed_queue \ gone) \cup {s}
      /\ bb_covs' = [i \in (DOMAIN bb_covs \ gone) \cup {s} |->
                        IF i = s THEN bits
                        ELSE IF i \in seed_queue THEN Resize(bb_covs[i], Len(keys)) ELSE bb_covs[i]]
  BY <1>1, <1>6 DEF TrimQueue
<1>9. DOMAIN bb_covs' = (DOMAIN bb_covs \ gone) \cup {s} /\ bb_covs'[s] = bits
  BY <1>8
<1>10. ASSUME NEW r \in DOMAIN bb_covs', r # s
       PROVE  /\ r \in DOMAIN bb_covs /\ r \notin gone
              /\ bb_covs'[r] = Resize(bb_covs[r], Len(keys))
  BY <1>5, <1>8, <1>9, <1>10
<1>11. DOMAIN bb_covs' \subseteq seed_queue'
  BY <1>5, <1>8, <1>9
<1>12. \A r \in DOMAIN bb_covs' : r # s =>
          /\ r \in DOMAIN bb_covs /\ ~(trace[r] \subseteq cov)
          /\ bb_covs'[r] \in Seq(BOOLEAN) /\ Len(bb_covs'[r]) <= Len(bb_keys')
          /\ KeyBlocks(bb_keys', bb_covs'[r]) = trace[r]
  BY <1>4, <1>5, <1>7, <1>8, <1>10
<1>13. \A r \in DOMAIN bb_covs : r \in DOMAIN bb_covs' \/ trace[r] \subseteq cov
  BY <1>7, <1>9
<1>14. Len(bb_covs'[s]) <= Len(bb_keys')
  BY <1>3, <1>4, <1>8, <1>9
<1> QED
  BY <1>2, <1>3, <1>8, <1>9, <1>11, <1>12, <1>13, <1>14

\* What a run of the seed s that covers cov does, with TrimQueue or without.
Ran(s, cov) ==
    /\ s = Lowest(pending_queue) /\ cov \subseteq Blocks
    /\ trace' = Put(trace, s, cov) /\ pending_queue' = pending_queue \ {s}
    /\ \E diff \in SUBSET cov :
          /\ seen_bbs' = seen_bbs \cup diff
          /\ \/ diff # {} /\ taint_queue' = taint_queue \cup {s} /\ TrimQueue(s, cov)
             \/ /\ diff = {} /\ seed_queue' = seed_queue \cup {s}
                /\ UNCHANGED <<taint_queue, bb_keys, bb_covs>>

\* Every execution of the loop is of that kind.
LEMMA ExecuteRan ==
    ASSUME VInv, ExecutePUT
    PROVE  \E s, cov : Ran(s, cov)
<1>1. PICK s : s = Lowest(pending_queue)
  OBVIOUS
<1>2. PICK cov \in IF s \in DOMAIN trace THEN {trace[s]} ELSE SUBSET Blocks :
        LET diff == (cov \ EhbAll) \ seen_bbs
        IN  /\ trace' = Put(trace, s, cov)
            /\ seen_bbs' = seen_bbs \cup diff
            /\ pending_queue' = pending_queue \ {s}
            /\ IF diff /= {}
               THEN /\ taint_queue' = taint_queue \cup {s}
                    /\ TrimQueue(s, cov)
               ELSE /\ seed_queue' = seed_queue \cup {s}
                    /\ UNCHANGED <<taint_queue, bb_keys, bb_covs>>
  BY <1>1 DEF ExecutePUT
<1>3. cov \subseteq Blocks
  BY <1>2 DEF VInv, RecordsTyped
<1>4. PICK diff : diff = (cov \ EhbAll) \ seen_bbs
  OBVIOUS
<1>5. diff \in SUBSET cov
  BY <1>4
<1>6. Ran(s, cov)
  BY <1>1, <1>2, <1>3, <1>4, <1>5 DEF Ran
<1> QED
  BY <1>6

\* The seed that runs is younger than all that have run, and older than all that wait.
LEMMA RunsInOrder ==
    ASSUME VInv, pending_queue # {}
    PROVE  LET s == Lowest(pending_queue)
           IN  /\ s \in 1..queued_paths /\ s \notin seed_queue /\ s \notin taint_queue
               /\ \A r \in seed_queue \cup taint_queue : r < s
               /\ \A p \in pending_queue \ {s} : s < p
<1>1. PICK s : s = Lowest(pending_queue)
  OBVIOUS
<1>2. pending_queue \subseteq Nat
  BY DEF VInv, IdsInOrder
<1>3. s \in pending_queue /\ \A p \in pending_queue : s <= p
  BY <1>1, <1>2, LowestIsLeast
<1>4. \A p \in pending_queue \ {s} : s < p
  BY <1>2, <1>3
<1>5. s \in 1..queued_paths /\ s \in Nat /\ \A r \in seed_queue \cup taint_queue : r < s
  BY <1>3 DEF VInv, IdsInOrder
<1>6. s \notin seed_queue /\ s \notin taint_queue
  BY <1>5
<1> QED
  BY <1>1, <1>4, <1>5, <1>6

\* A run keeps the records faithful and trimmed.
LEMMA ExecuteKeeps ==
    ASSUME VInv, ExecutePUT
    PROVE  VInv'
<1>1. PICK s, cov : Ran(s, cov)
  BY ExecuteRan
<1>2. /\ UNCHANGED <<vpc, queued_paths>> /\ pending_queue # {} /\ vpc = "execute"
  BY DEF ExecutePUT
<1>3. /\ s \in 1..queued_paths /\ s \notin seed_queue /\ s \notin taint_queue
      /\ \A r \in seed_queue \cup taint_queue : r < s
      /\ \A p \in pending_queue \ {s} : s < p
  BY <1>1, <1>2, RunsInOrder DEF Ran
<1>4. /\ cov \subseteq Blocks /\ DOMAIN trace' = DOMAIN trace \cup {s} /\ trace'[s] = cov
      /\ \A r \in DOMAIN trace : r # s => trace'[r] = trace[r]
      /\ pending_queue' = pending_queue \ {s}
  BY <1>1 DEF Ran, Put
<1>5. PICK diff \in SUBSET cov :
        /\ seen_bbs' = seen_bbs \cup diff
        /\ \/ diff # {} /\ taint_queue' = taint_queue \cup {s} /\ TrimQueue(s, cov)
           \/ /\ diff = {} /\ seed_queue' = seed_queue \cup {s}
              /\ UNCHANGED <<taint_queue, bb_keys, bb_covs>>
  BY <1>1 DEF Ran
<1>6. /\ taint_queue' \subseteq taint_queue \cup {s} /\ seed_queue' \subseteq seed_queue \cup {s}
  BY <1>3, <1>4, <1>5, TrimExact
<1>7. IdsInOrder'
  <2>1. pending_queue' \subseteq 1..queued_paths' /\ queued_paths' \in Nat
        /\ seed_queue' \subseteq 1..queued_paths' /\ taint_queue' \subseteq 1..queued_paths'
    BY <1>2, <1>3, <1>4, <1>6 DEF VInv, IdsInOrder
  <2>2. \A r \in seed_queue' \cup taint_queue', p \in pending_queue' : r < p
    BY <1>3, <1>4, <1>6 DEF VInv, IdsInOrder
  <2> QED
    BY <2>1, <2>2 DEF IdsInOrder
<1>8. \A r \in seed_queue \cup taint_queue : r \in DOMAIN trace /\ r # s /\ trace'[r] = trace[r]
  BY <1>3, <1>4 DEF VInv, RecordsTyped
<1>9. /\ seed_queue' \subseteq DOMAIN trace' /\ taint_queue' \subseteq DOMAIN trace'
      /\ \A r \in DOMAIN trace' : trace'[r] \subseteq Blocks
  BY <1>4, <1>6, <1>8 DEF VInv, RecordsTyped
<1>10. SeenHasTaintSeed'
  <2>1. ASSUME NEW b \in seen_bbs' PROVE \E r \in taint_queue' : b \in trace'[r]
    <3>1. CASE b \in seen_bbs
      <4>1. PICK r \in taint_queue : b \in trace[r]
        BY <3>1 DEF VInv, SeenHasTaintSeed
      <4> QED
        BY <1>5, <1>8, <4>1
    <3>2. CASE b \in diff
      BY <1>4, <1>5, <3>2
    <3> QED
      BY <1>5, <3>1, <3>2
  <2> QED
    BY <2>1 DEF SeenHasTaintSeed
<1>11. /\ bb_keys' \in Seq(Blocks)
       /\ \A r \in DOMAIN bb_covs' : bb_covs'[r] \in Seq(BOOLEAN) /\ Len(bb_covs'[r]) <= Len(bb_keys')
       /\ \A r \in DOMAIN bb_covs' : KeyBlocks(bb_keys', bb_covs'[r]) = trace'[r]
       /\ RecordsTrimmed'
  <2>1. DOMAIN bb_covs \subseteq seed_queue
    BY DEF VInv, RecordsTrimmed
  <2>2. CASE seed_queue' = seed_queue \cup {s} /\ UNCHANGED <<bb_keys, bb_covs>>
    <3>1. \A r \in DOMAIN bb_covs : trace'[r] = trace[r] /\ KeyBlocks(bb_keys, bb_covs[r]) = trace[r]
      BY <1>8, <2>1 DEF VInv, BitsFaithful, BlocksOf, KeyBlocks
    <3>2. RecordsTrimmed'
      BY <2>1, <2>2, <3>1 DEF VInv, RecordsTrimmed
    <3> QED
      BY <2>2, <3>1, <3>2 DEF VInv, RecordsTyped
  <2>3. CASE TrimQueue(s, cov)
    <3>1. /\ bb_keys' \in Seq(Blocks)
          /\ s \in DOMAIN bb_covs' /\ DOMAIN bb_covs' \subseteq seed_queue'
          /\ bb_covs'[s] \in Seq(BOOLEAN) /\ Len(bb_covs'[s]) <= Len(bb_keys')
          /\ KeyBlocks(bb_keys', bb_covs'[s]) = cov
          /\ \A r \in DOMAIN bb_covs' : r # s =>
                /\ r \in DOMAIN bb_covs /\ ~(trace[r] \subseteq cov)
                /\ bb_covs'[r] \in Seq(BOOLEAN) /\ Len(bb_covs'[r]) <= Len(bb_keys')
                /\ KeyBlocks(bb_keys', bb_covs'[r]) = trace[r]
      BY <1>3, <1>4, <2>3, TrimExact
    <3>2. \A r \in DOMAIN bb_covs' : r # s => r < s /\ r \in Nat /\ trace'[r] = trace[r]
      <4>1. seed_queue \subseteq Nat
        BY DEF VInv, IdsInOrder
      <4> QED
        BY <1>3, <1>8, <2>1, <3>1, <4>1
    <3>3. ASSUME NEW q \in DOMAIN bb_covs', NEW r \in DOMAIN bb_covs', q < r
          PROVE  ~(trace'[q] \subseteq trace'[r])
      <4>1. q # s
        BY <1>3, <3>2, <3>3
      <4>2. CASE r = s
        BY <1>4, <3>1, <3>2, <4>1, <4>2
      <4>3. CASE r # s
        BY <3>1, <3>2, <3>3, <4>1, <4>3 DEF VInv, RecordsTrimmed
      <4> QED
        BY <4>2, <4>3
    <3>4. RecordsTrimmed'
      BY <3>1, <3>3 DEF RecordsTrimmed
    <3>5. \A r \in DOMAIN bb_covs' : KeyBlocks(bb_keys', bb_covs'[r]) = trace'[r]
      BY <1>4, <3>1, <3>2
    <3> QED
      BY <3>1, <3>4, <3>5
  <2> QED
    BY <1>5, <2>2, <2>3
<1>12. RecordsTyped'
  BY <1>9, <1>11 DEF RecordsTyped
<1>13. BitsFaithful'
  BY <1>11 DEF BitsFaithful, BlocksOf, KeyBlocks
<1> QED
  BY <1>2, <1>7, <1>10, <1>11, <1>12, <1>13 DEF VInv

\* Every step of the loop keeps the invariant.
LEMMA VNextKeeps == VInv /\ [VNext]_vVars => VInv'
<1> SUFFICES ASSUME VInv, [VNext]_vVars PROVE VInv'
  OBVIOUS
<1>1. CASE \/ DryRunRefused \/ DecideKeep \/ RunEHB \/ ExecuteDone \/ ExecuteTaintPUT \/ UNCHANGED vVars
  <2>1. /\ UNCHANGED LoopDefs
        /\ vpc' = "start" => vpc = "start"
        /\ vpc' \in {"start", "dry", "fill"} => vpc \in {"start", "dry", "fill"}
    BY <1>1 DEF DryRunRefused, DecideKeep, RunEHB, ExecuteDone, ExecuteTaintPUT, vVars, LoopDefs
  <2> QED
    BY <2>1, RecordsUnchanged
<1>2. CASE ReadTestcases
  <2>1. PICK n \in InitSizes : pending_queue' = AddToQueue(n) /\ queued_paths' = queued_paths + n
    BY <1>2 DEF ReadTestcases
  <2>2. n \in Nat
    BY VuzzerAssumption
  <2>3. pending_queue' = pending_queue \cup AddToQueue(n)
    BY <1>2, <2>1 DEF ReadTestcases, VInv
  <2>4. /\ UNCHANGED <<seed_queue, taint_queue, trace, seen_bbs, bb_keys, bb_covs>>
        /\ vpc = "start" /\ vpc' # "start"
    BY <1>2 DEF ReadTestcases
  <2> QED
    BY <2>1, <2>2, <2>3, <2>4, NewIdsLast
<1>3. CASE FillSeeds
  <2>1. PICK n : /\ n = IF PopSize - Cardinality(pending_queue) > 0 THEN PopSize - Cardinality(pending_queue) ELSE 0
                 /\ pending_queue' = pending_queue \cup AddToQueue(n) /\ queued_paths' = queued_paths + n
    BY <1>3 DEF FillSeeds
  <2>2. Cardinality(pending_queue) \in Nat
    <3>1. pending_queue \subseteq 1..queued_paths /\ queued_paths \in Nat
      BY DEF VInv, IdsInOrder
    <3>2. IsFiniteSet(1..queued_paths)
      <4>1. 1 \in Int /\ queued_paths \in Int
        BY <3>1
      <4> QED
        BY <4>1, FS_Interval
    <3> QED
      BY <3>1, <3>2, FS_Subset, FS_CardinalityType
  <2>3. n \in Nat
    BY <2>1, <2>2, VuzzerAssumption
  <2>4. /\ UNCHANGED <<seed_queue, taint_queue, trace, seen_bbs, bb_keys, bb_covs>> /\ vpc' = "keep"
    BY <1>3 DEF FillSeeds
  <2> QED
    BY <2>1, <2>3, <2>4, NewIdsLast
<1>4. CASE Mutate
  <2>1. CASE vpc' = "update"
    <3>1. PICK n : /\ n = 2 * ((PopSize - NextGenRange + 1) \div 2)
                   /\ pending_queue' = pending_queue \cup AddToQueue(n) /\ queued_paths' = queued_paths + n
                   /\ vpc' = "update"
      BY <1>4, <2>1 DEF Mutate
    <3>2. n \in Nat
      BY <3>1, VuzzerAssumption
    <3>3. UNCHANGED <<seed_queue, taint_queue, trace, seen_bbs, bb_keys, bb_covs>>
      BY <1>4 DEF Mutate
    <3> QED
      BY <3>1, <3>2, <3>3, NewIdsLast
  <2>2. CASE vpc' \in {"assert", "undefined"}
    <3>1. UNCHANGED LoopDefs
      BY <1>4, <2>2 DEF Mutate, LoopDefs
    <3> QED
      BY <2>2, <3>1, RecordsUnchanged
  <2> QED
    BY <1>4, <2>1, <2>2 DEF Mutate
<1> QED
  BY <1>1, <1>2, <1>3, <1>4, DryRunKeeps, ExecuteKeeps, UpdateQueueKeeps DEF VNext

\* A step of the loop loses no block that a recorded seed covers, but for the selection.
LEMMA VNextKeepsCoverage == VInv /\ [VNext]_vVars => TrimKeepsCoverage
<1> SUFFICES ASSUME VInv, VNext, vpc' # "keep",
                    NEW r \in DOMAIN bb_covs, NEW b \in trace[r]
             PROVE  \E q \in DOMAIN bb_covs' : b \in trace'[q]
  BY DEF TrimKeepsCoverage
<1>1. CASE UNCHANGED <<trace, bb_covs>>
  BY <1>1
<1>2. CASE PerformDryRun
  BY <1>2 DEF PerformDryRun, VInv, RecordsTrimmed
<1>3. CASE ExecutePUT
  <2>1. PICK s, cov : Ran(s, cov)
    BY <1>3, ExecuteRan
  <2>2. s \notin seed_queue
    <3>1. s = Lowest(pending_queue) /\ pending_queue # {}
      BY <1>3, <2>1 DEF Ran, ExecutePUT
    <3> QED
      BY <3>1, RunsInOrder
  <2>3. /\ cov \subseteq Blocks /\ trace'[s] = cov
        /\ \A q \in DOMAIN trace : q # s => trace'[q] = trace[q]
    BY <2>1 DEF Ran, Put
  <2>4. r \in DOMAIN trace /\ r # s /\ trace'[r] = trace[r]
    BY <2>2, <2>3 DEF VInv, RecordsTrimmed, RecordsTyped
  <2>5. CASE UNCHANGED bb_covs
    BY <2>4, <2>5
  <2>6. CASE TrimQueue(s, cov)
    <3>1. /\ s \in DOMAIN bb_covs'
          /\ r \in DOMAIN bb_covs' \/ trace[r] \subseteq cov
      BY <2>2, <2>3, <2>6, TrimExact
    <3> QED
      BY <2>3, <2>4, <3>1
  <2> QED
    BY <2>1, <2>5, <2>6 DEF Ran
<1> QED
  BY <1>1, <1>2, <1>3 DEF VNext, ReadTestcases, DryRunRefused, FillSeeds, DecideKeep, RunEHB,
     ExecuteDone, ExecuteTaintPUT, Mutate, UpdateQueue

-----------------------------------------------------------------------------
(* The mutators.                                                           *)

\* An outcome of a mutator for len bytes in a buffer of cap: what it leaves has a size, and
\* its accesses are inside when the input is not empty and the buffer holds it.
Safe(len, cap, o) ==
    /\ o.ok => o.len \in Nat /\ o.cap \in Nat
    /\ (0 < len /\ len <= cap) => o.ok

\* The sizes that a mutator leaves, the rest is VuzzerSound's.
VmInv ==
    /\ vm_len \in Nat /\ vm_cap \in Nat /\ vm_slide \in Nat
    /\ WildOnlyKnown /\ CrossKeepsLength

\* A part of a number is not larger.
LEMMA PartOf ==
    ASSUME NEW len \in Nat, NEW d \in Nat \ {0}
    PROVE  len \div d \in Nat /\ len \div d <= len
  OBVIOUS

\* A piece that is cut out, put in or overlaid lies in an input that is not empty.
LEMMA CutInside ==
    ASSUME NEW len \in Nat, NEW n \in CutSizes(len), NEW pos \in GetCutPos(len - n)
    PROVE  /\ n \in Nat \ {0} /\ pos \in Nat
           /\ 0 < len => n <= len /\ (pos + n < len \/ pos + n = len)
<1>1. PICK part \in Nat : part = len \div Denominator /\ part <= len
  BY PartOf, VuzzerMutatorAssumption
<1>2. Max({1, part}) \in {1, part}
  <2>1. \E x \in {1, part} : \A y \in {1, part} : x >= y
    BY <1>1
  <2> QED
    BY <2>1 DEF Max
<1>3. n \in Nat \ {0} /\ n <= Max({1, part})
  BY <1>1, <1>2 DEF CutSizes
<1>4. 0 < len => n <= len
  BY <1>1, <1>2, <1>3
<1>5. pos \in Nat
  BY <1>3, VuzzerMutatorAssumption DEF GetCutPos, WrappedPos
<1>6. n <= len => pos + n < len \/ pos + n = len
  BY <1>3, <1>5 DEF GetCutPos
<1> QED
  BY <1>3, <1>4, <1>5, <1>6

\* Eliminating, inserting and overlaying are safe.
LEMMA PiecesSafe ==
    ASSUME NEW len \in Nat, NEW cap \in Nat, NEW n \in CutSizes(len), NEW pos \in GetCutPos(len - n)
    PROVE  /\ Safe(len, cap, CutOut(len, cap, pos, n))
           /\ Safe(len, cap, PutIn(len, cap, pos, n))
           /\ Safe(len, cap, Overlay(len, cap, pos, n))
<1>1. /\ n \in Nat \ {0} /\ pos \in Nat
      /\ 0 < len => n <= len /\ (pos + n < len \/ pos + n = len)
  BY CutInside
<1>2. Safe(len, cap, CutOut(len, cap, pos, n))
  <2>1. (pos + n = len \/ (pos + n < len /\ len <= cap)) => len - n \in Nat
    BY <1>1
  <2>2. (0 < len /\ len <= cap) => (pos + n = len \/ (pos + n < len /\ len <= cap))
    BY <1>1
  <2> QED
    BY <2>1, <2>2 DEF Safe, CutOut, Outcome
<1>3. Safe(len, cap, PutIn(len, cap, pos, n))
  <2>1. len + n \in Nat
    BY <1>1
  <2>2. (0 < len /\ len <= cap) => (pos <= len /\ len <= cap)
    BY <1>1
  <2> QED
    BY <2>1, <2>2 DEF Safe, PutIn, Outcome
<1>4. Safe(len, cap, Overlay(len, cap, pos, n))
  <2>1. (0 < len /\ len <= cap) => (pos + n <= len /\ pos + n <= cap)
    BY <1>1
  <2> QED
    BY <2>1 DEF Safe, Overlay, Outcome
<1> QED
  BY <1>2, <1>3, <1>4

\* The bytes that are changed in the end lie inside of what the first part left.
LEMMA ThenChangeSafe ==
    ASSUME NEW len \in Nat, NEW cap \in Nat, NEW outcomes,
           \A o \in outcomes :
               /\ Safe(len, cap, o)
               /\ (0 < len /\ len <= cap) => o.len <= o.cap
    PROVE  \A e \in ThenChangeBytes(outcomes) : Safe(len, cap, e)
<1> SUFFICES ASSUME NEW o \in outcomes, NEW e \in ChangeBytes(o.len, o.cap)
             PROVE  Safe(len, cap, [e EXCEPT !.ok = @ /\ o.ok])
  BY DEF ThenChangeBytes
<1>1. PICK w : w = [e EXCEPT !.ok = @ /\ o.ok]
  OBVIOUS
<1>2. CASE e = Outcome(o.len, o.cap, TRUE)
  <2>1. w.len = o.len /\ w.cap = o.cap /\ (w.ok <=> o.ok)
    BY <1>1, <1>2 DEF Outcome
  <2> QED
    BY <1>1, <2>1 DEF Safe
<1>3. CASE \E pos \in {p \in TaintOffsets : p < o.len} : e = Outcome(o.len, o.cap, pos < o.cap)
  <2>1. PICK pos \in TaintOffsets : pos < o.len /\ e = Outcome(o.len, o.cap, pos < o.cap)
    BY <1>3
  <2>2. w.len = o.len /\ w.cap = o.cap /\ (w.ok <=> pos < o.cap /\ o.ok)
    BY <1>1, <2>1 DEF Outcome
  <2>3. pos \in Nat
    BY VuzzerMutatorAssumption
  <2>4. (0 < len /\ len <= cap) => pos < o.cap
    <3> SUFFICES ASSUME 0 < len, len <= cap PROVE pos < o.cap
      OBVIOUS
    <3>1. o.len \in Nat /\ o.cap \in Nat /\ o.len <= o.cap
      BY DEF Safe
    <3> QED
      BY <2>1, <2>3, <3>1
  <2> QED
    BY <1>1, <2>2, <2>4 DEF Safe
<1> QED
  BY <1>2, <1>3 DEF ChangeBytes

\* Each mutator is safe.
LEMMA MutatorsSafe ==
    ASSUME NEW len \in Nat, NEW cap \in Nat, vm_slide \in Nat
    PROVE  /\ \A o \in EliminateRandom(len, cap) : Safe(len, cap, o)
           /\ \A o \in ChangeBytes(len, cap) : Safe(len, cap, o)
           /\ \A o \in AddRandom(len, cap) : Safe(len, cap, o)
           /\ \A o \in ChangeRandom(len, cap) : Safe(len, cap, o)
           /\ \A o \in ChangeSingle(len, cap) : Safe(len, cap, o)
           /\ \A o \in EliminateNull(len, cap) : Safe(len, cap, o)
           /\ \A o \in EliminateDoubleNull(len, cap) : Safe(len, cap, o)
           /\ \A o \in TotallyRandom(len, cap) : Safe(len, cap, o)
           /\ \A o \in ChangeRandomFull(len, cap) : Safe(len, cap, o)
           /\ \A o \in IntSlide(len, cap) : Safe(len, cap, o)
<1>1. \A o \in EliminateRandom(len, cap) : Safe(len, cap, o)
  BY PiecesSafe DEF EliminateRandom
<1>2. \A o \in ChangeBytes(len, cap) : Safe(len, cap, o)
  <2>1. ASSUME NEW pos \in {p \in TaintOffsets : p < len}, NEW o, o = Outcome(len, cap, pos < cap)
        PROVE  Safe(len, cap, o)
    <3>1. o.len = len /\ o.cap = cap /\ (o.ok <=> pos < cap)
      BY <2>1 DEF Outcome
    <3>2. (0 < len /\ len <= cap) => pos < cap
      BY VuzzerMutatorAssumption
    <3> QED
      BY <3>1, <3>2 DEF Safe
  <2>2. Safe(len, cap, Outcome(len, cap, TRUE))
    BY DEF Safe, Outcome
  <2> QED
    BY <2>1, <2>2 DEF ChangeBytes
<1>3. \A o \in AddRandom(len, cap) : Safe(len, cap, o)
  <2>1. ASSUME NEW n \in CutSizes(len), NEW pos \in GetCutPos(len - n), NEW o, o = PutIn(len, cap, pos, n)
        PROVE  Safe(len, cap, o) /\ ((0 < len /\ len <= cap) => o.len <= o.cap)
    <3>1. n \in Nat
      BY CutInside
    <3>2. o.len = len + n /\ o.cap = len + n
      BY <2>1 DEF PutIn, Outcome
    <3>3. o.len <= o.cap
      BY <3>1, <3>2
    <3> QED
      BY <2>1, <3>3, PiecesSafe
  <2>2. PICK outcomes : outcomes = UNION {{PutIn(len, cap, pos, n) : pos \in GetCutPos(len - n)} : n \in CutSizes(len)}
    OBVIOUS
  <2>3. \A o \in outcomes : Safe(len, cap, o) /\ ((0 < len /\ len <= cap) => o.len <= o.cap)
    BY <2>1, <2>2
  <2>4. \A o \in ThenChangeBytes(outcomes) : Safe(len, cap, o)
    BY <2>3, ThenChangeSafe
  <2> QED
    BY <2>2, <2>4 DEF AddRandom
<1>4. \A o \in ChangeRandom(len, cap) : Safe(len, cap, o)
  <2>1. ASSUME NEW n \in CutSizes(len), NEW pos \in GetCutPos(len - n), NEW o, o = Overlay(len, cap, pos, n)
        PROVE  Safe(len, cap, o) /\ ((0 < len /\ len <= cap) => o.len <= o.cap)
    <3>1. o.len = len /\ o.cap = cap
      BY <2>1 DEF Overlay, Outcome
    <3> QED
      BY <2>1, <3>1, PiecesSafe
  <2>2. PICK outcomes : outcomes = UNION {{Overlay(len, cap, pos, n) : pos \in GetCutPos(len - n)} : n \in CutSizes(len)}
    OBVIOUS
  <2>3. \A o \in outcomes : Safe(len, cap, o) /\ ((0 < len /\ len <= cap) => o.len <= o.cap)
    BY <2>1, <2>2
  <2>4. \A o \in ThenChangeBytes(outcomes) : Safe(len, cap, o)
    BY <2>3, ThenChangeSafe
  <2> QED
    BY <2>2, <2>4 DEF ChangeRandom
<1>5. \A o \in ChangeSingle(len, cap) : Safe(len, cap, o)
  <2>1. ASSUME NEW pos \in 0 .. len - 1, NEW o, o = Outcome(len, cap, pos < cap)
        PROVE  Safe(len, cap, o)
    <3>1. o.len = len /\ o.cap = cap /\ (o.ok <=> pos < cap)
      BY <2>1 DEF Outcome
    <3>2. (0 < len /\ len <= cap) => pos < cap
      BY <2>1
    <3> QED
      BY <3>1, <3>2 DEF Safe
  <2>2. len = 0 => Safe(len, cap, Outcome(len, cap, FALSE))
    BY DEF Safe, Outcome
  <2> QED
    BY <2>1, <2>2 DEF ChangeSingle
<1>6. \A o \in EliminateNull(len, cap) : Safe(len, cap, o)
  <2>1. ASSUME NEW start \in 0 .. len, NEW o, o = Outcome(len, cap, (start = len \/ len <= cap))
        PROVE  Safe(len, cap, o)
    <3>1. o.len = len /\ o.cap = cap /\ (o.ok <=> (start = len \/ len <= cap))
      BY <2>1 DEF Outcome
    <3>2. (0 < len /\ len <= cap) => (start = len \/ len <= cap)
      BY <2>1
    <3> QED
      BY <3>1, <3>2 DEF Safe
  <2> QED
    BY <2>1 DEF EliminateNull
<1>7. \A o \in EliminateDoubleNull(len, cap) : Safe(len, cap, o)
  <2>1. ASSUME NEW start \in 0 .. len - 1, NEW o, o = Outcome(len, cap, (start + 2 >= len \/ len <= cap))
        PROVE  Safe(len, cap, o)
    <3>1. o.len = len /\ o.cap = cap /\ (o.ok <=> (start + 2 >= len \/ len <= cap))
      BY <2>1 DEF Outcome
    <3>2. (0 < len /\ len <= cap) => (start + 2 >= len \/ len <= cap)
      BY <2>1
    <3> QED
      BY <3>1, <3>2 DEF Safe
  <2>2. len = 0 => Safe(len, cap, Outcome(len, cap, FALSE))
    BY DEF Safe, Outcome
  <2> QED
    BY <2>1, <2>2 DEF EliminateDoubleNull
<1>8. \A o \in TotallyRandom(len, cap) : Safe(len, cap, o)
  BY VuzzerMutatorAssumption DEF TotallyRandom, Safe, Outcome
<1>9. \A o \in ChangeRandomFull(len, cap) : Safe(len, cap, o)
  <2>1. ASSUME NEW pos \in (1 .. len - 1) \X (1 .. len - 1), NEW word \in WordLens \X WordLens, NEW o,
               o = LET one == PutIn(len, cap, pos[1], word[1])
                       two == PutIn(one.len, one.cap, pos[2] + word[1], word[2])
                   IN  [two EXCEPT !.ok = @ /\ one.ok]
        PROVE  Safe(len, cap, o)
    <3>1. PICK p, q \in 1 .. len - 1, v, w \in Nat : pos[1] = p /\ pos[2] = q /\ word[1] = v /\ word[2] = w
      BY VuzzerMutatorAssumption
    <3>2. PICK one, two : /\ one = PutIn(len, cap, p, v) /\ two = PutIn(one.len, one.cap, q + v, w)
                          /\ o = [two EXCEPT !.ok = @ /\ one.ok]
      BY <2>1, <3>1
    <3>3. one.len = len + v /\ one.cap = len + v /\ (one.ok <=> p <= len /\ len <= cap)
      BY <3>2 DEF PutIn, Outcome
    <3>4. /\ two.len = len + v + w /\ two.cap = len + v + w
          /\ two.ok <=> q + v <= len + v /\ len + v <= len + v
      BY <3>2, <3>3 DEF PutIn, Outcome
    <3>5. o.len = len + v + w /\ o.cap = len + v + w /\ (o.ok <=> two.ok /\ one.ok)
      BY <3>2, <3>4 DEF PutIn, Outcome
    <3>6. len + v + w \in Nat /\ p <= len /\ q + v <= len + v /\ len + v <= len + v
      BY <3>1
    <3> QED
      BY <3>3, <3>4, <3>5, <3>6 DEF Safe
  <2>2. \A n \in CutSizes(len) : \A pos \in GetCutPos(len - n) :
          Safe(len, cap, PutIn(len, cap, pos, n)) /\ Safe(len, cap, Overlay(len, cap, pos, n))
    BY PiecesSafe
  <2>3. \A o \in TwoWords(len, cap) : Safe(len, cap, o)
    BY <2>1 DEF TwoWords
  <2>4. \A o \in PieceOfDict(len, cap) : Safe(len, cap, o)
    BY <2>2 DEF PieceOfDict
  <2> QED
    BY <2>3, <2>4 DEF ChangeRandomFull
<1>10. \A o \in IntSlide(len, cap) : Safe(len, cap, o)
  <2>1. CASE len < 4
    <3>1. IntSlide(len, cap) = {Outcome(len, len, TRUE)}
      BY <2>1 DEF IntSlide
    <3> QED
      BY <3>1 DEF Safe, Outcome
  <2>2. CASE ~(len < 4)
    <3>1. PICK start \in 0..len - 1 : start = vm_slide % len
      BY <2>2
    <3>2. ASSUME NEW o \in IntSlide(len, cap), start > len - 4
          PROVE  Safe(len, cap, o)
      <4>1. o = Outcome(start + 4, start + 4, start <= cap)
        BY <2>2, <3>1, <3>2, Zenon DEF IntSlide
      <4>2. o.len = start + 4 /\ o.cap = start + 4 /\ (o.ok <=> start <= cap)
        BY <4>1 DEF Outcome
      <4>3. start + 4 \in Nat /\ (len <= cap => start <= cap)
        BY <3>1
      <4> QED
        BY <4>2, <4>3 DEF Safe
    <3>3. ASSUME NEW o \in IntSlide(len, cap), ~(start > len - 4)
          PROVE  Safe(len, cap, o)
      <4>1. o = Overlay(len, cap, start, 4)
        BY <2>2, <3>1, <3>3, Zenon DEF IntSlide
      <4>2. o.len = len /\ o.cap = cap /\ (o.ok <=> (start + 4 <= len /\ start + 4 <= cap))
        BY <4>1 DEF Overlay, Outcome
      <4>3. len <= cap => (start + 4 <= len /\ start + 4 <= cap)
        BY <2>2, <3>1, <3>3
      <4> QED
        BY <4>2, <4>3 DEF Safe
    <3> QED
      BY <3>2, <3>3
  <2> QED
    BY <2>1, <2>2
<1> QED
  BY <1>1, <1>2, <1>3, <1>4, <1>5, <1>6, <1>7, <1>8, <1>9, <1>10

\* A safe outcome leaves a size, and is wild only in the two known situations.
LEMMA OutcomeKeeps ==
    ASSUME VmInv, NEW outcomes, NEW calls, NEW next, ApplyOutcome(outcomes, calls, next),
           vm_slide' \in Nat, \A o \in outcomes : Safe(vm_len, vm_cap, o)
    PROVE  VmInv'
<1>1. PICK o \in outcomes :
        /\ vm_why' = WildWhy(o)
        /\ IF o.ok THEN vm_len' = o.len /\ vm_cap' = o.cap ELSE UNCHANGED <<vm_len, vm_cap>>
        /\ UNCHANGED <<vm_parents, vm_children>>
  BY DEF ApplyOutcome
<1>2. vm_len \in Nat /\ vm_cap \in Nat
  BY DEF VmInv
<1>3. Safe(vm_len, vm_cap, o)
  OBVIOUS
<1>4. vm_len' \in Nat /\ vm_cap' \in Nat
  BY <1>1, <1>2, <1>3 DEF Safe
<1>5. vm_why' # "other"
  BY <1>1, <1>2, <1>3 DEF Safe, WildWhy
<1> QED
  BY <1>1, <1>4, <1>5 DEF VmInv, WildOnlyKnown, CrossKeepsLength

\* Two parents are cut so that both children get a part, and nothing is lost.
LEMMA CrossedLengths ==
    ASSUME NEW m \in Nat \ {0}, NEW n \in Nat \ {0},
           NEW kids \in SingleCrossOver(m, n) \cup DoubleCrossOver(m, n)
    PROVE  /\ kids[1] \in Nat \ {0} /\ kids[2] \in Nat \ {0}
           /\ kids[1] + kids[2] = m + n
<1>1. CASE kids \in SingleCrossOver(m, n)
  <2>1. PICK p \in 1 .. 5 : kids = <<(p * m) \div 10 + (n - (p * n) \div 10),
                                     (p * n) \div 10 + (m - (p * m) \div 10)>>
    BY <1>1 DEF SingleCrossOver
  <2>2. PICK a, b : a = (p * m) \div 10 /\ b = (p * n) \div 10
    OBVIOUS
  <2>3. /\ a \in Nat /\ b \in Nat /\ a < m /\ b < n
    <3>1. p = 1 \/ p = 2 \/ p = 3 \/ p = 4 \/ p = 5
      OBVIOUS
    <3> QED
      BY <2>2, <3>1
  <2>4. kids[1] = a + (n - b) /\ kids[2] = b + (m - a)
    BY <2>1, <2>2
  <2> QED
    BY <2>3, <2>4
<1>2. CASE kids \in DoubleCrossOver(m, n)
  <2>1. PICK p \in 1 .. 2, q \in 6 .. 7 :
          kids = <<m - ((q * m) \div 10 - (p * m) \div 10) + ((q * n) \div 10 - (p * n) \div 10),
                   n - ((q * n) \div 10 - (p * n) \div 10) + ((q * m) \div 10 - (p * m) \div 10)>>
    BY <1>2 DEF DoubleCrossOver
  <2>2. PICK a, b : /\ a = (q * m) \div 10 - (p * m) \div 10
                    /\ b = (q * n) \div 10 - (p * n) \div 10
    OBVIOUS
  <2>3. a \in Nat /\ b \in Nat /\ a < m /\ b < n
    <3>1. (p = 1 \/ p = 2) /\ (q = 6 \/ q = 7)
      OBVIOUS
    <3> QED
      BY <2>2, <3>1
  <2>4. kids[1] = m - a + b /\ kids[2] = n - b + a
    BY <2>1, <2>2
  <2> QED
    BY <2>3, <2>4
<1> QED
  BY <1>1, <1>2

\* Every step of a mutator keeps the invariant.
LEMMA VmNextKeeps == VmInv /\ [VmNext]_vmVars => VmInv'
<1> SUFFICES ASSUME VmInv, [VmNext]_vmVars PROVE VmInv'
  OBVIOUS
<1>1. vm_len \in Nat /\ vm_cap \in Nat /\ vm_slide \in Nat
  BY DEF VmInv
<1>2. ASSUME NEW outcomes, CallMutator(outcomes), vm_slide' \in Nat,
             \A o \in outcomes : Safe(vm_len, vm_cap, o)
      PROVE  VmInv'
  BY <1>2, OutcomeKeeps DEF CallMutator
<1>3. CASE /\ \/ CallMutator(EliminateRandom(vm_len, vm_cap))
              \/ CallMutator(ChangeBytes(vm_len, vm_cap))
              \/ CallMutator(AddRandom(vm_len, vm_cap))
              \/ CallMutator(ChangeRandom(vm_len, vm_cap))
              \/ CallMutator(ChangeSingle(vm_len, vm_cap))
              \/ CallMutator(EliminateNull(vm_len, vm_cap))
              \/ CallMutator(EliminateDoubleNull(vm_len, vm_cap))
              \/ CallMutator(TotallyRandom(vm_len, vm_cap))
              \/ CallMutator(ChangeRandomFull(vm_len, vm_cap))
           /\ UNCHANGED vm_slide
  BY <1>1, <1>2, <1>3, MutatorsSafe
<1>4. CASE CallMutator(IntSlide(vm_len, vm_cap)) /\ vm_slide' = vm_slide + (IF vm_len >= 4 THEN 1 ELSE 0)
  BY <1>1, <1>2, <1>4, MutatorsSafe
<1>5. CASE TaintBasedChange
  <2>1. PICK pos \in {p \in TaintOffsets : p < vm_len}, n \in WordLens :
          ApplyOutcome({InsertWithOnebyteOverwrite(vm_len, vm_cap, pos, n)}, 0, "taint")
    BY <1>5 DEF TaintBasedChange
  <2>2. pos \in Nat /\ pos < vm_len /\ n \in Nat \ {0}
    BY VuzzerMutatorAssumption
  <2>3. PICK o : o = InsertWithOnebyteOverwrite(vm_len, vm_cap, pos, n)
    OBVIOUS
  <2>4. /\ o.len = vm_len + n - 1 /\ o.cap = vm_len + n - 1
        /\ o.ok <=> IF pos = vm_len - 1 THEN pos <= vm_cap ELSE pos < vm_len /\ vm_len <= vm_cap
    BY <2>3 DEF InsertWithOnebyteOverwrite, Outcome
  <2>5. vm_len + n - 1 \in Nat
    BY <1>1, <2>2
  <2>6. vm_len <= vm_cap =>
          IF pos = vm_len - 1 THEN pos <= vm_cap ELSE pos < vm_len /\ vm_len <= vm_cap
    BY <1>1, <2>2
  <2>7. Safe(vm_len, vm_cap, o)
    BY <2>4, <2>5, <2>6 DEF Safe
  <2>8. vm_slide' \in Nat
    BY <1>1, <1>5 DEF TaintBasedChange
  <2> QED
    BY <2>1, <2>3, <2>7, <2>8, OutcomeKeeps
<1>6. CASE AddMutant
  <2>1. PICK o : o = Outcome(vm_len, vm_cap, vm_len <= vm_cap)
    OBVIOUS
  <2>2. o.len = vm_len /\ o.cap = vm_cap /\ (o.ok <=> vm_len <= vm_cap)
    BY <2>1 DEF Outcome
  <2>3. Safe(vm_len, vm_cap, o)
    BY <1>1, <2>2 DEF Safe
  <2>4. ApplyOutcome({o}, 0, "idle") /\ vm_slide' \in Nat
    BY <1>1, <1>6, <2>1 DEF AddMutant
  <2> QED
    BY <2>3, <2>4, OutcomeKeeps
<1>7. CASE DoubleFuzz \/ MutateRandomEnds \/ UNCHANGED vmVars
  <2>1. UNCHANGED <<vm_len, vm_cap, vm_slide, vm_parents, vm_children, vm_why>>
    BY <1>7 DEF DoubleFuzz, MutateRandomEnds, vmVars
  <2> QED
    BY <2>1 DEF VmInv, WildOnlyKnown, CrossKeepsLength
<1>8. CASE MutateParent
  <2>1. vm_len' \in Nat /\ vm_cap' \in Nat /\ vm_slide' \in Nat
        /\ UNCHANGED <<vm_parents, vm_children, vm_why>>
    BY <1>8, VuzzerMutatorAssumption DEF MutateParent
  <2> QED
    BY <2>1 DEF VmInv, WildOnlyKnown, CrossKeepsLength
<1>9. CASE CrossParents
  <2>a. vm_parents' \in VmLens \X VmLens
    BY <1>9 DEF CrossParents
  <2>b. PICK p, q \in VmLens : vm_parents' = <<p, q>>
    BY <2>a
  <2>c. p \in Nat \ {0} /\ q \in Nat \ {0}
    BY VuzzerMutatorAssumption
  <2>1. PICK m, n \in Nat \ {0} : vm_parents' = <<m, n>>
    BY <2>b, <2>c
  <2>2. vm_children' \in SingleCrossOver(m, n) \cup DoubleCrossOver(m, n)
    BY <1>9, <2>1 DEF CrossParents
  <2>3. /\ vm_children'[1] \in Nat \ {0} /\ vm_children'[2] \in Nat \ {0}
        /\ vm_children'[1] + vm_children'[2] = m + n
    BY <2>2, CrossedLengths
  <2>4. vm_len' \in Nat /\ vm_cap' \in Nat /\ vm_slide' \in Nat /\ vm_why' = vm_why
    BY <1>9, <2>3 DEF CrossParents
  <2> QED
    BY <2>1, <2>3, <2>4 DEF VmInv, WildOnlyKnown, CrossKeepsLength
<1> QED
  BY <1>3, <1>4, <1>5, <1>6, <1>7, <1>8, <1>9 DEF VmNext

-----------------------------------------------------------------------------
(* The loop and the mutators.                                              *)

\* The inductive invariant: ids in order, records typed and faithful, sizes of the buffer.
THEOREM VuzzerInvariant == VuzzerSpec => [](VInv /\ VmInv)
<1>1. VInit /\ VmInit => VInv /\ VmInv
  <2>1. VmInit => VmInv
    BY DEF VmInit, VmInv, WildOnlyKnown, CrossKeepsLength
  <2> QED
    BY <2>1, VInitHolds
<1>2. VInv /\ [VNext]_vVars => VInv'
  BY VNextKeeps
<1>3. VmInv /\ [VmNext]_vmVars => VmInv'
  BY VmNextKeeps
<1> QED
  BY <1>1, <1>2, <1>3, PTL DEF VuzzerSpec

\* Trimming the queue loses no block that a recorded seed covers: only the selection of the
\* fittest in update_queue does.
THEOREM TrimmingKeepsCoverage == VuzzerSpec => CoverageSurvivesTrims
<1>1. VInv /\ [VNext]_vVars => TrimKeepsCoverage
  BY VNextKeepsCoverage
<1> QED
  BY <1>1, VuzzerInvariant, PTL DEF VuzzerSpec, CoverageSurvivesTrims

\* VUzzer's bit vectors mean the coverage of their seeds although the key table grows, no
\* recorded seed is covered by a later one, every block that counted as new has a seed for
\* the taint engine, trimming loses no coverage, and a mutator leaves its buffer only in the
\* two known situations.
THEOREM Vuzzed == VuzzerSpec => VuzzerSound
<1>1. VInv => BitsFaithful /\ RecordsTrimmed /\ SeenHasTaintSeed
  BY DEF VInv
<1>2. VmInv => WildOnlyKnown /\ CrossKeepsLength
  BY DEF VmInv
<1> QED
  BY <1>1, <1>2, VuzzerInvariant, TrimmingKeepsCoverage, PTL DEF VuzzerSound
=============================================================================
