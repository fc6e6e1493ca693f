------------------------------- MODULE Vuzzer -------------------------------
(***************************************************************************)
(* The evolutionary loop of VUzzer.  One pass of fuzz_loop runs            *)
(* decide_keep, run_ehb, execute (with update_fitness and trim_queue),     *)
(* execute_taint, mutate and update_queue over four queues that share      *)
(* their seeds.  A seed is its ExecInput id; the queues are sets because   *)
(* an id enters a queue once and ids grow along a queue; only UpdateQueue  *)
(* sorts seed_queue, by fitness, and the operators that depend on that     *)
(* order choose it.  The PUT is the external party: the first execution of *)
(* a seed chooses the blocks it covers, and later ones repeat them.        *)
(***************************************************************************)
EXTENDS Integers, FiniteSets, Sequences, FiniteSetsExt, SequencesExt

CONSTANTS
    Blocks,              \* addresses of the PUT's basic blocks
    BbWeights,           \* state.bb_weights, 1 for a block the file lacks
    InitSizes,           \* possible numbers of files in the input directory
    PopSize,             \* setting.pop_size
    NextGenRange,        \* setting.next_gen_range
    KeepNum,             \* setting.keep_num_of_seed_queue
    GenNum,              \* state.gennum
    EhbStart,            \* run_ehb waits for this many loops (40)
    BbSlide0, KeepSlide0,\* initial bbslide and keepslide
    Hashes,              \* digests of crashing inputs
    MaxInputs            \* bound on the ids handed out

ASSUME VuzzerAssumption ==
    /\ IsFiniteSet(Blocks) /\ BbWeights \in [Blocks -> Nat]
    /\ {PopSize, NextGenRange, KeepNum, GenNum, EhbStart} \subseteq Nat
    /\ InitSizes \subseteq Nat /\ PopSize >= NextGenRange
    /\ BbSlide0 \in Nat \ {0} /\ KeepSlide0 \in Nat \ {0}

VARIABLES
    vpc,            \* the node of the flow that runs next
    queued_paths,   \* ids handed out so far
    pending_queue, seed_queue, taint_queue, keep_queue,
    trace,          \* blocks of the last execution of a seed still referred to
    fitness,        \* twice the fitness of a seed of seed_queue
    good_bbs, ehb, ehb_inc, seen_bbs,
    bb_keys,        \* seen_bbs_table_for_bits
    bb_covs,        \* id -> bit vector over bb_keys
    tainted,        \* ids with an entry in taint_cmp_offsets or taint_lea_offsets
    to_taint,       \* seeds of taint_queue that execute_taint has not reached
    loop_cnt, bbslide, keepslide, keepfilenum,
    crash_hashes, unique_crashes

vVars == <<vpc, queued_paths, pending_queue, seed_queue, taint_queue, keep_queue,
           trace, fitness, good_bbs, ehb, ehb_inc, seen_bbs, bb_keys, bb_covs,
           tainted, to_taint, loop_cnt, bbslide, keepslide, keepfilenum,
           crash_hashes, unique_crashes>>

Empty == [i \in {} |-> {}]
Drop(f, S) == [i \in DOMAIN f \ S |-> f[i]]
Put(f, i, v) == [j \in DOMAIN f \cup {i} |-> IF j = i THEN v ELSE f[j]]
Lowest(S) == CHOOSE i \in S : \A j \in S : i <= j
Larger(a, b) == IF a >= b THEN a ELSE b

-----------------------------------------------------------------------------
(* Bit vectors over a growing key table. *)

(* Mutant of AddKeys: new keys go to the front of the table. *)
KeysPrepended(keys, cov) ==
    LET new == cov \ {keys[i] : i \in DOMAIN keys}
    IN  SetToSeq(new) \o keys

(* The keys DictToBitsWithKeys appends, in the map's address order. *)
AddKeys(keys, cov) ==
    LET new == cov \ {keys[i] : i \in DOMAIN keys}
    IN  keys \o SetToSeq(new)

(* Mutant of DictToBitsWithKeys: error handling blocks get no bit. *)
BitsWithoutEhb(keys, cov) == [i \in DOMAIN keys |-> keys[i] \in cov \ (ehb \cup ehb_inc)]

DictToBitsWithKeys(keys, cov) == [i \in DOMAIN keys |-> keys[i] \in cov]

(* dynamic_bitset::resize fills with 0. *)
Resize(bits, n) == [i \in 1 .. n |-> i <= Len(bits) /\ bits[i]]

IsSubsetOf(a, b) ==
    LET n == Larger(Len(a), Len(b))
    IN  \A i \in 1 .. n : Resize(a, n)[i] => Resize(b, n)[i]

BlocksOf(bits) == {bb_keys[i] : i \in {j \in DOMAIN bits : bits[j]}}

-----------------------------------------------------------------------------
VInit ==
    /\ vpc = "start" /\ queued_paths = 0 /\ pending_queue = {}
    /\ seed_queue = {} /\ taint_queue = {} /\ keep_queue = {}
    /\ trace = Empty /\ fitness = Empty
    /\ good_bbs = {} /\ ehb = {} /\ ehb_inc = {} /\ seen_bbs = {}
    /\ bb_keys = <<>> /\ bb_covs = Empty
    /\ tainted = {} /\ to_taint = {}
    /\ loop_cnt = 0 /\ bbslide = BbSlide0 /\ keepslide = KeepSlide0
    /\ keepfilenum = KeepNum
    /\ crash_hashes = {} /\ unique_crashes = 0

(* The n ids AddToQueue hands out next. *)
AddToQueue(n) == queued_paths + 1 .. queued_paths + n

(* EXIT when the directory holds no usable file. *)
ReadTestcases ==
    /\ vpc = "start"
    /\ \E n \in InitSizes :
           /\ pending_queue' = AddToQueue(n) /\ queued_paths' = queued_paths + n
           /\ vpc' = IF n = 0 THEN "exit" ELSE "dry"
    /\ UNCHANGED <<seed_queue, taint_queue, keep_queue, trace, fitness, good_bbs, ehb,
                   ehb_inc, seen_bbs, bb_keys, bb_covs, tainted, to_taint, loop_cnt,
                   bbslide, keepslide, keepfilenum, crash_hashes, unique_crashes>>

(* The taint file of a run may name no offset at all. *)
ParseTaintInfo(S) == {tainted \cup known : known \in SUBSET S}

(* Runs every initial seed, then random inputs: a block of the latter that no
   initial seed reaches is an error handling block.  ERROR ends the program
   when there are fewer than three seeds. *)
PerformDryRun ==
    /\ vpc = "dry" /\ Cardinality(pending_queue) >= 3
    /\ \E t \in [pending_queue -> SUBSET Blocks] :
           /\ trace' = t
           /\ good_bbs' = UNION {t[i] : i \in pending_queue}
           /\ \E bad \in SUBSET Blocks : ehb' = bad \ good_bbs'
    /\ tainted' \in ParseTaintInfo(pending_queue)
    /\ vpc' = "fill"
    /\ UNCHANGED <<queued_paths, pending_queue, seed_queue, taint_queue, keep_queue,
                   fitness, ehb_inc, seen_bbs, bb_keys, bb_covs, to_taint, loop_cnt,
                   bbslide, keepslide, keepfilenum, crash_hashes, unique_crashes>>

DryRunRefused ==
    /\ vpc = "dry" /\ Cardinality(pending_queue) < 3
    /\ vpc' = "error"
    /\ UNCHANGED <<queued_paths, pending_queue, seed_queue, taint_queue, keep_queue,
                   trace, fitness, good_bbs, ehb, ehb_inc, seen_bbs, bb_keys, bb_covs,
                   tainted, to_taint, loop_cnt, bbslide, keepslide, keepfilenum,
                   crash_hashes, unique_crashes>>

(* Mutants of the initial seeds fill pending_queue up to pop_size. *)
FillSeeds ==
    /\ vpc = "fill"
    /\ LET missing == PopSize - Cardinality(pending_queue)
           n == IF missing > 0 THEN missing ELSE 0
       IN  /\ queued_paths' = queued_paths + n
           /\ pending_queue' = pending_queue \cup AddToQueue(n)
    /\ vpc' = "keep"
    /\ UNCHANGED <<seed_queue, taint_queue, keep_queue, trace, fitness, good_bbs, ehb,
                   ehb_inc, seen_bbs, bb_keys, bb_covs, tainted, to_taint, loop_cnt,
                   bbslide, keepslide, keepfilenum, crash_hashes, unique_crashes>>

-----------------------------------------------------------------------------
(* Late in the run the periods stretch and fewer seeds are kept; early on a
   sample of seed_queue is appended to keep_queue, which nothing reads. *)
DecideKeep ==
    /\ vpc = "keep"
    /\ LET late == loop_cnt > GenNum \div 5
       IN  /\ bbslide' = IF late THEN Larger(bbslide, GenNum \div 20) ELSE bbslide
           /\ keepslide' = IF late THEN Larger(keepslide, GenNum \div 100) ELSE keepslide
           /\ keepfilenum' = IF late THEN keepfilenum \div 2 ELSE keepfilenum
    /\ IF 0 < loop_cnt /\ loop_cnt < GenNum \div 5 /\ loop_cnt % keepslide' = 0
       THEN \E S \in SUBSET seed_queue :
                /\ Cardinality(S) = Min({keepfilenum', Cardinality(seed_queue)})
                /\ keep_queue' = keep_queue \cup S
       ELSE UNCHANGED keep_queue
    /\ vpc' = "ehb"
    /\ UNCHANGED <<queued_paths, pending_queue, seed_queue, taint_queue, trace, fitness,
                   good_bbs, ehb, ehb_inc, seen_bbs, bb_keys, bb_covs, tainted, to_taint,
                   loop_cnt, crash_hashes, unique_crashes>>

(* The threshold is (ehb_bb_ratio / 100) * pop_size in u32 arithmetic: 0. *)
EhbThreshold == (90 \div 100) * PopSize

(* The orders that UpdateQueue may leave seed_queue in. *)
ByFitness ==
    {q \in SetToSeqs(seed_queue) : \A i, j \in DOMAIN q : i < j => fitness[q[i]] >= fitness[q[j]]}

(* Every seed runs again, in this order.  all_bb holds the keys in the order they
   appear; the bit counted for the i-th key is the one at size - 1 - i. *)
EhbFound(order) ==
    LET all == FoldLeft(LAMBDA keys, s : AddKeys(keys, trace[s]), <<>>, order)
        Mirror(i) == Len(all) + 1 - i
        Appear(i) == Cardinality({s \in seed_queue : all[Mirror(i)] \in trace[s]})
    IN  {all[i] : i \in {j \in DOMAIN all : Appear(j) > EhbThreshold
                                            /\ all[j] \in good_bbs}}

RunEHB ==
    /\ vpc = "ehb"
    /\ IF loop_cnt > EhbStart /\ loop_cnt % bbslide = 0
       THEN \E order \in ByFitness : ehb_inc' = ehb_inc \cup EhbFound(order)
       ELSE UNCHANGED ehb_inc
    /\ vpc' = "execute"
    /\ UNCHANGED <<queued_paths, pending_queue, seed_queue, taint_queue, keep_queue,
                   trace, fitness, good_bbs, ehb, seen_bbs, bb_keys, bb_covs, tainted,
                   to_taint, loop_cnt, bbslide, keepslide, keepfilenum, crash_hashes,
                   unique_crashes>>

-----------------------------------------------------------------------------
(* Mutant of Trimmed: the test is turned round. *)
TrimmedReversed(bits) ==
    {s \in seed_queue : s \in DOMAIN bb_covs /\ IsSubsetOf(bits, bb_covs[s])}

(* TrimQueue: the seeds of seed_queue whose recorded coverage the new seed
   covers, and the coverage recorded for it. *)
Trimmed(bits) ==
    {s \in seed_queue : s \in DOMAIN bb_covs /\ IsSubsetOf(bb_covs[s], bits)}

TrimQueue(s, cov) ==
    LET keys == AddKeys(bb_keys, cov)
        bits == DictToBitsWithKeys(keys, cov)
        gone == Trimmed(bits)
        n == Len(keys)
        kept == DOMAIN bb_covs \ gone
    IN  /\ bb_keys' = keys
        /\ bb_covs' = [i \in kept \cup {s} |->
                           IF i = s THEN bits
                           ELSE IF i \in seed_queue THEN Resize(bb_covs[i], n) ELSE bb_covs[i]]
        /\ seed_queue' = (seed_queue \ gone) \cup {s}

(* Twice the score of UpdateFitness, with one execution per covered block:
   every error handling block takes |cov| * 0.5 / ehb_cnt off. *)
Fitness2(cov, bad) ==
    LET usable == cov \ bad
        score == MapThenSumSet(LAMBDA b : 2 * BbWeights[b], usable)
                 - (IF cov \cap bad = {} THEN 0 ELSE Cardinality(cov))
    IN  score * Cardinality(usable)

(* ehb_all is a copy of ehb into which ehb_inc is merged: std::set::merge moves
   the nodes, so that ehb_inc keeps only what ehb already had. *)
EhbAll == ehb \cup ehb_inc
AfterMerge == ehb_inc \cap ehb

(* A crash is stored once per digest. *)
Triage ==
    \/ UNCHANGED <<crash_hashes, unique_crashes>>
    \/ \E h \in Hashes \ crash_hashes :
           /\ crash_hashes' = crash_hashes \cup {h}
           /\ unique_crashes' = unique_crashes + 1

(* One testcase of pending_queue: run, UpdateFitness, triage, move. *)
ExecutePUT ==
    /\ vpc = "execute" /\ pending_queue /= {}
    /\ LET s == Lowest(pending_queue)
       IN  \E cov \in IF s \in DOMAIN trace THEN {trace[s]} ELSE SUBSET Blocks :
               LET diff == (cov \ EhbAll) \ seen_bbs
               IN  /\ trace' = Put(trace, s, cov)
                   /\ fitness' = Put(fitness, s, Fitness2(cov, EhbAll))
                   /\ ehb_inc' = AfterMerge
                   /\ seen_bbs' = seen_bbs \cup diff
                   /\ pending_queue' = pending_queue \ {s}
                   /\ IF diff /= {}
                      THEN /\ taint_queue' = taint_queue \cup {s}
                           /\ TrimQueue(s, cov)
                      ELSE /\ seed_queue' = seed_queue \cup {s}
                           /\ UNCHANGED <<taint_queue, bb_keys, bb_covs>>
    /\ Triage
    /\ UNCHANGED <<vpc, queued_paths, keep_queue, good_bbs, ehb, tainted, to_taint,
                   loop_cnt, bbslide, keepslide, keepfilenum>>

ExecuteDone ==
    /\ vpc = "execute" /\ pending_queue = {}
    /\ vpc' = "taint" /\ to_taint' = taint_queue \ tainted
    /\ UNCHANGED <<queued_paths, pending_queue, seed_queue, taint_queue, keep_queue,
                   trace, fitness, good_bbs, ehb, ehb_inc, seen_bbs, bb_keys, bb_covs,
                   tainted, loop_cnt, bbslide, keepslide, keepfilenum, crash_hashes,
                   unique_crashes>>

(* Mutant of ExecuteTaintPUT: the seed leaves taint_queue once it was run. *)
TaintPUTDequeues ==
    /\ vpc = "taint" /\ to_taint /= {}
    /\ LET s == Lowest(to_taint)
       IN  /\ to_taint' = to_taint \ {s}
           /\ taint_queue' = taint_queue \ {s}
           /\ tainted' \in ParseTaintInfo({s})
    /\ UNCHANGED <<vpc, queued_paths, pending_queue, seed_queue, keep_queue,
                   trace, fitness, good_bbs, ehb, ehb_inc, seen_bbs, bb_keys, bb_covs,
                   loop_cnt, bbslide, keepslide, keepfilenum, crash_hashes, unique_crashes>>

(* The taint run of a seed without taint information may record none. *)
ExecuteTaintPUT ==
    /\ vpc = "taint" /\ to_taint /= {}
    /\ LET s == Lowest(to_taint)
       IN  /\ to_taint' = to_taint \ {s}
           /\ tainted' \in ParseTaintInfo({s})
    /\ UNCHANGED <<vpc, queued_paths, pending_queue, seed_queue, taint_queue, keep_queue,
                   trace, fitness, good_bbs, ehb, ehb_inc, seen_bbs, bb_keys, bb_covs,
                   loop_cnt, bbslide, keepslide, keepfilenum, crash_hashes, unique_crashes>>

(* Where the choice of parents begins: between four and eight tenths of n seeds. *)
CutPoints(n) == {c \in 0 .. n : 10 * c < 8 * n /\ 10 * (c + 1) > 4 * n}

(* How many parents a mutation may find. *)
ParentCounts == {Min({2, Cardinality(seed_queue) - c}) : c \in CutPoints(Cardinality(seed_queue))}

(* Two children per pair of parents go to pending_queue.  With fewer than two seeds the
   assertion of Mutate ends the program; where the choice leaves one parent, the second
   element of parents is not there, and nothing can be said of the program from there on. *)
Mutate ==
    LET limit == PopSize - NextGenRange
        n == 2 * ((limit + 1) \div 2)
    IN  /\ vpc = "taint" /\ to_taint = {}
        /\ queued_paths + n <= MaxInputs
        /\ \/ /\ Cardinality(seed_queue) >= 2 /\ (2 \in ParentCounts \/ limit = 0)
              /\ pending_queue' = pending_queue \cup AddToQueue(n)
              /\ queued_paths' = queued_paths + n
              /\ vpc' = "update"
           \/ /\ Cardinality(seed_queue) >= 2 /\ 1 \in ParentCounts /\ limit > 0
              /\ vpc' = "undefined" /\ UNCHANGED <<pending_queue, queued_paths>>
           \/ /\ Cardinality(seed_queue) < 2
              /\ vpc' = "assert" /\ UNCHANGED <<pending_queue, queued_paths>>
        /\ UNCHANGED <<seed_queue, taint_queue, keep_queue, trace, fitness, good_bbs, ehb,
                       ehb_inc, seen_bbs, bb_keys, bb_covs, tainted, to_taint, loop_cnt,
                       bbslide, keepslide, keepfilenum, crash_hashes, unique_crashes>>

(* The KeepNum fittest seeds stay; std::sort decides between equals. *)
Elites ==
    {S \in SUBSET seed_queue :
        /\ Cardinality(S) = Min({KeepNum, Cardinality(seed_queue)})
        /\ \A s \in S, d \in seed_queue \ S : fitness[s] >= fitness[d]}

UpdateQueue ==
    /\ vpc = "update"
    /\ \E S \in Elites :
           LET gone == seed_queue \ S
               live == S \cup taint_queue \cup keep_queue \cup pending_queue
           IN  /\ seed_queue' = S
               /\ bb_covs' = Drop(bb_covs, gone)
               /\ fitness' = Drop(fitness, gone)
               /\ trace' = Drop(trace, DOMAIN trace \ live)
    /\ loop_cnt' = loop_cnt + 1
    /\ vpc' = "keep"
    /\ UNCHANGED <<queued_paths, pending_queue, taint_queue, keep_queue, good_bbs, ehb,
                   ehb_inc, seen_bbs, bb_keys, tainted, to_taint, bbslide, keepslide,
                   keepfilenum, crash_hashes, unique_crashes>>

VNext ==
    \/ ReadTestcases \/ PerformDryRun \/ DryRunRefused \/ FillSeeds
    \/ DecideKeep \/ RunEHB \/ ExecutePUT \/ ExecuteDone
    \/ ExecuteTaintPUT \/ Mutate \/ UpdateQueue

-----------------------------------------------------------------------------
(* The bit vectors recorded at different sizes of the key table still mean
   the coverage of their seeds: TrimQueue resizes some and compares all. *)
BitsFaithful ==
    \A s \in DOMAIN bb_covs : BlocksOf(bb_covs[s]) = trace[s]

(* Coverage is recorded for seeds of seed_queue alone, and no recorded seed is
   covered by one that was found after it: TrimQueue and UpdateQueue drop the
   record together with the seed. *)
RecordsTrimmed ==
    /\ DOMAIN bb_covs \subseteq seed_queue
    /\ \A s, t \in DOMAIN bb_covs : s < t => ~(trace[s] \subseteq trace[t])

(* Every block that ever counted as new is covered by a seed that is queued
   for the taint engine, even after that seed was trimmed from seed_queue. *)
SeenHasTaintSeed == \A b \in seen_bbs : \E s \in taint_queue : b \in trace[s]

(* What the recorded seeds cover shrinks only when update_queue selects the
   fittest: trimming itself never loses a block. *)
TrimKeepsCoverage ==
    [vpc' /= "keep" =>
        UNION {trace[s] : s \in DOMAIN bb_covs}
            \subseteq UNION {trace'[s] : s \in DOMAIN bb_covs'}]_vVars

(* TrimQueue never takes a block away from what the recorded seeds cover. *)
CoverageSurvivesTrims == [][TrimKeepsCoverage]_vVars
=============================================================================
