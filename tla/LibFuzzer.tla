------------------------------ MODULE LibFuzzer ------------------------------
(***************************************************************************)
(* fuzzuf's libFuzzer: createInitialize runs the initial inputs through    *)
(* execute, collect_features and add_to_corpus, createRunone selects a     *)
(* seed, mutates and executes it until it is added, and rebuilds the       *)
(* distribution seeds are drawn from.  The corpus is the sequence of       *)
(* InputInfo records; corpus.inputs holds the data of the enabled ones and *)
(* is indexed like it, because every insertion creates both.  The schedule *)
(* is the vanilla one (entropic.enabled is false by default); exec_result  *)
(* is the single InputInfo that all nodes share.                           *)
(***************************************************************************)
EXTENDS Integers, Sequences, FiniteSets, FiniteSetsExt, SequencesExt

CONSTANTS
    Contents,         \* input values the mutators can produce
    SizeOf,           \* their lengths
    InitialInputs,    \* possible sequences of initial inputs
    Features,         \* feature ids of one target, before the modulo of AddFeature
    ModuleSize,       \* features the map of a target has room for: offset between targets
    FeatureSetSize,   \* length of input_sizes_per_feature
    Shrink,           \* config.shrink, false by default
    ReduceInputs,     \* config.reduce_inputs, false by default
    RetryCount,       \* max_mutation_retry_count
    MaxLength,        \* max_input_length
    LenControl,       \* len_control, 0 when off
    ReduceDepth,      \* config.reduce_depth
    TotalCycles       \* total_cycles, negative when there is no limit

ASSUME LibFuzzerAssumption ==
    /\ SizeOf \in [Contents -> Nat \ {0}]
    /\ InitialInputs \subseteq Seq(Contents)
    /\ ModuleSize \in Nat /\ Features \subseteq 0..ModuleSize - 1 /\ FeatureSetSize \in Nat \ {0}
    /\ {Shrink, ReduceInputs, ReduceDepth} \subseteq BOOLEAN /\ RetryCount \in Nat \ {0}
    /\ MaxLength \in Nat \ {0} /\ LenControl \in Nat /\ TotalCycles \in Int

VARIABLES
    lpc,             \* the node that runs next
    initial,         \* initial inputs not yet executed
    corpus,          \* corpus.corpus
    infos,           \* indices whose data is in corpus.inputs
    sizes,           \* input_sizes_per_feature
    smallest,        \* smallest_element_per_feature
    needs_update,    \* distribution_needs_update
    dist,            \* indices corpus_distribution can yield
    input,           \* the value to execute
    result,          \* exec_result
    retries,         \* passes of local_loop in this runone
    count, last_update, max_input_size,
    reach,           \* features of <<content, target>>, chosen at its first execution
    solutions        \* names of the files add_to_solution wrote

lVars == <<lpc, initial, corpus, infos, sizes, smallest, needs_update, dist, input,
           result, retries, count, last_update, max_input_size, reach, solutions>>

None == "none"
Slots == 0 .. FeatureSetSize - 1
Cut(a, b) == IF a <= b THEN a ELSE b

(* InputInfo() *)
InputInfo ==
    [content |-> None, name |-> <<>>, enabled |-> FALSE, features |-> 0,
     uniq |-> {}, found |-> 0, added |-> FALSE, never_reduce |-> FALSE, size |-> 0,
     id |-> 0]

LInit ==
    /\ lpc = "init" /\ initial \in InitialInputs
    /\ corpus = <<>> /\ infos = {}
    /\ sizes = [s \in Slots |-> 0] /\ smallest = [s \in Slots |-> 0]
    /\ needs_update = TRUE /\ dist = {}
    /\ input = None /\ result = InputInfo /\ retries = 0
    /\ count = 0 /\ last_update = 0
    /\ max_input_size = IF LenControl = 0 THEN MaxLength ELSE 4
    /\ reach = [k \in {} |-> {}] /\ solutions = {}

-----------------------------------------------------------------------------
(* Features.  st carries what AddFeature changes while the callback of
   CollectFeatures walks over the features of one execution. *)

(* Mutant of DeleteInput: the record stays enabled. *)
DeleteDataOnly(st, i) == [st EXCEPT !.infos = @ \ {i}, !.needs = TRUE]

DeleteInput(st, i) ==
    [st EXCEPT !.corpus[i] = InputInfo, !.infos = @ \ {i}, !.needs = TRUE]

(* Mutant of LoseFeature: the last feature but one already drops the input. *)
LoseFeatureEarly(st, i) ==
    IF ~st.corpus[i].enabled THEN st
    ELSE LET left == st.corpus[i].features - 1
             less == [st EXCEPT !.corpus[i].features = left]
         IN  IF left <= 1 THEN DeleteInput(less, i) ELSE less

(* The previous owner of a feature loses it, and goes with its last one. *)
LoseFeature(st, i) ==
    IF ~st.corpus[i].enabled THEN st
    ELSE LET left == st.corpus[i].features - 1
             less == [st EXCEPT !.corpus[i].features = left]
         IN  IF left = 0 THEN DeleteInput(less, i) ELSE less

(* Mutant of AddFeature: the loser keeps its count. *)
AddFeatureKeepsCount(st, f, size) ==
    LET s == f % FeatureSetSize
        old == st.sizes[s]
    IN  IF old = 0 \/ (Shrink /\ old > size)
        THEN [st EXCEPT !.updated = @ + 1, !.uniq = @ \cup {f},
                        !.smallest[s] = Len(st.corpus) + 1, !.sizes[s] = size]
        ELSE st

(* Mutant of AddFeature: a smaller value does not take a feature over. *)
AddFeatureFirstOnly(st, f, size) ==
    LET s == f % FeatureSetSize
    IN  IF st.sizes[s] = 0
        THEN [st EXCEPT !.updated = @ + 1, !.uniq = @ \cup {f},
                        !.smallest[s] = Len(st.corpus) + 1, !.sizes[s] = size]
        ELSE st

(* Corpus indices count from 1 here, from 0 in the code. *)
AddFeature(st, f, size) ==
    LET s == f % FeatureSetSize
        old == st.sizes[s]
        lost == IF old > 0 THEN LoseFeature(st, st.smallest[s]) ELSE st
    IN  IF old = 0 \/ (Shrink /\ old > size)
        THEN [lost EXCEPT !.updated = @ + 1, !.uniq = @ \cup {f},
                          !.smallest[s] = Len(st.corpus) + 1, !.sizes[s] = size]
        ELSE st

(* ForEachNonZeroByte: the features of an execution in ascending order. *)
Walk(st, features, offset, size) ==
    LET after[n \in 0 .. ModuleSize] ==
            IF n = 0 THEN st
            ELSE IF n - 1 \in features THEN AddFeature(after[n - 1], n - 1 + offset, size)
            ELSE after[n - 1]
    IN  after[ModuleSize]

Now == [corpus |-> corpus, infos |-> infos, sizes |-> sizes, smallest |-> smallest,
        needs |-> needs_update, updated |-> 0, uniq |-> {}]

CollectFeatures(c, features, offset) == Walk(Now, features, offset, SizeOf[c])

(* reduce_inputs: features of this run that the shared result already had. *)
FoundUnique(features) ==
    IF ~ReduceInputs \/ result.never_reduce THEN 0 ELSE Cardinality(features \cap result.uniq)

-----------------------------------------------------------------------------
(* hashed.find: one of the records of a name. *)
FindIn(same) == CHOOSE i \in same : TRUE

(* corpus::AddToCorpus.  The name stays what it is when the shared result has
   one; a record of that name, the one that find yields, is cleared before r is
   appended. *)
AppendToCorpus(st, r) ==
    LET same == {i \in DOMAIN st.corpus : st.corpus[i].name = r.name}
        wiped == IF same = {} THEN {} ELSE {FindIn(same)}
        cleared == [i \in DOMAIN st.corpus |-> IF i \in wiped THEN InputInfo ELSE st.corpus[i]]
    IN  [st EXCEPT !.corpus = Append(cleared, r),
                   !.infos = (@ \ wiped) \cup {r.id}]

(* corpus::replaceCorpus: the record of the result's own id is overwritten. *)
ReplaceInCorpus(st, r) ==
    IF r.id \in DOMAIN st.corpus THEN [st EXCEPT !.corpus[r.id] = r, !.infos = @ \cup {r.id}]
    ELSE LET n == [r EXCEPT !.id = Len(st.corpus) + 1]
         IN  [st EXCEPT !.corpus = Append(@, n), !.infos = @ \cup {n.id}]

(* execute and executor::AddToCorpus: the shared result and the state st, which
   collect_features left, after the value c was run.  A SHA1 name is <<content>>. *)
AddToCorpus(c, st, uniq, found, force, strict_match) ==
    LET run == [result EXCEPT !.enabled = TRUE, !.features = st.updated,
                              !.uniq = uniq, !.found = found]
        named == [run EXCEPT !.content = c, !.size = SizeOf[c],
                             !.name = IF @ = <<>> THEN <<c>> ELSE @,
                             !.never_reduce = force]
        same_set == run.id \in DOMAIN st.corpus /\ st.corpus[run.id].uniq = uniq
    IN  CASE st.updated > 0 \/ force ->
                 LET r == [named EXCEPT !.added = st.updated > 0, !.id = Len(st.corpus) + 1]
                 IN  [state |-> [AppendToCorpus(st, r) EXCEPT !.needs = TRUE], result |-> r]
          [] OTHER ->
                 IF /\ found > 0 /\ found = Cardinality(uniq) /\ run.size > SizeOf[c]
                    /\ strict_match => same_set
                 THEN LET r == [named EXCEPT !.added = TRUE]
                      IN  [state |-> ReplaceInCorpus(st, r), result |-> r]
                 ELSE [state |-> st, result |-> [run EXCEPT !.added = FALSE]]

(* What target t shows of the value c. *)
Shown(c, t) == IF <<c, t>> \in DOMAIN reach THEN {reach[<<c, t>>]} ELSE SUBSET Features

(* The state after target t ran the value c, showed features and fb came of it. *)
Apply(c, t, features, fb) ==
    /\ reach' = [k \in DOMAIN reach \cup {<<c, t>>} |->
                    IF k = <<c, t>> THEN features ELSE reach[k]]
    /\ corpus' = fb.state.corpus /\ infos' = fb.state.infos
    /\ sizes' = fb.state.sizes /\ smallest' = fb.state.smallest
    /\ needs_update' = fb.state.needs
    /\ result' = fb.result

(* One execution of the value c. *)
ExecuteAndFeedback(c, force) ==
    \E features \in Shown(c, 0) :
        LET st == CollectFeatures(c, features, 0)
        IN  Apply(c, 0, features,
                  AddToCorpus(c, st, st.uniq, FoundUnique(features), force, FALSE))

-----------------------------------------------------------------------------
(* for_each_initial_input: force_add_to_corpus is set. *)
Initialize ==
    /\ lpc = "init" /\ initial /= <<>>
    /\ input' = Head(initial) /\ initial' = Tail(initial)
    /\ ExecuteAndFeedback(Head(initial), TRUE)
    /\ UNCHANGED <<lpc, dist, retries, count, last_update, max_input_size, solutions>>

InitializeDone ==
    /\ lpc = "init" /\ initial = <<>>
    /\ lpc' = "update"
    /\ UNCHANGED <<initial, corpus, infos, sizes, smallest, needs_update, dist, input,
                   result, retries, count, last_update, max_input_size, reach, solutions>>

(* Mutant of Weighted: every enabled record weighs something. *)
WeightedIfEnabled == {i \in DOMAIN corpus : corpus[i].enabled}

(* GenerateVanillaSchedule: only records that own features weigh anything; when
   none does, every record weighs 1. *)
Weighted == {i \in DOMAIN corpus : corpus[i].features > 0}

(* assert(corpus_size) *)
UpdateDistribution ==
    /\ lpc = "update" /\ corpus /= <<>>
    /\ dist' = IF ~needs_update THEN dist
               ELSE IF Weighted = {} THEN DOMAIN corpus ELSE Weighted
    /\ needs_update' = FALSE
    /\ lpc' = "length"
    /\ UNCHANGED <<initial, corpus, infos, sizes, smallest, input, result, retries,
                   count, last_update, max_input_size, reach, solutions>>

(* lflog is the integer logarithm to base 2; count outruns len_control times it
   before the limit is raised.  It is the last node of runone, after which
   OneLoop compares count with total_cycles; the initialization, which has no
   such node, passes with count 0. *)
Log2(n) == CHOOSE k \in 0 .. n : 2 ^ k <= n /\ n < 2 ^ (k + 1)

UpdateMaxLengthUntil(cycles) ==
    /\ lpc = "length"
    /\ IF /\ LenControl > 0 /\ max_input_size < MaxLength
          /\ count - last_update > LenControl * Log2(max_input_size)
       THEN /\ max_input_size' = Cut(MaxLength, max_input_size + Log2(max_input_size))
            /\ last_update' = count
       ELSE UNCHANGED <<max_input_size, last_update>>
    /\ lpc' = IF count > 0 /\ cycles >= 0 /\ count >= cycles
              THEN "end" ELSE "select"
    /\ UNCHANGED <<initial, corpus, infos, sizes, smallest, needs_update, dist, input,
                   result, retries, count, reach, solutions>>

UpdateMaxLength == UpdateMaxLengthUntil(TotalCycles)

(* choose_random_seed, for the crossover and for the input; the second one
   leaves the shared result empty. *)
SelectSeed ==
    /\ lpc = "select"
    /\ \E i \in dist : input' = IF corpus[i].enabled THEN corpus[i].content ELSE None
    /\ result' = InputInfo /\ retries' = 0
    /\ lpc' = "mutate"
    /\ UNCHANGED <<initial, corpus, infos, sizes, smallest, needs_update, dist, count,
                   last_update, max_input_size, reach, solutions>>

(* mutation_loop gives up after mutation_depth tries, so that the value may be
   the seed itself; a mutator's output respects max_input_size, and an input
   that is longer than that is only ever shortened (LfMutation). *)
MutateTo(next) ==
    /\ lpc = "mutate"
    /\ \E c \in {d \in Contents : SizeOf[d] <= max_input_size}
                 \cup {d \in Contents : input /= None /\ SizeOf[d] < SizeOf[input]}
                 \cup ({input} \ {None}) :
           input' = c
    /\ lpc' = next
    /\ UNCHANGED <<initial, corpus, infos, sizes, smallest, needs_update, dist, result,
                   retries, count, last_update, max_input_size, reach, solutions>>

MutateInput == MutateTo("execute")

(* execute and feedback, then new_cov with add_to_solution, increment_counter
   and the exit of local_loop. *)
RunInput ==
    /\ lpc = "execute"
    /\ ExecuteAndFeedback(input, FALSE)
    /\ count' = count + 1 /\ retries' = retries + 1
    /\ \E crashed \in BOOLEAN :
           solutions' = IF result'.added /\ crashed
                        THEN solutions \cup {result'.name} ELSE solutions
    /\ last_update' = IF result'.added THEN count ELSE last_update
    /\ lpc' = IF \/ result'.added \/ retries' = RetryCount
                 \/ ReduceDepth /\ result'.found = 0
              THEN "update" ELSE "mutate"
    /\ UNCHANGED <<initial, dist, input, max_input_size>>

LNext ==
    \/ Initialize \/ InitializeDone \/ UpdateDistribution \/ UpdateMaxLength
    \/ SelectSeed \/ MutateInput \/ RunInput

-----------------------------------------------------------------------------
Owned(i) == {s \in Slots : sizes[s] > 0 /\ smallest[s] = i}

(* replaceCorpus writes a count of 0 over that of a record which owns features.
   With shrink a shorter value takes them over instead, and without reduce_inputs
   it is never called. *)
CountsKept == Shrink \/ ~ReduceInputs

(* features_count of an enabled record is the number of features it owns, over
   all the additions, take-overs and deletions: AddFeature asserts it is
   positive before it counts down. *)
OwnerCounts ==
    CountsKept =>
        \A i \in DOMAIN corpus : corpus[i].enabled => corpus[i].features = Cardinality(Owned(i))

(* SelectSeed dereferences the data of an enabled record without a test. *)
EnabledHaveData == \A i \in DOMAIN corpus : corpus[i].enabled <=> i \in infos

(* A seed that is drawn is a record, and one that still owns a feature, unless
   no record owns one: no change of the corpus since the distribution was built
   went unnoticed. *)
DrawnOwnFeatures ==
    lpc = "select" =>
        /\ dist \subseteq DOMAIN corpus
        /\ CountsKept => \/ \A i \in dist : corpus[i].features > 0
                         \/ \A i \in DOMAIN corpus : corpus[i].features = 0

(* Every feature that some execution showed is held at the size of a value that
   shows it, with shrink of the smallest one executed so far. *)
SmallestSize ==
    \A s \in Slots :
        LET shown == {k \in DOMAIN reach : \E f \in reach[k] :
                          (f + k[2] * ModuleSize) % FeatureSetSize = s}
        IN  IF shown = {} THEN sizes[s] = 0
            ELSE /\ \E k \in shown : sizes[s] = SizeOf[k[1]]
                 /\ Shrink => \A k \in shown : sizes[s] <= SizeOf[k[1]]

(* A feature with an enabled owner keeps one: a record is deleted only when
   others own all it owned.  The one exception is the record that AddToCorpus
   clears because the appended one bears its name, as all initial inputs do and
   the targets of a Nezha run, but no value that libFuzzer mutates. *)
OwnersStayEnabled ==
    [\A s \in Slots :
        sizes[s] > 0 /\ corpus[smallest[s]].enabled =>
            \/ corpus'[smallest'[s]].enabled
            \/ /\ lpc /= "execute" /\ Len(corpus') > Len(corpus)
               /\ corpus[smallest[s]].name = corpus'[Len(corpus')].name]_lVars
=============================================================================
