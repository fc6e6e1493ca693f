------------------------------- MODULE Nezha -------------------------------
(***************************************************************************)
(* fuzzuf's Nezha: libFuzzer's loop in which every mutated input is run on *)
(* several target executables.  Each target collects features above an     *)
(* offset of its own and may add the input to the one corpus; afterwards   *)
(* AddToSolution saves the input when the targets disagreed about it in a  *)
(* way not seen before.  The shared exec_result, the corpus and the        *)
(* distribution are those of LibFuzzer; the initialization is libFuzzer's  *)
(* own and runs the first target only.                                     *)
(***************************************************************************)
EXTENDS LibFuzzer

CONSTANTS
    Targets,     \* number of target executables
    UseOutput,   \* use_output: compare outputs (TRUE) or exit statuses (FALSE)
    NezhaCycles, \* total_cycles of a Nezha campaign
    Results      \* hashes of outputs, or exit statuses, where 0 is FAULT_NONE

ASSUME NezhaAssumption ==
    /\ Targets \in Nat \ {0} /\ UseOutput \in BOOLEAN /\ NezhaCycles \in Int
    /\ Results \subseteq Nat

VARIABLES
    target,          \* the target that runs next
    added_by,        \* added_to_corpus of each target
    outcomes,        \* outputs or status, whichever the flow gathers
    known_traces,
    known_outcomes,  \* known_outputs or known_status
    diffs,           \* <<name, results of the targets>> of each solution written
    current          \* results of the targets for the input that runs now

nVars == <<target, added_by, outcomes, known_traces, known_outcomes, diffs, current>>

NezhaInit ==
    /\ LInit
    /\ target = 0 /\ added_by = <<>> /\ outcomes = <<>> /\ current = <<>>
    /\ known_traces = {} /\ known_outcomes = {} /\ diffs = {}

-----------------------------------------------------------------------------
(* The nodes that Nezha shares with libFuzzer leave its own variables alone. *)
NezhaShared ==
    /\ Initialize \/ InitializeDone \/ UpdateDistribution
       \/ UpdateMaxLengthUntil(NezhaCycles) \/ SelectSeed
    /\ UNCHANGED nVars

(* Mutant of CreateOutputs: the outputs of earlier inputs stay. *)
OutputsKept == outcomes

(* create_outputs clears outputs; nothing clears status. *)
CreateOutputs == IF UseOutput THEN <<>> ELSE outcomes

(* mutation_loop, create_outputs and create_trace. *)
NezhaMutate ==
    /\ MutateTo("targets")
    /\ target' = 0 /\ added_by' = <<>> /\ current' = <<>>
    /\ outcomes' = CreateOutputs
    /\ UNCHANGED <<known_traces, known_outcomes, diffs>>

(* Features of target t lie above those of the targets before it. *)
ModuleOffset(t, features) == {f + t * ModuleSize : f \in features}

(* nezha::CollectFeatures counts every feature as unique to the input, when
   reduce_inputs is on. *)
RunSingleTarget ==
    /\ lpc = "targets" /\ target < Targets
    /\ \E features \in Shown(input, target), r \in Results :
           LET shown == IF ReduceInputs THEN ModuleOffset(target, features) ELSE {}
               st == CollectFeatures(input, features, target * ModuleSize)
               found == IF result.never_reduce THEN 0 ELSE Cardinality(shown)
           IN  /\ Apply(input, target, features, AddToCorpus(input, st, shown, found, FALSE, TRUE))
               /\ outcomes' = Append(outcomes, r)
               /\ current' = Append(current, r)
    /\ added_by' = Append(added_by, result'.added)
    /\ target' = target + 1
    /\ last_update' = IF result'.added THEN count ELSE last_update
    /\ UNCHANGED <<lpc, initial, dist, input, retries, count, max_input_size, solutions,
                   known_traces, known_outcomes, diffs>>

(* The targets disagree: two different outputs, or a zero and a nonzero status. *)
Disagree(o) ==
    IF UseOutput THEN Cardinality(ToSet(o)) >= 2
    ELSE 0 \in ToSet(o) /\ ToSet(o) \ {0} /= {}

(* Mutant of IsNew: both must be new. *)
BothNew == outcomes \notin known_outcomes /\ added_by \notin known_traces

IsNew == outcomes \notin known_outcomes \/ added_by \notin known_traces

(* AddToSolution, the exit of local_loop and, on the way out, increment_counter.
   The solution's name replaces that of the shared result. *)
NezhaAddToSolution ==
    LET saved == IsNew /\ Disagree(outcomes)
        done == \/ result.added \/ retries + 1 = RetryCount
                \/ ReduceDepth /\ result.found = 0
    IN  /\ lpc = "targets" /\ target = Targets
        /\ known_outcomes' = known_outcomes \cup {outcomes}
        /\ known_traces' = known_traces \cup {added_by}
        /\ diffs' = IF saved THEN diffs \cup {<<outcomes, current>>} ELSE diffs
        /\ result' = IF saved THEN [result EXCEPT !.name = <<"diff", outcomes>>] ELSE result
        /\ retries' = retries + 1
        /\ count' = IF done THEN count + 1 ELSE count
        /\ lpc' = IF done THEN "update" ELSE "mutate"
        /\ UNCHANGED <<initial, corpus, infos, sizes, smallest, needs_update, dist, input,
                       last_update, max_input_size, reach, solutions,
                       target, added_by, outcomes, current>>

NezhaNext == NezhaShared \/ NezhaMutate \/ RunSingleTarget \/ NezhaAddToSolution

NezhaSpec == NezhaInit /\ [][NezhaNext]_<<lVars, nVars>>

(* libFuzzer has none of Nezha's state. *)
LibFuzzerSpec == NezhaInit /\ [][LNext /\ UNCHANGED nVars]_<<lVars, nVars>>

-----------------------------------------------------------------------------
(* A solution is saved because of what the targets did with that very input:
   docs/algorithms/nezha/manual.md:52, "If 0, the exit status difference of each
   target are treated as differences of targets". *)
DiffIsOfThisInput == \A d \in diffs : Disagree(d[2])

(* No disagreement between the targets is lost: each one that was observed has
   its solution, however the traces repeat. *)
DisagreementsSaved ==
    \A o \in known_outcomes : Disagree(o) => \E d \in diffs : d[1] = o

(* libFuzzer's corpus: owners of features are counted and the smallest that have the
   feature, no step but the clearing of a namesake leaves a feature without one, and what
   is drawn can be used; Nezha saves the disagreements of its targets, and those of the
   input in hand only when it compares outputs. *)
CorpusSound ==
    /\ [](OwnerCounts /\ EnabledHaveData /\ DrawnOwnFeatures /\ SmallestSize)
    /\ []((UseOutput => DiffIsOfThisInput) /\ DisagreementsSaved)
    /\ [][OwnersStayEnabled]_lVars
=============================================================================
