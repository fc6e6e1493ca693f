-------------------------------- MODULE Ijon ---------------------------------
(***************************************************************************)
(* IJON: the PUT reports a value for each of a few slots, and the fuzzer   *)
(* keeps, for each slot, an input that reached the greatest value seen.    *)
(* A loop either runs AFL's flow or mutates one of these inputs; both end  *)
(* every execution with UpdateMax.                                         *)
(***************************************************************************)
EXTENDS Naturals, Sequences, FiniteSets, SequencesExt

CONSTANTS
    MaxSlots,            \* indexes of the maxima, 0..MaxMapSize - 1
    Inputs,              \* inputs
    InputLen(_),         \* their length
    Reached(_, _),       \* the value an input reaches for a slot
    MinifyLen,           \* 512: shorter inputs do not replace one of the same value
    MaxTries             \* bound: executions of one loop

ASSUME IjonAssumption ==
    /\ MaxSlots \subseteq Nat /\ IsFiniteSet(MaxSlots) /\ MinifyLen \in Nat /\ MaxTries \in Nat
    /\ \A x \in Inputs : InputLen(x) \in Nat /\ \A i \in MaxSlots : Reached(x, i) \in Nat

Nothing == "nothing"
ASSUME NothingIsNoInput == Nothing \notin Inputs

VARIABLES
    max_map,             \* the greatest value of each slot
    all_inputs,          \* the file of each slot
    known_len,           \* what GetLen says of it: the length when it was loaded last
    nonempty_inputs,     \* the slots that have an input, in the order they got it
    ijon_flow,           \* "idle", "afl" or "ijon"
    max_selected,        \* the slot whose input is mutated, and is loaded
    max_base,            \* the mutator's copy of it
    tried,               \* executions of this loop
    seen                 \* history: the inputs whose maxima were looked at

ijonLoop == <<ijon_flow, max_selected, max_base, tried>>
ijonVars == <<max_map, all_inputs, known_len, nonempty_inputs, ijonLoop, seen>>

\* OneLoop: IjonShouldSchedule may say yes only when some slot has an input.
AflFlow ==
    /\ ijon_flow = "idle" /\ ijon_flow' = "afl" /\ tried' = 0
    /\ UNCHANGED <<max_map, all_inputs, known_len, nonempty_inputs, max_selected, max_base, seen>>

SelectMax ==
    /\ ijon_flow = "idle" /\ nonempty_inputs # <<>>
    /\ ijon_flow' = "ijon" /\ tried' = 0
    /\ \E n \in DOMAIN nonempty_inputs :
          LET i == nonempty_inputs[n]
          IN  /\ max_selected' = i /\ max_base' = all_inputs[i]
              /\ known_len' = [known_len EXCEPT ![i] = InputLen(all_inputs[i])]
    /\ UNCHANGED <<max_map, all_inputs, nonempty_inputs, seen>>

Greater(x, i) == Reached(x, i) > max_map[i]

\* The input is shorter than the length that is known of the stored one.
Shorter(x, i) ==
    InputLen(x) > MinifyLen /\ Reached(x, i) = max_map[i] /\ InputLen(x) < known_len[i]

\* Mutant: the slot is listed each time its value grows.
PushedAlways(x) == SetToSeq({i \in MaxSlots : Greater(x, i)})

\* The slots that get their first input, in the order of the loop: the n-th has n - 1 of
\* them before it.
Pushed(x) ==
    LET new == {i \in MaxSlots : Greater(x, i) /\ max_map[i] = 0}
    IN  [n \in 1..Cardinality(new) |-> CHOOSE i \in new : Cardinality({j \in new : j < i}) = n - 1]

\* Mutant: an input that equals the greatest value but is longer replaces the stored one,
\* and the value is not looked at.
StoredAnyShort(x, i) == Greater(x, i) \/ (InputLen(x) > MinifyLen /\ InputLen(x) < known_len[i])

\* StoreMaxInput is called: the file is overwritten and unloaded, the known length stays.
Stored(x, i) == Greater(x, i) \/ Shorter(x, i)

UpdateMax(x) ==
    /\ nonempty_inputs' = nonempty_inputs \o Pushed(x)
    /\ max_map' = [i \in MaxSlots |-> IF Greater(x, i) THEN Reached(x, i) ELSE max_map[i]]
    /\ all_inputs' = [i \in MaxSlots |-> IF Stored(x, i) THEN x ELSE all_inputs[i]]
    /\ seen' = seen \cup {x}

\* One execution; a run that ended otherwise than crash_mode does not reach UpdateMax's
\* loop, nor does one after which NormalUpdate gives the seed up.
Execute(x, regular) ==
    /\ ijon_flow # "idle" /\ tried < MaxTries
    /\ tried' = tried + 1
    /\ IF regular THEN UpdateMax(x)
       ELSE UNCHANGED <<nonempty_inputs, max_map, all_inputs, seen>>
    /\ UNCHANGED <<known_len, ijon_flow, max_selected, max_base>>

\* The end of the loop; SelectSeed unloads its input, which may be another one by now.
LoopEnds ==
    /\ ijon_flow # "idle" /\ ijon_flow' = "idle"
    /\ max_base' = Nothing
    /\ UNCHANGED <<max_map, all_inputs, known_len, nonempty_inputs, max_selected, tried, seen>>

IjonInit ==
    /\ max_map = [i \in MaxSlots |-> 0] /\ all_inputs = [i \in MaxSlots |-> Nothing]
    /\ known_len = [i \in MaxSlots |-> 0] /\ nonempty_inputs = <<>>
    /\ ijon_flow = "idle" /\ max_selected = 0 /\ max_base = Nothing /\ tried = 0
    /\ seen = {}

IjonNext ==
    \/ AflFlow \/ SelectMax \/ LoopEnds
    \/ \E x \in Inputs, regular \in BOOLEAN : Execute(x, regular)

IjonSpec == IjonInit /\ [][IjonNext]_ijonVars

-----------------------------------------------------------------------------
(* Properties.                                                             *)

\* The list that SelectSeed draws from holds each slot that has an input once, so that it
\* never loads a file that does not exist and no slot is drawn more often than another.
NonemptyExact ==
    /\ IsInjective(nonempty_inputs)
    /\ Range(nonempty_inputs) = {i \in MaxSlots : all_inputs[i] # Nothing}
    /\ ijon_flow = "ijon" => max_base # Nothing

\* The file of a slot holds an input that reaches the slot's value, and that value is the
\* greatest seen, although a file is replaced for its length as well.
StoredReaches ==
    \A i \in MaxSlots :
        /\ all_inputs[i] # Nothing => Reached(all_inputs[i], i) = max_map[i]
        /\ \A x \in seen : Reached(x, i) <= max_map[i]
=============================================================================
