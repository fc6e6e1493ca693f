--------------------------- MODULE VuzzerMutator ----------------------------
(***************************************************************************)
(* VUzzerMutator: how MutateRandom, TaintBasedChange and CrossOver treat   *)
(* the buffer of an input.  The bytes are left out; what is kept is len,   *)
(* the size of the allocation behind outbuf, and every offset.  An access  *)
(* outside is undefined: the model notes in which situation it happens     *)
(* and goes no further.                                                    *)
(*                                                                         *)
(* A mutator is the set of its outcomes [len, cap, ok].                    *)
(***************************************************************************)
EXTENDS Integers, FiniteSets, FiniteSetsExt

CONSTANTS
    VmLens,           \* lengths of the parents
    TaintOffsets,     \* offsets the taint information can name
    Denominator,      \* 50 in the code
    RandomLens,       \* lengths of TotallyRandom: 100 .. 1000
    WordLens,         \* lengths of the words of unique_bytes_dict, of the values of TaintBasedChange
    VmMaxLen,         \* bound: no longer input is made
    MaxCalls,         \* bound: calls that DoubleFuzz has left to make
    MaxSlide          \* bound: int_slide_pos

ASSUME VuzzerMutatorAssumption ==
    /\ VmLens \subseteq Nat \ {0} /\ WordLens \subseteq Nat \ {0} /\ RandomLens \subseteq Nat \ {0}
    /\ TaintOffsets \subseteq Nat /\ {Denominator, VmMaxLen, MaxCalls, MaxSlide} \subseteq Nat \ {0}

VARIABLES
    vm_pc,            \* "idle", "mutate", "taint" or "wild"
    vm_len, vm_cap,   \* len, and the size of what outbuf points to
    vm_calls,         \* mutators that still have to be called
    vm_slide,         \* int_slide_pos
    vm_parents, vm_children,  \* lengths of the last crossover
    vm_why            \* the situation of an access outside: "no", "empty", "short" or "other"

vmVars == <<vm_pc, vm_len, vm_cap, vm_calls, vm_slide, vm_parents, vm_children, vm_why>>

VmInit ==
    /\ vm_pc = "idle" /\ vm_len = 0 /\ vm_cap = 0 /\ vm_calls = 0 /\ vm_slide = 0
    /\ vm_parents = <<0, 0>> /\ vm_children = <<0, 0>> /\ vm_why = "no"

-----------------------------------------------------------------------------
Outcome(len, cap, ok) == [len |-> len, cap |-> cap, ok |-> ok]

(* len - size is a u32: below zero it wraps, and any offset is below it. *)
WrappedPos == VmMaxLen + 1

GetCutPos(limit) ==
    IF limit < 0 THEN TaintOffsets \cup {0, WrappedPos} ELSE IF limit = 0 THEN {0} ELSE 0 .. limit - 1

(* At most a Denominator-th of the input, at least one byte. *)
CutSizes(len) == 1 .. Max({1, len \div Denominator})

CutOut(len, cap, pos, n) == Outcome(len - n, cap, pos + n = len \/ (pos + n < len /\ len <= cap))
PutIn(len, cap, pos, n) == Outcome(len + n, len + n, pos <= len /\ len <= cap)
Overlay(len, cap, pos, n) == Outcome(len, cap, pos + n <= len /\ pos + n <= cap)

EliminateRandom(len, cap) ==
    UNION {{CutOut(len, cap, pos, n) : pos \in GetCutPos(len - n)} : n \in CutSizes(len)}

(* Nothing, or bytes at some of the offsets below len. *)
ChangeBytes(len, cap) ==
    {Outcome(len, cap, TRUE)} \cup {Outcome(len, cap, pos < cap) : pos \in {p \in TaintOffsets : p < len}}

(* Both end with ChangeBytes. *)
ThenChangeBytes(outcomes) ==
    UNION {{[e EXCEPT !.ok = @ /\ o.ok] : e \in ChangeBytes(o.len, o.cap)} : o \in outcomes}

AddRandom(len, cap) ==
    ThenChangeBytes(UNION {{PutIn(len, cap, pos, n) : pos \in GetCutPos(len - n)} : n \in CutSizes(len)})

ChangeRandom(len, cap) ==
    ThenChangeBytes(UNION {{Overlay(len, cap, pos, n) : pos \in GetCutPos(len - n)} : n \in CutSizes(len)})

(* Two words of unique_bytes_dict, the second behind the first. *)
TwoWords(len, cap) ==
    {LET one == PutIn(len, cap, pos[1], word[1])
         two == PutIn(one.len, one.cap, pos[2] + word[1], word[2])
     IN  [two EXCEPT !.ok = @ /\ one.ok]
        : pos \in {p \in (1 .. len - 1) \X (1 .. len - 1) : p[1] <= p[2]},
          word \in WordLens \X WordLens}

(* Bytes of full_bytes_dict are inserted, or bytes of all_dicts replace as many. *)
PieceOfDict(len, cap) ==
    UNION {{PutIn(len, cap, pos, n) : pos \in GetCutPos(len - n)}
              \cup {Overlay(len, cap, pos, n) : pos \in GetCutPos(len - n)} : n \in CutSizes(len)}

ChangeRandomFull(len, cap) ==
    PieceOfDict(len, cap) \cup (IF len <= 3 THEN {} ELSE TwoWords(len, cap))

(* SingleChangeRandom, LowerSingleRandom, RaiseSingleRandom: a byte at 0 .. len - 1 *)
ChangeSingle(len, cap) ==
    IF len = 0 THEN {Outcome(len, cap, FALSE)} ELSE {Outcome(len, cap, pos < cap) : pos \in 0 .. len - 1}

(* The search reads from a start in 0 .. len to the end. *)
EliminateNull(len, cap) == {Outcome(len, cap, start = len \/ len <= cap) : start \in 0 .. len}

(* The start is drawn from 0 .. len - 1, and a pair is looked for before the last byte. *)
EliminateDoubleNull(len, cap) ==
    IF len = 0 THEN {Outcome(len, cap, FALSE)}
    ELSE {Outcome(len, cap, start + 2 >= len \/ len <= cap) : start \in 0 .. len - 1}

(* len stays. *)
TotallyRandom(len, cap) == {Outcome(len, n, TRUE) : n \in RandomLens}

(* Mutant of IntSlide: the last place that has room for four bytes is missed
   by one on the other side. *)
IntSlideLate(len, cap) ==
    IF len < 4 THEN {Outcome(len, len, TRUE)}
    ELSE LET start == vm_slide % len
         IN  {IF start > len - 3 THEN Outcome(start + 4, start + 4, len <= cap)
              ELSE Overlay(len, cap, start, 4)}

(* A word of four bytes at int_slide_pos; near the end the buffer grows. *)
IntSlide(len, cap) ==
    IF len < 4 THEN {Outcome(len, len, TRUE)}
    ELSE LET start == vm_slide % len
         IN  {IF start > len - 4 THEN Outcome(start + 4, start + 4, start <= cap)
              ELSE Overlay(len, cap, start, 4)}

InsertWithOnebyteOverwrite(len, cap, pos, n) ==
    Outcome(len + n - 1, len + n - 1, IF pos = len - 1 THEN pos <= cap ELSE pos < len /\ len <= cap)

-----------------------------------------------------------------------------
(* An access outside ends what can be said of the program. *)
WildWhy(o) == IF o.ok THEN "no" ELSE IF vm_len = 0 THEN "empty" ELSE IF vm_cap < vm_len THEN "short" ELSE "other"

(* An outcome; next is where the control goes when its accesses are inside. *)
ApplyOutcome(outcomes, calls, next) ==
    \E o \in {e \in outcomes : ~e.ok \/ e.len <= VmMaxLen} :
        /\ vm_why' = WildWhy(o)
        /\ IF o.ok THEN vm_len' = o.len /\ vm_cap' = o.cap ELSE UNCHANGED <<vm_len, vm_cap>>
        /\ vm_calls' = calls
        /\ vm_pc' = IF o.ok THEN next ELSE "wild"
        /\ UNCHANGED <<vm_parents, vm_children>>

(* One of mutators[] is called. *)
CallMutator(outcomes) ==
    /\ vm_pc = "mutate" /\ vm_calls > 0
    /\ ApplyOutcome(outcomes, vm_calls - 1, "mutate")

DoubleFuzz ==
    /\ vm_pc = "mutate" /\ vm_calls \in 1 .. MaxCalls - 1
    /\ vm_calls' = vm_calls + 1
    /\ UNCHANGED <<vm_pc, vm_len, vm_cap, vm_slide, vm_parents, vm_children, vm_why>>

(* The loop of MutateRandom. *)
MutateRandomEnds ==
    /\ vm_pc = "mutate" /\ vm_calls = 0
    /\ IF vm_len < 3 THEN vm_calls' = 1 /\ UNCHANGED vm_pc ELSE vm_pc' = "taint" /\ UNCHANGED vm_calls
    /\ UNCHANGED <<vm_len, vm_cap, vm_slide, vm_parents, vm_children, vm_why>>

(* TaintBasedChange overwrites at some of the offsets below len, each time with
   the length as it then is. *)
TaintBasedChange ==
    /\ vm_pc = "taint"
    /\ \E pos \in {p \in TaintOffsets : p < vm_len}, n \in WordLens :
           ApplyOutcome({InsertWithOnebyteOverwrite(vm_len, vm_cap, pos, n)}, 0, "taint")
    /\ UNCHANGED vm_slide

(* AddToQueue writes len bytes of outbuf. *)
AddMutant ==
    /\ vm_pc = "taint"
    /\ ApplyOutcome({Outcome(vm_len, vm_cap, vm_len <= vm_cap)}, 0, "idle")
    /\ UNCHANGED vm_slide

(* A new VUzzerMutator with a copy of the parent. *)
MutateParent ==
    /\ vm_pc = "idle"
    /\ vm_len' \in VmLens /\ vm_cap' = vm_len'
    /\ vm_calls' = 1 /\ vm_slide' = 0
    /\ vm_pc' = "mutate"
    /\ UNCHANGED <<vm_parents, vm_children, vm_why>>

(* Mutant of SingleCrossOver: each parent is cut at a point of its own. *)
SingleCrossOverTwoPoints(len1, len2) ==
    {<<(p * len1) \div 10 + len2 - (p * len2) \div 10, (5 * len2) \div 10 + len1 - (5 * len1) \div 10>> : p \in 1 .. 5}

(* Both are cut at the same tenth, and the tails are swapped. *)
SingleCrossOver(len1, len2) ==
    {LET cut1 == (p * len1) \div 10
         cut2 == (p * len2) \div 10
     IN  <<cut1 + (len2 - cut2), cut2 + (len1 - cut1)>> : p \in 1 .. 5}

(* The middles between two cuts are swapped. *)
DoubleCrossOver(len1, len2) ==
    {LET mid1 == (q * len1) \div 10 - (p * len1) \div 10
         mid2 == (q * len2) \div 10 - (p * len2) \div 10
     IN  <<len1 - mid1 + mid2, len2 - mid2 + mid1>> : p \in 1 .. 2, q \in 6 .. 7}

(* One of the two children goes on, with or without MutateRandom. *)
CrossParents ==
    /\ vm_pc = "idle"
    /\ vm_parents' \in VmLens \X VmLens
    /\ vm_children' \in SingleCrossOver(vm_parents'[1], vm_parents'[2])
                        \cup DoubleCrossOver(vm_parents'[1], vm_parents'[2])
    /\ \E child \in 1 .. 2 : vm_len' = vm_children'[child]
    /\ vm_cap' = vm_len' /\ vm_slide' = 0
    /\ \/ vm_pc' = "mutate" /\ vm_calls' = 1
       \/ vm_pc' = "taint" /\ vm_calls' = 0
    /\ UNCHANGED vm_why

VmNext ==
    \/ MutateParent \/ CrossParents
    \/ /\ \/ CallMutator(EliminateRandom(vm_len, vm_cap))
          \/ CallMutator(ChangeBytes(vm_len, vm_cap))
          \/ CallMutator(AddRandom(vm_len, vm_cap))
          \/ CallMutator(ChangeRandom(vm_len, vm_cap))
          \/ CallMutator(ChangeSingle(vm_len, vm_cap))
          \/ CallMutator(EliminateNull(vm_len, vm_cap))
          \/ CallMutator(EliminateDoubleNull(vm_len, vm_cap))
          \/ CallMutator(TotallyRandom(vm_len, vm_cap))
          \/ CallMutator(ChangeRandomFull(vm_len, vm_cap))
       /\ UNCHANGED vm_slide
    \/ vm_slide < MaxSlide /\ CallMutator(IntSlide(vm_len, vm_cap)) /\ vm_slide' = vm_slide + (IF vm_len >= 4 THEN 1 ELSE 0)
    \/ DoubleFuzz \/ MutateRandomEnds \/ TaintBasedChange \/ AddMutant

-----------------------------------------------------------------------------
(* Every offset is inside of the buffer but in two situations, which the code
   does not look for: eliminations that MutateRandom repeats have emptied the
   input, and TotallyRandom has put fewer bytes behind it than len says. *)
WildOnlyKnown == vm_why /= "other"

(* A crossover loses no byte and doubles none, and leaves no child empty. *)
CrossKeepsLength ==
    /\ vm_children[1] + vm_children[2] = vm_parents[1] + vm_parents[2]
    /\ vm_parents[1] > 0 => vm_children[1] > 0 /\ vm_children[2] > 0
=============================================================================
