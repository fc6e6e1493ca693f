------------------------------ MODULE Nautilus -------------------------------
(***************************************************************************)
(* Nautilus' fuzz loop: the queue with its index from bits to entries, the *)
(* classification of a run, and the stages an entry goes through           *)
(* (minimization, deterministic mutations, random mutations).              *)
(*                                                                         *)
(* A tree is its number of nodes (NautilusTree has the trees); an input is *)
(* a value of Code.  A run of the PUT sets any bits and ends in any way.   *)
(* Saved hangs and crashes and the counters on the screen are left out.    *)
(***************************************************************************)
EXTENDS Naturals, Sequences, FiniteSets, SequencesExt

CONSTANTS
    Bit,             \* bytes of the coverage map
    Code,            \* inputs
    MaxSize,         \* bound: nodes of a new tree
    MinimizeStep,    \* nodes minimized in one turn of an entry (200)
    DetMutations,    \* setting number_of_deterministic_mutations
    RingSize         \* inputs remembered as tried (10000)

ASSUME NautilusAssumption ==
    {MaxSize, MinimizeStep, RingSize} \subseteq Nat \ {0} /\ DetMutations \in Nat

VARIABLES
    inputs, processed,         \* the queue, the last element on top; finished entries
    bit_to_inputs,             \* ids of the entries that have a bit; {}: no key
    current_id,
    bitmaps,                   \* bits seen in crashing (TRUE) and other runs
    last_tried_inputs, last_inputs_ring_buffer,
    flow,                      \* the routine the flow is in
    item,                      \* the entry taken from the queue
    node,                      \* loop counter of a minimization
    min_simple                 \* result of MinimizeTree

queueVars == <<inputs, processed, bit_to_inputs, current_id>>
triedVars == <<last_tried_inputs, last_inputs_ring_buffer>>
nautilusVars == <<queueVars, bitmaps, triedVars, flow, item, node, min_simple>>

NoItem == [id |-> 0]

Indexed == {b \in Bit : bit_to_inputs[b] # {}}

-----------------------------------------------------------------------------
(* The queue.                                                              *)

\* Mutant of QueueAdd: one bit the index knows is enough to refuse an entry.
QueueAddAllNew(bits, size) ==
    IF bits \cap Indexed # {} THEN UNCHANGED queueVars
    ELSE /\ inputs' = Append(inputs, [id |-> current_id, bits |-> bits, fresh |-> bits \ Indexed,
                                      size |-> size, state |-> <<"init", 0>>])
         /\ bit_to_inputs' = [b \in Bit |-> IF b \in bits THEN bit_to_inputs[b] \cup {current_id}
                                            ELSE bit_to_inputs[b]]
         /\ current_id' = current_id + 1
         /\ UNCHANGED processed

\* Queue::Add, unless the index knows all the bits.
QueueAdd(bits, size) ==
    IF bits \subseteq Indexed THEN UNCHANGED queueVars
    ELSE /\ inputs' = Append(inputs, [id |-> current_id, bits |-> bits, fresh |-> bits \ Indexed,
                                      size |-> size, state |-> <<"init", 0>>])
         /\ bit_to_inputs' = [b \in Bit |-> IF b \in bits THEN bit_to_inputs[b] \cup {current_id}
                                            ELSE bit_to_inputs[b]]
         /\ current_id' = current_id + 1
         /\ UNCHANGED processed

\* Mutant of QueuePop: the id stays in the index.
QueuePopKeepsId ==
    /\ inputs # <<>>
    /\ item' = Last(inputs) /\ inputs' = Front(inputs)
    /\ UNCHANGED <<processed, current_id, bit_to_inputs>>

\* Queue::Pop takes the last entry and its id out of the index.
QueuePop ==
    /\ inputs # <<>>
    /\ item' = Last(inputs) /\ inputs' = Front(inputs)
    /\ bit_to_inputs' = [b \in Bit |-> bit_to_inputs[b] \ {Last(inputs).id}]
    /\ UNCHANGED <<processed, current_id>>

\* Mutant of QueueFinished: an entry that shares a bit is dropped.
QueueFinishedShared ==
    /\ IF item.bits \cap Indexed # {}
       THEN UNCHANGED <<processed, bit_to_inputs>>
       ELSE /\ processed' = Append(processed, item)
            /\ bit_to_inputs' = [b \in Bit |-> IF b \in item.bits
                                               THEN bit_to_inputs[b] \cup {item.id}
                                               ELSE bit_to_inputs[b]]
    /\ item' = NoItem
    /\ UNCHANGED <<inputs, current_id>>

\* Queue::Finished drops an entry that has no bit of its own any more.
QueueFinished ==
    /\ IF item.bits \subseteq Indexed
       THEN UNCHANGED <<processed, bit_to_inputs>>
       ELSE /\ processed' = Append(processed, item)
            /\ bit_to_inputs' = [b \in Bit |-> IF b \in item.bits
                                               THEN bit_to_inputs[b] \cup {item.id}
                                               ELSE bit_to_inputs[b]]
    /\ item' = NoItem
    /\ UNCHANGED <<inputs, current_id>>

QueueNewRound ==
    /\ inputs' = inputs \o processed /\ processed' = <<>>
    /\ UNCHANGED <<bit_to_inputs, current_id>>

-----------------------------------------------------------------------------
(* A run.                                                                  *)

\* RunOn: the run set bits and ended for a reason; of the new ones, stable stayed set
\* in five more runs.  A flaky bit is remembered as seen all the same.
RunOn(bits, crash, stable, size) ==
    LET new == bits \ bitmaps[crash]
    IN  /\ stable \subseteq new
        /\ bitmaps' = [bitmaps EXCEPT ![crash] = @ \cup new]
        /\ IF ~crash /\ stable # {} THEN QueueAdd(bits, size)
           ELSE UNCHANGED queueVars

\* The map the executor still shows after RunOn: that of the last run made.
LastBits(bits, crash, stable) ==
    IF ~crash /\ bits \ bitmaps[crash] # {}
    THEN {s \in SUBSET Bit : stable \subseteq s} ELSE {bits}

\* RunOnWithDedup of an input not known yet.  The deque is only filled when it is full.
NewInput(c) ==
    /\ c \notin last_tried_inputs
    /\ IF Len(last_inputs_ring_buffer) = RingSize
       THEN /\ last_tried_inputs' = (last_tried_inputs \cup {c}) \ {Last(last_inputs_ring_buffer)}
            /\ last_inputs_ring_buffer' = <<c>> \o Front(last_inputs_ring_buffer)
       ELSE /\ last_tried_inputs' = last_tried_inputs \cup {c}
            /\ UNCHANGED last_inputs_ring_buffer

\* A mutation stage tries a new input; inputs already tried leave no trace.
Try(c, bits, crash, stable, size) ==
    /\ flow \in {"generate", "rules", "splice", "havoc", "havoc_rec"}
    /\ NewInput(c) /\ RunOn(bits, crash, stable, size)
    /\ UNCHANGED <<flow, item, node, min_simple>>

-----------------------------------------------------------------------------
(* The flow.                                                               *)

SelectInput ==
    /\ flow = "select"
    /\ \/ inputs = <<>> /\ flow' = "generate" /\ UNCHANGED <<queueVars, item>>
       \/ QueuePop /\ flow' = CASE item'.state[1] = "init" -> "min_tree"
                                [] item'.state[1] = "det" -> "rules"
                                [] OTHER -> "splice"
    /\ node' = IF flow' = "min_tree" THEN item'.state[2] ELSE 0
    /\ UNCHANGED <<bitmaps, triedVars, min_simple>>

GenerateInputs ==
    /\ flow = "generate" /\ QueueNewRound /\ flow' = "select"
    /\ UNCHANGED <<bitmaps, triedVars, item, node, min_simple>>

EndIndex == item.state[2] + MinimizeStep

\* MinimizeTree and MinimizeRec end: after the last node, or with the turn of the entry.
MinimizeReturns(done, size) ==
    IF flow = "min_tree"
    THEN /\ flow' = "min_rec" /\ node' = item.state[2] /\ min_simple' = done
         /\ item' = [item EXCEPT !.size = size]
    ELSE /\ flow' = "finish" /\ node' = 0 /\ min_simple' = FALSE
         /\ item' = [item EXCEPT !.size = size, !.state = IF min_simple /\ done THEN <<"det", 0, 0>>
                                                          ELSE <<"init", EndIndex>>]

\* One turn of either loop: i is the node the loop goes on from, its end or its return.
MinimizeNext(i, size) ==
    IF i + 1 # EndIndex /\ i + 1 < size
    THEN node' = i + 1 /\ item' = [item EXCEPT !.size = size] /\ UNCHANGED <<flow, min_simple>>
    ELSE MinimizeReturns(i + 1 # EndIndex, size)

Minimizing == flow \in {"min_tree", "min_rec"}

\* The loop finds no node to look at, for instance because the tree shrank.
MinimizeNothing ==
    /\ Minimizing /\ node >= item.size
    /\ MinimizeReturns(TRUE, item.size)
    /\ UNCHANGED <<queueVars, bitmaps, triedVars>>

\* A node whose subtree is the smallest one, or that is no recursion.
MinimizeSkip ==
    /\ Minimizing /\ node < item.size /\ MinimizeNext(node, item.size)
    /\ UNCHANGED <<queueVars, bitmaps, triedVars>>

\* A smaller tree is run.  It replaces the entry's if it has all the fresh bits;
\* MinimizeRec then goes on from the parent.
MinimizeTest(bits, crash, stable, last, size, parent) ==
    /\ Minimizing /\ node < item.size
    /\ size < item.size /\ (flow = "min_tree" => size > node)
    /\ RunOn(bits, crash, stable, size) /\ last \in LastBits(bits, crash, stable)
    /\ IF item.fresh \subseteq last
       THEN MinimizeNext(IF flow = "min_rec" THEN parent ELSE node, size)
       ELSE MinimizeNext(node, item.size)
    /\ flow = "min_rec" => parent < node /\ size > parent
    /\ UNCHANGED triedVars

\* Mutant of MutRulesEnds: the next cycle is not counted.
MutRulesEndsSame ==
    /\ flow = "rules" /\ flow' = "splice"
    /\ item' = [item EXCEPT !.state =
                  LET start == item.state[3]
                  IN  IF start # item.size THEN <<"det", item.state[2], start + 1>>
                      ELSE <<"det", item.state[2], 0>>]
    /\ UNCHANGED <<queueVars, bitmaps, triedVars, node, min_simple>>

\* MutRules returned: the next node, the next cycle, or the random stage.
MutRulesEnds ==
    /\ flow = "rules" /\ flow' = "splice"
    /\ item' = [item EXCEPT !.state =
                  LET cycle == item.state[2]
                      start == item.state[3]
                  IN  IF start # item.size THEN <<"det", cycle, start + 1>>
                      ELSE IF cycle = DetMutations THEN <<"rand">> ELSE <<"det", cycle + 1, 0>>]
    /\ UNCHANGED <<queueVars, bitmaps, triedVars, node, min_simple>>

\* The end of MutSplice, MutHavoc and MutHavocRec.
StageEnds ==
    /\ flow \in {"splice", "havoc", "havoc_rec"}
    /\ flow' = [splice |-> "havoc", havoc |-> "havoc_rec", havoc_rec |-> "finish"][flow]
    /\ UNCHANGED <<queueVars, bitmaps, triedVars, item, node, min_simple>>

ProcessInputEnds ==
    /\ flow = "finish" /\ QueueFinished /\ flow' = "select"
    /\ UNCHANGED <<bitmaps, triedVars, node, min_simple>>

-----------------------------------------------------------------------------
NautilusInit ==
    /\ inputs = <<>> /\ processed = <<>> /\ current_id = 1
    /\ bit_to_inputs = [b \in Bit |-> {}]
    /\ bitmaps = [c \in BOOLEAN |-> {}]
    /\ last_tried_inputs = {} /\ last_inputs_ring_buffer = <<>>
    /\ flow = "select" /\ item = NoItem /\ node = 0 /\ min_simple = FALSE

NautilusNext ==
    \/ SelectInput \/ GenerateInputs
    \/ \E c \in Code, bits \in SUBSET Bit, crash \in BOOLEAN, size \in 1..MaxSize :
           \E stable \in SUBSET bits : Try(c, bits, crash, stable, size)
    \/ MinimizeNothing \/ MinimizeSkip
    \/ \E bits, last \in SUBSET Bit, crash \in BOOLEAN, size \in 1..MaxSize, parent \in 0..MaxSize :
           \E stable \in SUBSET bits : MinimizeTest(bits, crash, stable, last, size, parent)
    \/ MutRulesEnds \/ StageEnds \/ ProcessInputEnds

NautilusSpec == NautilusInit /\ [][NautilusNext]_nautilusVars

-----------------------------------------------------------------------------
(* Properties.                                                             *)

Entries == Range(inputs) \cup Range(processed)
Live == Entries \cup (IF item = NoItem THEN {} ELSE {item})

\* The index has exactly the ids of the entries in the queue that have the bit, also
\* after an entry was taken out while its own mutants were added.  Were an id left
\* behind, Finished would drop the last entry that has a bit.
IndexExact ==
    \A b \in Bit : bit_to_inputs[b] = {e.id : e \in {f \in Entries : b \in f.bits}}

\* A bit that an entry was added for is in some entry for ever: Finished drops an
\* entry only when others have all its bits.
CoverageKept ==
    [\A b \in Bit : (\E e \in Live : b \in e.bits) => (\E e \in Live' : b \in e.bits)]_nautilusVars

\* What RunOn finds interesting, Add never refuses: a stable new bit is in no entry.
FoundIsQueued ==
    [\A c \in Code, bits \in SUBSET Bit, size \in 1..MaxSize : \A stable \in (SUBSET bits) \ {{}} :
        Try(c, bits, FALSE, stable, size) => current_id' = current_id + 1]_nautilusVars

\* Nautilus' queue: its index is exact, and no step loses a bit or refuses an input that
\* found one.
QueueSound == []IndexExact /\ [][CoverageKept /\ FoundIsQueued]_nautilusVars

\* Every entry comes out of minimization and of the deterministic stage, although the
\* queue is a stack and new entries are put on top of it, or is dropped.
EntriesAdvance ==
    \A k \in 1..Cardinality(Bit) :
        (\E e \in Live : e.id = k) ~> (\A e \in Live : e.id = k => e.state = <<"rand">>)
=============================================================================
