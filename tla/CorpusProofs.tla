---------------------------- MODULE CorpusProofs -----------------------------
(***************************************************************************)
(* Proofs about the corpora: Nautilus' queue, for every set of coverage    *)
(* bits, number of entries and order of stages, and the corpus of          *)
(* libFuzzer and Nezha, for every set of inputs and features.              *)
(*                                                                         *)
(* That the index is exact is not inductive by itself. The entry in hand   *)
(* is in neither vector and not in the index, and comes back or is dropped *)
(* by its bits: so the invariant (QueueInv) says of the queue and of the   *)
(* entry in hand together that no two entries share an id, that ids are    *)
(* below the next one, and that their bits are known as seen. The action   *)
(* properties follow from it: what RunOn finds new is a bit no entry has.  *)
(*                                                                         *)
(* libFuzzer counts features up and down in three places: AddFeature, the  *)
(* record made of the value, and the clearing of records of the same name. *)
(* The invariant (CorpusInv) follows the tables through the walk of        *)
(* CollectFeatures (Collecting, Since), says what was executed so far      *)
(* (ReachRight) and that the record the shared result names is the one it  *)
(* describes (ResultIs), which is why replaceCorpus never drops an owner.  *)
(***************************************************************************)
EXTENDS Nautilus, Nezha, FiniteSetTheorems, SequenceTheorems, WellFoundedInduction, TLAPS

-----------------------------------------------------------------------------
(* Nautilus' queue.                                                        *)

EntryState ==
    {<<"rand">>} \cup {<<"init", k>> : k \in Nat} \cup {<<"det", c, k>> : c \in Nat, k \in Nat}

Entry == [id : Nat \ {0}, bits : SUBSET Bit, fresh : SUBSET Bit, size : Nat, state : EntryState]

Idle == {"select", "generate"}

\* The queue has entries, the flow has one in hand exactly while it processes it, and the
\* entry is in the state its stage expects.
QueueTypes ==
    /\ inputs \in Seq(Entry) /\ processed \in Seq(Entry)
    /\ bit_to_inputs \in [Bit -> SUBSET Nat]
    /\ current_id \in Nat \ {0}
    /\ bitmaps \in [BOOLEAN -> SUBSET Bit]
    /\ flow \in Idle \cup {"min_tree", "min_rec", "rules", "splice", "havoc", "havoc_rec", "finish"}
    /\ flow \in Idle => item = NoItem
    /\ flow \notin Idle => item \in Entry
    /\ flow \in {"min_tree", "min_rec"} => \E k \in Nat : item.state = <<"init", k>>
    /\ flow = "rules" => \E c, k \in Nat : item.state = <<"det", c, k>>

\* No two entries have the same id, in the queue or in hand.
IdsApart ==
    /\ \A i, j \in 1..Len(inputs) : inputs[i].id = inputs[j].id => i = j
    /\ \A i, j \in 1..Len(processed) : processed[i].id = processed[j].id => i = j
    /\ \A i \in 1..Len(inputs), j \in 1..Len(processed) : inputs[i].id # processed[j].id
    /\ item # NoItem => /\ \A i \in 1..Len(inputs) : inputs[i].id # item.id
                        /\ \A i \in 1..Len(processed) : processed[i].id # item.id
                        /\ item.id < current_id
    /\ \A i \in 1..Len(inputs) : inputs[i].id < current_id
    /\ \A i \in 1..Len(processed) : processed[i].id < current_id

\* The bits of an entry are all known as seen.
BitsSeen == \A e \in Live : e.bits \subseteq bitmaps[FALSE]

QueueInv == QueueTypes /\ IdsApart /\ BitsSeen /\ IndexExact

LEMMA EntriesAre ==
    ASSUME QueueTypes
    PROVE  /\ Entries = {inputs[k] : k \in 1..Len(inputs)} \cup {processed[k] : k \in 1..Len(processed)}
           /\ Entries \subseteq Entry
           /\ \A k \in 1..Len(inputs) : inputs[k] \in Entry
           /\ \A k \in 1..Len(processed) : processed[k] \in Entry
           /\ Len(inputs) \in Nat /\ Len(processed) \in Nat
  <1>1. inputs \in Seq(Entry) /\ processed \in Seq(Entry)
    BY DEF QueueTypes
  <1>2. DOMAIN inputs = 1..Len(inputs) /\ DOMAIN processed = 1..Len(processed)
    BY <1>1
  <1>3. Range(inputs) = {inputs[k] : k \in 1..Len(inputs)}
        /\ Range(processed) = {processed[k] : k \in 1..Len(processed)}
    BY <1>2 DEF Range
  <1>4. \A k \in 1..Len(inputs) : inputs[k] \in Entry
    BY <1>1
  <1>5. \A k \in 1..Len(processed) : processed[k] \in Entry
    BY <1>1
  <1> QED
    BY <1>1, <1>3, <1>4, <1>5 DEF Entries

LEMMA NoItemNoEntry == NoItem \notin Entry /\ \A e \in Entry : e.id \in Nat \ {0} /\ e.bits \in SUBSET Bit
  <1>1. NoItem.id = 0
    BY DEF NoItem
  <1>2. \A e \in Entry : e.id \in Nat \ {0} /\ e.bits \in SUBSET Bit
    BY DEF Entry
  <1> QED
    BY <1>1, <1>2

\* The entry in hand stays, or has a new tree or a new state.
SameHand ==
    \/ item' = item
    \/ item \in Entry /\ item' \in Entry /\ item'.id = item.id /\ item'.bits = item.bits

\* Every bit an entry has is a bit some entry has afterwards.
BitsStay == \A b \in Bit : (\E e \in Live : b \in e.bits) => (\E e \in Live' : b \in e.bits)

LEMMA SameHandIs ==
    ASSUME SameHand
    PROVE  /\ item' = NoItem <=> item = NoItem
           /\ item # NoItem => item'.id = item.id /\ item'.bits = item.bits
  BY NoItemNoEntry DEF SameHand

\* A step that leaves the queue alone and the entry in hand its id and its bits.
LEMMA HandKeeps ==
    ASSUME IdsApart, IndexExact, UNCHANGED queueVars, SameHand
    PROVE  /\ IdsApart' /\ IndexExact'
           /\ \A e \in Live' : \E f \in Live : e.bits = f.bits
           /\ BitsStay
  <1>1. /\ item' = NoItem <=> item = NoItem
        /\ item # NoItem => item'.id = item.id /\ item'.bits = item.bits
    BY SameHandIs
  <1>2. Entries' = Entries
    BY DEF queueVars, Entries
  <1>4. IndexExact'
    BY <1>2 DEF queueVars, IndexExact
  <1>5. IdsApart'
    BY <1>1 DEF queueVars, IdsApart
  <1>6. CASE item = NoItem
    <2>1. Live' = Live
      BY <1>1, <1>2, <1>6 DEF Live
    <2> QED
      BY <1>4, <1>5, <2>1 DEF BitsStay
  <1>7. CASE item # NoItem
    <2>1. Live = Entries \cup {item} /\ Live' = Entries \cup {item'}
      BY <1>1, <1>2, <1>7 DEF Live
    <2> QED
      BY <1>1, <1>4, <1>5, <1>7, <2>1 DEF BitsStay
  <1> QED
    BY <1>6, <1>7

\* Queue::Add appends one entry, or leaves the queue alone.
LEMMA AddKeeps ==
    ASSUME QueueInv, NEW bits \in SUBSET Bit, NEW size \in Nat, QueueAdd(bits, size),
           SameHand
    PROVE  /\ inputs' \in Seq(Entry) /\ processed' \in Seq(Entry)
           /\ bit_to_inputs' \in [Bit -> SUBSET Nat] /\ current_id' \in Nat \ {0}
           /\ IdsApart' /\ IndexExact'
           /\ \A e \in Live' : e.bits = bits \/ \E f \in Live : e.bits = f.bits
           /\ BitsStay
           /\ ~(bits \subseteq Indexed) => current_id' = current_id + 1
  <1> USE DEF QueueInv
  <1>1. CASE bits \subseteq Indexed
    <2>1. UNCHANGED queueVars
      BY <1>1 DEF QueueAdd
    <2>2. /\ IdsApart' /\ IndexExact'
          /\ \A e \in Live' : \E f \in Live : e.bits = f.bits
          /\ BitsStay
      BY <2>1, HandKeeps
    <2> QED
      BY <1>1, <2>1, <2>2 DEF queueVars, QueueTypes
  <1>2. CASE ~(bits \subseteq Indexed)
    <2> DEFINE new == [id |-> current_id, bits |-> bits, fresh |-> bits \ Indexed,
                       size |-> size, state |-> <<"init", 0>>]
               n == Len(inputs)
    <2>1. /\ inputs' = Append(inputs, new) /\ processed' = processed /\ current_id' = current_id + 1
          /\ bit_to_inputs' = [b \in Bit |-> IF b \in bits THEN bit_to_inputs[b] \cup {current_id}
                                             ELSE bit_to_inputs[b]]
      BY <1>2 DEF QueueAdd
    <2>2. new \in Entry /\ new.id = current_id /\ new.bits = bits
      <3>1. <<"init", 0>> \in EntryState
        BY DEF EntryState
      <3>2. bits \ Indexed \in SUBSET Bit /\ current_id \in Nat \ {0}
        BY DEF QueueTypes
      <3> QED
        BY <3>1, <3>2 DEF Entry
    <2> HIDE DEF new
    <2>3. /\ inputs \in Seq(Entry) /\ processed \in Seq(Entry) /\ n \in Nat
          /\ bit_to_inputs \in [Bit -> SUBSET Nat] /\ current_id \in Nat \ {0}
      BY DEF QueueTypes
    <2>4. /\ inputs' \in Seq(Entry) /\ Len(inputs') = n + 1
          /\ \A k \in 1..n : inputs'[k] = inputs[k]
          /\ inputs'[n + 1] = new
      BY <2>1, <2>2, <2>3
    <2>5. Range(inputs') = Range(inputs) \cup {new}
      <3>1. DOMAIN inputs' = 1..(n + 1) /\ DOMAIN inputs = 1..n
        BY <2>3, <2>4
      <3> QED
        BY <2>3, <2>4, <3>1 DEF Range
    <2>6. Entries' = Entries \cup {new}
      BY <2>1, <2>5 DEF Entries
    <2>s. /\ item' = NoItem <=> item = NoItem
          /\ item # NoItem => item'.id = item.id /\ item'.bits = item.bits
      BY SameHandIs
    <2>7. /\ \A e \in Live' : e.bits = bits \/ \E f \in Live : e.bits = f.bits
          /\ BitsStay
      <3>1. CASE item = NoItem
        <4>1. Live = Entries /\ Live' = Entries \cup {new}
          BY <2>6, <2>s, <3>1 DEF Live
        <4> QED
          BY <2>2, <4>1 DEF BitsStay
      <3>2. CASE item # NoItem
        <4>1. Live = Entries \cup {item} /\ Live' = Entries \cup {new} \cup {item'}
          BY <2>6, <2>s, <3>2 DEF Live
        <4> QED
          BY <2>2, <2>s, <3>2, <4>1 DEF BitsStay
      <3> QED
        BY <3>1, <3>2
    <2>8. IdsApart'
      <3>1. \A k \in 1..Len(inputs') : k \in 1..n \/ k = n + 1
        BY <2>3, <2>4
      <3>2. /\ \A k \in 1..n : inputs[k].id < current_id /\ inputs[k].id \in Nat
            /\ \A k \in 1..Len(processed) : processed[k].id < current_id /\ processed[k].id \in Nat
        BY EntriesAre, NoItemNoEntry DEF IdsApart
      <3>3. item # NoItem => item.id < current_id /\ item.id \in Nat
        BY NoItemNoEntry DEF IdsApart, QueueTypes
      <3>4. ASSUME NEW i \in 1..Len(inputs'), NEW j \in 1..Len(inputs'), inputs'[i].id = inputs'[j].id
            PROVE  i = j
        <4>1. CASE i \in 1..n /\ j \in 1..n
          BY <2>4, <3>4, <4>1 DEF IdsApart
        <4>2. CASE i = n + 1 /\ j \in 1..n
          BY <2>2, <2>3, <2>4, <3>2, <3>4, <4>2
        <4>3. CASE j = n + 1 /\ i \in 1..n
          BY <2>2, <2>3, <2>4, <3>2, <3>4, <4>3
        <4> QED
          BY <3>1, <4>1, <4>2, <4>3
      <3>5. ASSUME NEW k \in 1..Len(inputs')
            PROVE  /\ inputs'[k].id < current_id + 1
                   /\ \A j \in 1..Len(processed) : inputs'[k].id # processed[j].id
                   /\ item # NoItem => inputs'[k].id # item.id
        <4>1. CASE k \in 1..n
          BY <2>3, <2>4, <3>2, <4>1 DEF IdsApart
        <4>2. CASE k = n + 1
          BY <2>2, <2>3, <2>4, <3>2, <3>3, <4>2
        <4> QED
          BY <3>1, <4>1, <4>2
      <3>6. \A k \in 1..Len(processed) : processed[k].id < current_id + 1
        BY <2>3, <3>2
      <3>7. item # NoItem => item.id < current_id + 1
        BY <2>3, <3>3
      <3> QED
        BY <2>1, <2>s, <3>4, <3>5, <3>6, <3>7 DEF IdsApart
    <2>9. IndexExact'
      <3> SUFFICES ASSUME NEW b \in Bit
                   PROVE  bit_to_inputs'[b] = {e.id : e \in {f \in Entries' : b \in f.bits}}
        BY DEF IndexExact
      <3>1. bit_to_inputs[b] = {e.id : e \in {f \in Entries : b \in f.bits}}
        BY DEF IndexExact
      <3>2. bit_to_inputs'[b] = IF b \in bits THEN bit_to_inputs[b] \cup {current_id} ELSE bit_to_inputs[b]
        BY <2>1
      <3> QED
        BY <2>2, <2>6, <3>1, <3>2
    <2>10. bit_to_inputs' \in [Bit -> SUBSET Nat]
      BY <2>1, <2>3
    <2> QED
      BY <2>1, <2>2, <2>3, <2>4, <2>7, <2>8, <2>9, <2>10
  <1> QED
    BY <1>1, <1>2

\* Queue::Pop takes one entry out of the queue.
LEMMA PopKeeps ==
    ASSUME QueueInv, item = NoItem, QueuePop
    PROVE  /\ inputs' \in Seq(Entry) /\ processed' \in Seq(Entry) /\ item' \in Entry
           /\ bit_to_inputs' \in [Bit -> SUBSET Nat] /\ current_id' \in Nat \ {0}
           /\ IdsApart' /\ IndexExact' /\ Live' = Live
  <1> USE DEF QueueInv
  <1> DEFINE n == Len(inputs)
             last == inputs[n]
  <1>1. /\ inputs # <<>> /\ item' = last /\ inputs' = SubSeq(inputs, 1, n - 1)
        /\ bit_to_inputs' = [b \in Bit |-> bit_to_inputs[b] \ {last.id}]
        /\ processed' = processed /\ current_id' = current_id
    BY DEF QueuePop, Last, Front
  <1>2. /\ inputs \in Seq(Entry) /\ processed \in Seq(Entry) /\ n \in Nat /\ n # 0
        /\ bit_to_inputs \in [Bit -> SUBSET Nat] /\ current_id \in Nat \ {0}
    BY <1>1 DEF QueueTypes
  <1>3. /\ inputs' \in Seq(Entry) /\ Len(inputs') = n - 1
        /\ \A k \in 1..(n - 1) : inputs'[k] = inputs[k]
    <2>1. \A k \in 1..(n - 1) : inputs[k] \in Entry
      BY <1>2
    <2>2. n - 1 \in Int /\ 1 \in Int /\ (n - 1) - 1 + 1 = n - 1 /\ (1 <= n - 1 \/ n - 1 = 0)
      <3>1. n \in Nat /\ n # 0
        BY <1>2
      <3> HIDE DEF n
      <3> QED
        BY <3>1
    <2>3. /\ SubSeq(inputs, 1, n - 1) \in Seq(Entry)
          /\ Len(SubSeq(inputs, 1, n - 1)) = IF 1 <= n - 1 THEN n - 1 - 1 + 1 ELSE 0
          /\ \A i \in 1 .. n - 1 - 1 + 1 : SubSeq(inputs, 1, n - 1)[i] = inputs[1 + i - 1]
      <3> HIDE DEF n
      <3> QED
        BY <2>1, <2>2, SubSeqProperties
    <2>4. Len(inputs') = n - 1
      BY <1>1, <2>2, <2>3
    <2>5. ASSUME NEW k \in 1..(n - 1) PROVE inputs'[k] = inputs[k]
      <3>1. 1 + k - 1 = k /\ k \in 1 .. n - 1 - 1 + 1
        BY <1>2
      <3> QED
        BY <1>1, <2>3, <3>1
    <2> QED
      BY <1>1, <2>3, <2>4, <2>5
  <1>4. last \in Entry /\ last # NoItem
    BY <1>2, NoItemNoEntry
  <1>5. Range(inputs) = Range(inputs') \cup {last}
    <2>1. DOMAIN inputs' = 1..(n - 1) /\ DOMAIN inputs = 1..n
      BY <1>2, <1>3
    <2>2. \A k \in 1..n : k \in 1..(n - 1) \/ k = n
      BY <1>2
    <2>3. n \in 1..n /\ \A k \in 1..(n - 1) : k \in 1..n
      BY <1>2
    <2>4. Range(inputs) \subseteq Range(inputs') \cup {last}
      <3> SUFFICES ASSUME NEW k \in 1..n PROVE inputs[k] \in Range(inputs') \cup {last}
        BY <2>1 DEF Range
      <3> QED
        BY <1>3, <2>1, <2>2 DEF Range
    <2>5. Range(inputs') \cup {last} \subseteq Range(inputs)
      <3> SUFFICES ASSUME NEW k \in 1..(n - 1) PROVE inputs'[k] \in Range(inputs)
        BY <2>1, <2>3 DEF Range
      <3> QED
        BY <1>3, <2>1, <2>3 DEF Range
    <2> QED
      BY <2>4, <2>5
  <1>6. Entries = Entries' \cup {last}
    BY <1>1, <1>5 DEF Entries
  <1>7. \A e \in Entries' : e.id # last.id
    <2>1. ASSUME NEW k \in 1..(n - 1) PROVE inputs'[k].id # last.id
      <3>1. k \in 1..n /\ n \in 1..n /\ k # n
        BY <1>2
      <3>2. \A i, j \in 1..n : inputs[i].id = inputs[j].id => i = j
        BY DEF IdsApart
      <3>3. inputs'[k] = inputs[k]
        BY <1>3
      <3> QED
        BY <3>1, <3>2, <3>3
    <2>2. \A k \in 1..Len(processed') : processed'[k].id # last.id
      BY <1>1, <1>2 DEF IdsApart
    <2>3. DOMAIN inputs' = 1..(n - 1) /\ DOMAIN processed' = 1..Len(processed')
      BY <1>1, <1>2, <1>3
    <2> QED
      BY <2>1, <2>2, <2>3 DEF Entries, Range
  <1>8. Live' = Live
    BY <1>1, <1>4, <1>6 DEF Live
  <1>9. IdsApart'
    <2>1. \A k \in 1..Len(inputs') : k \in 1..n /\ k # n /\ inputs'[k] = inputs[k]
      BY <1>2, <1>3
    <2>2. n \in 1..n
      BY <1>2
    <2>3. /\ \A i, j \in 1..Len(inputs') : inputs'[i].id = inputs'[j].id => i = j
          /\ \A i \in 1..Len(inputs'), j \in 1..Len(processed') : inputs'[i].id # processed'[j].id
          /\ \A i \in 1..Len(inputs') : inputs'[i].id < current_id'
      <3>1. ASSUME NEW i \in 1..Len(inputs'), NEW j \in 1..Len(inputs'), inputs'[i].id = inputs'[j].id
            PROVE  i = j
        <4>1. i \in 1..n /\ j \in 1..n /\ inputs[i].id = inputs[j].id
          BY <2>1, <3>1
        <4> QED
          BY <4>1 DEF IdsApart
      <3>2. ASSUME NEW i \in 1..Len(inputs')
            PROVE  /\ \A j \in 1..Len(processed') : inputs'[i].id # processed'[j].id
                   /\ inputs'[i].id < current_id'
        <4>1. i \in 1..n /\ inputs'[i] = inputs[i]
          BY <2>1
        <4> QED
          BY <1>1, <4>1 DEF IdsApart
      <3> QED
        BY <3>1, <3>2
    <2>4. /\ \A i \in 1..Len(inputs') : inputs'[i].id # last.id
          /\ \A i \in 1..Len(processed') : processed'[i].id # last.id
          /\ last.id < current_id'
      BY <1>1, <2>1, <2>2 DEF IdsApart
    <2>5. /\ \A i, j \in 1..Len(processed') : processed'[i].id = processed'[j].id => i = j
          /\ \A i \in 1..Len(processed') : processed'[i].id < current_id'
      BY <1>1 DEF IdsApart
    <2> QED
      BY <1>1, <2>3, <2>4, <2>5 DEF IdsApart
  <1>10. IndexExact'
    <2> SUFFICES ASSUME NEW b \in Bit
                 PROVE  bit_to_inputs'[b] = {e.id : e \in {f \in Entries' : b \in f.bits}}
      BY DEF IndexExact
    <2>1. bit_to_inputs[b] = {e.id : e \in {f \in Entries : b \in f.bits}}
      BY DEF IndexExact
    <2>2. bit_to_inputs'[b] = bit_to_inputs[b] \ {last.id}
      BY <1>1
    <2> HIDE DEF last
    <2> QED
      BY <1>6, <1>7, <2>1, <2>2
  <1>11. bit_to_inputs' \in [Bit -> SUBSET Nat]
    BY <1>1, <1>2
  <1> QED
    BY <1>1, <1>2, <1>3, <1>4, <1>8, <1>9, <1>10, <1>11

\* Queue::Finished puts the entry in hand back unless others have all its bits.
LEMMA FinishedKeeps ==
    ASSUME QueueInv, item \in Entry, QueueFinished
    PROVE  /\ inputs' \in Seq(Entry) /\ processed' \in Seq(Entry) /\ item' = NoItem
           /\ bit_to_inputs' \in [Bit -> SUBSET Nat] /\ current_id' \in Nat \ {0}
           /\ IdsApart' /\ IndexExact' /\ Live' \subseteq Live
           /\ \A b \in Bit : (\E e \in Live : b \in e.bits) => (\E e \in Live' : b \in e.bits)
  <1> USE DEF QueueInv
  <1>1. /\ inputs \in Seq(Entry) /\ processed \in Seq(Entry)
        /\ bit_to_inputs \in [Bit -> SUBSET Nat] /\ current_id \in Nat \ {0}
    BY DEF QueueTypes
  <1>2. inputs' = inputs /\ current_id' = current_id /\ item' = NoItem /\ item # NoItem
    BY NoItemNoEntry DEF QueueFinished
  <1>3. Live = Entries \cup {item}
    BY <1>2 DEF Live
  <1>4. CASE item.bits \subseteq Indexed
    <2>1. processed' = processed /\ bit_to_inputs' = bit_to_inputs
      BY <1>4 DEF QueueFinished
    <2>2. Live' = Entries /\ Entries' = Entries
      BY <1>2, <2>1 DEF Live, Entries
    <2>3. \A b \in item.bits : \E e \in Entries : b \in e.bits
      BY <1>4 DEF Indexed, IndexExact
    <2>4. IdsApart'
      BY <1>2, <2>1 DEF IdsApart
    <2>5. IndexExact'
      BY <1>2, <2>1 DEF IndexExact, Entries
    <2> QED
      BY <1>1, <1>2, <1>3, <2>1, <2>2, <2>3, <2>4, <2>5
  <1>5. CASE ~(item.bits \subseteq Indexed)
    <2> DEFINE n == Len(processed)
    <2>1. /\ processed' = Append(processed, item)
          /\ bit_to_inputs' = [b \in Bit |-> IF b \in item.bits THEN bit_to_inputs[b] \cup {item.id}
                                             ELSE bit_to_inputs[b]]
      BY <1>5 DEF QueueFinished
    <2>2. /\ processed' \in Seq(Entry) /\ Len(processed') = n + 1 /\ n \in Nat
          /\ \A k \in 1..n : processed'[k] = processed[k]
          /\ processed'[n + 1] = item
      BY <1>1, <2>1
    <2>3. Range(processed') = Range(processed) \cup {item}
      <3>1. DOMAIN processed' = 1..(n + 1) /\ DOMAIN processed = 1..n
        BY <1>1, <2>2
      <3> QED
        BY <2>2, <3>1 DEF Range
    <2>4. Entries' = Entries \cup {item}
      BY <1>2, <2>3 DEF Entries
    <2>5. Live' = Live
      BY <1>2, <1>3, <2>4 DEF Live
    <2>6. IdsApart'
      <3>1. \A k \in 1..Len(processed') : k \in 1..n \/ k = n + 1
        BY <2>2
      <3>2. /\ \A k \in 1..Len(inputs) : inputs[k].id # item.id
            /\ \A k \in 1..n : processed[k].id # item.id
            /\ item.id < current_id
        BY <1>2 DEF IdsApart
      <3> QED
        BY <1>2, <2>2, <3>1, <3>2 DEF IdsApart
    <2>7. IndexExact'
      <3> SUFFICES ASSUME NEW b \in Bit
                   PROVE  bit_to_inputs'[b] = {e.id : e \in {f \in Entries' : b \in f.bits}}
        BY DEF IndexExact
      <3>1. bit_to_inputs[b] = {e.id : e \in {f \in Entries : b \in f.bits}}
        BY DEF IndexExact
      <3>2. bit_to_inputs'[b] = IF b \in item.bits THEN bit_to_inputs[b] \cup {item.id}
                                ELSE bit_to_inputs[b]
        BY <2>1
      <3> QED
        BY <2>4, <3>1, <3>2
    <2>8. bit_to_inputs' \in [Bit -> SUBSET Nat]
      BY <1>1, <2>1, NoItemNoEntry
    <2> QED
      BY <1>1, <1>2, <2>2, <2>5, <2>6, <2>7, <2>8
  <1> QED
    BY <1>4, <1>5

\* Queue::NewRound moves the finished entries to the end of the queue.
LEMMA NewRoundKeeps ==
    ASSUME QueueInv, item' = item, QueueNewRound
    PROVE  /\ inputs' \in Seq(Entry) /\ processed' \in Seq(Entry)
           /\ bit_to_inputs' = bit_to_inputs /\ current_id' = current_id
           /\ IdsApart' /\ IndexExact' /\ Live' = Live
  <1> USE DEF QueueInv
  <1> DEFINE n == Len(inputs)
             m == Len(processed)
  <1>1. /\ inputs' = inputs \o processed /\ processed' = <<>>
        /\ bit_to_inputs' = bit_to_inputs /\ current_id' = current_id
    BY DEF QueueNewRound
  <1>2. inputs \in Seq(Entry) /\ processed \in Seq(Entry) /\ n \in Nat /\ m \in Nat
    BY DEF QueueTypes
  <1>3. inputs' \in Seq(Entry) /\ processed' \in Seq(Entry) /\ Len(inputs') = n + m /\ Len(processed') = 0
    BY <1>1, <1>2
  <1>4. /\ \A k \in 1..n : inputs'[k] = inputs[k]
        /\ \A k \in 1..m : inputs'[n + k] = processed[k]
    BY <1>1, <1>2
  <1>5. \A k \in 1..Len(inputs') : \/ k \in 1..n /\ inputs'[k] = inputs[k]
                                   \/ k - n \in 1..m /\ inputs'[k] = processed[k - n]
    <2> SUFFICES ASSUME NEW k \in 1..Len(inputs'), k \notin 1..n
                 PROVE  k - n \in 1..m /\ inputs'[k] = processed[k - n]
      BY <1>4
    <2>1. k - n \in 1..m /\ n + (k - n) = k
      BY <1>2, <1>3
    <2> QED
      BY <1>4, <2>1
  <1>6. Entries' = Entries
    <2>1. DOMAIN inputs' = 1..(n + m) /\ DOMAIN inputs = 1..n /\ DOMAIN processed = 1..m
          /\ DOMAIN processed' = {}
      BY <1>1, <1>2, <1>3
    <2>2. \A k \in 1..m : n + k \in 1..(n + m)
      BY <1>2
    <2>3. \A k \in 1..n : k \in 1..(n + m)
      BY <1>2
    <2>4. Range(processed') = {}
      BY <2>1 DEF Range
    <2>5. ASSUME NEW e \in Range(inputs') PROVE e \in Range(inputs) \cup Range(processed)
      <3>1. PICK k \in 1..Len(inputs') : e = inputs'[k]
        BY <1>3, <2>1 DEF Range
      <3> QED
        BY <1>5, <2>1, <3>1 DEF Range
    <2>6. Range(inputs) \subseteq Range(inputs')
      BY <1>4, <2>1, <2>3 DEF Range
    <2>7. Range(processed) \subseteq Range(inputs')
      BY <1>4, <2>1, <2>2 DEF Range
    <2> QED
      BY <2>4, <2>5, <2>6, <2>7 DEF Entries
  <1>7. Live' = Live
    BY <1>6 DEF Live
  <1>8. IndexExact'
    BY <1>1, <1>6 DEF IndexExact
  <1>9. IdsApart'
    <2>1. ASSUME NEW i \in 1..Len(inputs'), NEW j \in 1..Len(inputs'), inputs'[i].id = inputs'[j].id
          PROVE  i = j
      <3>1. CASE i \in 1..n /\ j \in 1..n
        BY <1>4, <2>1, <3>1 DEF IdsApart
      <3>2. CASE i \notin 1..n /\ j \notin 1..n
        <4>1. i - n \in 1..m /\ j - n \in 1..m /\ processed[i - n].id = processed[j - n].id
          BY <1>5, <2>1, <3>2
        <4>2. i - n = j - n
          BY <4>1 DEF IdsApart
        <4> QED
          BY <1>2, <1>3, <4>2
      <3>3. CASE i \in 1..n /\ j \notin 1..n
        <4>1. j - n \in 1..m /\ inputs[i].id = processed[j - n].id
          BY <1>4, <1>5, <2>1, <3>3
        <4> QED
          BY <3>3, <4>1 DEF IdsApart
      <3>4. CASE i \notin 1..n /\ j \in 1..n
        <4>1. i - n \in 1..m /\ inputs[j].id = processed[i - n].id
          BY <1>4, <1>5, <2>1, <3>4
        <4> QED
          BY <3>4, <4>1 DEF IdsApart
      <3> QED
        BY <3>1, <3>2, <3>3, <3>4
    <2>2. \A k \in 1..Len(processed') : FALSE
      BY <1>3
    <2>3. \A k \in 1..Len(inputs') : inputs'[k].id < current_id
      BY <1>5 DEF IdsApart
    <2>4. item # NoItem => \A k \in 1..Len(inputs') : inputs'[k].id # item.id
      BY <1>5 DEF IdsApart
    <2>5. item # NoItem => item.id < current_id
      BY DEF IdsApart
    <2> QED
      BY <1>1, <2>1, <2>2, <2>3, <2>4, <2>5 DEF IdsApart
  <1> QED
    BY <1>1, <1>3, <1>7, <1>8, <1>9

LEMMA QueueInitHolds == ASSUME NautilusInit PROVE QueueInv
  <1>1. QueueTypes
    BY DEF NautilusInit, QueueTypes, Idle
  <1>2. Entries = {} /\ Live = {}
    BY DEF NautilusInit, Entries, Range, Live
  <1>3. IdsApart
    BY DEF NautilusInit, IdsApart
  <1>4. IndexExact
    BY <1>2 DEF NautilusInit, IndexExact
  <1> QED
    BY <1>1, <1>2, <1>3, <1>4 DEF QueueInv, BitsSeen

\* A run adds at most an entry for it, whose bits are then known.
LEMMA RunKeeps ==
    ASSUME QueueInv, NEW bits \in SUBSET Bit, NEW crash \in BOOLEAN, NEW stable \in SUBSET bits,
           NEW size \in Nat, RunOn(bits, crash, stable, size), SameHand
    PROVE  /\ inputs' \in Seq(Entry) /\ processed' \in Seq(Entry)
           /\ bit_to_inputs' \in [Bit -> SUBSET Nat] /\ current_id' \in Nat \ {0}
           /\ bitmaps' \in [BOOLEAN -> SUBSET Bit]
           /\ IdsApart' /\ IndexExact' /\ BitsSeen'
           /\ BitsStay
           /\ ~crash /\ stable # {} => current_id' = current_id + 1
  <1> USE DEF QueueInv
  <1>1. /\ stable \subseteq bits \ bitmaps[crash]
        /\ bitmaps' = [bitmaps EXCEPT ![crash] = @ \cup (bits \ bitmaps[crash])]
        /\ ~crash /\ stable # {} => QueueAdd(bits, size)
        /\ ~(~crash /\ stable # {}) => UNCHANGED queueVars
    BY DEF RunOn
  <1>2. /\ bitmaps \in [BOOLEAN -> SUBSET Bit]
        /\ inputs \in Seq(Entry) /\ processed \in Seq(Entry)
        /\ bit_to_inputs \in [Bit -> SUBSET Nat] /\ current_id \in Nat \ {0}
    BY DEF QueueTypes
  <1>3. /\ bitmaps' \in [BOOLEAN -> SUBSET Bit]
        /\ bitmaps[FALSE] \subseteq bitmaps'[FALSE]
        /\ ~crash => bits \subseteq bitmaps'[FALSE]
    BY <1>1, <1>2
  <1>4. CASE ~crash /\ stable # {}
    <2>1. QueueAdd(bits, size)
      BY <1>1, <1>4
    <2>2. /\ inputs' \in Seq(Entry) /\ processed' \in Seq(Entry)
          /\ bit_to_inputs' \in [Bit -> SUBSET Nat] /\ current_id' \in Nat \ {0}
          /\ IdsApart' /\ IndexExact'
          /\ \A e \in Live' : e.bits = bits \/ \E f \in Live : e.bits = f.bits
          /\ BitsStay
          /\ ~(bits \subseteq Indexed) => current_id' = current_id + 1
      BY <2>1, AddKeeps
    <2>3. BitsSeen'
      BY <1>3, <1>4, <2>2 DEF BitsSeen
    <2>4. Indexed \subseteq bitmaps[FALSE]
      <3> SUFFICES ASSUME NEW b \in Bit, bit_to_inputs[b] # {} PROVE b \in bitmaps[FALSE]
        BY DEF Indexed
      <3>1. PICK e \in Entries : b \in e.bits
        BY DEF IndexExact
      <3> QED
        BY <3>1 DEF BitsSeen, Live
    <2>5. ~(bits \subseteq Indexed)
      BY <1>1, <1>4, <2>4
    <2> QED
      BY <1>3, <2>2, <2>3, <2>5
  <1>5. CASE ~(~crash /\ stable # {})
    <2>1. UNCHANGED queueVars
      BY <1>1, <1>5
    <2>2. /\ IdsApart' /\ IndexExact'
          /\ \A e \in Live' : \E f \in Live : e.bits = f.bits
          /\ BitsStay
      BY <2>1, HandKeeps
    <2>3. BitsSeen'
      BY <1>3, <2>2 DEF BitsSeen
    <2> QED
      BY <1>2, <1>3, <1>5, <2>1, <2>2, <2>3 DEF queueVars
  <1> QED
    BY <1>4, <1>5

Stages == {"generate", "rules", "splice", "havoc", "havoc_rec"}

\* The invariant and what a step promises of the bits.
Kept == QueueInv' /\ BitsStay

LEMMA TryKeeps ==
    ASSUME QueueInv, NEW c, NEW bits \in SUBSET Bit, NEW crash \in BOOLEAN, NEW stable \in SUBSET bits,
           NEW size \in Nat, Try(c, bits, crash, stable, size)
    PROVE  Kept /\ (~crash /\ stable # {} => current_id' = current_id + 1)
  <1>1. RunOn(bits, crash, stable, size) /\ item' = item /\ flow' = flow
    BY DEF Try
  <1>2. /\ inputs' \in Seq(Entry) /\ processed' \in Seq(Entry)
        /\ bit_to_inputs' \in [Bit -> SUBSET Nat] /\ current_id' \in Nat \ {0}
        /\ bitmaps' \in [BOOLEAN -> SUBSET Bit]
        /\ IdsApart' /\ IndexExact' /\ BitsSeen'
        /\ BitsStay
        /\ ~crash /\ stable # {} => current_id' = current_id + 1
    BY <1>1, RunKeeps DEF SameHand
  <1>3. QueueTypes'
    BY <1>1, <1>2 DEF QueueInv, QueueTypes
  <1> QED
    BY <1>2, <1>3 DEF Kept, QueueInv

\* Where a turn of a minimization loop leaves the entry in hand.
LEMMA MinimizeKeepsHand ==
    ASSUME QueueTypes, Minimizing, NEW size \in Nat, NEW i,
           MinimizeNext(i, size) \/ \E done \in BOOLEAN : MinimizeReturns(done, size)
    PROVE  /\ item \in Entry /\ item' \in Entry /\ item'.id = item.id /\ item'.bits = item.bits
           /\ flow' \in {"min_tree", "min_rec", "finish"}
           /\ flow' # "finish" => \E k \in Nat : item'.state = <<"init", k>>
  <1>1. PICK k \in Nat : item.state = <<"init", k>>
    BY DEF QueueTypes, Minimizing
  <1>2. item \in Entry /\ flow \in {"min_tree", "min_rec"}
    BY DEF QueueTypes, Minimizing, Idle
  <1>3. EndIndex \in Nat
    BY <1>1, NautilusAssumption DEF EndIndex
  <1>4. <<"init", EndIndex>> \in EntryState /\ <<"det", 0, 0>> \in EntryState
    BY <1>3 DEF EntryState
  <1>5. \/ item' = [item EXCEPT !.size = size] /\ flow' \in {"min_tree", "min_rec"}
        \/ /\ flow' = "finish"
           /\ \/ item' = [item EXCEPT !.size = size, !.state = <<"det", 0, 0>>]
              \/ item' = [item EXCEPT !.size = size, !.state = <<"init", EndIndex>>]
    BY <1>2 DEF MinimizeNext, MinimizeReturns
  <1>6. CASE item' = [item EXCEPT !.size = size] /\ flow' \in {"min_tree", "min_rec"}
    <2>1. item' \in Entry /\ item'.id = item.id /\ item'.bits = item.bits /\ item'.state = item.state
      BY <1>2, <1>6 DEF Entry
    <2> QED
      BY <1>1, <1>2, <1>6, <2>1
  <1>7. ASSUME NEW st \in EntryState, item' = [item EXCEPT !.size = size, !.state = st]
        PROVE  item' \in Entry /\ item'.id = item.id /\ item'.bits = item.bits
    BY <1>2, <1>7 DEF Entry
  <1> QED
    BY <1>2, <1>4, <1>5, <1>6, <1>7

LEMMA HandTypes ==
    ASSUME QueueInv, UNCHANGED <<queueVars, bitmaps>>, SameHand,
           flow' \in {"min_tree", "min_rec", "rules", "splice", "havoc", "havoc_rec", "finish"},
           item' \in Entry,
           flow' \in {"min_tree", "min_rec"} => \E k \in Nat : item'.state = <<"init", k>>,
           flow' = "rules" => \E c, k \in Nat : item'.state = <<"det", c, k>>
    PROVE  Kept
  <1>1. UNCHANGED queueVars
    OBVIOUS
  <1>2. /\ IdsApart' /\ IndexExact'
        /\ \A e \in Live' : \E f \in Live : e.bits = f.bits
        /\ BitsStay
    BY <1>1, HandKeeps DEF QueueInv
  <1>3. BitsSeen'
    BY <1>2 DEF QueueInv, BitsSeen
  <1>4. QueueTypes'
    BY DEF QueueInv, QueueTypes, queueVars, Idle
  <1> QED
    BY <1>2, <1>3, <1>4 DEF Kept, QueueInv

LEMMA SelectKeeps == ASSUME QueueInv, SelectInput PROVE Kept
  <1>1. flow = "select" /\ item = NoItem /\ bitmaps' = bitmaps
    BY DEF SelectInput, QueueInv, QueueTypes, Idle
  <1>2. CASE inputs = <<>> /\ flow' = "generate" /\ UNCHANGED <<queueVars, item>>
    <2>1. UNCHANGED queueVars /\ SameHand
      BY <1>2 DEF SameHand
    <2>2. /\ IdsApart' /\ IndexExact'
          /\ \A e \in Live' : \E f \in Live : e.bits = f.bits
          /\ BitsStay
      BY <2>1, HandKeeps DEF QueueInv
    <2>3. BitsSeen'
      BY <1>1, <2>2 DEF QueueInv, BitsSeen
    <2>4. QueueTypes'
      BY <1>1, <1>2 DEF QueueInv, QueueTypes, queueVars, Idle
    <2> QED
      BY <2>2, <2>3, <2>4 DEF Kept, QueueInv
  <1>3. CASE QueuePop /\ flow' = CASE item'.state[1] = "init" -> "min_tree"
                                   [] item'.state[1] = "det" -> "rules"
                                   [] OTHER -> "splice"
    <2>1. /\ inputs' \in Seq(Entry) /\ processed' \in Seq(Entry) /\ item' \in Entry
          /\ bit_to_inputs' \in [Bit -> SUBSET Nat] /\ current_id' \in Nat \ {0}
          /\ IdsApart' /\ IndexExact' /\ Live' = Live
      BY <1>1, <1>3, PopKeeps
    <2>2. BitsSeen' /\ BitsStay
      BY <1>1, <2>1 DEF QueueInv, BitsSeen, BitsStay
    <2>3. item'.state \in EntryState
      BY <2>1 DEF Entry
    <2>4. /\ flow' \in {"min_tree", "rules", "splice"}
          /\ flow' = "min_tree" => \E k \in Nat : item'.state = <<"init", k>>
          /\ flow' = "rules" => \E c, k \in Nat : item'.state = <<"det", c, k>>
      <3>1. CASE item'.state = <<"rand">>
        BY <1>3, <3>1
      <3>2. CASE \E k \in Nat : item'.state = <<"init", k>>
        BY <1>3, <3>2
      <3>3. CASE \E c, k \in Nat : item'.state = <<"det", c, k>>
        BY <1>3, <3>3
      <3> QED
        BY <2>3, <3>1, <3>2, <3>3 DEF EntryState
    <2>5. QueueTypes'
      BY <1>1, <2>1, <2>4 DEF QueueInv, QueueTypes, Idle
    <2> QED
      BY <2>1, <2>2, <2>5 DEF Kept, QueueInv
  <1> QED
    BY <1>2, <1>3 DEF SelectInput

LEMMA GenerateKeeps == ASSUME QueueInv, GenerateInputs PROVE Kept
  <1>1. QueueNewRound /\ flow = "generate" /\ flow' = "select" /\ item' = item /\ bitmaps' = bitmaps
    BY DEF GenerateInputs
  <1>2. /\ inputs' \in Seq(Entry) /\ processed' \in Seq(Entry)
        /\ bit_to_inputs' = bit_to_inputs /\ current_id' = current_id
        /\ IdsApart' /\ IndexExact' /\ Live' = Live
    BY <1>1, NewRoundKeeps
  <1>3. BitsSeen' /\ BitsStay
    BY <1>1, <1>2 DEF QueueInv, BitsSeen, BitsStay
  <1>4. QueueTypes'
    BY <1>1, <1>2 DEF QueueInv, QueueTypes, Idle
  <1> QED
    BY <1>2, <1>3, <1>4 DEF Kept, QueueInv

LEMMA FinishKeeps == ASSUME QueueInv, ProcessInputEnds PROVE Kept
  <1>1. QueueFinished /\ flow = "finish" /\ flow' = "select" /\ bitmaps' = bitmaps
    BY DEF ProcessInputEnds
  <1>2. item \in Entry
    BY <1>1 DEF QueueInv, QueueTypes, Idle
  <1>3. /\ inputs' \in Seq(Entry) /\ processed' \in Seq(Entry) /\ item' = NoItem
        /\ bit_to_inputs' \in [Bit -> SUBSET Nat] /\ current_id' \in Nat \ {0}
        /\ IdsApart' /\ IndexExact' /\ Live' \subseteq Live
        /\ \A b \in Bit : (\E e \in Live : b \in e.bits) => (\E e \in Live' : b \in e.bits)
    BY <1>1, <1>2, FinishedKeeps
  <1>4. BitsSeen' /\ BitsStay
    BY <1>1, <1>3 DEF QueueInv, BitsSeen, BitsStay
  <1>5. QueueTypes'
    BY <1>1, <1>3 DEF QueueInv, QueueTypes, Idle
  <1> QED
    BY <1>3, <1>4, <1>5 DEF Kept, QueueInv

LEMMA MinimizeTestKeeps ==
    ASSUME QueueInv, NEW bits \in SUBSET Bit, NEW last, NEW crash \in BOOLEAN,
           NEW stable \in SUBSET bits, NEW size \in Nat, NEW parent,
           MinimizeTest(bits, crash, stable, last, size, parent)
    PROVE  Kept
  <1>1. Minimizing /\ RunOn(bits, crash, stable, size)
    BY DEF MinimizeTest
  <1>2. item \in Entry /\ item.size \in Nat
    BY <1>1 DEF QueueInv, QueueTypes, Minimizing, Idle, Entry
  <1>3. \E i : MinimizeNext(i, size) \/ MinimizeNext(i, item.size)
    BY DEF MinimizeTest
  <1>4. /\ item' \in Entry /\ item'.id = item.id /\ item'.bits = item.bits
        /\ flow' \in {"min_tree", "min_rec", "finish"}
        /\ flow' # "finish" => \E k \in Nat : item'.state = <<"init", k>>
    BY <1>1, <1>2, <1>3, MinimizeKeepsHand DEF QueueInv
  <1>5. SameHand
    BY <1>2, <1>4 DEF SameHand
  <1>6. /\ inputs' \in Seq(Entry) /\ processed' \in Seq(Entry)
        /\ bit_to_inputs' \in [Bit -> SUBSET Nat] /\ current_id' \in Nat \ {0}
        /\ bitmaps' \in [BOOLEAN -> SUBSET Bit]
        /\ IdsApart' /\ IndexExact' /\ BitsSeen'
        /\ BitsStay
    BY <1>1, <1>5, RunKeeps
  <1>7. QueueTypes'
    BY <1>4, <1>6 DEF QueueTypes, Idle
  <1> QED
    BY <1>6, <1>7 DEF Kept, QueueInv

LEMMA StageEndsKeeps == ASSUME QueueInv, MutRulesEnds \/ StageEnds PROVE Kept
  <1>1. CASE StageEnds
    <2>1. /\ flow \in {"splice", "havoc", "havoc_rec"} /\ flow' \in {"havoc", "havoc_rec", "finish"}
          /\ UNCHANGED <<queueVars, bitmaps, item>>
      BY <1>1 DEF StageEnds
    <2>2. item' \in Entry /\ SameHand
      BY <2>1 DEF QueueInv, QueueTypes, Idle, SameHand
    <2> QED
      BY <2>1, <2>2, HandTypes
  <1>2. CASE MutRulesEnds
    <2>1. /\ flow = "rules" /\ flow' = "splice" /\ UNCHANGED <<queueVars, bitmaps>>
      BY <1>2 DEF MutRulesEnds
    <2>2. item \in Entry
      BY <2>1 DEF QueueInv, QueueTypes, Idle
    <2>3. PICK c \in Nat, k \in Nat : item.state = <<"det", c, k>>
      BY <2>1 DEF QueueInv, QueueTypes
    <2>4. \/ item' = [item EXCEPT !.state = <<"det", c, k + 1>>]
          \/ item' = [item EXCEPT !.state = <<"rand">>]
          \/ item' = [item EXCEPT !.state = <<"det", c + 1, 0>>]
      BY <1>2, <2>3 DEF MutRulesEnds
    <2>5. <<"det", c, k + 1>> \in EntryState /\ <<"rand">> \in EntryState /\ <<"det", c + 1, 0>> \in EntryState
      BY DEF EntryState
    <2>6. ASSUME NEW st \in EntryState, item' = [item EXCEPT !.state = st]
          PROVE  item' \in Entry /\ item'.id = item.id /\ item'.bits = item.bits
      BY <2>2, <2>6 DEF Entry
    <2>7. item' \in Entry /\ item'.id = item.id /\ item'.bits = item.bits
      BY <2>4, <2>5, <2>6
    <2>8. SameHand
      BY <2>2, <2>7 DEF SameHand
    <2> QED
      BY <2>1, <2>7, <2>8, HandTypes
  <1> QED
    BY <1>1, <1>2

LEMMA MinimizeLoopKeeps == ASSUME QueueInv, MinimizeNothing \/ MinimizeSkip PROVE Kept
  <1>1. Minimizing /\ UNCHANGED <<queueVars, bitmaps>>
    BY DEF MinimizeNothing, MinimizeSkip
  <1>2. item \in Entry /\ item.size \in Nat
    BY <1>1 DEF QueueInv, QueueTypes, Minimizing, Idle, Entry
  <1>3. \E i : MinimizeNext(i, item.size) \/ \E done \in BOOLEAN : MinimizeReturns(done, item.size)
    BY DEF MinimizeNothing, MinimizeSkip
  <1>4. /\ item' \in Entry /\ item'.id = item.id /\ item'.bits = item.bits
        /\ flow' \in {"min_tree", "min_rec", "finish"}
        /\ flow' # "finish" => \E k \in Nat : item'.state = <<"init", k>>
    BY <1>1, <1>2, <1>3, MinimizeKeepsHand DEF QueueInv
  <1>5. SameHand
    BY <1>2, <1>4 DEF SameHand
  <1> QED
    BY <1>1, <1>4, <1>5, HandTypes

LEMMA QueueNextKeeps == ASSUME QueueInv, [NautilusNext]_nautilusVars PROVE Kept
  <1>1. CASE SelectInput
    BY <1>1, SelectKeeps
  <1>2. CASE GenerateInputs
    BY <1>2, GenerateKeeps
  <1>3. ASSUME NEW c \in Code, NEW bits \in SUBSET Bit, NEW crash \in BOOLEAN, NEW size \in 1..MaxSize,
               NEW stable \in SUBSET bits, Try(c, bits, crash, stable, size)
        PROVE  Kept
    <2>1. size \in Nat
      BY NautilusAssumption
    <2> QED
      BY <1>3, <2>1, TryKeeps
  <1>4. CASE MinimizeNothing \/ MinimizeSkip
    BY <1>4, MinimizeLoopKeeps
  <1>5. ASSUME NEW bits \in SUBSET Bit, NEW last \in SUBSET Bit, NEW crash \in BOOLEAN,
               NEW size \in 1..MaxSize, NEW parent \in 0..MaxSize, NEW stable \in SUBSET bits,
               MinimizeTest(bits, crash, stable, last, size, parent)
        PROVE  Kept
    <2>1. size \in Nat
      BY NautilusAssumption
    <2> QED
      BY <1>5, <2>1, MinimizeTestKeeps
  <1>6. CASE MutRulesEnds \/ StageEnds
    BY <1>6, StageEndsKeeps
  <1>7. CASE ProcessInputEnds
    BY <1>7, FinishKeeps
  <1>8. CASE UNCHANGED nautilusVars
    <2>1. UNCHANGED queueVars /\ SameHand /\ bitmaps' = bitmaps /\ flow' = flow /\ item' = item
      BY <1>8 DEF nautilusVars, SameHand
    <2>2. /\ IdsApart' /\ IndexExact'
          /\ \A e \in Live' : \E f \in Live : e.bits = f.bits
          /\ BitsStay
      BY <2>1, HandKeeps DEF QueueInv
    <2>3. BitsSeen'
      BY <2>1, <2>2 DEF QueueInv, BitsSeen
    <2>4. QueueTypes'
      BY <2>1 DEF QueueInv, QueueTypes, queueVars
    <2> QED
      BY <2>2, <2>3, <2>4 DEF Kept, QueueInv
  <1> QED
    BY <1>1, <1>2, <1>3, <1>4, <1>5, <1>6, <1>7, <1>8 DEF NautilusNext

\* The queue's invariants hold together, whatever the runs of the PUT show.
THEOREM QueueInvariant == NautilusSpec => []QueueInv
  <1>1. NautilusInit => QueueInv
    BY QueueInitHolds
  <1>2. QueueInv /\ [NautilusNext]_nautilusVars => QueueInv'
    BY QueueNextKeeps DEF Kept
  <1> QED
    BY <1>1, <1>2, PTL DEF NautilusSpec

\* The index of Nautilus' queue has exactly the ids of the entries that have a bit; no step
\* loses a bit, and none refuses an input that found a stable new one.
THEOREM QueueStaysSound == NautilusSpec => QueueSound
  <1>1. QueueInv /\ [NautilusNext]_nautilusVars => [CoverageKept /\ FoundIsQueued]_nautilusVars
    <2> SUFFICES ASSUME QueueInv, [NautilusNext]_nautilusVars PROVE CoverageKept /\ FoundIsQueued
      OBVIOUS
    <2>1. CoverageKept
      BY QueueNextKeeps DEF Kept, BitsStay, CoverageKept
    <2>2. FoundIsQueued
      <3> SUFFICES ASSUME NEW c \in Code, NEW bits \in SUBSET Bit, NEW size \in 1..MaxSize,
                          NEW stable \in (SUBSET bits) \ {{}}, Try(c, bits, FALSE, stable, size)
                   PROVE  current_id' = current_id + 1
        BY DEF FoundIsQueued
      <3>1. size \in Nat /\ stable \in SUBSET bits /\ stable # {}
        BY NautilusAssumption
      <3> QED
        BY <3>1, TryKeeps
    <2> QED
      BY <2>1, <2>2
  <1>2. QueueInv => IndexExact
    BY DEF QueueInv
  <1> QED
    BY <1>1, <1>2, QueueInvariant, PTL DEF NautilusSpec, QueueSound

-----------------------------------------------------------------------------
(* libFuzzer's corpus.  While the features of an execution are collected    *)
(* the value in hand stands as the record after the last, so that a feature *)
(* always has an owner the tables agree on (Collecting).                    *)

SlotOf(f) == f % FeatureSetSize

Names == {<<>>} \cup {<<c>> : c \in Contents} \cup {<<"diff", o>> : o \in Seq(Nat)}

Record ==
    [content : Contents \cup {None}, name : Names, enabled : BOOLEAN, features : Nat,
     uniq : SUBSET Nat, found : Nat, added : BOOLEAN, never_reduce : BOOLEAN, size : Nat, id : Nat]

State ==
    [corpus : Seq(Record), infos : SUBSET Nat, sizes : [Slots -> Nat], smallest : [Slots -> Nat],
     needs : BOOLEAN, updated : Nat, uniq : SUBSET Nat]

\* The features that record i owns in st.
Owns(st, i) == {s \in Slots : st.sizes[s] > 0 /\ st.smallest[s] = i}

\* What the distribution yields when it is built from these records.
Draws(recs) ==
    IF \A i \in 1..Len(recs) : recs[i].features = 0 THEN 1..Len(recs)
    ELSE {i \in 1..Len(recs) : recs[i].features > 0}

\* An enabled record has its data, counts what it owns, and owns it at its own size when
\* it could otherwise be replaced.
RecordRight(st, i) ==
    /\ st.corpus[i].enabled <=> i \in st.infos
    /\ ~st.corpus[i].enabled => st.corpus[i] = InputInfo
    /\ st.corpus[i].enabled =>
          /\ st.corpus[i].content \in Contents
          /\ CountsKept => st.corpus[i].features = Cardinality(Owns(st, i))
          /\ Shrink /\ ReduceInputs =>
                \A s \in Owns(st, i) : /\ st.sizes[s] = st.corpus[i].size
                                       /\ \E f \in st.corpus[i].uniq : SlotOf(f) = s

\* The corpus while the features of a value of this size are collected: the value stands
\* as the record after the last.
Collecting(st, drawn, size) ==
    /\ st \in State
    /\ \A i \in 1..Len(st.corpus) : RecordRight(st, i)
    /\ st.infos \subseteq 1..Len(st.corpus)
    /\ \A s \in Slots : st.sizes[s] > 0 => st.smallest[s] \in 1..Len(st.corpus) + 1
    /\ st.updated = Cardinality(Owns(st, Len(st.corpus) + 1))
    /\ st.updated = 0 => st.uniq = {}
    /\ \A s \in Owns(st, Len(st.corpus) + 1) : st.sizes[s] = size /\ \E f \in st.uniq : SlotOf(f) = s
    /\ drawn \subseteq 1..Len(st.corpus)
    /\ CountsKept /\ ~st.needs => drawn = Draws(st.corpus)

\* One of the features below n is in slot s.
ShownBelow(features, offset, n, s) == \E f \in features : f < n /\ SlotOf(f + offset) = s

TakesOver(old, size) == old = 0 \/ (Shrink /\ old > size)

\* Record j, if it is still enabled, is what it was; it is deleted only when it owns nothing.
RecordKept(st, r, j) ==
    /\ r.corpus[j].enabled => /\ st.corpus[j].enabled /\ r.corpus[j].name = st.corpus[j].name
                              /\ r.corpus[j].size = st.corpus[j].size
    /\ st.corpus[j].enabled /\ ~r.corpus[j].enabled => Owns(r, j) = {}

\* What was done to st0 once the features below n were collected.
Since(st0, st, n, features, offset, size) ==
    /\ Len(st.corpus) = Len(st0.corpus)
    /\ \A s \in Slots : st.sizes[s] = IF ShownBelow(features, offset, n, s) /\ TakesOver(st0.sizes[s], size)
                                      THEN size ELSE st0.sizes[s]
    /\ \A s \in Owns(st, Len(st0.corpus) + 1) :
          ShownBelow(features, offset, n, s) /\ TakesOver(st0.sizes[s], size)
    /\ \A s \in Slots : st0.sizes[s] > 0 => st.smallest[s] \in {st0.smallest[s], Len(st0.corpus) + 1}
    /\ \A i \in 1..Len(st0.corpus) : RecordKept(st0, st, i)
    /\ st.uniq \subseteq {f + offset : f \in features}

LEMMA SlotType == ASSUME NEW f \in Nat PROVE SlotOf(f) \in Slots
  BY LibFuzzerAssumption DEF SlotOf, Slots

LEMMA SlotsFinite ==
    /\ IsFiniteSet(Slots)
    /\ \A S \in SUBSET Slots : IsFiniteSet(S) /\ Cardinality(S) \in Nat
  <1>1. IsFiniteSet(Slots)
    BY LibFuzzerAssumption, FS_Interval DEF Slots
  <1> QED
    BY <1>1, FS_Subset, FS_CardinalityType

LEMMA InfoType == InputInfo \in Record /\ ~InputInfo.enabled /\ InputInfo.features = 0
  <1>1. <<>> \in Names
    BY DEF Names
  <1> QED
    BY <1>1 DEF InputInfo, Record

LEMMA StateFields ==
    ASSUME NEW st \in State
    PROVE  /\ st.corpus \in Seq(Record) /\ st.infos \subseteq Nat /\ st.sizes \in [Slots -> Nat]
           /\ st.smallest \in [Slots -> Nat] /\ st.needs \in BOOLEAN /\ st.updated \in Nat /\ st.uniq \subseteq Nat
           /\ Len(st.corpus) \in Nat /\ \A i \in 1..Len(st.corpus) : st.corpus[i] \in Record
  BY DEF State

LEMMA RecordFields ==
    ASSUME NEW r \in Record
    PROVE  /\ r.features \in Nat /\ r.size \in Nat /\ r.uniq \subseteq Nat /\ r.name \in Names /\ r.id \in Nat
           /\ r.content \in Contents \cup {None} /\ r.found \in Nat
           /\ r.enabled \in BOOLEAN /\ r.added \in BOOLEAN /\ r.never_reduce \in BOOLEAN
  BY DEF Record

\* The record that loses a feature: it counts one less, or is deleted with its last one.
LEMMA LoseFields ==
    ASSUME NEW st \in State, NEW i \in 1..Len(st.corpus), st.corpus[i].enabled, st.corpus[i].features > 0,
           NEW r, r = LoseFeature(st, i)
    PROVE  /\ r \in State /\ Len(r.corpus) = Len(st.corpus)
           /\ r.sizes = st.sizes /\ r.smallest = st.smallest /\ r.updated = st.updated /\ r.uniq = st.uniq
           /\ \A j \in 1..Len(st.corpus) : j # i => r.corpus[j] = st.corpus[j]
           /\ st.corpus[i].features = 1 =>
                  r.corpus[i] = InputInfo /\ r.infos = st.infos \ {i} /\ r.needs
           /\ st.corpus[i].features # 1 =>
                  /\ r.corpus[i] = [st.corpus[i] EXCEPT !.features = st.corpus[i].features - 1]
                  /\ r.infos = st.infos /\ r.needs = st.needs
  <1>1. st.corpus[i] \in Record /\ st.corpus \in Seq(Record) /\ st.corpus[i].features \in Nat
    BY StateFields, RecordFields
  <1>2. PICK left : left = st.corpus[i].features - 1
    OBVIOUS
  <1>3. left \in Nat /\ (left = 0 <=> st.corpus[i].features = 1)
    BY <1>1, <1>2
  <1>4. PICK rec : rec = [st.corpus[i] EXCEPT !.features = left]
    OBVIOUS
  <1>5. rec \in Record
    BY <1>1, <1>3, <1>4 DEF Record
  <1>6. PICK less : less = [st EXCEPT !.corpus[i].features = left]
    OBVIOUS
  <1>7. less = [st EXCEPT !.corpus = [st.corpus EXCEPT ![i] = rec]]
    BY <1>1, <1>4, <1>6 DEF State
  <1>8. [st.corpus EXCEPT ![i] = rec] \in Seq(Record) /\ [st.corpus EXCEPT ![i] = InputInfo] \in Seq(Record)
    BY <1>1, <1>5, InfoType
  <1>9. r = IF left = 0 THEN DeleteInput(less, i) ELSE less
    BY <1>2, <1>6 DEF LoseFeature
  <1>10. CASE left # 0
    <2>1. PICK recs : recs = [st.corpus EXCEPT ![i] = rec]
      OBVIOUS
    <2>2. recs \in Seq(Record) /\ Len(recs) = Len(st.corpus) /\ recs[i] = rec
          /\ \A j \in 1..Len(st.corpus) : j # i => recs[j] = st.corpus[j]
      BY <1>1, <1>8, <2>1
    <2>3. r = [st EXCEPT !.corpus = recs]
      BY <1>7, <1>9, <1>10, <2>1
    <2>4. /\ r \in State /\ r.corpus = recs /\ r.infos = st.infos /\ r.needs = st.needs
          /\ r.sizes = st.sizes /\ r.smallest = st.smallest /\ r.updated = st.updated /\ r.uniq = st.uniq
      BY <2>2, <2>3 DEF State
    <2> QED
      BY <1>2, <1>3, <1>4, <1>10, <2>2, <2>4
  <1>11. CASE left = 0
    <2>1. PICK gone : gone = [st.corpus EXCEPT ![i] = InputInfo]
      OBVIOUS
    <2>2. r = [less EXCEPT !.corpus = gone, !.infos = st.infos \ {i}, !.needs = TRUE]
      <3>1. [less.corpus EXCEPT ![i] = InputInfo] = gone
        BY <1>1, <1>7, <2>1 DEF State
      <3>2. less.infos = st.infos
        BY <1>7 DEF State
      <3> QED
        BY <1>9, <1>11, <3>1, <3>2 DEF DeleteInput
    <2>3. less \in State
      BY <1>7, <1>8 DEF State
    <2>4. less.sizes = st.sizes /\ less.smallest = st.smallest /\ less.updated = st.updated /\ less.uniq = st.uniq
      BY <1>7 DEF State
    <2>5. gone \in Seq(Record) /\ Len(gone) = Len(st.corpus) /\ gone[i] = InputInfo
          /\ \A j \in 1..Len(st.corpus) : j # i => gone[j] = st.corpus[j]
      BY <1>1, <1>8, <2>1
    <2>6. r \in State /\ r.corpus = gone /\ r.infos = st.infos \ {i} /\ r.needs
          /\ r.sizes = less.sizes /\ r.smallest = less.smallest /\ r.updated = less.updated /\ r.uniq = less.uniq
      BY <2>2, <2>3, <2>5 DEF State
    <2> QED
      BY <1>3, <1>11, <2>4, <2>5, <2>6
  <1> QED
    BY <1>10, <1>11

\* A value that takes a feature over: what AddFeature does to the tables.
Takes(lost, r, f, s, id, size) ==
    r = [lost EXCEPT !.updated = @ + 1, !.uniq = @ \cup {f}, !.smallest[s] = id, !.sizes[s] = size]

Took(lost, r, f, s, id, size) ==
    /\ r \in State /\ r.corpus = lost.corpus /\ r.infos = lost.infos /\ r.needs = lost.needs
    /\ r.updated = lost.updated + 1 /\ r.uniq = lost.uniq \cup {f}
    /\ r.smallest = [lost.smallest EXCEPT ![s] = id] /\ r.sizes = [lost.sizes EXCEPT ![s] = size]

LEMMA TakeFields ==
    ASSUME NEW lost \in State, NEW s \in Slots, NEW f \in Nat, NEW size \in Nat, NEW id \in Nat,
           NEW r, Takes(lost, r, f, s, id, size)
    PROVE  Took(lost, r, f, s, id, size)
  <1>1. PICK sm : sm = [lost.smallest EXCEPT ![s] = id]
    OBVIOUS
  <1>2. PICK sz : sz = [lost.sizes EXCEPT ![s] = size]
    OBVIOUS
  <1>3. PICK up : up = lost.updated + 1
    OBVIOUS
  <1>4. PICK un : un = lost.uniq \cup {f}
    OBVIOUS
  <1>5. sm \in [Slots -> Nat] /\ sz \in [Slots -> Nat] /\ up \in Nat /\ un \in SUBSET Nat
    BY <1>1, <1>2, <1>3, <1>4, StateFields
  <1>6. r = [lost EXCEPT !.updated = up, !.uniq = un, !.smallest = sm, !.sizes = sz]
    BY <1>1, <1>2, <1>3, <1>4 DEF State, Takes
  <1>7. /\ r \in State /\ r.corpus = lost.corpus /\ r.infos = lost.infos /\ r.needs = lost.needs
        /\ r.updated = up /\ r.uniq = un /\ r.smallest = sm /\ r.sizes = sz
    BY <1>5, <1>6 DEF State
  <1> QED
    BY <1>1, <1>2, <1>3, <1>4, <1>7 DEF Took

\* Whose features change when slot s goes to id.
GoesTo(st, r, s, id, size) ==
    /\ s \in Slots /\ size \in Nat \ {0}
    /\ st.sizes \in [Slots -> Nat] /\ st.smallest \in [Slots -> Nat]
    /\ r.sizes = [st.sizes EXCEPT ![s] = size] /\ r.smallest = [st.smallest EXCEPT ![s] = id]

LEMMA OwnsAfter ==
    ASSUME NEW st, NEW r, NEW s, NEW size, NEW id, GoesTo(st, r, s, id, size)
    PROVE  /\ Owns(r, id) = Owns(st, id) \cup {s}
           /\ \A j : j # id => Owns(r, j) = Owns(st, j) \ {s}
           /\ r.sizes[s] = size /\ r.smallest[s] = id
           /\ \A t \in Slots : t # s => r.sizes[t] = st.sizes[t] /\ r.smallest[t] = st.smallest[t]
  <1>1. /\ r.sizes[s] = size /\ r.smallest[s] = id /\ size > 0
        /\ \A t \in Slots : t # s => r.sizes[t] = st.sizes[t] /\ r.smallest[t] = st.smallest[t]
    BY DEF GoesTo
  <1>2. Owns(r, id) = Owns(st, id) \cup {s}
    BY <1>1 DEF Owns, GoesTo
  <1>3. ASSUME NEW j, j # id PROVE Owns(r, j) = Owns(st, j) \ {s}
    BY <1>1, <1>3 DEF Owns
  <1> QED
    BY <1>1, <1>2, <1>3

\* Records that own features are the same ones.
LEMMA DrawsSame ==
    ASSUME NEW a \in Seq(Record), NEW b \in Seq(Record), Len(a) = Len(b),
           \A i \in 1..Len(a) : a[i].features = 0 <=> b[i].features = 0
    PROVE  Draws(a) = Draws(b)
  <1>1. Len(a) \in Nat /\ \A i \in 1..Len(a) : a[i] \in Record /\ b[i] \in Record
    OBVIOUS
  <1>2. \A i \in 1..Len(a) : a[i].features \in Nat /\ b[i].features \in Nat
    BY <1>1, RecordFields
  <1>3. \A i \in 1..Len(a) : a[i].features > 0 <=> b[i].features > 0
    BY <1>2
  <1> QED
    BY <1>3 DEF Draws

\* The owner of slot s, if it is one of the records, before s goes to another.
OwnerLoses(st, lost, s) ==
    /\ lost \in State /\ Len(lost.corpus) = Len(st.corpus)
    /\ lost.sizes = st.sizes /\ lost.smallest = st.smallest /\ lost.updated = st.updated /\ lost.uniq = st.uniq
    /\ lost.infos \subseteq st.infos
    /\ \A j \in 1..Len(st.corpus) :
          /\ s \notin Owns(st, j) \/ ~st.corpus[j].enabled =>
                 lost.corpus[j] = st.corpus[j] /\ (j \in lost.infos <=> j \in st.infos)
          /\ s \in Owns(st, j) /\ st.corpus[j].enabled /\ Cardinality(Owns(st, j)) = 1 =>
                 lost.corpus[j] = InputInfo /\ j \notin lost.infos /\ lost.needs
          /\ s \in Owns(st, j) /\ st.corpus[j].enabled /\ Cardinality(Owns(st, j)) # 1 =>
                 /\ lost.corpus[j] = [st.corpus[j] EXCEPT !.features = st.corpus[j].features - 1]
                 /\ j \in lost.infos
    /\ ~lost.needs => ~st.needs
    /\ st.sizes[s] > 0 => Shrink

LEMMA OwnerLosesIt ==
    ASSUME NEW st, NEW drawn, NEW size \in Nat \ {0}, NEW s \in Slots, Collecting(st, drawn, size),
           TakesOver(st.sizes[s], size),
           NEW lost, lost = IF st.sizes[s] > 0 THEN LoseFeature(st, st.smallest[s]) ELSE st
    PROVE  OwnerLoses(st, lost, s) /\ s \notin Owns(st, Len(st.corpus) + 1)
  <1>1. /\ st \in State /\ Len(st.corpus) \in Nat /\ st.sizes \in [Slots -> Nat] /\ st.smallest \in [Slots -> Nat]
        /\ st.sizes[s] \in Nat
    BY StateFields DEF Collecting
  <1>2. s \notin Owns(st, Len(st.corpus) + 1)
    <2> SUFFICES ASSUME s \in Owns(st, Len(st.corpus) + 1) PROVE FALSE
      OBVIOUS
    <2>1. st.sizes[s] = size
      BY DEF Collecting
    <2> QED
      BY <2>1 DEF TakesOver
  <1>3. CASE st.sizes[s] = 0
    <2>1. lost = st
      BY <1>3
    <2>2. \A j : s \notin Owns(st, j)
      BY <1>3 DEF Owns
    <2>3. ~(st.sizes[s] > 0)
      BY <1>3
    <2> QED
      BY <1>1, <1>2, <2>1, <2>2, <2>3 DEF OwnerLoses
  <1>4. CASE st.sizes[s] > 0
    <2>0. Shrink /\ CountsKept
      BY <1>1, <1>4 DEF TakesOver, CountsKept
    <2>1. PICK i : i = st.smallest[s]
      OBVIOUS
    <2>2. i \in 1..Len(st.corpus) /\ s \in Owns(st, i) /\ \A j : s \in Owns(st, j) => j = i
      <3>1. i \in 1..Len(st.corpus) + 1
        BY <1>4, <2>1 DEF Collecting
      <3>2. s \in Owns(st, i) /\ \A j : s \in Owns(st, j) => j = i
        BY <1>4, <2>1 DEF Owns
      <3>3. i # Len(st.corpus) + 1
        BY <1>2, <3>2, Zenon
      <3>4. i \in 1..Len(st.corpus)
        BY <1>1, <3>1, <3>3
      <3> QED
        BY <3>2, <3>4
    <2>3. lost = LoseFeature(st, i)
      BY <1>4, <2>1
    <2>4. CASE ~st.corpus[i].enabled
      <3>1. lost = st
        BY <2>3, <2>4 DEF LoseFeature
      <3> QED
        BY <1>1, <1>2, <2>0, <2>2, <2>4, <3>1 DEF OwnerLoses
    <2>5. CASE st.corpus[i].enabled
      <3>1. st.corpus[i].features = Cardinality(Owns(st, i)) /\ i \in st.infos
        BY <2>0, <2>2, <2>5 DEF Collecting, RecordRight
      <3>2. Owns(st, i) \subseteq Slots /\ Owns(st, i) # {}
        BY <2>2 DEF Owns
      <3>3. Cardinality(Owns(st, i)) \in Nat /\ IsFiniteSet(Owns(st, i)) /\ Cardinality(Owns(st, i)) # 0
        BY <3>2, SlotsFinite, FS_EmptySet
      <3>4. st.corpus[i].features > 0
        BY <3>1, <3>3
      <3>5. /\ lost \in State /\ Len(lost.corpus) = Len(st.corpus)
            /\ lost.sizes = st.sizes /\ lost.smallest = st.smallest /\ lost.updated = st.updated /\ lost.uniq = st.uniq
            /\ \A j \in 1..Len(st.corpus) : j # i => lost.corpus[j] = st.corpus[j]
            /\ st.corpus[i].features = 1 =>
                   lost.corpus[i] = InputInfo /\ lost.infos = st.infos \ {i} /\ lost.needs
            /\ st.corpus[i].features # 1 =>
                   /\ lost.corpus[i] = [st.corpus[i] EXCEPT !.features = st.corpus[i].features - 1]
                   /\ lost.infos = st.infos /\ lost.needs = st.needs
        BY <1>1, <2>2, <2>3, <2>5, <3>4, LoseFields
      <3>6. lost.infos \subseteq st.infos /\ (~lost.needs => ~st.needs)
        BY <3>5
      <3>7. ASSUME NEW j \in 1..Len(st.corpus), s \notin Owns(st, j) \/ ~st.corpus[j].enabled
            PROVE  lost.corpus[j] = st.corpus[j] /\ (j \in lost.infos <=> j \in st.infos)
        <4>1. j # i
          BY <2>2, <2>5, <3>7
        <4> QED
          BY <3>5, <4>1
      <3>8. ASSUME NEW j \in 1..Len(st.corpus), s \in Owns(st, j) PROVE j = i
        BY <2>2, <3>8
      <3>9. ASSUME NEW j \in 1..Len(st.corpus), s \in Owns(st, j), Cardinality(Owns(st, j)) = 1
            PROVE  lost.corpus[j] = InputInfo /\ j \notin lost.infos /\ lost.needs
        <4>1. j = i
          BY <3>8, <3>9
        <4> QED
          BY <3>1, <3>5, <3>9, <4>1
      <3>10. ASSUME NEW j \in 1..Len(st.corpus), s \in Owns(st, j), Cardinality(Owns(st, j)) # 1
             PROVE  /\ lost.corpus[j] = [st.corpus[j] EXCEPT !.features = st.corpus[j].features - 1]
                    /\ j \in lost.infos
        <4>1. j = i
          BY <3>8, <3>10
        <4> QED
          BY <3>1, <3>5, <3>10, <4>1
      <3> QED
        BY <1>2, <2>0, <3>5, <3>6, <3>7, <3>9, <3>10 DEF OwnerLoses
    <2> QED
      BY <2>4, <2>5
  <1> QED
    BY <1>1, <1>3, <1>4

\* Record j reads in r as in lost, and has lost slot s.
ReadsLost(st, lost, r, s, j) ==
    /\ r.corpus = lost.corpus /\ r.infos = lost.infos /\ Owns(r, j) = Owns(st, j) \ {s}
    /\ \A t \in Slots : t # s => r.sizes[t] = st.sizes[t]

SameWeight(st, lost, r, j) == ~lost.needs => (r.corpus[j].features = 0 <=> st.corpus[j].features = 0)

\* A record after one of its features went to the value in hand.
LEMMA RecordAfterLoss ==
    ASSUME NEW st, NEW lost, NEW r, NEW s \in Slots, NEW j \in 1..Len(st.corpus), st \in State,
           OwnerLoses(st, lost, s), RecordRight(st, j), ReadsLost(st, lost, r, s, j)
    PROVE  /\ RecordRight(r, j) /\ RecordKept(st, r, j)
           /\ SameWeight(st, lost, r, j)
  <1> USE DEF ReadsLost, RecordKept, SameWeight
  <1>1. st.corpus[j] \in Record /\ st.corpus[j].features \in Nat
    BY StateFields, RecordFields
  <1>2. Owns(st, j) \subseteq Slots /\ Owns(r, j) \subseteq Slots
    BY DEF Owns
  <1>3. CASE s \notin Owns(st, j) \/ ~st.corpus[j].enabled
    <2>1. r.corpus[j] = st.corpus[j] /\ (j \in r.infos <=> j \in st.infos)
      BY <1>3 DEF OwnerLoses
    <2>2. ASSUME st.corpus[j].enabled PROVE Owns(r, j) = Owns(st, j) /\ \A t \in Owns(st, j) : r.sizes[t] = st.sizes[t]
      BY <1>2, <1>3, <2>2
    <2>3. RecordRight(r, j)
      BY <2>1, <2>2 DEF RecordRight
    <2> QED
      BY <2>1, <2>3
  <1>4. CASE s \in Owns(st, j) /\ st.corpus[j].enabled /\ Cardinality(Owns(st, j)) = 1
    <2>1. r.corpus[j] = InputInfo /\ j \notin r.infos /\ lost.needs
      BY <1>4 DEF OwnerLoses
    <2>2. Owns(r, j) = {}
      <3>1. IsFiniteSet(Owns(st, j)) /\ IsFiniteSet(Owns(r, j))
        BY <1>2, SlotsFinite
      <3>2. Cardinality(Owns(r, j)) = Cardinality(Owns(st, j)) - 1
        BY <1>4, <3>1, FS_RemoveElement
      <3>3. Cardinality(Owns(r, j)) = 0
        BY <1>4, <3>2
      <3> QED
        BY <3>1, <3>3, FS_EmptySet
    <2>3. ~r.corpus[j].enabled
      BY <2>1, InfoType
    <2>4. RecordRight(r, j)
      BY <2>1, <2>3 DEF RecordRight
    <2> QED
      BY <2>1, <2>2, <2>3, <2>4
  <1>5. CASE s \in Owns(st, j) /\ st.corpus[j].enabled /\ Cardinality(Owns(st, j)) # 1
    <2>1. r.corpus[j] = [st.corpus[j] EXCEPT !.features = st.corpus[j].features - 1] /\ j \in r.infos
      BY <1>5 DEF OwnerLoses
    <2>2. /\ r.corpus[j].features = st.corpus[j].features - 1 /\ r.corpus[j].enabled
          /\ r.corpus[j].name = st.corpus[j].name /\ r.corpus[j].size = st.corpus[j].size
          /\ r.corpus[j].uniq = st.corpus[j].uniq /\ r.corpus[j].content = st.corpus[j].content
      BY <1>1, <1>5, <2>1 DEF Record
    <2>3. /\ st.corpus[j].features = Cardinality(Owns(st, j)) /\ st.corpus[j].content \in Contents
          /\ ReduceInputs =>
                \A t \in Owns(st, j) : st.sizes[t] = st.corpus[j].size /\ \E f \in st.corpus[j].uniq : SlotOf(f) = t
      <3>1. st.sizes[s] > 0
        BY <1>5 DEF Owns
      <3>2. Shrink /\ CountsKept
        BY <3>1 DEF OwnerLoses, CountsKept
      <3> QED
        BY <1>5, <3>2 DEF RecordRight
    <2>4. Cardinality(Owns(r, j)) = Cardinality(Owns(st, j)) - 1
      <3>1. IsFiniteSet(Owns(st, j))
        BY <1>2, SlotsFinite
      <3> QED
        BY <1>5, <3>1, FS_RemoveElement
    <2>5. r.corpus[j].features = Cardinality(Owns(r, j))
      BY <2>2, <2>3, <2>4
    <2>6. ReduceInputs =>
             \A t \in Owns(r, j) : r.sizes[t] = r.corpus[j].size /\ \E f \in r.corpus[j].uniq : SlotOf(f) = t
      <3> SUFFICES ASSUME ReduceInputs, NEW t \in Owns(r, j)
                   PROVE  r.sizes[t] = r.corpus[j].size /\ \E f \in r.corpus[j].uniq : SlotOf(f) = t
        OBVIOUS
      <3>1. t \in Owns(st, j) /\ t # s /\ t \in Slots
        BY <1>2
      <3> QED
        BY <2>2, <2>3, <3>1
    <2>7. RecordRight(r, j)
      BY <2>1, <2>2, <2>3, <2>5, <2>6 DEF RecordRight
    <2>8. r.corpus[j].features # 0 /\ st.corpus[j].features # 0
      <3>1. Cardinality(Owns(st, j)) # 0
        <4>1. IsFiniteSet(Owns(st, j)) /\ Owns(st, j) # {}
          BY <1>2, <1>5, SlotsFinite
        <4> QED
          BY <4>1, FS_EmptySet
      <3> QED
        BY <1>1, <1>5, <2>2, <2>3, <3>1
    <2> QED
      BY <1>5, <2>2, <2>7, <2>8
  <1> QED
    BY <1>3, <1>4, <1>5

\* Feature f went to the value in hand.
FeatureTaken(st, r, f, size) ==
    /\ Len(r.corpus) = Len(st.corpus) /\ r.uniq = st.uniq \cup {f}
    /\ r.sizes = [st.sizes EXCEPT ![SlotOf(f)] = size]
    /\ r.smallest = [st.smallest EXCEPT ![SlotOf(f)] = Len(st.corpus) + 1]
    /\ \A j \in 1..Len(st.corpus) : RecordKept(st, r, j)

\* Taking a feature over keeps the corpus right.
LEMMA TakeKeeps ==
    ASSUME NEW st, NEW drawn, NEW size \in Nat \ {0}, NEW f \in Nat, Collecting(st, drawn, size),
           TakesOver(st.sizes[SlotOf(f)], size), NEW r, r = AddFeature(st, f, size)
    PROVE  Collecting(r, drawn, size) /\ FeatureTaken(st, r, f, size)
  <1>0. size \in Nat
    OBVIOUS
  <1>1. PICK s : s = SlotOf(f)
    OBVIOUS
  <1>2. s \in Slots
    BY <1>1, SlotType
  <1>3. PICK lost : lost = IF st.sizes[s] > 0 THEN LoseFeature(st, st.smallest[s]) ELSE st
    OBVIOUS
  <1>4. OwnerLoses(st, lost, s) /\ s \notin Owns(st, Len(st.corpus) + 1)
    BY <1>1, <1>2, <1>3, OwnerLosesIt
  <1>5. PICK id : id = Len(st.corpus) + 1
    OBVIOUS
  <1>6. /\ st \in State /\ Len(st.corpus) \in Nat /\ id \in Nat /\ st.sizes \in [Slots -> Nat]
        /\ st.smallest \in [Slots -> Nat] /\ st.updated \in Nat /\ st.corpus \in Seq(Record)
    BY <1>5, StateFields DEF Collecting
  <1>7. Takes(lost, r, f, s, id, size)
    BY <1>1, <1>3, <1>5 DEF AddFeature, TakesOver, SlotOf, Takes
  <1>8. lost \in State
    BY <1>4 DEF OwnerLoses
  <1>9. /\ r \in State /\ r.corpus = lost.corpus /\ r.infos = lost.infos /\ r.needs = lost.needs
        /\ r.updated = lost.updated + 1 /\ r.uniq = lost.uniq \cup {f}
        /\ r.smallest = [lost.smallest EXCEPT ![s] = id] /\ r.sizes = [lost.sizes EXCEPT ![s] = size]
    <2>1. Took(lost, r, f, s, id, size)
      BY <1>0, <1>2, <1>6, <1>7, <1>8, TakeFields
    <2> QED
      BY <2>1 DEF Took
  <1>10. /\ r.updated = st.updated + 1 /\ r.uniq = st.uniq \cup {f} /\ Len(r.corpus) = Len(st.corpus)
         /\ r.smallest = [st.smallest EXCEPT ![s] = id] /\ r.sizes = [st.sizes EXCEPT ![s] = size]
         /\ r.infos \subseteq st.infos /\ (~r.needs => ~st.needs)
    BY <1>4, <1>9 DEF OwnerLoses
  <1>11. /\ Owns(r, id) = Owns(st, id) \cup {s}
         /\ \A j : j # id => Owns(r, j) = Owns(st, j) \ {s}
         /\ r.sizes[s] = size /\ r.smallest[s] = id
         /\ \A t \in Slots : t # s => r.sizes[t] = st.sizes[t] /\ r.smallest[t] = st.smallest[t]
    <2>1. GoesTo(st, r, s, id, size)
      BY <1>2, <1>6, <1>10 DEF GoesTo
    <2> QED
      BY <2>1, OwnsAfter
  <1>12. ASSUME NEW j \in 1..Len(st.corpus)
         PROVE  RecordRight(r, j) /\ RecordKept(st, r, j) /\ SameWeight(st, lost, r, j)
    <2>1. j # id
      BY <1>5, <1>6
    <2>2. Owns(r, j) = Owns(st, j) \ {s} /\ RecordRight(st, j)
      BY <1>11, <2>1 DEF Collecting
    <2>3. \A t \in Slots : t # s => r.sizes[t] = st.sizes[t]
      BY <1>11
    <2> QED
      <3>1. ReadsLost(st, lost, r, s, j)
        BY <1>9, <2>2, <2>3 DEF ReadsLost
      <3> QED
        BY <1>2, <1>4, <1>6, <2>2, <3>1, RecordAfterLoss
  <1>13. Owns(st, id) \subseteq Slots /\ Owns(r, id) \subseteq Slots /\ s \notin Owns(st, id)
    BY <1>4, <1>5 DEF Owns
  <1>14. r.updated = Cardinality(Owns(r, id)) /\ r.updated # 0
    <2>1. IsFiniteSet(Owns(st, id)) /\ Cardinality(Owns(st, id)) \in Nat
      BY <1>13, SlotsFinite
    <2>2. Cardinality(Owns(r, id)) = Cardinality(Owns(st, id)) + 1
      <3>1. Cardinality(Owns(st, id) \cup {s}) = Cardinality(Owns(st, id)) + 1
        BY <1>13, <2>1, FS_AddElement
      <3> QED
        BY <1>11, <3>1
    <2>3. st.updated = Cardinality(Owns(st, id))
      BY <1>5 DEF Collecting
    <2> QED
      BY <1>6, <1>10, <2>2, <2>3
  <1>15. ASSUME NEW t \in Owns(r, id) PROVE r.sizes[t] = size /\ \E g \in r.uniq : SlotOf(g) = t
    <2>1. CASE t = s
      BY <1>1, <1>10, <1>11, <2>1
    <2>2. CASE t # s
      <3>1. t \in Owns(st, id) /\ t \in Slots
        BY <1>11, <1>13, <2>2
      <3>2. st.sizes[t] = size /\ \E g \in st.uniq : SlotOf(g) = t
        BY <1>5, <3>1 DEF Collecting
      <3> QED
        BY <1>10, <1>11, <2>2, <3>1, <3>2
    <2> QED
      BY <2>1, <2>2
  <1>16. ASSUME NEW t \in Slots, r.sizes[t] > 0 PROVE r.smallest[t] \in 1..Len(st.corpus) + 1
    <2>1. CASE t = s
      BY <1>5, <1>6, <1>11, <2>1
    <2>2. CASE t # s
      BY <1>11, <1>16, <2>2 DEF Collecting
    <2> QED
      BY <2>1, <2>2
  <1>17. CountsKept /\ ~r.needs => drawn = Draws(r.corpus)
    <2> SUFFICES ASSUME CountsKept, ~r.needs PROVE drawn = Draws(r.corpus)
      OBVIOUS
    <2>1. drawn = Draws(st.corpus)
      BY <1>10 DEF Collecting
    <2>2. \A j \in 1..Len(st.corpus) : st.corpus[j].features = 0 <=> r.corpus[j].features = 0
      BY <1>9, <1>12 DEF SameWeight
    <2>3. r.corpus \in Seq(Record)
      BY <1>9, StateFields
    <2> QED
      BY <1>6, <1>10, <2>1, <2>2, <2>3, DrawsSame
  <1>18. r.infos \subseteq 1..Len(st.corpus) /\ drawn \subseteq 1..Len(st.corpus)
    BY <1>10 DEF Collecting
  <1>19. Collecting(r, drawn, size)
    BY <1>5, <1>9, <1>10, <1>12, <1>14, <1>15, <1>16, <1>17, <1>18 DEF Collecting
  <1> QED
    BY <1>1, <1>5, <1>10, <1>12, <1>19 DEF FeatureTaken

\* A value that shows a feature in slot s when the features below n + 1 are collected.
LEMMA ShownNext ==
    ASSUME NEW features \in SUBSET Nat, NEW offset \in Nat, NEW n \in Nat, NEW m \in Nat, m = n + 1, NEW s
    PROVE  ShownBelow(features, offset, m, s) <=>
               \/ ShownBelow(features, offset, n, s)
               \/ n \in features /\ SlotOf(n + offset) = s
  <1>1. \A f \in features : f < m <=> (f < n \/ f = n)
    OBVIOUS
  <1> QED
    BY <1>1 DEF ShownBelow

LEMMA KeptTwice ==
    ASSUME NEW st0, NEW st, NEW r, NEW i, NEW s, RecordKept(st0, st, i), RecordKept(st, r, i),
           Owns(r, i) = Owns(st, i) \ {s}
    PROVE  RecordKept(st0, r, i)
  BY DEF RecordKept

\* The corpus before the first feature.
LEMMA SinceStart ==
    ASSUME NEW st, NEW drawn, NEW size, Collecting(st, drawn, size), st.updated = 0,
           NEW features \in SUBSET Nat, NEW offset \in Nat
    PROVE  Since(st, st, 0, features, offset, size)
  <1>1. st \in State /\ Len(st.corpus) \in Nat
    BY StateFields DEF Collecting
  <1>2. Owns(st, Len(st.corpus) + 1) = {}
    <2>1. Owns(st, Len(st.corpus) + 1) \subseteq Slots
      BY DEF Owns
    <2>2. IsFiniteSet(Owns(st, Len(st.corpus) + 1)) /\ Cardinality(Owns(st, Len(st.corpus) + 1)) = 0
      BY <2>1, SlotsFinite DEF Collecting
    <2> QED
      BY <2>2, FS_EmptySet
  <1>3. \A s : ~ShownBelow(features, offset, 0, s)
    BY DEF ShownBelow
  <1>4. \A i \in 1..Len(st.corpus) : RecordKept(st, st, i)
    BY DEF RecordKept
  <1>5. st.uniq \subseteq {f + offset : f \in features}
    BY DEF Collecting
  <1> QED
    BY <1>1, <1>2, <1>3, <1>4, <1>5 DEF Since

\* The next feature: one the execution did not show, one that stays with its owner, or
\* one that goes to the value in hand.
LEMMA SinceSame ==
    ASSUME NEW st0, NEW st, NEW size \in Nat \ {0}, NEW features \in SUBSET Nat, NEW offset \in Nat,
           NEW n \in Nat, NEW m \in Nat, m = n + 1, Since(st0, st, n, features, offset, size),
           n \notin features \/ ~TakesOver(st.sizes[SlotOf(n + offset)], size)
    PROVE  Since(st0, st, m, features, offset, size)
  <1>1. ASSUME NEW s \in Slots, TakesOver(st0.sizes[s], size)
        PROVE  ShownBelow(features, offset, m, s) <=> ShownBelow(features, offset, n, s)
    <2>1. CASE n \in features /\ SlotOf(n + offset) = s
      <3>1. ~TakesOver(st.sizes[s], size)
        BY <2>1
      <3>2. ShownBelow(features, offset, n, s)
        BY <1>1, <3>1 DEF Since
      <3> QED
        BY <3>2, ShownNext
    <2>2. CASE ~(n \in features /\ SlotOf(n + offset) = s)
      BY <2>2, ShownNext
    <2> QED
      BY <2>1, <2>2
  <1>2. \A s \in Slots : (ShownBelow(features, offset, m, s) /\ TakesOver(st0.sizes[s], size))
                           <=> (ShownBelow(features, offset, n, s) /\ TakesOver(st0.sizes[s], size))
    BY <1>1
  <1>3. \A s \in Slots : st.sizes[s] = IF ShownBelow(features, offset, m, s) /\ TakesOver(st0.sizes[s], size)
                                       THEN size ELSE st0.sizes[s]
    BY <1>2 DEF Since
  <1>4. \A s \in Owns(st, Len(st0.corpus) + 1) :
           ShownBelow(features, offset, m, s) /\ TakesOver(st0.sizes[s], size)
    BY <1>2 DEF Since, Owns
  <1> QED
    BY <1>3, <1>4 DEF Since

LEMMA SinceTaken ==
    ASSUME NEW st0, NEW st, NEW drawn, NEW size \in Nat \ {0}, NEW features \in SUBSET Nat, NEW offset \in Nat,
           NEW n \in Nat, NEW m \in Nat, m = n + 1, Since(st0, st, n, features, offset, size),
           Collecting(st, drawn, size), n \in features,
           TakesOver(st.sizes[SlotOf(n + offset)], size), NEW r, r = AddFeature(st, n + offset, size)
    PROVE  Since(st0, r, m, features, offset, size) /\ Collecting(r, drawn, size)
  <1>1. PICK f : f = n + offset
    OBVIOUS
  <1>2. f \in Nat
    BY <1>1
  <1>3. PICK s : s = SlotOf(f)
    OBVIOUS
  <1>4. s \in Slots /\ TakesOver(st.sizes[s], size) /\ r = AddFeature(st, f, size)
    BY <1>1, <1>2, <1>3, SlotType
  <1>5. /\ Collecting(r, drawn, size)
        /\ Len(r.corpus) = Len(st.corpus) /\ r.uniq = st.uniq \cup {f}
        /\ r.sizes = [st.sizes EXCEPT ![s] = size]
        /\ r.smallest = [st.smallest EXCEPT ![s] = Len(st.corpus) + 1]
        /\ \A j \in 1..Len(st.corpus) : RecordKept(st, r, j)
    <2>1. Collecting(r, drawn, size) /\ FeatureTaken(st, r, f, size)
      BY <1>2, <1>3, <1>4, TakeKeeps
    <2> QED
      BY <1>3, <2>1 DEF FeatureTaken
  <1>6. PICK id : id = Len(st.corpus) + 1
    OBVIOUS
  <1>7. /\ st \in State /\ Len(st.corpus) \in Nat /\ id \in Nat /\ st.sizes \in [Slots -> Nat]
        /\ st.smallest \in [Slots -> Nat] /\ Len(st.corpus) = Len(st0.corpus)
    BY <1>6, StateFields DEF Collecting, Since
  <1>8. GoesTo(st, r, s, id, size)
    BY <1>4, <1>5, <1>6, <1>7 DEF GoesTo
  <1>9. /\ Owns(r, id) = Owns(st, id) \cup {s}
        /\ \A j : j # id => Owns(r, j) = Owns(st, j) \ {s}
        /\ r.sizes[s] = size /\ r.smallest[s] = id
        /\ \A t \in Slots : t # s => r.sizes[t] = st.sizes[t] /\ r.smallest[t] = st.smallest[t]
    BY <1>8, OwnsAfter
  <1>10. \A t \in Slots : ShownBelow(features, offset, m, t) <=> ShownBelow(features, offset, n, t) \/ t = s
    BY <1>1, <1>3, ShownNext
  <1>11. TakesOver(st0.sizes[s], size)
    <2> SUFFICES ASSUME ~TakesOver(st0.sizes[s], size) PROVE FALSE
      OBVIOUS
    <2>1. st.sizes[s] = st0.sizes[s]
      BY <1>4 DEF Since
    <2> QED
      BY <1>4, <2>1
  <1>12. ASSUME NEW t \in Slots
         PROVE  r.sizes[t] = IF ShownBelow(features, offset, m, t) /\ TakesOver(st0.sizes[t], size)
                             THEN size ELSE st0.sizes[t]
    <2>1. CASE t = s
      BY <1>9, <1>10, <1>11, <2>1
    <2>2. CASE t # s
      BY <1>9, <1>10, <2>2 DEF Since
    <2> QED
      BY <2>1, <2>2
  <1>13. ASSUME NEW t \in Owns(r, id)
         PROVE  ShownBelow(features, offset, m, t) /\ TakesOver(st0.sizes[t], size)
    <2>1. t \in Slots /\ (t = s \/ t \in Owns(st, id))
      BY <1>4, <1>9 DEF Owns
    <2>2. CASE t = s
      BY <1>4, <1>10, <1>11, <2>2
    <2>3. CASE t \in Owns(st, id)
      <3>1. ShownBelow(features, offset, n, t) /\ TakesOver(st0.sizes[t], size)
        BY <1>6, <1>7, <2>3 DEF Since
      <3> QED
        BY <1>10, <2>1, <3>1
    <2> QED
      BY <2>1, <2>2, <2>3
  <1>14. ASSUME NEW t \in Slots, st0.sizes[t] > 0 PROVE r.smallest[t] \in {st0.smallest[t], id}
    <2>1. CASE t = s
      BY <1>9, <2>1
    <2>2. CASE t # s
      BY <1>6, <1>7, <1>9, <1>14, <2>2 DEF Since
    <2> QED
      BY <2>1, <2>2
  <1>15. ASSUME NEW i \in 1..Len(st0.corpus) PROVE RecordKept(st0, r, i)
    <2>1. i # id /\ i \in 1..Len(st.corpus)
      BY <1>6, <1>7
    <2>2. RecordKept(st0, st, i) /\ RecordKept(st, r, i) /\ Owns(r, i) = Owns(st, i) \ {s}
      BY <1>5, <1>9, <2>1 DEF Since
    <2> QED
      BY <2>2, KeptTwice
  <1>16. r.uniq \subseteq {g + offset : g \in features}
    <2>1. st.uniq \subseteq {g + offset : g \in features}
      BY DEF Since
    <2> QED
      BY <1>1, <1>5, <2>1
  <1>17. Len(r.corpus) = Len(st0.corpus)
    BY <1>5, <1>7
  <1>18. /\ \A t \in Owns(r, Len(st0.corpus) + 1) : ShownBelow(features, offset, m, t) /\ TakesOver(st0.sizes[t], size)
         /\ \A t \in Slots : st0.sizes[t] > 0 => r.smallest[t] \in {st0.smallest[t], Len(st0.corpus) + 1}
    BY <1>6, <1>7, <1>13, <1>14
  <1> QED
    BY <1>5, <1>12, <1>15, <1>16, <1>17, <1>18 DEF Since

-----------------------------------------------------------------------------
(* CollectFeatures walks over the whole map. *)

LEMMA SmallestNumber ==
    ASSUME NEW T, T \subseteq Nat, T # {}
    PROVE  \E x \in T : \A y \in T : x <= y
  <1> DEFINE R == OpToRel(<, Nat)
  <1>1. IsWellFoundedOn(R, Nat)
    BY NatLessThanWellFounded, Zenon
  <1>2. \A x, y \in Nat : x < y => <<x, y>> \in R
    BY DEF OpToRel
  <1> HIDE DEF R
  <1>3. PICK x \in T : \A y \in T : ~(<<y, x>> \in R)
    BY <1>1, WFMin, Zenon
  <1>4. ASSUME NEW y \in T PROVE x <= y
    <2>1. x \in Nat /\ y \in Nat
      OBVIOUS
    <2>2. ~(y < x)
      BY <1>2, <1>3, <2>1, Zenon
    <2> QED
      BY <2>1, <2>2
  <1> QED
    BY <1>4

\* Of the numbers for which something fails, one is the first.
LEMMA FirstThatFails ==
    ASSUME NEW T, T \subseteq Nat, T # {}
    PROVE  \E m \in T : m = 0 \/ \E n \in Nat : m = n + 1 /\ n \notin T
  <1>1. PICK m \in T : \A y \in T : m <= y
    BY SmallestNumber
  <1>2. m \in Nat
    OBVIOUS
  <1>3. m # 0 => \E n \in Nat : m = n + 1 /\ ~(m <= n)
    <2> SUFFICES ASSUME m # 0 PROVE \E n \in Nat : m = n + 1 /\ ~(m <= n)
      OBVIOUS
    <2>1. m - 1 \in Nat /\ m = (m - 1) + 1 /\ ~(m <= m - 1)
      BY <1>2
    <2> QED
      BY <2>1
  <1>4. m = 0 \/ \E n \in Nat : m = n + 1 /\ n \notin T
    BY <1>1, <1>3, Zenon
  <1> QED
    BY <1>4, Zenon

\* The states before and after each feature of the map.
WalkTable(w, st, features, offset, size, top) ==
    w = [n \in 0..top |-> IF n = 0 THEN st
                          ELSE IF n - 1 \in features THEN AddFeature(w[n - 1], n - 1 + offset, size)
                          ELSE w[n - 1]]

LEMMA WalkDefined ==
    ASSUME NEW st, NEW features, NEW offset, NEW size
    PROVE  \E w : /\ WalkTable(w, st, features, offset, size, ModuleSize)
                  /\ Walk(st, features, offset, size) = w[ModuleSize]
  <1> DEFINE Step(r, n) == IF n \in features THEN AddFeature(r, n + offset, size) ELSE r
             Upto(m, w) == w = [n \in 0..m |-> IF n = 0 THEN st ELSE Step(w[n - 1], n - 1)]
             T == {m \in Nat : ~ \E w : Upto(m, w)}
  <1>0. Walk(st, features, offset, size) = (CHOOSE w : Upto(ModuleSize, w))[ModuleSize]
    BY DEF Walk
  <1> HIDE DEF Step
  <1>1. T = {}
    <2> SUFFICES ASSUME T # {} PROVE FALSE
      OBVIOUS
    <2>1. PICK m \in T : m = 0 \/ \E n \in Nat : m = n + 1 /\ n \notin T
      BY FirstThatFails
    <2>2. m \in Nat /\ ~ \E w : Upto(m, w)
      OBVIOUS
    <2>3. m # 0
      <3>1. Upto(0, [n \in 0..0 |-> st])
        OBVIOUS
      <3> QED
        BY <3>1, <2>2
    <2>4. PICK n \in Nat : m = n + 1 /\ n \notin T
      BY <2>1, <2>3
    <2>6. PICK w : Upto(n, w)
      BY <2>4
    <2>7. Upto(m, [k \in 0..m |-> IF k = m THEN Step(w[n], n) ELSE w[k]])
      BY <2>2, <2>3, <2>4, <2>6
    <2> QED
      BY <2>2, <2>7
  <1>2. \E w : Upto(ModuleSize, w)
    BY <1>1, LibFuzzerAssumption
  <1>3. Upto(ModuleSize, CHOOSE w : Upto(ModuleSize, w))
    <2> HIDE DEF Upto
    <2> QED
      BY <1>2, Zenon
  <1>4. PICK w : w = CHOOSE v : Upto(ModuleSize, v)
    OBVIOUS
  <1>5. Upto(ModuleSize, w)
    <2> HIDE DEF Upto
    <2> QED
      BY <1>3, <1>4
  <1>6. WalkTable(w, st, features, offset, size, ModuleSize)
    BY <1>5 DEF WalkTable, Step
  <1> QED
    BY <1>0, <1>4, <1>6

LEMMA WalkSteps ==
    ASSUME NEW w, NEW st, NEW features, NEW offset, NEW size,
           WalkTable(w, st, features, offset, size, ModuleSize)
    PROVE  /\ w[0] = st
           /\ \A n \in Nat, m \in Nat : m = n + 1 /\ m <= ModuleSize =>
                 w[m] = IF n \in features THEN AddFeature(w[n], n + offset, size) ELSE w[n]
  <1>1. ModuleSize \in Nat
    BY LibFuzzerAssumption
  <1>2. \A k \in 0..ModuleSize : w[k] = IF k = 0 THEN st
                          ELSE IF k - 1 \in features THEN AddFeature(w[k - 1], k - 1 + offset, size)
                          ELSE w[k - 1]
    BY DEF WalkTable
  <1>3. ASSUME NEW n \in Nat, NEW m \in Nat, m = n + 1, m <= ModuleSize
        PROVE  w[m] = IF n \in features THEN AddFeature(w[n], n + offset, size) ELSE w[n]
    <2>1. m \in 0..ModuleSize /\ m # 0 /\ m - 1 = n
      BY <1>1, <1>3
    <2> QED
      BY <1>2, <2>1
  <1> QED
    BY <1>1, <1>2, <1>3

\* What the features of one execution do to the corpus.
LEMMA WalkKeeps ==
    ASSUME NEW st, NEW drawn, NEW size \in Nat \ {0}, Collecting(st, drawn, size), st.updated = 0,
           NEW features \in SUBSET Features, NEW offset \in Nat
    PROVE  /\ Collecting(Walk(st, features, offset, size), drawn, size)
           /\ Since(st, Walk(st, features, offset, size), ModuleSize, features, offset, size)
  <1>1. PICK w : /\ WalkTable(w, st, features, offset, size, ModuleSize)
                 /\ Walk(st, features, offset, size) = w[ModuleSize]
    BY WalkDefined
  <1>2. ModuleSize \in Nat /\ features \in SUBSET Nat
    BY LibFuzzerAssumption
  <1>3. /\ w[0] = st
        /\ \A n \in Nat, m \in Nat : m = n + 1 /\ m <= ModuleSize =>
              w[m] = IF n \in features THEN AddFeature(w[n], n + offset, size) ELSE w[n]
    BY <1>1, WalkSteps
  <1> DEFINE Good(n) == Collecting(w[n], drawn, size) /\ Since(st, w[n], n, features, offset, size)
             T == {n \in Nat : n <= ModuleSize /\ ~Good(n)}
  <1>4. T = {}
    <2> SUFFICES ASSUME T # {} PROVE FALSE
      OBVIOUS
    <2>1. PICK m \in T : m = 0 \/ \E n \in Nat : m = n + 1 /\ n \notin T
      <3>1. T \subseteq Nat
        OBVIOUS
      <3> HIDE DEF T
      <3> QED
        BY <3>1, FirstThatFails
    <2>2. m \in Nat /\ m <= ModuleSize /\ ~Good(m)
      OBVIOUS
    <2>3. CASE m = 0
      <3>1. Since(st, st, 0, features, offset, size)
        BY <1>2, SinceStart
      <3> QED
        BY <1>3, <2>2, <2>3, <3>1
    <2>4. CASE m # 0
      <3>1. PICK n \in Nat : m = n + 1 /\ n \notin T
        BY <2>1, <2>4
      <3>2. Good(n)
        BY <1>2, <2>2, <3>1
      <3>3. PICK a : a = w[n]
        OBVIOUS
      <3>4. PICK b : b = w[m]
        OBVIOUS
      <3>5. Collecting(a, drawn, size) /\ Since(st, a, n, features, offset, size)
        BY <3>2, <3>3
      <3>6. b = IF n \in features THEN AddFeature(a, n + offset, size) ELSE a
        BY <1>3, <2>2, <3>1, <3>3, <3>4
      <3>7. Collecting(b, drawn, size) /\ Since(st, b, m, features, offset, size)
        <4>1. CASE n \notin features
          BY <1>2, <2>2, <3>1, <3>5, <3>6, <4>1, SinceSame
        <4>2. CASE n \in features /\ ~TakesOver(a.sizes[SlotOf(n + offset)], size)
          <5>1. b = a
            <6>1. ~(a.sizes[(n + offset) % FeatureSetSize] = 0
                    \/ (Shrink /\ a.sizes[(n + offset) % FeatureSetSize] > size))
              BY <4>2 DEF TakesOver, SlotOf
            <6> QED
              BY <3>6, <4>2, <6>1 DEF AddFeature
          <5> QED
            BY <1>2, <2>2, <3>1, <3>5, <4>2, <5>1, SinceSame
        <4>3. CASE n \in features /\ TakesOver(a.sizes[SlotOf(n + offset)], size)
          <5>1. b = AddFeature(a, n + offset, size)
            BY <3>6, <4>3
          <5> QED
            BY <1>2, <2>2, <3>1, <3>5, <4>3, <5>1, SinceTaken
        <4> QED
          BY <4>1, <4>2, <4>3
      <3> QED
        BY <2>2, <3>4, <3>7
    <2> QED
      BY <2>3, <2>4
  <1>5. Good(ModuleSize)
    BY <1>2, <1>4
  <1> QED
    BY <1>1, <1>5

-----------------------------------------------------------------------------
(* What becomes of the value: appended, put in the place of a record, or dropped. *)

\* The corpus between two executions.
Rest(st) == [st EXCEPT !.updated = 0, !.uniq = {}]

LEMMA RestFields ==
    ASSUME NEW st \in State
    PROVE  /\ Rest(st) \in State /\ Rest(st).corpus = st.corpus /\ Rest(st).infos = st.infos
           /\ Rest(st).sizes = st.sizes /\ Rest(st).smallest = st.smallest /\ Rest(st).needs = st.needs
           /\ Rest(st).updated = 0 /\ Rest(st).uniq = {}
  BY DEF Rest, State

LEMMA OwnsOf ==
    ASSUME NEW a, NEW b, a.sizes = b.sizes, a.smallest = b.smallest, NEW i
    PROVE  Owns(a, i) = Owns(b, i)
  BY DEF Owns

\* Between two executions nobody owns anything at the next index.
LEMMA RestOwnsNothing ==
    ASSUME NEW st, NEW drawn, NEW size, Collecting(st, drawn, size), st.updated = 0
    PROVE  Owns(st, Len(st.corpus) + 1) = {} /\ \A any : Collecting(st, drawn, any)
  <1>1. Owns(st, Len(st.corpus) + 1) = {}
    <2>1. Owns(st, Len(st.corpus) + 1) \subseteq Slots
      BY DEF Owns
    <2>2. IsFiniteSet(Owns(st, Len(st.corpus) + 1)) /\ Cardinality(Owns(st, Len(st.corpus) + 1)) = 0
      BY <2>1, SlotsFinite DEF Collecting
    <2> QED
      BY <2>2, FS_EmptySet
  <1>2. ASSUME NEW any PROVE Collecting(st, drawn, any)
    BY <1>1 DEF Collecting
  <1> QED
    BY <1>1, <1>2

\* The record made of the value c: it has the features that were collected.
NewRecord(st, r, c) ==
    /\ r \in Record /\ r.enabled /\ c \in Contents /\ r.content = c /\ r.size = SizeOf[c]
    /\ r.features = st.updated /\ (ReduceInputs => st.uniq \subseteq r.uniq)

LEMMA DropKeeps ==
    ASSUME NEW st, NEW drawn, NEW size, Collecting(st, drawn, size), st.updated = 0
    PROVE  Collecting(Rest(st), drawn, 0)
  <1>1. st \in State
    BY DEF Collecting
  <1>2. Rest(st) = st
    <2>1. st.uniq = {}
      BY DEF Collecting
    <2> QED
      BY <1>1, <2>1 DEF Rest, State
  <1> QED
    BY <1>2, RestOwnsNothing

\* When r is appended, record i is cleared, which its name then explains, or kept.
ClearedOrKept(st, a, r, i) ==
    \/ st.corpus[i].name = r.name /\ a.corpus[i] = InputInfo /\ i \notin a.infos
    \/ a.corpus[i] = st.corpus[i] /\ (i \in a.infos <=> i \in st.infos)

LEMMA AppendFields ==
    ASSUME NEW st \in State, NEW r \in Record, r.id = Len(st.corpus) + 1, NEW a, a = AppendToCorpus(st, r)
    PROVE  /\ a \in State /\ Len(a.corpus) = Len(st.corpus) + 1
           /\ a.corpus[Len(st.corpus) + 1] = r /\ Len(st.corpus) + 1 \in a.infos
           /\ a.infos \subseteq st.infos \cup {Len(st.corpus) + 1}
           /\ a.sizes = st.sizes /\ a.smallest = st.smallest
           /\ \A i \in 1..Len(st.corpus) : ClearedOrKept(st, a, r, i)
  <1>1. st.corpus \in Seq(Record) /\ Len(st.corpus) \in Nat /\ st.infos \subseteq Nat
        /\ DOMAIN st.corpus = 1..Len(st.corpus) /\ r.id \in Nat
    BY StateFields, RecordFields
  <1>2. PICK same : same = {i \in DOMAIN st.corpus : st.corpus[i].name = r.name}
    OBVIOUS
  <1>2a. PICK wiped : wiped = IF same = {} THEN {} ELSE {FindIn(same)}
    OBVIOUS
  <1>2b. wiped \subseteq same
    <2>1. CASE same = {}
      BY <1>2a, <2>1
    <2>2. CASE same # {}
      <3>1. FindIn(same) \in same
        BY <2>2, Zenon DEF FindIn
      <3> QED
        BY <1>2a, <2>2, <3>1
    <2> QED
      BY <2>1, <2>2
  <1>3. PICK cleared : cleared = [i \in 1..Len(st.corpus) |-> IF i \in wiped THEN InputInfo ELSE st.corpus[i]]
    OBVIOUS
  <1>4. cleared \in Seq(Record) /\ Len(cleared) = Len(st.corpus)
    <2>1. \A i \in 1..Len(st.corpus) : cleared[i] \in Record
      BY <1>1, <1>3, InfoType, StateFields
    <2>2. cleared \in [1..Len(st.corpus) -> Record]
      BY <1>3, <2>1
    <2> QED
      BY <1>1, <2>2
  <1>5. PICK app : app = Append(cleared, r)
    OBVIOUS
  <1>6. /\ app \in Seq(Record) /\ Len(app) = Len(st.corpus) + 1 /\ app[Len(st.corpus) + 1] = r
        /\ \A i \in 1..Len(st.corpus) : app[i] = cleared[i]
    BY <1>1, <1>4, <1>5
  <1>7. PICK inf : inf = (st.infos \ wiped) \cup {r.id}
    OBVIOUS
  <1>8. inf \in SUBSET Nat
    BY <1>1, <1>7
  <1>9. a = [st EXCEPT !.corpus = app, !.infos = inf]
    BY <1>1, <1>2, <1>2a, <1>3, <1>5, <1>7 DEF AppendToCorpus
  <1>10. a \in State /\ a.corpus = app /\ a.infos = inf /\ a.sizes = st.sizes /\ a.smallest = st.smallest
    BY <1>6, <1>8, <1>9 DEF State
  <1>11. ASSUME NEW i \in 1..Len(st.corpus) PROVE ClearedOrKept(st, a, r, i)
    <2>1. i # r.id /\ a.corpus[i] = cleared[i]
      BY <1>1, <1>6, <1>10
    <2>2. i \in wiped => st.corpus[i].name = r.name
      BY <1>2, <1>2b
    <2>3. cleared[i] = IF i \in wiped THEN InputInfo ELSE st.corpus[i]
      BY <1>3
    <2>4. i \in a.infos <=> i \in st.infos /\ i \notin wiped
      BY <1>7, <1>10, <2>1
    <2> QED
      BY <2>1, <2>2, <2>3, <2>4 DEF ClearedOrKept
  <1>12. Len(st.corpus) + 1 \in a.infos /\ a.infos \subseteq st.infos \cup {Len(st.corpus) + 1}
    BY <1>7, <1>10
  <1> QED
    BY <1>6, <1>10, <1>11, <1>12

\* The value is appended: the owner of what was collected.
LEMMA AppendKeeps ==
    ASSUME NEW st, NEW drawn, NEW c, Collecting(st, drawn, SizeOf[c]),
           NEW r, NewRecord(st, r, c), r.id = Len(st.corpus) + 1,
           NEW a, a = [AppendToCorpus(st, r) EXCEPT !.needs = TRUE]
    PROVE  a \in State /\ Collecting(Rest(a), drawn, 0)
  <1>1. st \in State /\ Len(st.corpus) \in Nat /\ st.smallest \in [Slots -> Nat]
    BY StateFields DEF Collecting
  <1>2. PICK b : b = AppendToCorpus(st, r)
    OBVIOUS
  <1>3. r \in Record
    BY DEF NewRecord
  <1>4. PICK n : n = Len(st.corpus) + 1
    OBVIOUS
  <1>5. /\ b \in State /\ Len(b.corpus) = Len(st.corpus) + 1
        /\ b.corpus[Len(st.corpus) + 1] = r /\ Len(st.corpus) + 1 \in b.infos
        /\ b.infos \subseteq st.infos \cup {Len(st.corpus) + 1}
        /\ b.sizes = st.sizes /\ b.smallest = st.smallest
        /\ \A i \in 1..Len(st.corpus) : ClearedOrKept(st, b, r, i)
    BY <1>1, <1>2, <1>3, AppendFields
  <1>6. /\ a \in State /\ a.corpus = b.corpus /\ a.infos = b.infos /\ a.sizes = b.sizes
        /\ a.smallest = b.smallest /\ a.needs
    BY <1>2, <1>5 DEF State
  <1>7. PICK e : e = Rest(a)
    OBVIOUS
  <1>8. /\ e \in State /\ e.corpus = b.corpus /\ e.infos = b.infos /\ e.sizes = st.sizes
        /\ e.smallest = st.smallest /\ e.needs /\ e.updated = 0 /\ e.uniq = {}
    BY <1>5, <1>6, <1>7, RestFields
  <1>9. \A i : Owns(e, i) = Owns(st, i)
    BY <1>8 DEF Owns
  <1>10. ASSUME NEW i \in 1..n PROVE RecordRight(e, i)
    <2>1. CASE i = n
      <3>1. e.corpus[i] = r /\ i \in e.infos
        BY <1>4, <1>5, <1>8, <2>1
      <3>2. r.features = Cardinality(Owns(e, i)) /\ r.enabled /\ r.content \in Contents
        BY <1>4, <1>9, <2>1 DEF NewRecord, Collecting
      <3>3. ASSUME ReduceInputs, NEW s \in Owns(e, i) PROVE e.sizes[s] = r.size /\ \E f \in r.uniq : SlotOf(f) = s
        <4>1. s \in Owns(st, Len(st.corpus) + 1)
          BY <1>4, <1>9, <2>1
        <4>2. st.sizes[s] = SizeOf[c] /\ \E f \in st.uniq : SlotOf(f) = s
          BY <4>1 DEF Collecting
        <4> QED
          BY <1>8, <3>3, <4>2 DEF NewRecord
      <3> QED
        BY <3>1, <3>2, <3>3 DEF RecordRight
    <2>2. CASE i # n
      <3>1. i \in 1..Len(st.corpus)
        BY <1>1, <1>4, <2>2
      <3>2. RecordRight(st, i)
        BY <3>1 DEF Collecting
      <3>3. CASE b.corpus[i] = InputInfo /\ i \notin b.infos
        <4>1. e.corpus[i] = InputInfo /\ i \notin e.infos /\ ~e.corpus[i].enabled
          BY <1>8, <3>3, InfoType
        <4> QED
          BY <4>1 DEF RecordRight
      <3>4. CASE b.corpus[i] = st.corpus[i] /\ (i \in b.infos <=> i \in st.infos)
        <4>1. e.corpus[i] = st.corpus[i] /\ (i \in e.infos <=> i \in st.infos)
          BY <1>8, <3>4
        <4> QED
          BY <1>8, <1>9, <3>2, <4>1 DEF RecordRight
      <3> QED
        BY <1>5, <3>1, <3>3, <3>4 DEF ClearedOrKept
    <2> QED
      BY <2>1, <2>2
  <1>11. Len(e.corpus) = n /\ n \in Nat
    BY <1>1, <1>4, <1>5, <1>8
  <1>12. \A s \in Slots : e.sizes[s] > 0 => e.smallest[s] \in 1..n
    BY <1>4, <1>8 DEF Collecting
  <1>13. Owns(e, n + 1) = {}
    BY <1>11, <1>12 DEF Owns
  <1>14. Cardinality({}) = 0
    BY FS_EmptySet, Zenon
  <1>15. e.infos \subseteq 1..n
    <2>1. st.infos \subseteq 1..Len(st.corpus)
      BY DEF Collecting
    <2> QED
      BY <1>1, <1>4, <1>5, <1>8, <2>1
  <1>16. \A s \in Slots : e.sizes[s] > 0 => e.smallest[s] \in 1..n + 1
    BY <1>11, <1>12
  <1>17. drawn \subseteq 1..n
    <2>1. drawn \subseteq 1..Len(st.corpus)
      BY DEF Collecting
    <2> QED
      BY <1>1, <1>4, <2>1
  <1>18. Collecting(e, drawn, 0)
    BY <1>8, <1>10, <1>11, <1>13, <1>14, <1>15, <1>16, <1>17 DEF Collecting
  <1> QED
    BY <1>6, <1>7, <1>18

ReplacedBy(st, a, r) ==
    /\ a \in State /\ Len(a.corpus) = Len(st.corpus)
    /\ a.sizes = st.sizes /\ a.smallest = st.smallest /\ a.corpus[r.id] = r
    /\ \A i \in 1..Len(st.corpus) : i # r.id => a.corpus[i] = st.corpus[i]

\* The value takes the place of a record, which owns nothing when counts are to be kept.
LEMMA ReplaceKeeps ==
    ASSUME NEW st, NEW drawn, NEW c, Collecting(st, drawn, SizeOf[c]), st.updated = 0,
           NEW r, NewRecord(st, r, c), r.id \in 1..Len(st.corpus), CountsKept => Owns(st, r.id) = {},
           NEW a, a = ReplaceInCorpus(st, r)
    PROVE  ReplacedBy(st, a, r) /\ Collecting(Rest(a), drawn, 0)
  <1>1. /\ st \in State /\ Len(st.corpus) \in Nat /\ st.corpus \in Seq(Record) /\ st.infos \subseteq Nat
        /\ r \in Record /\ DOMAIN st.corpus = 1..Len(st.corpus)
    BY StateFields DEF Collecting, NewRecord
  <1>2. PICK k : k = r.id
    OBVIOUS
  <1>3. k \in 1..Len(st.corpus) /\ k \in Nat /\ (CountsKept => Owns(st, k) = {})
    BY <1>1, <1>2
  <1>4. PICK recs : recs = [st.corpus EXCEPT ![k] = r]
    OBVIOUS
  <1>5. /\ recs \in Seq(Record) /\ Len(recs) = Len(st.corpus) /\ recs[k] = r
        /\ \A i \in 1..Len(st.corpus) : i # k => recs[i] = st.corpus[i]
    BY <1>1, <1>3, <1>4
  <1>6. PICK inf : inf = st.infos \cup {k}
    OBVIOUS
  <1>7. inf \in SUBSET Nat
    BY <1>1, <1>3, <1>6
  <1>8. a = [st EXCEPT !.corpus = recs, !.infos = inf]
    <2>1. a = [st EXCEPT !.corpus[k] = r, !.infos = @ \cup {k}]
      BY <1>1, <1>2, <1>3 DEF ReplaceInCorpus
    <2> QED
      BY <1>1, <1>4, <1>6, <2>1 DEF State
  <1>9. /\ a \in State /\ a.corpus = recs /\ a.infos = inf /\ a.sizes = st.sizes /\ a.smallest = st.smallest
        /\ a.needs = st.needs
    BY <1>1, <1>5, <1>7, <1>8 DEF State
  <1>10. PICK e : e = Rest(a)
    OBVIOUS
  <1>11. /\ e \in State /\ e.corpus = recs /\ e.infos = inf /\ e.sizes = st.sizes
         /\ e.smallest = st.smallest /\ e.needs = st.needs /\ e.updated = 0 /\ e.uniq = {}
    BY <1>9, <1>10, RestFields
  <1>12. \A i : Owns(e, i) = Owns(st, i)
    BY <1>11 DEF Owns
  <1>13. Cardinality({}) = 0
    BY FS_EmptySet, Zenon
  <1>14. r.features = 0 /\ r.enabled /\ r.content \in Contents
    BY DEF NewRecord
  <1>15. ASSUME NEW i \in 1..Len(st.corpus)
         PROVE  RecordRight(e, i) /\ (CountsKept => (e.corpus[i].features = 0 <=> st.corpus[i].features = 0))
    <2>0. RecordRight(st, i)
      BY DEF Collecting
    <2>1. CASE i = k
      <3>1. e.corpus[i] = r /\ i \in e.infos /\ (CountsKept => Owns(e, i) = {})
        BY <1>3, <1>5, <1>6, <1>11, <1>12, <2>1
      <3>2. RecordRight(e, i)
        BY <1>13, <1>14, <3>1 DEF RecordRight, CountsKept
      <3>3. ASSUME CountsKept PROVE st.corpus[i].features = 0
        <4>1. CASE st.corpus[i].enabled
          BY <1>3, <1>13, <2>0, <2>1, <3>3, <4>1 DEF RecordRight
        <4>2. CASE ~st.corpus[i].enabled
          BY <2>0, <4>2, InfoType DEF RecordRight
        <4> QED
          BY <4>1, <4>2
      <3> QED
        BY <1>14, <3>1, <3>2, <3>3
    <2>2. CASE i # k
      <3>1. e.corpus[i] = st.corpus[i] /\ (i \in e.infos <=> i \in st.infos)
        BY <1>5, <1>6, <1>11, <2>2
      <3>2. RecordRight(e, i)
        BY <1>11, <1>12, <2>0, <3>1 DEF RecordRight
      <3> QED
        BY <3>1, <3>2
    <2> QED
      BY <2>1, <2>2
  <1>16. Len(e.corpus) = Len(st.corpus)
    BY <1>5, <1>11
  <1>17. e.infos \subseteq 1..Len(st.corpus) /\ drawn \subseteq 1..Len(st.corpus)
    BY <1>3, <1>6, <1>11 DEF Collecting
  <1>18. Owns(e, Len(st.corpus) + 1) = {}
    BY <1>12, RestOwnsNothing
  <1>19. \A s \in Slots : e.sizes[s] > 0 => e.smallest[s] \in 1..Len(st.corpus) + 1
    BY <1>11 DEF Collecting
  <1>20. CountsKept /\ ~e.needs => drawn = Draws(e.corpus)
    <2> SUFFICES ASSUME CountsKept, ~e.needs PROVE drawn = Draws(e.corpus)
      OBVIOUS
    <2>1. drawn = Draws(st.corpus)
      BY <1>11 DEF Collecting
    <2>2. Draws(e.corpus) = Draws(st.corpus)
      BY <1>1, <1>5, <1>11, <1>15, <1>16, DrawsSame
    <2> QED
      BY <2>1, <2>2
  <1>21. Collecting(e, drawn, 0)
    BY <1>11, <1>13, <1>15, <1>16, <1>17, <1>18, <1>19, <1>20 DEF Collecting
  <1> QED
    BY <1>2, <1>5, <1>9, <1>10, <1>21 DEF ReplacedBy

\* AddToCorpus appends the value, puts it in the place of the record of the shared result,
\* or leaves the corpus as collect_features left it.
Appends(st, fb, c) ==
    /\ NewRecord(st, fb.result, c) /\ fb.result.id = Len(st.corpus) + 1
    /\ fb.result.name = (IF result.name = <<>> THEN <<c>> ELSE result.name)
    /\ st.updated > 0 => fb.result.added
    /\ fb.state = [AppendToCorpus(st, fb.result) EXCEPT !.needs = TRUE]
Replaces(st, fb, c) ==
    /\ st.updated = 0 /\ NewRecord(st, fb.result, c)
    /\ fb.result.id \in 1..Len(st.corpus) /\ (CountsKept => Owns(st, fb.result.id) = {})
    /\ fb.state = ReplaceInCorpus(st, fb.result)
Leaves(st, fb) ==
    /\ st.updated = 0 /\ fb.state = st
    /\ fb.result \in Record /\ fb.result.id = result.id /\ fb.result.size = result.size
    /\ fb.result.name = result.name

Outcome(st, fb, c) == Appends(st, fb, c) \/ Replaces(st, fb, c) \/ Leaves(st, fb)

\* The record that the shared result names, if it is still there, is the one the shared
\* result describes.
ResultIs(st, res) ==
    res.id \in 1..Len(st.corpus) /\ st.corpus[res.id].enabled => st.corpus[res.id].size = res.size

Settled(st, fb, drawn) ==
    /\ fb.state \in State /\ Collecting(Rest(fb.state), drawn, 0) /\ fb.result \in Record
    /\ ResultIs(fb.state, fb.result)
    /\ fb.state.sizes = st.sizes /\ fb.state.smallest = st.smallest

LEMMA OutcomeKeeps ==
    ASSUME NEW st, NEW drawn, NEW c, Collecting(st, drawn, SizeOf[c]), NEW fb, Outcome(st, fb, c),
           ResultIs(st, result)
    PROVE  Settled(st, fb, drawn)
  <1> USE DEF Settled
  <1>1. st \in State /\ Len(st.corpus) \in Nat
    BY StateFields DEF Collecting
  <1>2. CASE Appends(st, fb, c)
    <2>1. PICK r : r = fb.result
      OBVIOUS
    <2>2. PICK b : b = AppendToCorpus(st, r)
      OBVIOUS
    <2>3. PICK a : a = fb.state
      OBVIOUS
    <2>4. NewRecord(st, r, c) /\ r \in Record /\ r.id = Len(st.corpus) + 1
          /\ a = [AppendToCorpus(st, r) EXCEPT !.needs = TRUE]
      BY <1>2, <2>1, <2>3 DEF Appends, NewRecord
    <2>5. a \in State /\ Collecting(Rest(a), drawn, 0)
      BY <2>4, AppendKeeps
    <2>6. b \in State /\ b.sizes = st.sizes /\ b.smallest = st.smallest /\ b.corpus[Len(st.corpus) + 1] = r
      BY <1>1, <2>2, <2>4, AppendFields
    <2>7. a = [b EXCEPT !.needs = TRUE]
      BY <2>2, <2>4
    <2>8. a.sizes = st.sizes /\ a.smallest = st.smallest /\ a.corpus[r.id] = r
      BY <2>4, <2>6, <2>7 DEF State
    <2> QED
      BY <2>1, <2>3, <2>4, <2>5, <2>8 DEF ResultIs
  <1>3. CASE Replaces(st, fb, c)
    <2>1. PICK r : r = fb.result
      OBVIOUS
    <2>3. PICK a : a = fb.state
      OBVIOUS
    <2>4. /\ NewRecord(st, r, c) /\ r \in Record /\ r.id \in 1..Len(st.corpus)
          /\ CountsKept => Owns(st, r.id) = {}
          /\ st.updated = 0 /\ a = ReplaceInCorpus(st, r)
      BY <1>3, <2>1, <2>3 DEF Replaces, NewRecord
    <2>5. /\ a \in State /\ Collecting(Rest(a), drawn, 0) /\ Len(a.corpus) = Len(st.corpus)
          /\ a.sizes = st.sizes /\ a.smallest = st.smallest /\ a.corpus[r.id] = r
      <3>1. ReplacedBy(st, a, r) /\ Collecting(Rest(a), drawn, 0)
        BY <2>4, ReplaceKeeps
      <3> QED
        BY <3>1 DEF ReplacedBy
    <2> QED
      BY <2>1, <2>3, <2>4, <2>5 DEF ResultIs
  <1>4. CASE Leaves(st, fb)
    <2>1. st.updated = 0 /\ fb.state = st
          /\ fb.result \in Record /\ fb.result.id = result.id /\ fb.result.size = result.size
      BY <1>4 DEF Leaves
    <2>2. Collecting(Rest(st), drawn, 0)
      BY <2>1, DropKeeps
    <2>3. ResultIs(st, fb.result)
      BY <2>1 DEF ResultIs
    <2> QED
      BY <1>1, <2>1, <2>2, <2>3
  <1> QED
    BY <1>2, <1>3, <1>4 DEF Outcome

-----------------------------------------------------------------------------
(* What was executed so far, and the sizes at which features are held. *)

\* k, a value and a target that ran it, shows a feature in slot s.
ShowsIn(rc, k, s) == \E f \in rc[k] : SlotOf(f + k[2] * ModuleSize) = s

Executed(rc) == \A k \in DOMAIN rc : k \in Contents \X Nat /\ rc[k] \subseteq Features

\* Every feature shown is held, by a value that is no longer than any that shows it
\* when smaller values take over, and at the size of a value that showed it.
ReachRight(rc, sz) ==
    /\ \A s \in Slots, k \in DOMAIN rc : ShowsIn(rc, k, s) => sz[s] > 0 /\ (Shrink => sz[s] <= SizeOf[k[1]])
    /\ \A s \in Slots : sz[s] > 0 => \E k \in DOMAIN rc : ShowsIn(rc, k, s) /\ sz[s] = SizeOf[k[1]]

\* What the table of sizes is after an execution.
SizesAfter(sz, sz2, features, offset, size) ==
    \A s \in Slots : sz2[s] = IF ShownBelow(features, offset, ModuleSize, s) /\ TakesOver(sz[s], size)
                              THEN size ELSE sz[s]

\* The value c was run by target t.
RanOn(rc, rc2, c, t, features) ==
    /\ rc2 = [k \in DOMAIN rc \cup {<<c, t>>} |-> IF k = <<c, t>> THEN features ELSE rc[k]]
    /\ <<c, t>> \in DOMAIN rc => rc[<<c, t>>] = features

LEMMA ReachKeeps ==
    ASSUME NEW rc, NEW rc2, NEW sz \in [Slots -> Nat], NEW sz2, NEW c \in Contents, NEW t \in Nat,
           NEW features \in SUBSET Features, NEW offset \in Nat, offset = t * ModuleSize,
           Executed(rc), ReachRight(rc, sz), RanOn(rc, rc2, c, t, features),
           SizesAfter(sz, sz2, features, offset, SizeOf[c])
    PROVE  Executed(rc2) /\ ReachRight(rc2, sz2)
  <1>1. PICK size : size = SizeOf[c]
    OBVIOUS
  <1>2. size \in Nat /\ size > 0 /\ ModuleSize \in Nat /\ Features \subseteq 0..ModuleSize - 1
    BY <1>1, LibFuzzerAssumption
  <1>3. PICK now : now = <<c, t>>
    OBVIOUS
  <1>4. now[1] = c /\ now[2] = t /\ now \in Contents \X Nat
    BY <1>3
  <1>5. /\ DOMAIN rc2 = DOMAIN rc \cup {now} /\ rc2[now] = features
        /\ \A k \in DOMAIN rc : rc2[k] = rc[k]
    BY <1>3 DEF RanOn
  <1>6. Executed(rc2)
    BY <1>4, <1>5 DEF Executed
  <1>7. \A k \in DOMAIN rc, s \in Slots : ShowsIn(rc2, k, s) <=> ShowsIn(rc, k, s)
    BY <1>5 DEF ShowsIn
  <1>8. \A s \in Slots : ShowsIn(rc2, now, s) <=> ShownBelow(features, offset, ModuleSize, s)
    <2>1. \A f \in features : f \in Nat /\ f < ModuleSize
      BY <1>2
    <2>2. now[2] * ModuleSize = offset
      BY <1>4
    <2> QED
      BY <1>5, <2>1, <2>2 DEF ShowsIn, ShownBelow
  <1>9. \A s \in Slots : sz2[s] = IF ShowsIn(rc2, now, s) /\ TakesOver(sz[s], size) THEN size ELSE sz[s]
    BY <1>1, <1>8 DEF SizesAfter
  <1>10. ASSUME NEW s \in Slots, NEW k \in DOMAIN rc2, ShowsIn(rc2, k, s)
         PROVE  sz2[s] > 0 /\ (Shrink => sz2[s] <= SizeOf[k[1]])
    <2>0. sz[s] \in Nat
      OBVIOUS
    <2>1. CASE k \in DOMAIN rc
      <3>0. k[1] \in Contents
        BY <2>1 DEF Executed
      <3>1. sz[s] > 0 /\ (Shrink => sz[s] <= SizeOf[k[1]]) /\ SizeOf[k[1]] \in Nat
        BY <1>7, <1>10, <2>1, <3>0, LibFuzzerAssumption DEF ReachRight
      <3>2. CASE sz2[s] = sz[s]
        BY <3>1, <3>2
      <3>3. CASE sz2[s] = size /\ TakesOver(sz[s], size)
        <4>1. Shrink /\ sz[s] > size
          BY <3>1, <3>3 DEF TakesOver
        <4>2. sz2[s] <= SizeOf[k[1]]
          BY <1>2, <2>0, <3>1, <3>3, <4>1
        <4> QED
          BY <1>2, <3>3, <4>2
      <3> QED
        BY <1>9, <3>2, <3>3
    <2>2. CASE k = now
      <3>1. CASE TakesOver(sz[s], size)
        <4>1. sz2[s] = size /\ SizeOf[k[1]] = size
          BY <1>1, <1>4, <1>9, <1>10, <2>2, <3>1
        <4> QED
          BY <1>2, <4>1
      <3>2. CASE ~TakesOver(sz[s], size)
        <4>1. sz2[s] = sz[s] /\ SizeOf[k[1]] = size
          BY <1>1, <1>4, <1>9, <2>2, <3>2
        <4>2. sz[s] # 0 /\ (Shrink => ~(sz[s] > size))
          BY <3>2 DEF TakesOver
        <4> QED
          BY <1>2, <2>0, <4>1, <4>2
      <3> QED
        BY <3>1, <3>2
    <2> QED
      BY <1>5, <2>1, <2>2
  <1>11. ASSUME NEW s \in Slots, sz2[s] > 0
         PROVE  \E k \in DOMAIN rc2 : ShowsIn(rc2, k, s) /\ sz2[s] = SizeOf[k[1]]
    <2>1. CASE ShowsIn(rc2, now, s) /\ TakesOver(sz[s], size)
      <3>1. sz2[s] = SizeOf[now[1]]
        BY <1>1, <1>4, <1>9, <2>1
      <3> QED
        BY <1>5, <2>1, <3>1
    <2>2. CASE ~(ShowsIn(rc2, now, s) /\ TakesOver(sz[s], size))
      <3>1. sz2[s] = sz[s] /\ sz[s] > 0
        BY <1>9, <1>11, <2>2
      <3>2. PICK k \in DOMAIN rc : ShowsIn(rc, k, s) /\ sz[s] = SizeOf[k[1]]
        BY <3>1 DEF ReachRight
      <3> QED
        BY <1>5, <1>7, <3>1, <3>2
    <2> QED
      BY <2>1, <2>2
  <1>12. ReachRight(rc2, sz2)
    BY <1>10, <1>11 DEF ReachRight
  <1> QED
    BY <1>6, <1>12

-----------------------------------------------------------------------------
(* One execution. *)

Held ==
    /\ Collecting(Now, dist, 0)
    /\ result \in Record /\ ResultIs(Now, result)
    /\ Executed(reach) /\ ReachRight(reach, sizes)

CorpusInv ==
    /\ Held
    /\ initial \in Seq(Contents) /\ input \in Contents \cup {None}
    /\ lpc \in {"execute", "targets"} => input \in Contents
    /\ lpc \in {"length", "select"} => ~needs_update

LEMMA NowFields ==
    /\ Now.corpus = corpus /\ Now.infos = infos /\ Now.sizes = sizes /\ Now.smallest = smallest
    /\ Now.needs = needs_update /\ Now.updated = 0 /\ Now.uniq = {}
  BY DEF Now

\* The features of an execution of c by target t, and what they do to the corpus.
Collected(c, t, features, offset, st) ==
    /\ features \in SUBSET Features /\ offset \in Nat
    /\ Collecting(st, dist, SizeOf[c])
    /\ Since(Now, st, ModuleSize, features, offset, SizeOf[c])
    /\ ResultIs(st, result)
    /\ SizesAfter(sizes, st.sizes, features, offset, SizeOf[c])
    /\ <<c, t>> \in DOMAIN reach => reach[<<c, t>>] = features

LEMMA CollectKeeps ==
    ASSUME CorpusInv, NEW c \in Contents, NEW t \in Nat, NEW features \in Shown(c, t), NEW offset,
           offset = t * ModuleSize, NEW st, st = CollectFeatures(c, features, offset)
    PROVE  Collected(c, t, features, offset, st)
  <1> USE DEF Collected
  <1>1. features \in SUBSET Features /\ (<<c, t>> \in DOMAIN reach => reach[<<c, t>>] = features)
    BY DEF Shown, CorpusInv, Held, Executed
  <1>2. offset \in Nat
    BY LibFuzzerAssumption
  <1>3. SizeOf[c] \in Nat \ {0}
    BY LibFuzzerAssumption
  <1>4. PICK now : now = Now
    OBVIOUS
  <1>5. PICK size : size = SizeOf[c]
    OBVIOUS
  <1>6. now.updated = 0 /\ now.sizes = sizes
    BY <1>4, NowFields
  <1>7. Collecting(now, dist, size)
    BY <1>4, <1>6, RestOwnsNothing DEF CorpusInv, Held
  <1>8. st = Walk(now, features, offset, size)
    BY <1>4, <1>5 DEF CollectFeatures
  <1>9. Collecting(st, dist, size) /\ Since(now, st, ModuleSize, features, offset, size)
    BY <1>1, <1>2, <1>3, <1>5, <1>6, <1>7, <1>8, WalkKeeps
  <1>10. SizesAfter(sizes, st.sizes, features, offset, size)
    BY <1>6, <1>9 DEF Since, SizesAfter
  <1>11. ResultIs(st, result)
    <2> SUFFICES ASSUME result.id \in 1..Len(st.corpus), st.corpus[result.id].enabled
                 PROVE  st.corpus[result.id].size = result.size
      BY DEF ResultIs
    <2>1. PICK i : i = result.id
      OBVIOUS
    <2>2. i \in 1..Len(now.corpus)
      BY <1>9, <2>1 DEF Since
    <2>3. RecordKept(now, st, i)
      BY <1>9, <2>2 DEF Since
    <2>4. now.corpus[i].enabled /\ st.corpus[i].size = now.corpus[i].size
      BY <2>1, <2>3 DEF RecordKept
    <2>5. ResultIs(now, result)
      BY <1>4 DEF CorpusInv, Held
    <2> QED
      BY <2>1, <2>2, <2>4, <2>5 DEF ResultIs
  <1> QED
    BY <1>1, <1>2, <1>4, <1>5, <1>9, <1>10, <1>11

LEMMA FeedbackKeeps ==
    ASSUME CorpusInv, NEW c \in Contents, NEW t \in Nat, NEW features \in Shown(c, t), NEW offset,
           offset = t * ModuleSize, NEW st, st = CollectFeatures(c, features, offset),
           NEW fb, Outcome(st, fb, c), Apply(c, t, features, fb), dist' = dist
    PROVE  Held'
  <1>1. /\ features \in SUBSET Features /\ offset \in Nat
        /\ Collecting(st, dist, SizeOf[c])
        /\ ResultIs(st, result)
        /\ SizesAfter(sizes, st.sizes, features, offset, SizeOf[c])
        /\ <<c, t>> \in DOMAIN reach => reach[<<c, t>>] = features
    <2>1. Collected(c, t, features, offset, st)
      BY CollectKeeps
    <2> QED
      BY <2>1 DEF Collected
  <1>2. /\ fb.state \in State /\ Collecting(Rest(fb.state), dist, 0) /\ fb.result \in Record
        /\ ResultIs(fb.state, fb.result)
        /\ fb.state.sizes = st.sizes /\ fb.state.smallest = st.smallest
    <2>1. Settled(st, fb, dist)
      BY <1>1, OutcomeKeeps
    <2> QED
      BY <2>1 DEF Settled
  <1>3. PICK now : now = Now'
    OBVIOUS
  <1>4. PICK res : res = result'
    OBVIOUS
  <1>5. now = Rest(fb.state)
    <2>1. /\ fb.state.corpus = corpus' /\ fb.state.infos = infos' /\ fb.state.sizes = sizes'
          /\ fb.state.smallest = smallest' /\ fb.state.needs = needs_update'
      BY DEF Apply
    <2>2. PICK s : s = fb.state
      OBVIOUS
    <2>3. PICK e : e = Rest(s)
      OBVIOUS
    <2>4. /\ e \in State /\ e.corpus = s.corpus /\ e.infos = s.infos /\ e.sizes = s.sizes
          /\ e.smallest = s.smallest /\ e.needs = s.needs /\ e.updated = 0 /\ e.uniq = {}
      BY <1>2, <2>2, <2>3, RestFields
    <2>5. e = [corpus |-> e.corpus, infos |-> e.infos, sizes |-> e.sizes, smallest |-> e.smallest,
               needs |-> e.needs, updated |-> e.updated, uniq |-> e.uniq]
      BY <2>4 DEF State
    <2>6. now = [corpus |-> s.corpus, infos |-> s.infos, sizes |-> s.sizes, smallest |-> s.smallest,
                 needs |-> s.needs, updated |-> 0, uniq |-> {}]
      BY <1>3, <2>1, <2>2 DEF Now
    <2>7. now = e
      BY <2>4, <2>5, <2>6, Zenon
    <2> QED
      BY <2>2, <2>3, <2>7
  <1>6. Collecting(now, dist, 0) /\ res \in Record
    BY <1>2, <1>4, <1>5 DEF Apply
  <1>7. ResultIs(now, res)
    <2>1. now.corpus = fb.state.corpus
      BY <1>2, <1>5, RestFields
    <2>2. res = fb.result
      BY <1>4 DEF Apply
    <2> QED
      BY <1>2, <2>1, <2>2 DEF ResultIs
  <1>8. Executed(reach') /\ ReachRight(reach', sizes')
    <2>1. PICK rc2 : rc2 = reach'
      OBVIOUS
    <2>2. PICK sz2 : sz2 = sizes'
      OBVIOUS
    <2>3. RanOn(reach, rc2, c, t, features)
      BY <1>1, <2>1 DEF Apply, RanOn
    <2>4. SizesAfter(sizes, sz2, features, offset, SizeOf[c])
      BY <1>1, <1>2, <2>2 DEF Apply
    <2>5. sizes \in [Slots -> Nat]
      <3>1. PICK n : n = Now
        OBVIOUS
      <3>2. n \in State /\ n.sizes = sizes
        BY <3>1, NowFields DEF CorpusInv, Held, Collecting
      <3> QED
        BY <3>2, StateFields
    <2>6. Executed(reach) /\ ReachRight(reach, sizes)
      BY DEF CorpusInv, Held
    <2>7. Executed(rc2) /\ ReachRight(rc2, sz2)
      BY <1>1, <2>3, <2>4, <2>5, <2>6, ReachKeeps
    <2> QED
      BY <2>1, <2>2, <2>7
  <1> QED
    BY <1>3, <1>4, <1>6, <1>7, <1>8 DEF Held

-----------------------------------------------------------------------------
(* AddToCorpus has one of these outcomes. *)

RunOf(updated, uniq, found) ==
    [result EXCEPT !.enabled = TRUE, !.features = updated, !.uniq = uniq, !.found = found]

NamedOf(run, c, force) ==
    [run EXCEPT !.content = c, !.size = SizeOf[c], !.name = IF @ = <<>> THEN <<c>> ELSE @,
                !.never_reduce = force]

Ran(run, updated, uniq) ==
    /\ run \in Record /\ run.enabled /\ run.features = updated /\ run.uniq = uniq
    /\ run.name = result.name /\ run.id = result.id /\ run.size = result.size

LEMMA RunFields ==
    ASSUME result \in Record, NEW updated \in Nat, NEW uniq \in SUBSET Nat, NEW found \in Nat
    PROVE  Ran(RunOf(updated, uniq, found), updated, uniq)
  <1>1. PICK run : run = RunOf(updated, uniq, found)
    OBVIOUS
  <1>2. /\ run \in Record /\ run.enabled /\ run.features = updated /\ run.uniq = uniq
        /\ run.name = result.name /\ run.id = result.id /\ run.size = result.size
    BY <1>1 DEF RunOf, Record
  <1> QED
    BY <1>1, <1>2 DEF Ran

Named(named, run, c) ==
    /\ named \in Record /\ named.enabled /\ named.content = c /\ named.size = SizeOf[c]
    /\ named.features = run.features /\ named.uniq = run.uniq /\ named.id = run.id
    /\ named.name = IF run.name = <<>> THEN <<c>> ELSE run.name

LEMMA NamedFields ==
    ASSUME NEW run \in Record, run.enabled, NEW c \in Contents, NEW force \in BOOLEAN
    PROVE  Named(NamedOf(run, c, force), run, c)
  <1>1. PICK named : named = NamedOf(run, c, force)
    OBVIOUS
  <1>2. PICK name : name = IF run.name = <<>> THEN <<c>> ELSE run.name
    OBVIOUS
  <1>3. name \in Names
    <2>1. <<c>> \in Names
      BY DEF Names
    <2>2. run.name \in Names
      BY RecordFields
    <2> QED
      BY <1>2, <2>1, <2>2
  <1>4. PICK size : size = SizeOf[c]
    OBVIOUS
  <1>5. size \in Nat
    BY <1>4, LibFuzzerAssumption
  <1>6. named = [run EXCEPT !.content = c, !.size = size, !.name = name, !.never_reduce = force]
    BY <1>1, <1>2, <1>4 DEF NamedOf
  <1>7. /\ named \in Record /\ named.enabled /\ named.content = c /\ named.size = size
        /\ named.features = run.features /\ named.uniq = run.uniq /\ named.id = run.id /\ named.name = name
    BY <1>3, <1>5, <1>6 DEF Record
  <1> QED
    BY <1>1, <1>2, <1>4, <1>7 DEF Named

\* A run that reached nothing new, was seen to reach all it reached before and is shorter.
Reduces(st, c, uniq, found, strict) ==
    /\ st.updated = 0 /\ found > 0 /\ found = Cardinality(uniq) /\ result.size > SizeOf[c]
    /\ strict => result.id \in DOMAIN st.corpus /\ st.corpus[result.id].uniq = uniq

AddsAs(fb, run, named, c, st, uniq, found, force, strict) ==
    /\ st.updated > 0 \/ force =>
          /\ fb.result = [named EXCEPT !.added = (st.updated > 0), !.id = Len(st.corpus) + 1]
          /\ fb.state = [AppendToCorpus(st, fb.result) EXCEPT !.needs = TRUE]
    /\ ~(st.updated > 0 \/ force) =>
          IF /\ found > 0 /\ found = Cardinality(uniq) /\ result.size > SizeOf[c]
             /\ strict => result.id \in DOMAIN st.corpus /\ st.corpus[result.id].uniq = uniq
          THEN /\ fb.result = [named EXCEPT !.added = TRUE]
               /\ fb.state = ReplaceInCorpus(st, fb.result)
          ELSE fb.state = st /\ fb.result = [run EXCEPT !.added = FALSE]

LEMMA AddCases ==
    ASSUME NEW c, NEW st, NEW uniq, NEW found, NEW force \in BOOLEAN, NEW strict \in BOOLEAN,
           NEW fb, fb = AddToCorpus(c, st, uniq, found, force, strict), NEW run, run = RunOf(st.updated, uniq, found),
           NEW named, named = NamedOf(run, c, force), Ran(run, st.updated, uniq)
    PROVE  AddsAs(fb, run, named, c, st, uniq, found, force, strict)
  <1> USE DEF AddsAs
  <1>1. run.size = result.size /\ run.id = result.id
    BY DEF Ran
  <1>2. CASE st.updated > 0 \/ force
    <2>1. PICK r : r = [named EXCEPT !.added = (st.updated > 0), !.id = Len(st.corpus) + 1]
      OBVIOUS
    <2>2. fb = [state |-> [AppendToCorpus(st, r) EXCEPT !.needs = TRUE], result |-> r]
      BY <1>2, <2>1 DEF AddToCorpus, RunOf, NamedOf
    <2> QED
      BY <1>2, <2>1, <2>2
  <1>3. CASE ~(st.updated > 0 \/ force)
    <2>1. PICK r : r = [named EXCEPT !.added = TRUE]
      OBVIOUS
    <2>2. fb = IF /\ found > 0 /\ found = Cardinality(uniq) /\ result.size > SizeOf[c]
                  /\ strict => result.id \in DOMAIN st.corpus /\ st.corpus[result.id].uniq = uniq
               THEN [state |-> ReplaceInCorpus(st, r), result |-> r]
               ELSE [state |-> st, result |-> [run EXCEPT !.added = FALSE]]
      BY <1>1, <1>3, <2>1 DEF AddToCorpus, RunOf, NamedOf
    <2> QED
      BY <1>3, <2>1, <2>2
  <1> QED
    BY <1>2, <1>3

\* The arguments of AddToCorpus.
AddArgs(c, st, uniq, found, force, strict) ==
    /\ result \in Record /\ c \in Contents /\ st \in State /\ uniq \in SUBSET Nat
    /\ ReduceInputs => st.uniq \subseteq uniq
    /\ found \in Nat /\ force \in BOOLEAN /\ strict \in BOOLEAN

LEMMA AddAppends ==
    ASSUME NEW c, NEW st, NEW uniq, NEW found, NEW force, NEW strict, AddArgs(c, st, uniq, found, force, strict),
           NEW fb, fb = AddToCorpus(c, st, uniq, found, force, strict), st.updated > 0 \/ force
    PROVE  Appends(st, fb, c)
  <1> USE DEF AddArgs
  <1>1. PICK run : run = RunOf(st.updated, uniq, found)
    OBVIOUS
  <1>2. st.updated \in Nat /\ Len(st.corpus) \in Nat
    BY StateFields
  <1>3. Ran(run, st.updated, uniq)
    BY <1>1, <1>2, RunFields
  <1>4. PICK named : named = NamedOf(run, c, force)
    OBVIOUS
  <1>5. Named(named, run, c)
    <2>1. run \in Record /\ run.enabled
      BY <1>3 DEF Ran
    <2> QED
      BY <1>4, <2>1, NamedFields
  <1>6. PICK r : r = fb.result
    OBVIOUS
  <1>7. /\ r = [named EXCEPT !.added = (st.updated > 0), !.id = Len(st.corpus) + 1]
        /\ fb.state = [AppendToCorpus(st, r) EXCEPT !.needs = TRUE]
    <2>1. AddsAs(fb, run, named, c, st, uniq, found, force, strict)
      BY <1>1, <1>3, <1>4, AddCases
    <2> QED
      BY <1>6, <2>1 DEF AddsAs
  <1>8. PICK id : id = Len(st.corpus) + 1
    OBVIOUS
  <1>9. PICK new : new = (st.updated > 0)
    OBVIOUS
  <1>10. id \in Nat /\ new \in BOOLEAN
    BY <1>2, <1>8, <1>9
  <1>11. r = [named EXCEPT !.added = new, !.id = id]
    BY <1>7, <1>8, <1>9
  <1>12. /\ r \in Record /\ r.enabled /\ r.content = named.content /\ r.size = named.size
         /\ r.features = named.features /\ r.uniq = named.uniq /\ r.id = id /\ r.name = named.name
         /\ r.added = new
    BY <1>5, <1>10, <1>11 DEF Record, Named
  <1>13. NewRecord(st, r, c) /\ r.name = (IF result.name = <<>> THEN <<c>> ELSE result.name)
    BY <1>3, <1>5, <1>12 DEF NewRecord, Named, Ran
  <1>14. st.updated > 0 => r.added
    BY <1>9, <1>12
  <1> QED
    BY <1>6, <1>7, <1>8, <1>12, <1>13, <1>14 DEF Appends

LEMMA AddReplaces ==
    ASSUME NEW c, NEW st, NEW uniq, NEW found, NEW force, NEW strict, AddArgs(c, st, uniq, found, force, strict),
           NEW fb, fb = AddToCorpus(c, st, uniq, found, force, strict), ~force,
           Reduces(st, c, uniq, found, strict), result.id \in 1..Len(st.corpus),
           CountsKept => Owns(st, result.id) = {}
    PROVE  Replaces(st, fb, c)
  <1> USE DEF AddArgs
  <1>1. PICK run : run = RunOf(st.updated, uniq, found)
    OBVIOUS
  <1>2. st.updated \in Nat /\ Len(st.corpus) \in Nat /\ st.updated = 0
    BY StateFields DEF Reduces
  <1>3. Ran(run, st.updated, uniq)
    BY <1>1, <1>2, RunFields
  <1>4. PICK named : named = NamedOf(run, c, force)
    OBVIOUS
  <1>5. Named(named, run, c)
    <2>1. run \in Record /\ run.enabled
      BY <1>3 DEF Ran
    <2> QED
      BY <1>4, <2>1, NamedFields
  <1>6. PICK r : r = fb.result
    OBVIOUS
  <1>7. r = [named EXCEPT !.added = TRUE] /\ fb.state = ReplaceInCorpus(st, r)
    <2>1. /\ found > 0 /\ found = Cardinality(uniq) /\ result.size > SizeOf[c]
          /\ strict => result.id \in DOMAIN st.corpus /\ st.corpus[result.id].uniq = uniq
      BY DEF Reduces
    <2>2. ~(st.updated > 0 \/ force)
      BY <1>2
    <2> QED
      <3>1. AddsAs(fb, run, named, c, st, uniq, found, force, strict)
        BY <1>1, <1>3, <1>4, AddCases
      <3> QED
        BY <1>6, <2>1, <2>2, <3>1 DEF AddsAs
  <1>8. /\ r \in Record /\ r.enabled /\ r.content = named.content /\ r.size = named.size
        /\ r.features = named.features /\ r.uniq = named.uniq /\ r.id = named.id
    BY <1>5, <1>7 DEF Record, Named
  <1>9. NewRecord(st, r, c) /\ r.id = result.id
    BY <1>3, <1>5, <1>8 DEF NewRecord, Named, Ran
  <1> QED
    BY <1>2, <1>6, <1>7, <1>9 DEF Replaces

LEMMA AddLeaves ==
    ASSUME NEW c, NEW st, NEW uniq, NEW found, NEW force, NEW strict, AddArgs(c, st, uniq, found, force, strict),
           NEW fb, fb = AddToCorpus(c, st, uniq, found, force, strict), ~force, st.updated = 0,
           ~Reduces(st, c, uniq, found, strict)
    PROVE  Leaves(st, fb)
  <1> USE DEF AddArgs
  <1>1. PICK run : run = RunOf(st.updated, uniq, found)
    OBVIOUS
  <1>2. st.updated \in Nat
    BY StateFields
  <1>3. Ran(run, st.updated, uniq)
    BY <1>1, <1>2, RunFields
  <1>4. PICK named : named = NamedOf(run, c, force)
    OBVIOUS
  <1>6. PICK r : r = fb.result
    OBVIOUS
  <1>7. r = [run EXCEPT !.added = FALSE] /\ fb.state = st
    <2>1. ~(/\ found > 0 /\ found = Cardinality(uniq) /\ result.size > SizeOf[c]
            /\ strict => result.id \in DOMAIN st.corpus /\ st.corpus[result.id].uniq = uniq)
      BY DEF Reduces
    <2>2. ~(st.updated > 0 \/ force)
      OBVIOUS
    <2> QED
      <3>1. AddsAs(fb, run, named, c, st, uniq, found, force, strict)
        BY <1>1, <1>3, <1>4, AddCases
      <3> QED
        BY <1>6, <2>1, <2>2, <3>1 DEF AddsAs
  <1>8. r \in Record /\ r.id = run.id /\ r.size = run.size /\ r.name = run.name
    BY <1>3, <1>7 DEF Record, Ran
  <1> QED
    BY <1>3, <1>6, <1>7, <1>8 DEF Leaves, Ran

-----------------------------------------------------------------------------
(* libFuzzer.                                                               *)

\* An execution of libFuzzer appends the value or leaves the corpus alone.
LfOutcome(c, features, st, fb, force) ==
    /\ features \in Shown(c, 0) /\ st = CollectFeatures(c, features, 0) /\ Apply(c, 0, features, fb)
    /\ (Appends(st, fb, c) /\ (force \/ st.updated > 0)) \/ Leaves(st, fb)

LEMMA FeaturesFinite ==
    ASSUME NEW features \in SUBSET Features
    PROVE  /\ IsFiniteSet(features) /\ \A S \in SUBSET features : Cardinality(S) \in Nat
  <1>1. IsFiniteSet(0..ModuleSize - 1) /\ features \subseteq 0..ModuleSize - 1
    BY LibFuzzerAssumption, FS_Interval
  <1> QED
    BY <1>1, FS_Subset, FS_CardinalityType

LEMMA CollectFirst ==
    ASSUME CorpusInv, NEW c \in Contents, NEW features \in Shown(c, 0), NEW st, st = CollectFeatures(c, features, 0)
    PROVE  features \in SUBSET Features /\ Collecting(st, dist, SizeOf[c])
  <1>1. PICK offset : offset = 0
    OBVIOUS
  <1>2. offset = 0 * ModuleSize /\ st = CollectFeatures(c, features, offset)
    BY <1>1, LibFuzzerAssumption
  <1> QED
    BY <1>2, CollectKeeps DEF Collected

LEMMA LfExecutes ==
    ASSUME CorpusInv, NEW c \in Contents, NEW force \in BOOLEAN, ExecuteAndFeedback(c, force), dist' = dist,
           force \/ result.size = 0
    PROVE  Held' /\ \E features, st, fb : LfOutcome(c, features, st, fb, force)
  <1>1. PICK features \in Shown(c, 0) :
            Apply(c, 0, features, AddToCorpus(c, CollectFeatures(c, features, 0),
                      CollectFeatures(c, features, 0).uniq, FoundUnique(features), force, FALSE))
    BY DEF ExecuteAndFeedback
  <1>2. PICK st : st = CollectFeatures(c, features, 0)
    OBVIOUS
  <1>3. PICK strict : strict = FALSE
    OBVIOUS
  <1>4. PICK found : found = FoundUnique(features)
    OBVIOUS
  <1>5. PICK fb : fb = AddToCorpus(c, st, st.uniq, found, force, strict)
    OBVIOUS
  <1>6. Apply(c, 0, features, fb)
    BY <1>1, <1>2, <1>3, <1>4, <1>5
  <1>7. PICK offset : offset = 0
    OBVIOUS
  <1>8. offset = 0 * ModuleSize /\ st = CollectFeatures(c, features, offset)
    BY <1>2, <1>7, LibFuzzerAssumption
  <1>9. features \in SUBSET Features /\ Collecting(st, dist, SizeOf[c])
    BY <1>2, CollectFirst
  <1>10. st \in State /\ st.uniq \in SUBSET Nat /\ st.updated \in Nat
    BY <1>9, StateFields DEF Collecting
  <1>11. result \in Record /\ SizeOf[c] \in Nat
    BY LibFuzzerAssumption DEF CorpusInv, Held
  <1>12. found \in Nat
    BY <1>4, <1>9, FeaturesFinite DEF FoundUnique
  <1>13. AddArgs(c, st, st.uniq, found, force, strict)
    BY <1>3, <1>10, <1>11, <1>12 DEF AddArgs
  <1>14. (Appends(st, fb, c) /\ (force \/ st.updated > 0)) \/ Leaves(st, fb)
    <2>1. CASE st.updated > 0 \/ force
      BY <1>5, <1>13, <2>1, AddAppends
    <2>2. CASE ~(st.updated > 0 \/ force)
      <3>1. st.updated = 0 /\ ~force
        BY <1>10, <2>2
      <3>2. ~Reduces(st, c, st.uniq, found, strict)
        BY <1>11, <3>1 DEF Reduces
      <3> QED
        BY <1>5, <1>13, <3>1, <3>2, AddLeaves
    <2> QED
      BY <2>1, <2>2
  <1>15. Held'
    <2>1. Outcome(st, fb, c)
      BY <1>14 DEF Outcome
    <2> QED
      BY <1>6, <1>8, <2>1, FeedbackKeeps
  <1>16. LfOutcome(c, features, st, fb, force)
    BY <1>2, <1>6, <1>14 DEF LfOutcome
  <1> QED
    BY <1>15, <1>16

\* The value that a record is named after was executed.
KnownIn(rc, name) == \A d \in Contents : name = <<d>> => <<d, 0>> \in DOMAIN rc

NamesKnown ==
    /\ \A i \in 1..Len(corpus) : corpus[i].enabled => KnownIn(reach, corpus[i].name)
    /\ KnownIn(reach, result.name)

LEMMA LfNamesKept ==
    ASSUME CorpusInv, NamesKnown, NEW c \in Contents, NEW features, NEW st, NEW fb, NEW force \in BOOLEAN,
           LfOutcome(c, features, st, fb, force)
    PROVE  NamesKnown'
  <1>1. /\ features \in Shown(c, 0) /\ st = CollectFeatures(c, features, 0) /\ Apply(c, 0, features, fb)
        /\ Appends(st, fb, c) \/ Leaves(st, fb)
    BY DEF LfOutcome
  <1>2. DOMAIN reach' = DOMAIN reach \cup {<<c, 0>>} /\ corpus' = fb.state.corpus /\ result' = fb.result
    BY <1>1 DEF Apply
  <1>3. \A name : KnownIn(reach, name) => KnownIn(reach', name)
    BY <1>2 DEF KnownIn
  <1>4. KnownIn(reach', <<c>>)
    BY <1>2 DEF KnownIn
  <1>5. PICK now : now = Now
    OBVIOUS
  <1>6. now.corpus = corpus
    BY <1>5, NowFields
  <1>7. PICK offset : offset = 0
    OBVIOUS
  <1>8. offset = 0 * ModuleSize /\ st = CollectFeatures(c, features, offset)
    BY <1>1, <1>7, LibFuzzerAssumption
  <1>9. Since(now, st, ModuleSize, features, offset, SizeOf[c]) /\ Collecting(st, dist, SizeOf[c])
    <2>1. Collected(c, 0, features, offset, st)
      BY <1>1, <1>8, CollectKeeps
    <2> QED
      BY <1>5, <2>1 DEF Collected
  <1>10. ASSUME NEW i \in 1..Len(st.corpus), st.corpus[i].enabled PROVE KnownIn(reach', st.corpus[i].name)
    <2>1. i \in 1..Len(corpus) /\ RecordKept(now, st, i)
      BY <1>6, <1>9 DEF Since
    <2>2. corpus[i].enabled /\ st.corpus[i].name = corpus[i].name
      BY <1>6, <1>10, <2>1 DEF RecordKept
    <2> QED
      BY <1>3, <2>1, <2>2 DEF NamesKnown
  <1>11. KnownIn(reach', result.name)
    BY <1>3 DEF NamesKnown
  <1>12. CASE Leaves(st, fb)
    <2>1. corpus' = st.corpus /\ result'.name = result.name
      BY <1>2, <1>12 DEF Leaves
    <2>2. ASSUME NEW i \in 1..Len(corpus'), corpus'[i].enabled PROVE KnownIn(reach', corpus'[i].name)
      BY <1>10, <2>1, <2>2
    <2> QED
      BY <1>11, <2>1, <2>2 DEF NamesKnown
  <1>13. CASE Appends(st, fb, c)
    <2>1. PICK r : r = fb.result
      OBVIOUS
    <2>2. PICK a : a = AppendToCorpus(st, r)
      OBVIOUS
    <2>3. st \in State /\ r \in Record /\ r.id = Len(st.corpus) + 1 /\ Len(st.corpus) \in Nat
      BY <1>9, <1>13, <2>1, StateFields DEF Appends, NewRecord, Collecting
    <2>4. /\ a \in State /\ Len(a.corpus) = Len(st.corpus) + 1
          /\ a.corpus[Len(st.corpus) + 1] = r
          /\ \A i \in 1..Len(st.corpus) : ClearedOrKept(st, a, r, i)
      BY <2>2, <2>3, AppendFields
    <2>5. corpus' = a.corpus
      <3>1. fb.state = [a EXCEPT !.needs = TRUE]
        BY <1>13, <2>1, <2>2 DEF Appends
      <3>2. fb.state.corpus = a.corpus
        BY <2>4, <3>1 DEF State
      <3> QED
        BY <1>2, <3>2
    <2>6. KnownIn(reach', r.name)
      <3>1. r.name = <<c>> \/ r.name = result.name
        BY <1>13, <2>1 DEF Appends
      <3> QED
        BY <1>4, <1>11, <3>1
    <2>7. ASSUME NEW i \in 1..Len(corpus'), corpus'[i].enabled PROVE KnownIn(reach', corpus'[i].name)
      <3>1. CASE i = Len(st.corpus) + 1
        BY <2>4, <2>5, <2>6, <3>1
      <3>2. CASE i # Len(st.corpus) + 1
        <4>1. i \in 1..Len(st.corpus)
          BY <2>3, <2>4, <2>5, <3>2
        <4>2. corpus'[i] = st.corpus[i]
          BY <2>4, <2>5, <2>7, <4>1, InfoType DEF ClearedOrKept
        <4> QED
          BY <1>10, <2>7, <4>1, <4>2
      <3> QED
        BY <3>1, <3>2
    <2> QED
      BY <1>2, <2>1, <2>6, <2>7 DEF NamesKnown
  <1> QED
    BY <1>1, <1>12, <1>13

\* The run of c by target t, and what came of it.
Execution(c, t, features, offset, st, fb) ==
    /\ c \in Contents /\ t \in Nat /\ features \in Shown(c, t) /\ offset = t * ModuleSize
    /\ st = CollectFeatures(c, features, offset) /\ Outcome(st, fb, c) /\ Apply(c, t, features, fb)

\* A feature keeps an enabled owner, unless its owner bears the name of the record appended.
OwnerKept(s) ==
    sizes[s] > 0 /\ corpus[smallest[s]].enabled =>
        \/ corpus'[smallest'[s]].enabled
        \/ /\ Len(corpus') > Len(corpus)
           /\ corpus[smallest[s]].name = corpus'[Len(corpus')].name

LEMMA OwnersKept ==
    ASSUME CorpusInv, NEW c, NEW t, NEW features, NEW offset, NEW st, NEW fb,
           Execution(c, t, features, offset, st, fb), NEW s \in Slots
    PROVE  OwnerKept(s)
  <1> SUFFICES ASSUME sizes[s] > 0, corpus[smallest[s]].enabled
               PROVE  \/ corpus'[smallest'[s]].enabled
                      \/ /\ Len(corpus') > Len(corpus)
                         /\ corpus[smallest[s]].name = corpus'[Len(corpus')].name
    BY DEF OwnerKept
  <1>1. /\ c \in Contents /\ t \in Nat /\ features \in Shown(c, t) /\ offset = t * ModuleSize
        /\ st = CollectFeatures(c, features, offset) /\ Outcome(st, fb, c) /\ Apply(c, t, features, fb)
    BY DEF Execution
  <1>2. PICK now : now = Now
    OBVIOUS
  <1>3. now.corpus = corpus /\ now.sizes = sizes /\ now.smallest = smallest /\ now.updated = 0
    BY <1>2, NowFields
  <1>6. Since(now, st, ModuleSize, features, offset, SizeOf[c]) /\ Collecting(st, dist, SizeOf[c])
    <2>1. Collected(c, t, features, offset, st)
      BY <1>1, CollectKeeps
    <2> QED
      BY <1>2, <2>1 DEF Collected
  <1>7. Collecting(now, dist, 0)
    BY <1>2 DEF CorpusInv, Held
  <1>8. /\ now \in State /\ st \in State /\ Len(corpus) \in Nat /\ sizes \in [Slots -> Nat]
        /\ Len(st.corpus) = Len(corpus) /\ st.updated \in Nat /\ st.sizes \in [Slots -> Nat]
    BY <1>3, <1>6, <1>7, StateFields DEF Collecting, Since
  <1>9. Owns(now, Len(corpus) + 1) = {}
    BY <1>3, <1>7, RestOwnsNothing
  <1>10. PICK i : i = smallest[s]
    OBVIOUS
  <1>11. i \in 1..Len(corpus)
    <2>1. i \in 1..Len(corpus) + 1
      BY <1>3, <1>7, <1>10 DEF Collecting
    <2>2. s \in Owns(now, i)
      BY <1>3, <1>10 DEF Owns
    <2>3. i # Len(corpus) + 1
      BY <1>9, <2>2
    <2> QED
      BY <1>8, <2>1, <2>3
  <1>12. SizeOf[c] \in Nat /\ SizeOf[c] > 0
    BY <1>1, LibFuzzerAssumption
  <1>13. st.sizes[s] > 0
    <2>1. st.sizes[s] = SizeOf[c] \/ st.sizes[s] = sizes[s]
      BY <1>3, <1>6 DEF Since
    <2> QED
      BY <1>12, <2>1
  <1>14. st.smallest[s] \in {i, Len(corpus) + 1}
    BY <1>3, <1>6, <1>10 DEF Since
  <1>15. smallest' = fb.state.smallest /\ corpus' = fb.state.corpus
    BY <1>1 DEF Apply
  <1>16. ASSUME st.smallest[s] = i PROVE st.corpus[i].enabled /\ st.corpus[i].name = corpus[i].name
    <2>1. RecordKept(now, st, i)
      BY <1>3, <1>6, <1>11 DEF Since
    <2>2. s \in Owns(st, i)
      BY <1>13, <1>16 DEF Owns
    <2>3. now.corpus[i].enabled
      BY <1>3, <1>10
    <2> QED
      BY <1>3, <2>1, <2>2, <2>3 DEF RecordKept
  <1>17. ASSUME st.smallest[s] = Len(corpus) + 1 PROVE st.updated # 0
    <2>1. s \in Owns(st, Len(st.corpus) + 1)
      BY <1>8, <1>13, <1>17 DEF Owns
    <2> QED
      BY <1>6, <2>1, RestOwnsNothing
  <1>18. CASE Leaves(st, fb)
    <2>1. fb.state = st /\ st.updated = 0
      BY <1>18 DEF Leaves
    <2>2. st.smallest[s] = i
      BY <1>14, <1>17, <2>1
    <2> QED
      BY <1>15, <1>16, <2>1, <2>2
  <1>19. CASE Appends(st, fb, c)
    <2>1. PICK r : r = fb.result
      OBVIOUS
    <2>2. PICK a : a = AppendToCorpus(st, r)
      OBVIOUS
    <2>3. r \in Record /\ r.id = Len(st.corpus) + 1 /\ r.enabled
      BY <1>19, <2>1 DEF Appends, NewRecord
    <2>4. /\ a \in State /\ a.corpus[Len(st.corpus) + 1] = r /\ a.smallest = st.smallest
          /\ Len(a.corpus) = Len(st.corpus) + 1
          /\ \A j \in 1..Len(st.corpus) : ClearedOrKept(st, a, r, j)
      BY <1>8, <2>2, <2>3, AppendFields
    <2>5. corpus' = a.corpus /\ smallest' = st.smallest
      <3>1. fb.state = [a EXCEPT !.needs = TRUE]
        BY <1>19, <2>1, <2>2 DEF Appends
      <3>2. fb.state.corpus = a.corpus /\ fb.state.smallest = a.smallest
        BY <2>4, <3>1 DEF State
      <3> QED
        BY <1>15, <2>4, <3>2
    <2>6. CASE st.smallest[s] = Len(corpus) + 1
      BY <1>8, <2>3, <2>4, <2>5, <2>6
    <2>7. CASE st.smallest[s] = i
      <3>1. st.corpus[i].enabled /\ st.corpus[i].name = corpus[i].name /\ ClearedOrKept(st, a, r, i)
        BY <1>8, <1>11, <1>16, <2>4, <2>7
      <3>2. CASE a.corpus[i] = st.corpus[i]
        BY <2>5, <2>7, <3>1, <3>2
      <3>3. CASE a.corpus[i] # st.corpus[i]
        <4>1. st.corpus[i].name = r.name
          BY <3>1, <3>3 DEF ClearedOrKept
        <4>2. Len(corpus') > Len(corpus) /\ corpus'[Len(corpus')] = r
          BY <1>8, <2>4, <2>5
        <4> QED
          BY <1>10, <3>1, <4>1, <4>2
      <3> QED
        BY <3>2, <3>3
    <2> QED
      BY <1>14, <2>6, <2>7
  <1>20. CASE Replaces(st, fb, c)
    <2>1. PICK r : r = fb.result
      OBVIOUS
    <2>2. PICK a : a = fb.state
      OBVIOUS
    <2>3. /\ st.updated = 0 /\ NewRecord(st, r, c) /\ r.enabled /\ r.id \in 1..Len(st.corpus)
          /\ (CountsKept => Owns(st, r.id) = {}) /\ a = ReplaceInCorpus(st, r)
      BY <1>20, <2>1, <2>2 DEF Replaces, NewRecord
    <2>4. ReplacedBy(st, a, r)
      BY <1>6, <2>3, ReplaceKeeps
    <2>5. st.smallest[s] = i
      BY <1>14, <1>17, <2>3
    <2>6. st.corpus[i].enabled /\ i \in 1..Len(st.corpus)
      BY <1>8, <1>11, <1>16, <2>5
    <2>7. a.corpus[i].enabled /\ a.smallest[s] = i
      BY <2>3, <2>4, <2>5, <2>6 DEF ReplacedBy
    <2> QED
      BY <1>15, <2>2, <2>7
  <1> QED
    BY <1>1, <1>18, <1>19, <1>20 DEF Outcome

\* No step but an execution touches the records or the owners.
LEMMA OwnersSame == ASSUME UNCHANGED <<corpus, sizes, smallest>> PROVE OwnersStayEnabled
  BY DEF OwnersStayEnabled

LEMMA OwnersOutsideExecute ==
    ASSUME lpc # "execute", \A s \in Slots : OwnerKept(s)
    PROVE  OwnersStayEnabled
  BY DEF OwnersStayEnabled, OwnerKept

\* A value that was executed before takes nothing over: no record is cleared for its name.
LEMMA LfOwnersKept ==
    ASSUME CorpusInv, NamesKnown, result.name = <<>>, NEW c \in Contents, NEW features, NEW st, NEW fb,
           NEW force \in BOOLEAN, ~force, LfOutcome(c, features, st, fb, force),
           NEW s \in Slots, sizes[s] > 0, corpus[smallest[s]].enabled
    PROVE  corpus'[smallest'[s]].enabled
  <1>1. /\ features \in Shown(c, 0) /\ st = CollectFeatures(c, features, 0) /\ Apply(c, 0, features, fb)
        /\ (Appends(st, fb, c) /\ st.updated > 0) \/ Leaves(st, fb)
    BY DEF LfOutcome
  <1>2. PICK now : now = Now
    OBVIOUS
  <1>3. now.corpus = corpus /\ now.sizes = sizes /\ now.smallest = smallest /\ now.updated = 0
    BY <1>2, NowFields
  <1>4. PICK offset : offset = 0
    OBVIOUS
  <1>5. offset = 0 * ModuleSize /\ st = CollectFeatures(c, features, offset)
    BY <1>1, <1>4, LibFuzzerAssumption
  <1>6. /\ Since(now, st, ModuleSize, features, offset, SizeOf[c]) /\ Collecting(st, dist, SizeOf[c])
        /\ features \in SUBSET Features
        /\ <<c, 0>> \in DOMAIN reach => reach[<<c, 0>>] = features
    <2>1. Collected(c, 0, features, offset, st)
      BY <1>1, <1>5, CollectKeeps
    <2> QED
      BY <1>2, <2>1 DEF Collected
  <1>7. Collecting(now, dist, 0) /\ ReachRight(reach, sizes)
    BY <1>2 DEF CorpusInv, Held
  <1>8. /\ now \in State /\ st \in State /\ Len(corpus) \in Nat /\ sizes \in [Slots -> Nat]
        /\ Len(st.corpus) = Len(corpus) /\ st.updated \in Nat /\ SizeOf[c] \in Nat
    BY <1>3, <1>6, <1>7, StateFields, LibFuzzerAssumption DEF Collecting, Since
  <1>9. PICK i : i = smallest[s]
    OBVIOUS
  <1>10. i \in 1..Len(corpus)
    <2>1. i \in 1..Len(corpus) + 1
      BY <1>3, <1>7, <1>9 DEF Collecting
    <2>2. s \in Owns(now, i)
      BY <1>3, <1>9 DEF Owns
    <2>3. Owns(now, Len(corpus) + 1) = {}
      BY <1>3, <1>7, RestOwnsNothing
    <2> QED
      BY <1>8, <2>1, <2>2, <2>3
  <1>11. OwnerKept(s)
    <2>1. Outcome(st, fb, c)
      BY <1>1 DEF Outcome
    <2>2. Execution(c, 0, features, offset, st, fb)
      BY <1>1, <1>5, <2>1 DEF Execution
    <2> QED
      BY <2>2, OwnersKept
  <1>12. ASSUME Len(corpus') > Len(corpus), corpus[i].name = corpus'[Len(corpus')].name PROVE FALSE
    <2>1. Appends(st, fb, c) /\ st.updated > 0
      <3> SUFFICES ASSUME Leaves(st, fb) PROVE FALSE
        BY <1>1
      <3>1. corpus' = st.corpus
        BY <1>1 DEF Leaves, Apply
      <3> QED
        BY <1>8, <1>12, <3>1
    <2>2. PICK r : r = fb.result
      OBVIOUS
    <2>3. PICK a : a = AppendToCorpus(st, r)
      OBVIOUS
    <2>4. r \in Record /\ r.id = Len(st.corpus) + 1 /\ r.name = <<c>>
      BY <2>1, <2>2 DEF Appends, NewRecord
    <2>5. a \in State /\ a.corpus[Len(st.corpus) + 1] = r /\ Len(a.corpus) = Len(st.corpus) + 1
      BY <1>8, <2>3, <2>4, AppendFields
    <2>6. corpus' = a.corpus
      <3>1. fb.state = [a EXCEPT !.needs = TRUE]
        BY <2>1, <2>2, <2>3 DEF Appends
      <3>2. fb.state.corpus = a.corpus
        BY <2>5, <3>1 DEF State
      <3> QED
        BY <1>1, <3>2 DEF Apply
    <2>7. corpus[i].name = <<c>>
      BY <1>12, <2>4, <2>5, <2>6
    <2>8. <<c, 0>> \in DOMAIN reach
      BY <1>9, <1>10, <2>7 DEF NamesKnown, KnownIn
    <2> QED
      <3>1. Owns(st, Len(st.corpus) + 1) # {}
        <4>1. st.updated = Cardinality(Owns(st, Len(st.corpus) + 1))
          BY <1>6 DEF Collecting
        <4>2. Cardinality({}) = 0
          BY FS_EmptySet, Zenon
        <4>3. Owns(st, Len(st.corpus) + 1) = {} => st.updated = 0
          BY <4>1, <4>2, Zenon
        <4>4. st.updated # 0
          BY <1>8, <2>1
        <4> QED
          BY <4>3, <4>4, Zenon
      <3>2. PICK u : u \in Owns(st, Len(st.corpus) + 1)
        BY <3>1
      <3>3. u \in Slots /\ ShownBelow(features, offset, ModuleSize, u) /\ TakesOver(sizes[u], SizeOf[c])
        BY <1>3, <1>6, <1>8, <3>2 DEF Since, Owns
      <3>4. PICK k : k = <<c, 0>>
        OBVIOUS
      <3>5. k \in DOMAIN reach /\ reach[k] = features /\ k[1] = c /\ k[2] * ModuleSize = offset
        BY <1>5, <1>6, <2>8, <3>4
      <3>6. ShowsIn(reach, k, u)
        BY <3>3, <3>5 DEF ShownBelow, ShowsIn
      <3>7. sizes[u] > 0 /\ (Shrink => sizes[u] <= SizeOf[c])
        BY <1>7, <3>3, <3>5, <3>6 DEF ReachRight
      <3>8. sizes[u] \in Nat
        BY <1>8, <3>3
      <3> QED
        BY <1>8, <3>3, <3>7, <3>8 DEF TakesOver
  <1> QED
    BY <1>9, <1>11, <1>12 DEF OwnerKept

-----------------------------------------------------------------------------
(* The other steps. *)

LEMMA HeldSame ==
    ASSUME Held, UNCHANGED <<corpus, infos, sizes, smallest, needs_update, dist, result, reach>>
    PROVE  Held'
  <1>1. Now' = Now
    BY DEF Now
  <1>2. /\ Now' = Now /\ dist' = dist /\ result' = result /\ reach' = reach /\ sizes' = sizes
    BY <1>1
  <1> QED
    BY <1>2 DEF Held

LEMMA InitializeDoneKeeps == ASSUME CorpusInv, InitializeDone PROVE CorpusInv'
  <1>1. Held'
    BY HeldSame DEF CorpusInv, InitializeDone
  <1> QED
    BY <1>1 DEF CorpusInv, InitializeDone

LEMMA LengthKeeps == ASSUME CorpusInv, NEW cycles, UpdateMaxLengthUntil(cycles) PROVE CorpusInv'
  <1>1. Held'
    BY HeldSame DEF CorpusInv, UpdateMaxLengthUntil
  <1>2. lpc = "length" /\ lpc' \in {"end", "select"} /\ UNCHANGED <<initial, input, needs_update>>
    BY DEF UpdateMaxLengthUntil
  <1> QED
    BY <1>1, <1>2 DEF CorpusInv

LEMMA SelectKeepsCorpus == ASSUME CorpusInv, SelectSeed PROVE CorpusInv' /\ result' = InputInfo
  <1>1. PICK now : now = Now
    OBVIOUS
  <1>2. Now' = now
    BY <1>1 DEF SelectSeed, Now
  <1>3. /\ Collecting(now, dist, 0) /\ Executed(reach) /\ ReachRight(reach, sizes)
        /\ now.corpus = corpus /\ now.needs = needs_update
    BY <1>1, NowFields DEF CorpusInv, Held
  <1>4. now \in State /\ Len(corpus) \in Nat
    BY <1>3, StateFields DEF Collecting
  <1>5. dist \subseteq 1..Len(corpus)
    BY <1>3 DEF Collecting
  <1>6. input' \in Contents \cup {None}
    <2>1. PICK i \in dist : input' = IF corpus[i].enabled THEN corpus[i].content ELSE None
      BY DEF SelectSeed
    <2>2. RecordRight(now, i)
      BY <1>3, <1>5, <2>1 DEF Collecting
    <2> QED
      BY <1>3, <2>1, <2>2 DEF RecordRight
  <1>7. PICK res : res = result'
    OBVIOUS
  <1>8. res = InputInfo /\ res \in Record /\ res.id = 0
    BY <1>7, InfoType DEF SelectSeed, InputInfo
  <1>9. ResultIs(now, res)
    BY <1>8 DEF ResultIs
  <1>10. Held'
    BY <1>2, <1>3, <1>7, <1>8, <1>9 DEF Held, SelectSeed
  <1> QED
    BY <1>6, <1>7, <1>8, <1>10 DEF CorpusInv, SelectSeed

LEMMA MutateKeepsCorpus ==
    ASSUME CorpusInv, NEW next, next \notin {"length", "select"}, MutateTo(next) PROVE CorpusInv'
  <1>1. Held'
    BY HeldSame DEF CorpusInv, MutateTo
  <1>2. input' \in Contents
    BY DEF MutateTo, CorpusInv
  <1> QED
    BY <1>1, <1>2 DEF CorpusInv, MutateTo

LEMMA UpdateKeepsCorpus == ASSUME CorpusInv, UpdateDistribution PROVE CorpusInv'
  <1>1. PICK old : old = Now
    OBVIOUS
  <1>2. PICK now : now = Now'
    OBVIOUS
  <1>3. PICK drawn : drawn = dist'
    OBVIOUS
  <1>4. /\ old.corpus = corpus /\ old.infos = infos /\ old.sizes = sizes /\ old.smallest = smallest
        /\ old.needs = needs_update /\ old.updated = 0 /\ old.uniq = {}
    BY <1>1, NowFields
  <1>5. now = [corpus |-> corpus, infos |-> infos, sizes |-> sizes, smallest |-> smallest,
               needs |-> FALSE, updated |-> 0, uniq |-> {}]
    BY <1>2 DEF Now, UpdateDistribution
  <1>6. /\ now.corpus = corpus /\ now.infos = infos /\ now.sizes = sizes /\ now.smallest = smallest
        /\ now.needs = FALSE /\ now.updated = 0 /\ now.uniq = {}
    BY <1>5
  <1>7. Collecting(old, dist, 0)
    BY <1>1 DEF CorpusInv, Held
  <1>8. old \in State
    BY <1>7 DEF Collecting
  <1>9. /\ corpus \in Seq(Record) /\ infos \in SUBSET Nat /\ sizes \in [Slots -> Nat] /\ smallest \in [Slots -> Nat]
        /\ Len(corpus) \in Nat
    BY <1>4, <1>8, StateFields
  <1>10. now \in State
    BY <1>5, <1>9 DEF State
  <1>11. \A i : Owns(now, i) = Owns(old, i)
    BY <1>4, <1>6 DEF Owns
  <1>12. \A i \in 1..Len(corpus) : RecordRight(now, i)
    <2> SUFFICES ASSUME NEW i \in 1..Len(corpus) PROVE RecordRight(now, i)
      OBVIOUS
    <2>1. RecordRight(old, i)
      BY <1>4, <1>7 DEF Collecting
    <2>2. now.corpus = old.corpus /\ now.infos = old.infos /\ now.sizes = old.sizes /\ Owns(now, i) = Owns(old, i)
      BY <1>4, <1>6, <1>11
    <2> QED
      BY <2>1, <2>2 DEF RecordRight
  <1>13. drawn \subseteq 1..Len(corpus) /\ (CountsKept => drawn = Draws(corpus))
    <2>1. CASE needs_update
      <3>1. DOMAIN corpus = 1..Len(corpus) /\ \A i \in 1..Len(corpus) : corpus[i] \in Record
        BY <1>9
      <3>2. \A i \in 1..Len(corpus) : corpus[i].features \in Nat
        BY <3>1, RecordFields
      <3>3. Weighted = {i \in 1..Len(corpus) : corpus[i].features > 0}
        BY <3>1 DEF Weighted
      <3>4. Weighted = {} <=> \A i \in 1..Len(corpus) : corpus[i].features = 0
        BY <3>2, <3>3
      <3>5. drawn = IF Weighted = {} THEN DOMAIN corpus ELSE Weighted
        BY <1>3, <2>1 DEF UpdateDistribution
      <3> QED
        BY <3>1, <3>3, <3>4, <3>5 DEF Draws
    <2>2. CASE ~needs_update
      <3>1. drawn = dist
        BY <1>3, <2>2 DEF UpdateDistribution
      <3> QED
        BY <1>4, <1>7, <2>2, <3>1 DEF Collecting
    <2> QED
      BY <2>1, <2>2
  <1>14. Collecting(now, drawn, 0)
    <2>1. now.infos \subseteq 1..Len(now.corpus)
      BY <1>4, <1>6, <1>7 DEF Collecting
    <2>2. \A s \in Slots : now.sizes[s] > 0 => now.smallest[s] \in 1..Len(now.corpus) + 1
      BY <1>4, <1>6, <1>7 DEF Collecting
    <2>3. Owns(now, Len(now.corpus) + 1) = {}
      BY <1>4, <1>6, <1>7, <1>11, RestOwnsNothing
    <2>4. Cardinality({}) = 0
      BY FS_EmptySet, Zenon
    <2>5. now.updated = Cardinality(Owns(now, Len(now.corpus) + 1))
      BY <1>6, <2>3, <2>4
    <2> QED
      BY <1>6, <1>10, <1>12, <1>13, <2>1, <2>2, <2>3, <2>5 DEF Collecting
  <1>15. ResultIs(now, result)
    <2>1. ResultIs(old, result)
      BY <1>1 DEF CorpusInv, Held
    <2> QED
      BY <1>4, <1>6, <2>1 DEF ResultIs
  <1>16. Held'
    BY <1>2, <1>3, <1>14, <1>15 DEF CorpusInv, Held, UpdateDistribution
  <1> QED
    BY <1>16 DEF CorpusInv, UpdateDistribution

LEMMA StutterKeepsCorpus == ASSUME CorpusInv, UNCHANGED lVars PROVE CorpusInv'
  <1>1. Held'
    BY HeldSame DEF CorpusInv, lVars
  <1> QED
    BY <1>1 DEF CorpusInv, lVars

LEMMA StartsRight == ASSUME LInit PROVE CorpusInv
  <1>1. PICK now : now = Now
    OBVIOUS
  <1>2. now = [corpus |-> <<>>, infos |-> {}, sizes |-> [s \in Slots |-> 0], smallest |-> [s \in Slots |-> 0],
               needs |-> TRUE, updated |-> 0, uniq |-> {}]
    BY <1>1 DEF Now, LInit
  <1>3. now \in State
    BY <1>2 DEF State
  <1>4. /\ now.corpus = <<>> /\ now.infos = {} /\ now.sizes = [s \in Slots |-> 0]
        /\ now.needs /\ now.updated = 0 /\ now.uniq = {} /\ Len(now.corpus) = 0
    BY <1>2
  <1>5. \A i : Owns(now, i) = {}
    BY <1>4 DEF Owns
  <1>6. Cardinality({}) = 0
    BY FS_EmptySet, Zenon
  <1>7. Collecting(now, dist, 0)
    <2>1. \A i \in 1..Len(now.corpus) : RecordRight(now, i)
      BY <1>4
    <2>2. \A s \in Slots : now.sizes[s] > 0 => now.smallest[s] \in 1..Len(now.corpus) + 1
      BY <1>4
    <2>3. Owns(now, Len(now.corpus) + 1) = {} /\ now.updated = Cardinality(Owns(now, Len(now.corpus) + 1))
      BY <1>4, <1>5, <1>6
    <2>4. dist = {}
      BY DEF LInit
    <2> QED
      BY <1>3, <1>4, <2>1, <2>2, <2>3, <2>4 DEF Collecting
  <1>8. result \in Record /\ result.id = 0
    BY InfoType DEF LInit, InputInfo
  <1>9. ResultIs(now, result)
    BY <1>4 DEF ResultIs
  <1>10. DOMAIN reach = {}
    BY DEF LInit
  <1>11. Executed(reach) /\ ReachRight(reach, sizes)
    BY <1>10 DEF Executed, ReachRight, LInit
  <1>12. Held
    BY <1>1, <1>7, <1>8, <1>9, <1>11 DEF Held
  <1> QED
    BY <1>12, LibFuzzerAssumption DEF CorpusInv, LInit

-----------------------------------------------------------------------------
(* The campaign of libFuzzer. *)

LfInv ==
    /\ CorpusInv /\ NamesKnown
    /\ lpc # "targets"
    /\ lpc \in {"mutate", "execute"} => result.size = 0 /\ result.name = <<>>
    /\ diffs = {} /\ known_outcomes = {}

LEMMA NamesSame == ASSUME NamesKnown, UNCHANGED <<corpus, result, reach>> PROVE NamesKnown'
  BY DEF NamesKnown

\* The execution of an initial input.
LEMMA LfOwnersOnce ==
    ASSUME CorpusInv, NEW c \in Contents, NEW features, NEW st, NEW fb, NEW force,
           LfOutcome(c, features, st, fb, force), lpc # "execute"
    PROVE  OwnersStayEnabled
  <1>1. PICK offset : offset = 0
    OBVIOUS
  <1>2. offset = 0 * ModuleSize /\ st = CollectFeatures(c, features, offset)
    BY <1>1, LibFuzzerAssumption DEF LfOutcome
  <1>3. Outcome(st, fb, c)
    BY DEF LfOutcome, Outcome
  <1>4. Execution(c, 0, features, offset, st, fb)
    BY <1>2, <1>3 DEF Execution, LfOutcome
  <1>5. \A s \in Slots : OwnerKept(s)
    BY <1>4, OwnersKept
  <1> QED
    BY <1>5, OwnersOutsideExecute

LEMMA LfInitializes == ASSUME LfInv, Initialize PROVE CorpusInv' /\ NamesKnown' /\ OwnersStayEnabled
  <1>1. PICK c : c = Head(initial)
    OBVIOUS
  <1>2. initial \in Seq(Contents) /\ initial # <<>>
    BY DEF LfInv, CorpusInv, Initialize
  <1>3. c \in Contents /\ initial' \in Seq(Contents) /\ input' \in Contents
    BY <1>1, <1>2 DEF Initialize
  <1>4. PICK force : force = TRUE
    OBVIOUS
  <1>5. ExecuteAndFeedback(c, force) /\ dist' = dist
    BY <1>1, <1>4 DEF Initialize
  <1>6. CorpusInv /\ NamesKnown /\ force \in BOOLEAN /\ force
    BY <1>4 DEF LfInv
  <1>7. Held' /\ \E features, st, fb : LfOutcome(c, features, st, fb, force)
    BY <1>3, <1>5, <1>6, LfExecutes
  <1>8. PICK features, st, fb : LfOutcome(c, features, st, fb, force)
    BY <1>7
  <1>9. NamesKnown'
    BY <1>3, <1>6, <1>8, LfNamesKept
  <1>10. CorpusInv'
    BY <1>3, <1>7 DEF CorpusInv, Initialize
  <1>11. OwnersStayEnabled
    BY <1>3, <1>6, <1>8, LfOwnersOnce DEF Initialize
  <1> QED
    BY <1>9, <1>10, <1>11

LEMMA LfRuns ==
    ASSUME LfInv, RunInput
    PROVE  /\ CorpusInv' /\ NamesKnown'
           /\ lpc' # "update" => result'.size = 0 /\ result'.name = <<>>
           /\ \A s \in Slots : sizes[s] > 0 /\ corpus[smallest[s]].enabled => corpus'[smallest'[s]].enabled
  <1>1. PICK c : c = input
    OBVIOUS
  <1>2. c \in Contents /\ result.size = 0 /\ result.name = <<>> /\ CorpusInv /\ NamesKnown
    BY <1>1 DEF LfInv, CorpusInv, RunInput
  <1>3. PICK force : force = FALSE
    OBVIOUS
  <1>4. ExecuteAndFeedback(c, force) /\ dist' = dist
    BY <1>1, <1>3 DEF RunInput
  <1>5. force \in BOOLEAN /\ ~force
    BY <1>3
  <1>6. Held' /\ \E features, st, fb : LfOutcome(c, features, st, fb, force)
    BY <1>2, <1>4, <1>5, LfExecutes
  <1>7. PICK features, st, fb : LfOutcome(c, features, st, fb, force)
    BY <1>6
  <1>8. NamesKnown'
    BY <1>2, <1>5, <1>7, LfNamesKept
  <1>9. \A s \in Slots : sizes[s] > 0 /\ corpus[smallest[s]].enabled => corpus'[smallest'[s]].enabled
    BY <1>2, <1>5, <1>7, LfOwnersKept
  <1>10. CorpusInv'
    <2>1. lpc' \in {"update", "mutate"} /\ UNCHANGED <<initial, input>>
      BY DEF RunInput
    <2> QED
      BY <1>2, <1>6, <2>1 DEF CorpusInv
  <1>11. lpc' # "update" => result'.size = 0 /\ result'.name = <<>>
    <2> SUFFICES ASSUME lpc' # "update" PROVE result'.size = 0 /\ result'.name = <<>>
      OBVIOUS
    <2>1. ~result'.added
      BY DEF RunInput
    <2>2. result' = fb.result
      BY <1>7 DEF LfOutcome, Apply
    <2>3. ~(Appends(st, fb, c) /\ st.updated > 0)
      BY <2>1, <2>2 DEF Appends
    <2>4. Leaves(st, fb)
      BY <1>5, <1>7, <2>3 DEF LfOutcome
    <2> QED
      BY <1>2, <2>2, <2>4 DEF Leaves
  <1> QED
    BY <1>8, <1>9, <1>10, <1>11

LEMMA LfInitHolds == ASSUME NezhaInit PROVE LfInv
  <1>1. LInit /\ diffs = {} /\ known_outcomes = {}
    BY DEF NezhaInit
  <1>2. CorpusInv
    BY <1>1, StartsRight
  <1>3. corpus = <<>> /\ result = InputInfo /\ lpc = "init"
    BY <1>1 DEF LInit
  <1>4. NamesKnown
    BY <1>3 DEF NamesKnown, KnownIn, InputInfo
  <1> QED
    BY <1>1, <1>2, <1>3, <1>4 DEF LfInv

LEMMA LfNextKeeps ==
    ASSUME LfInv, [LNext /\ UNCHANGED nVars]_<<lVars, nVars>>
    PROVE  LfInv' /\ [OwnersStayEnabled]_lVars
  <1>0. CorpusInv /\ NamesKnown /\ diffs' = {} /\ known_outcomes' = {} /\ lpc # "targets"
    BY DEF LfInv, nVars
  <1>1. CASE Initialize
    <2>1. CorpusInv' /\ NamesKnown' /\ OwnersStayEnabled /\ lpc' = "init"
      BY <1>1, LfInitializes DEF Initialize
    <2> QED
      BY <1>0, <2>1 DEF LfInv
  <1>2. CASE InitializeDone
    <2>1. CorpusInv' /\ lpc' = "update" /\ lpc = "init"
      BY <1>0, <1>2, InitializeDoneKeeps DEF InitializeDone
    <2>2. NamesKnown'
      BY <1>0, <1>2, NamesSame DEF InitializeDone
    <2>3. OwnersStayEnabled
      BY <1>2, OwnersSame DEF InitializeDone
    <2> QED
      BY <1>0, <2>1, <2>2, <2>3 DEF LfInv
  <1>3. CASE UpdateDistribution
    <2>1. CorpusInv' /\ lpc' = "length" /\ lpc = "update"
      BY <1>0, <1>3, UpdateKeepsCorpus DEF UpdateDistribution
    <2>2. NamesKnown'
      BY <1>0, <1>3, NamesSame DEF UpdateDistribution
    <2>3. OwnersStayEnabled
      BY <1>3, OwnersSame DEF UpdateDistribution
    <2> QED
      BY <1>0, <2>1, <2>2, <2>3 DEF LfInv
  <1>4. CASE UpdateMaxLength
    <2>0. UpdateMaxLengthUntil(TotalCycles)
      BY <1>4 DEF UpdateMaxLength
    <2>1. CorpusInv'
      BY <1>0, <2>0, LengthKeeps
    <2>2. lpc' \in {"end", "select"} /\ lpc = "length"
      BY <2>0 DEF UpdateMaxLengthUntil
    <2>3. NamesKnown'
      BY <1>0, <2>0, NamesSame DEF UpdateMaxLengthUntil
    <2>6. OwnersStayEnabled
      BY <2>0, OwnersSame DEF UpdateMaxLengthUntil
    <2> QED
      BY <1>0, <2>1, <2>2, <2>3, <2>6 DEF LfInv
  <1>5. CASE SelectSeed
    <2>1. CorpusInv' /\ result' = InputInfo
      BY <1>0, <1>5, SelectKeepsCorpus
    <2>2. lpc' = "mutate" /\ lpc = "select" /\ corpus' = corpus /\ reach' = reach
      BY <1>5 DEF SelectSeed
    <2>3. NamesKnown'
      BY <1>0, <2>1, <2>2 DEF NamesKnown, KnownIn, InputInfo
    <2>4. result'.size = 0 /\ result'.name = <<>>
      BY <2>1 DEF InputInfo
    <2>6. OwnersStayEnabled
      BY <1>5, OwnersSame DEF SelectSeed
    <2> QED
      BY <1>0, <2>1, <2>2, <2>3, <2>4, <2>6 DEF LfInv
  <1>6. CASE MutateInput
    <2>0. MutateTo("execute")
      BY <1>6 DEF MutateInput
    <2>1. PICK next : next = "execute"
      OBVIOUS
    <2>2. MutateTo(next) /\ next \notin {"length", "select"}
      BY <2>0, <2>1
    <2>3. CorpusInv'
      BY <1>0, <2>2, MutateKeepsCorpus
    <2>4. lpc = "mutate" /\ lpc' = "execute" /\ UNCHANGED <<corpus, result, reach>>
      BY <2>0 DEF MutateTo
    <2>5. NamesKnown'
      BY <1>0, <2>4, NamesSame
    <2>6. OwnersStayEnabled
      BY <2>0, OwnersSame DEF MutateTo
    <2> QED
      BY <1>0, <2>3, <2>4, <2>5, <2>6 DEF LfInv
  <1>7. CASE RunInput
    <2>1. /\ CorpusInv' /\ NamesKnown'
          /\ lpc' # "update" => result'.size = 0 /\ result'.name = <<>>
          /\ \A s \in Slots : sizes[s] > 0 /\ corpus[smallest[s]].enabled => corpus'[smallest'[s]].enabled
      BY <1>7, LfRuns
    <2>2. lpc' \in {"update", "mutate"}
      BY <1>7 DEF RunInput
    <2>3. LfInv'
      BY <1>0, <2>1, <2>2 DEF LfInv
    <2>4. OwnersStayEnabled
      BY <2>1 DEF OwnersStayEnabled
    <2> QED
      BY <2>3, <2>4
  <1>8. CASE UNCHANGED <<lVars, nVars>>
    <2>1. CorpusInv'
      BY <1>0, <1>8, StutterKeepsCorpus
    <2>2. NamesKnown' /\ lpc' = lpc /\ result' = result
      BY <1>0, <1>8, NamesSame DEF lVars
    <2>3. LfInv'
      BY <1>0, <2>1, <2>2 DEF LfInv
    <2> QED
      BY <1>8, <2>3
  <1> QED
    BY <1>1, <1>2, <1>3, <1>4, <1>5, <1>6, <1>7, <1>8 DEF LNext

\* What the invariant says of the corpus.
LEMMA CorpusIsRight == ASSUME CorpusInv PROVE OwnerCounts /\ EnabledHaveData /\ DrawnOwnFeatures /\ SmallestSize
  <1>1. PICK now : now = Now
    OBVIOUS
  <1>2. /\ now.corpus = corpus /\ now.infos = infos /\ now.sizes = sizes /\ now.smallest = smallest
        /\ now.needs = needs_update
    BY <1>1, NowFields
  <1>3. Collecting(now, dist, 0) /\ ReachRight(reach, sizes) /\ Executed(reach)
    BY <1>1 DEF CorpusInv, Held
  <1>4. /\ now \in State /\ Len(corpus) \in Nat /\ corpus \in Seq(Record) /\ sizes \in [Slots -> Nat]
        /\ DOMAIN corpus = 1..Len(corpus)
    BY <1>2, <1>3, StateFields DEF Collecting
  <1>5. \A i \in DOMAIN corpus : RecordRight(now, i)
    BY <1>2, <1>3, <1>4 DEF Collecting
  <1>6. \A i : Owned(i) = Owns(now, i)
    BY <1>2 DEF Owned, Owns
  <1>7. OwnerCounts /\ EnabledHaveData
    BY <1>2, <1>5, <1>6 DEF OwnerCounts, EnabledHaveData, RecordRight
  <1>8. DrawnOwnFeatures
    <2> SUFFICES ASSUME lpc = "select"
                 PROVE  /\ dist \subseteq DOMAIN corpus
                        /\ CountsKept => \/ \A i \in dist : corpus[i].features > 0
                                         \/ \A i \in DOMAIN corpus : corpus[i].features = 0
      BY DEF DrawnOwnFeatures
    <2>1. dist \subseteq 1..Len(corpus) /\ (CountsKept => dist = Draws(corpus))
      BY <1>2, <1>3 DEF CorpusInv, Collecting
    <2> QED
      BY <1>4, <2>1 DEF Draws
  <1>9. SmallestSize
    <2>1. \A k, s : (\E f \in reach[k] : (f + k[2] * ModuleSize) % FeatureSetSize = s) <=> ShowsIn(reach, k, s)
      BY DEF ShowsIn, SlotOf
    <2> SUFFICES ASSUME NEW s \in Slots, NEW shown,
                        shown = {k \in DOMAIN reach : \E f \in reach[k] : (f + k[2] * ModuleSize) % FeatureSetSize = s}
                 PROVE  IF shown = {} THEN sizes[s] = 0
                        ELSE /\ \E k \in shown : sizes[s] = SizeOf[k[1]]
                             /\ Shrink => \A k \in shown : sizes[s] <= SizeOf[k[1]]
      BY DEF SmallestSize
    <2>2. \A k : k \in shown <=> k \in DOMAIN reach /\ ShowsIn(reach, k, s)
      BY <2>1
    <2>3. \A k \in shown : sizes[s] > 0 /\ (Shrink => sizes[s] <= SizeOf[k[1]])
      BY <1>3, <2>2 DEF ReachRight
    <2>4. sizes[s] > 0 => \E k \in shown : sizes[s] = SizeOf[k[1]]
      BY <1>3, <2>2 DEF ReachRight
    <2>5. sizes[s] \in Nat
      BY <1>4
    <2> QED
      BY <2>3, <2>4, <2>5
  <1> QED
    BY <1>7, <1>8, <1>9

\* libFuzzer keeps its corpus sound, for every set of inputs, of initial inputs and of features.
THEOREM LibFuzzerCorpusStaysSound == LibFuzzerSpec => CorpusSound
  <1>1. NezhaInit => LfInv
    BY LfInitHolds
  <1>2. LfInv /\ [LNext /\ UNCHANGED nVars]_<<lVars, nVars>> => LfInv'
    BY LfNextKeeps
  <1>3. LfInv /\ [LNext /\ UNCHANGED nVars]_<<lVars, nVars>> => [OwnersStayEnabled]_lVars
    BY LfNextKeeps
  <1>4. LfInv => OwnerCounts /\ EnabledHaveData /\ DrawnOwnFeatures /\ SmallestSize
    BY CorpusIsRight DEF LfInv
  <1>5. LfInv => (UseOutput => DiffIsOfThisInput) /\ DisagreementsSaved
    BY DEF LfInv, DiffIsOfThisInput, DisagreementsSaved
  <1>6. LibFuzzerSpec => []LfInv
    BY <1>1, <1>2, PTL DEF LibFuzzerSpec
  <1>7. LibFuzzerSpec => [][OwnersStayEnabled]_lVars
    BY <1>3, <1>6, PTL DEF LibFuzzerSpec
  <1> QED
    BY <1>4, <1>5, <1>6, <1>7, PTL DEF CorpusSound

-----------------------------------------------------------------------------
(* Nezha. *)

NezhaInv ==
    /\ CorpusInv
    /\ lpc # "execute"
    /\ target \in Nat /\ outcomes \in Seq(Nat)
    /\ lpc = "targets" /\ UseOutput => outcomes = current
    /\ (UseOutput => DiffIsOfThisInput) /\ DisagreementsSaved

\* A target's run of the value in hand: with shrink, a record is replaced only when it owns
\* nothing.
LEMMA TargetKeeps ==
    ASSUME CorpusInv, lpc = "targets", target \in Nat, RunSingleTarget
    PROVE  Held' /\ OwnersStayEnabled
  <1>1. PICK c : c = input
    OBVIOUS
  <1>2. c \in Contents
    BY <1>1 DEF CorpusInv
  <1>3. PICK t : t = target
    OBVIOUS
  <1>4. PICK offset : offset = t * ModuleSize
    OBVIOUS
  <1>5. PICK features \in Shown(c, t) :
            Apply(c, t, features,
                  AddToCorpus(c, CollectFeatures(c, features, offset),
                              IF ReduceInputs THEN ModuleOffset(t, features) ELSE {},
                              IF result.never_reduce THEN 0
                              ELSE Cardinality(IF ReduceInputs THEN ModuleOffset(t, features) ELSE {}),
                              FALSE, TRUE))
    BY <1>1, <1>3, <1>4 DEF RunSingleTarget
  <1>6. PICK st : st = CollectFeatures(c, features, offset)
    OBVIOUS
  <1>7. PICK shown : shown = IF ReduceInputs THEN ModuleOffset(t, features) ELSE {}
    OBVIOUS
  <1>8. PICK found : found = IF result.never_reduce THEN 0 ELSE Cardinality(shown)
    OBVIOUS
  <1>9. PICK force : force = FALSE
    OBVIOUS
  <1>10. PICK strict : strict = TRUE
    OBVIOUS
  <1>11. PICK fb : fb = AddToCorpus(c, st, shown, found, force, strict)
    OBVIOUS
  <1>12. Apply(c, t, features, fb)
    BY <1>5, <1>6, <1>7, <1>8, <1>9, <1>10, <1>11
  <1>13. t \in Nat /\ dist' = dist
    BY <1>3 DEF RunSingleTarget
  <1>14. /\ features \in SUBSET Features /\ offset \in Nat
         /\ Collecting(st, dist, SizeOf[c])
         /\ Since(Now, st, ModuleSize, features, offset, SizeOf[c])
         /\ ResultIs(st, result)
    <2>1. features \in Shown(c, t)
      BY <1>5
    <2>2. Collected(c, t, features, offset, st)
      BY <1>2, <1>4, <1>6, <1>13, <2>1, CollectKeeps
    <2> QED
      BY <2>2 DEF Collected
  <1>15. /\ st \in State /\ st.uniq \in SUBSET Nat /\ st.updated \in Nat /\ st.sizes \in [Slots -> Nat]
         /\ Len(st.corpus) \in Nat /\ DOMAIN st.corpus = 1..Len(st.corpus)
    BY <1>14, StateFields DEF Collecting
  <1>16. result \in Record /\ SizeOf[c] \in Nat /\ result.id \in Nat
    BY <1>2, LibFuzzerAssumption, RecordFields DEF CorpusInv, Held
  <1>17. /\ IF ReduceInputs THEN shown = {f + offset : f \in features} ELSE shown = {}
         /\ \A f \in features : f \in Nat /\ f < ModuleSize
    <2>1. ModuleOffset(t, features) = {f + offset : f \in features}
      BY <1>4, <1>14, LibFuzzerAssumption DEF ModuleOffset
    <2>2. \A f \in features : f \in Nat /\ f < ModuleSize
      BY <1>14, LibFuzzerAssumption
    <2> QED
      BY <1>7, <2>1, <2>2
  <1>18. shown \in SUBSET Nat /\ (ReduceInputs => st.uniq \subseteq shown)
    <2>1. st.uniq \subseteq {f + offset : f \in features}
      BY <1>14 DEF Since
    <2> QED
      BY <1>14, <1>17, <2>1
  <1>19. found \in Nat
    <2>1. ModuleSize \in Nat /\ shown \subseteq 0..(offset + ModuleSize)
      BY <1>14, <1>17, LibFuzzerAssumption
    <2>2. IsFiniteSet(0..(offset + ModuleSize))
      BY <1>14, <2>1, FS_Interval
    <2>3. Cardinality(shown) \in Nat
      BY <2>1, <2>2, FS_Subset, FS_CardinalityType
    <2> QED
      BY <1>8, <2>3
  <1>20. AddArgs(c, st, shown, found, force, strict)
    BY <1>2, <1>9, <1>10, <1>15, <1>16, <1>18, <1>19 DEF AddArgs
  <1>21. ASSUME Reduces(st, c, shown, found, strict)
         PROVE  result.id \in 1..Len(st.corpus) /\ (CountsKept => Owns(st, result.id) = {})
    <2>1. PICK i : i = result.id
      OBVIOUS
    <2>2. /\ i \in 1..Len(st.corpus) /\ st.corpus[i].uniq = shown /\ st.updated = 0 /\ result.size > SizeOf[c]
          /\ found > 0 /\ found = Cardinality(shown)
      BY <1>10, <1>15, <1>21, <2>1 DEF Reduces
    <2>0. shown # {}
      <3> SUFFICES ASSUME shown = {} PROVE FALSE
        OBVIOUS
      <3>1. Cardinality({}) = 0
        BY FS_EmptySet, Zenon
      <3>2. found = 0
        BY <2>2, <3>1
      <3> QED
        BY <2>2, <3>2
    <2>3. RecordRight(st, i)
      BY <1>14, <2>2 DEF Collecting
    <2>4. st.corpus[i].enabled
      <3> SUFFICES ASSUME ~st.corpus[i].enabled PROVE FALSE
        OBVIOUS
      <3>1. st.corpus[i] = InputInfo
        BY <2>3 DEF RecordRight
      <3> QED
        BY <2>0, <2>2, <3>1 DEF InputInfo
    <2>5. st.corpus[i].size = result.size
      BY <1>14, <2>1, <2>2, <2>4 DEF ResultIs
    <2>6. ASSUME CountsKept, NEW s \in Owns(st, i) PROVE FALSE
      <3>0. ReduceInputs /\ Shrink /\ shown = {f + offset : f \in features}
        BY <1>17, <2>0, <2>6 DEF CountsKept
      <3>1. s \in Slots /\ st.sizes[s] > 0 /\ st.smallest[s] = i
        BY <2>6 DEF Owns
      <3>2. st.sizes[s] = result.size /\ \E f \in shown : SlotOf(f) = s
        BY <2>2, <2>3, <2>4, <2>5, <2>6, <3>0 DEF RecordRight
      <3>3. PICK g \in features : SlotOf(g + offset) = s
        BY <3>0, <3>2
      <3>4. ShownBelow(features, offset, ModuleSize, s)
        BY <1>17, <3>3 DEF ShownBelow
      <3>5. st.sizes[s] > SizeOf[c]
        BY <2>2, <3>2
      <3>6. TakesOver(st.sizes[s], SizeOf[c])
        BY <3>0, <3>5 DEF TakesOver
      <3>7. PICK old : old = Now
        OBVIOUS
      <3>8. st.sizes[s] = IF TakesOver(old.sizes[s], SizeOf[c]) THEN SizeOf[c] ELSE old.sizes[s]
        BY <1>14, <3>1, <3>4, <3>7 DEF Since
      <3>9. st.sizes[s] # SizeOf[c]
        BY <1>16, <3>5, <3>1, <1>15
      <3> QED
        BY <3>6, <3>8, <3>9
    <2> QED
      BY <2>1, <2>2, <2>6
  <1>22. Outcome(st, fb, c)
    <2>1. CASE st.updated > 0
      <3>1. Appends(st, fb, c)
        BY <1>11, <1>20, <2>1, AddAppends
      <3> QED
        BY <3>1 DEF Outcome
    <2>2. CASE st.updated = 0 /\ Reduces(st, c, shown, found, strict)
      <3>1. Replaces(st, fb, c)
        BY <1>9, <1>11, <1>20, <1>21, <2>2, AddReplaces
      <3> QED
        BY <3>1 DEF Outcome
    <2>3. CASE st.updated = 0 /\ ~Reduces(st, c, shown, found, strict)
      <3>1. Leaves(st, fb)
        BY <1>9, <1>11, <1>20, <2>3, AddLeaves
      <3> QED
        BY <3>1 DEF Outcome
    <2> QED
      BY <1>15, <2>1, <2>2, <2>3
  <1>23. Held'
    BY <1>2, <1>4, <1>6, <1>12, <1>13, <1>22, FeedbackKeeps
  <1>24. Execution(c, t, features, offset, st, fb)
    BY <1>2, <1>4, <1>5, <1>6, <1>12, <1>13, <1>22 DEF Execution
  <1>25. \A s \in Slots : OwnerKept(s)
    BY <1>24, OwnersKept
  <1> QED
    BY <1>23, <1>25, OwnersOutsideExecute

LEMMA InitializeKeeps == ASSUME CorpusInv, Initialize PROVE CorpusInv' /\ OwnersStayEnabled
  <1>1. PICK c : c = Head(initial)
    OBVIOUS
  <1>2. initial \in Seq(Contents) /\ initial # <<>>
    BY DEF CorpusInv, Initialize
  <1>3. c \in Contents /\ initial' \in Seq(Contents) /\ input' \in Contents
    BY <1>1, <1>2 DEF Initialize
  <1>4. PICK force : force = TRUE
    OBVIOUS
  <1>5. ExecuteAndFeedback(c, force) /\ dist' = dist
    BY <1>1, <1>4 DEF Initialize
  <1>6. force \in BOOLEAN /\ force
    BY <1>4
  <1>7. Held' /\ \E features, st, fb : LfOutcome(c, features, st, fb, force)
    BY <1>3, <1>5, <1>6, LfExecutes
  <1>8. CorpusInv'
    BY <1>3, <1>7 DEF CorpusInv, Initialize
  <1>9. PICK features, st, fb : LfOutcome(c, features, st, fb, force)
    BY <1>7
  <1>10. OwnersStayEnabled
    BY <1>3, <1>9, LfOwnersOnce DEF Initialize
  <1> QED
    BY <1>8, <1>10

\* Renaming the shared result changes nothing in the corpus.
LEMMA RenameKeeps ==
    ASSUME CorpusInv, outcomes \in Seq(Nat), NezhaAddToSolution
    PROVE  CorpusInv'
  <1>1. PICK res : res = result'
    OBVIOUS
  <1>2. PICK now : now = Now
    OBVIOUS
  <1>3. Now' = now
    BY <1>2 DEF NezhaAddToSolution, Now
  <1>4. result \in Record /\ ResultIs(now, result) /\ Collecting(now, dist, 0) /\ Executed(reach) /\ ReachRight(reach, sizes)
    BY <1>2 DEF CorpusInv, Held
  <1>5. res \in Record /\ res.id = result.id /\ res.size = result.size
    <2>1. CASE res = result
      BY <1>4, <2>1
    <2>2. CASE res = [result EXCEPT !.name = <<"diff", outcomes>>]
      <3>1. PICK name : name = <<"diff", outcomes>>
        OBVIOUS
      <3>2. name \in Names
        BY <3>1 DEF Names
      <3>3. res = [result EXCEPT !.name = name]
        BY <2>2, <3>1
      <3> QED
        BY <1>4, <3>2, <3>3 DEF Record
    <2> QED
      BY <1>1, <2>1, <2>2 DEF NezhaAddToSolution
  <1>6. ResultIs(now, res)
    BY <1>4, <1>5 DEF ResultIs
  <1>7. Held'
    BY <1>1, <1>3, <1>4, <1>5, <1>6 DEF Held, NezhaAddToSolution
  <1>8. lpc' \in {"update", "mutate"} /\ UNCHANGED <<initial, input>>
    BY DEF NezhaAddToSolution
  <1> QED
    BY <1>7, <1>8 DEF CorpusInv

\* A disagreement is saved when it is first seen, with what the targets did.
LEMMA SolutionKeeps ==
    ASSUME UseOutput => outcomes = current /\ DiffIsOfThisInput, DisagreementsSaved, NezhaAddToSolution
    PROVE  (UseOutput => DiffIsOfThisInput') /\ DisagreementsSaved'
  <1>1. PICK now : now = <<outcomes, current>>
    OBVIOUS
  <1>2. now[1] = outcomes /\ now[2] = current
    BY <1>1
  <1>3. /\ known_outcomes' = known_outcomes \cup {outcomes}
        /\ diffs' = IF IsNew /\ Disagree(outcomes) THEN diffs \cup {now} ELSE diffs
    BY <1>1 DEF NezhaAddToSolution
  <1>4. ASSUME UseOutput, NEW d \in diffs' PROVE Disagree(d[2])
    <2>1. CASE d \in diffs
      BY <1>4, <2>1 DEF DiffIsOfThisInput
    <2>2. CASE d \notin diffs
      <3>1. d = now /\ Disagree(outcomes)
        BY <1>3, <2>2
      <3> QED
        BY <1>2, <1>4, <3>1
    <2> QED
      BY <2>1, <2>2
  <1>5. ASSUME NEW o \in known_outcomes', Disagree(o) PROVE \E d \in diffs' : d[1] = o
    <2>1. CASE o \in known_outcomes
      <3>1. PICK d \in diffs : d[1] = o
        BY <1>5, <2>1 DEF DisagreementsSaved
      <3>2. d \in diffs'
        BY <1>3
      <3> QED
        BY <3>1, <3>2
    <2>2. CASE o \notin known_outcomes
      <3>1. o = outcomes
        BY <1>3, <2>2
      <3>2. IsNew
        BY <2>2, <3>1 DEF IsNew
      <3>3. now \in diffs'
        BY <1>3, <1>5, <3>1, <3>2
      <3> QED
        BY <1>2, <3>1, <3>3
    <2> QED
      BY <2>1, <2>2
  <1> QED
    BY <1>4, <1>5 DEF DiffIsOfThisInput, DisagreementsSaved

LEMMA NezhaInitHolds == ASSUME NezhaInit PROVE NezhaInv
  <1>1. /\ LInit /\ diffs = {} /\ known_outcomes = {} /\ target = 0 /\ outcomes = <<>>
    BY DEF NezhaInit
  <1>2. CorpusInv
    BY <1>1, StartsRight
  <1>3. lpc = "init"
    BY <1>1 DEF LInit
  <1> QED
    BY <1>1, <1>2, <1>3 DEF NezhaInv, DiffIsOfThisInput, DisagreementsSaved

LEMMA DiffsSame ==
    ASSUME UseOutput => DiffIsOfThisInput, DisagreementsSaved, UNCHANGED <<diffs, known_outcomes>>
    PROVE  (UseOutput => DiffIsOfThisInput') /\ DisagreementsSaved'
  BY DEF DiffIsOfThisInput, DisagreementsSaved, Disagree

LEMMA NezhaNextKeeps ==
    ASSUME NezhaInv, [NezhaNext]_<<lVars, nVars>>
    PROVE  NezhaInv' /\ [OwnersStayEnabled]_lVars
  <1>0. /\ CorpusInv /\ target \in Nat /\ outcomes \in Seq(Nat)
        /\ (UseOutput => DiffIsOfThisInput) /\ DisagreementsSaved
    BY DEF NezhaInv
  <1>1. CASE NezhaShared
    <2>1. UNCHANGED nVars
      BY <1>1 DEF NezhaShared
    <2>2. CorpusInv' /\ OwnersStayEnabled /\ lpc' \notin {"execute", "targets"}
      <3>1. CASE Initialize
        BY <1>0, <3>1, InitializeKeeps DEF Initialize
      <3>2. CASE InitializeDone
        BY <1>0, <3>2, InitializeDoneKeeps, OwnersSame DEF InitializeDone
      <3>3. CASE UpdateDistribution
        BY <1>0, <3>3, UpdateKeepsCorpus, OwnersSame DEF UpdateDistribution
      <3>4. CASE UpdateMaxLengthUntil(NezhaCycles)
        <4>1. CorpusInv'
          BY <1>0, <3>4, LengthKeeps
        <4>2. lpc' \in {"end", "select"} /\ UNCHANGED <<corpus, sizes, smallest>>
          BY <3>4 DEF UpdateMaxLengthUntil
        <4> QED
          BY <4>1, <4>2, OwnersSame
      <3>5. CASE SelectSeed
        BY <1>0, <3>5, SelectKeepsCorpus, OwnersSame DEF SelectSeed
      <3> QED
        BY <1>1, <3>1, <3>2, <3>3, <3>4, <3>5 DEF NezhaShared
    <2>3. (UseOutput => DiffIsOfThisInput') /\ DisagreementsSaved'
      BY <1>0, <2>1, DiffsSame DEF nVars
    <2> QED
      BY <1>0, <2>1, <2>2, <2>3 DEF NezhaInv, nVars
  <1>2. CASE NezhaMutate
    <2>1. PICK next : next = "targets"
      OBVIOUS
    <2>2. MutateTo(next) /\ next \notin {"length", "select"}
      BY <1>2, <2>1 DEF NezhaMutate
    <2>3. CorpusInv'
      BY <1>0, <2>2, MutateKeepsCorpus
    <2>4. lpc' = "targets" /\ OwnersStayEnabled
      BY <2>1, <2>2, OwnersSame DEF MutateTo
    <2>5. /\ target' = 0 /\ current' = <<>> /\ UNCHANGED <<diffs, known_outcomes>>
          /\ outcomes' = IF UseOutput THEN <<>> ELSE outcomes
      BY <1>2 DEF NezhaMutate, CreateOutputs
    <2>6. (UseOutput => DiffIsOfThisInput') /\ DisagreementsSaved'
      BY <1>0, <2>5, DiffsSame
    <2>7. outcomes' \in Seq(Nat) /\ (UseOutput => outcomes' = current')
      BY <1>0, <2>5
    <2> QED
      BY <2>3, <2>4, <2>5, <2>6, <2>7 DEF NezhaInv
  <1>3. CASE RunSingleTarget
    <2>1. lpc = "targets" /\ UNCHANGED <<lpc, initial, input, diffs, known_outcomes>> /\ target' = target + 1
      BY <1>3 DEF RunSingleTarget
    <2>2. Held' /\ OwnersStayEnabled
      BY <1>0, <1>3, <2>1, TargetKeeps
    <2>3. CorpusInv'
      BY <1>0, <2>1, <2>2 DEF CorpusInv
    <2>4. PICK r \in Results : outcomes' = Append(outcomes, r) /\ current' = Append(current, r)
      BY <1>3 DEF RunSingleTarget
    <2>5. (UseOutput => outcomes = current) /\ r \in Nat
      BY <2>1, <2>4, NezhaAssumption DEF NezhaInv
    <2>6. (UseOutput => outcomes' = current') /\ outcomes' \in Seq(Nat) /\ target' \in Nat
      BY <1>0, <2>1, <2>4, <2>5
    <2>7. (UseOutput => DiffIsOfThisInput') /\ DisagreementsSaved'
      BY <1>0, <2>1, DiffsSame
    <2> QED
      BY <2>1, <2>2, <2>3, <2>6, <2>7 DEF NezhaInv
  <1>4. CASE NezhaAddToSolution
    <2>1. lpc = "targets" /\ lpc' \in {"update", "mutate"} /\ UNCHANGED <<target, outcomes, current>>
      BY <1>4 DEF NezhaAddToSolution
    <2>2. UseOutput => outcomes = current /\ DiffIsOfThisInput
      BY <2>1 DEF NezhaInv
    <2>3. CorpusInv'
      BY <1>0, <1>4, RenameKeeps
    <2>4. (UseOutput => DiffIsOfThisInput') /\ DisagreementsSaved'
      BY <1>0, <1>4, <2>2, SolutionKeeps
    <2>5. OwnersStayEnabled
      BY <1>4, OwnersSame DEF NezhaAddToSolution
    <2> QED
      BY <1>0, <2>1, <2>3, <2>4, <2>5 DEF NezhaInv
  <1>5. CASE UNCHANGED <<lVars, nVars>>
    <2>1. CorpusInv'
      BY <1>0, <1>5, StutterKeepsCorpus
    <2>2. lpc' = lpc /\ target' = target /\ outcomes' = outcomes /\ current' = current
          /\ UNCHANGED <<diffs, known_outcomes>>
      BY <1>5 DEF lVars, nVars
    <2>3. (UseOutput => DiffIsOfThisInput') /\ DisagreementsSaved'
      BY <1>0, <2>2, DiffsSame
    <2>4. NezhaInv'
      BY <1>0, <2>1, <2>2, <2>3 DEF NezhaInv
    <2> QED
      BY <1>5, <2>4
  <1> QED
    BY <1>1, <1>2, <1>3, <1>4, <1>5 DEF NezhaNext

\* Nezha keeps libFuzzer's corpus sound, whatever its targets and its options, and saves the
\* disagreements of its targets.
THEOREM NezhaCorpusStaysSound == NezhaSpec => CorpusSound
  <1>1. NezhaInit => NezhaInv
    BY NezhaInitHolds
  <1>2. NezhaInv /\ [NezhaNext]_<<lVars, nVars>> => NezhaInv'
    BY NezhaNextKeeps
  <1>3. NezhaInv /\ [NezhaNext]_<<lVars, nVars>> => [OwnersStayEnabled]_lVars
    BY NezhaNextKeeps
  <1>4. NezhaInv => OwnerCounts /\ EnabledHaveData /\ DrawnOwnFeatures /\ SmallestSize
    BY CorpusIsRight DEF NezhaInv
  <1>5. NezhaInv => (UseOutput => DiffIsOfThisInput) /\ DisagreementsSaved
    BY DEF NezhaInv
  <1>6. NezhaSpec => []NezhaInv
    BY <1>1, <1>2, PTL DEF NezhaSpec
  <1>7. NezhaSpec => [][OwnersStayEnabled]_lVars
    BY <1>3, <1>6, PTL DEF NezhaSpec
  <1> QED
    BY <1>4, <1>5, <1>6, <1>7, PTL DEF CorpusSound

=============================================================================
