----------------------------- MODULE LfMutation ------------------------------
(***************************************************************************)
(* The mutators of libFuzzer and the loop that drives them: createMutator  *)
(* calls one of them at random, RepeatUntilMutated calls it again until    *)
(* the history has grown, and the input is executed; when it found         *)
(* coverage, the dictionary words it was made with join the persistent     *)
(* auto dictionary.  How the corpus changes is LibFuzzer's matter; here a  *)
(* seed and a value to cross it with are any of a few.                     *)
(*                                                                         *)
(* Bytes are the digits 0 .. Base - 1, Other for a byte that is not ASCII, *)
(* and Space; Base and Word stand for 10 and 2^64.  A mutator is the set   *)
(* of its outcomes: the data, whether the history was appended to, the     *)
(* word that was used, and whether its accesses and assertions are right.  *)
(* Positions count from 0.                                                 *)
(***************************************************************************)
EXTENDS Integers, Sequences, FiniteSets, SequencesExt

CONSTANTS
    LmSeeds,          \* values select_input can yield: empty for a disabled record
    LmCrossovers,     \* values select_crossover can yield, likewise
    ManualWords,      \* the words of the dictionary files, in order
    Base, Word,       \* of a decimal number and of uint64_t
    IntSizes,         \* sizeof(T) of ChangeBinaryInteger<T>
    MinRepeat, MaxRepeat,  \* of InsertRepeatedBytes: 3 and 128
    MaxShuffle,       \* of ShuffleBytes: 8
    LmMaxLength,      \* max_length
    DictCapacity,     \* of a StaticDictionary: 1 << 14
    MutationDepth,    \* create_info.mutation_depth
    LmRetries         \* create_info.max_mutation_retry_count

ASSUME LfMutationAssumption ==
    /\ {Base, Word, MaxShuffle, LmMaxLength, MutationDepth, LmRetries, DictCapacity} \subseteq Nat \ {0}
    /\ MinRepeat \in Nat \ {0} /\ MaxRepeat >= MinRepeat /\ IntSizes \subseteq Nat \ {0}
    /\ <<>> \notin Range(ManualWords)
    /\ Len(ManualWords) <= DictCapacity

VARIABLES
    lm_pc,            \* "select", "mutate" or "execute"
    lm_seed,          \* the length of the seed
    lm_data,          \* input
    lm_cross,         \* crossover
    lm_logged,        \* mutation_history is not empty
    lm_words,         \* the words dict_history points to
    lm_auto,          \* persistent_auto_dict
    lm_tries, lm_round,  \* loop counters of mutation_loop and local_loop
    lm_ascii,         \* create_info.only_ascii
    lm_ok             \* the seed's last mutator accessed no byte outside, failed no assertion

lmVars == <<lm_pc, lm_seed, lm_data, lm_cross, lm_logged, lm_words, lm_auto, lm_tries,
            lm_round, lm_ascii, lm_ok>>

Other == Base
Space == Base + 1
ByteValues == 0 .. Base + 1
IsDigit(v) == v < Base

LmInit ==
    /\ lm_pc = "select" /\ lm_seed = 0 /\ lm_data = <<>> /\ lm_cross = <<>>
    /\ lm_logged = FALSE /\ lm_words = <<>> /\ lm_auto = <<>>
    /\ lm_tries = 0 /\ lm_round = 0 /\ lm_ascii \in BOOLEAN /\ lm_ok = TRUE

-----------------------------------------------------------------------------
(* random_value(rng, n) *)
Rnd(n) == IF n = 0 THEN {0} ELSE 0 .. n - 1
Least(a, b) == IF a < b THEN a ELSE b

Part(d, at, n) == SubSeq(d, at + 1, at + n)
InsertBytesAt(d, at, s) == Part(d, 0, at) \o s \o SubSeq(d, at + 1, Len(d))
WriteAt(d, at, s) == Part(d, 0, at) \o s \o SubSeq(d, at + Len(s) + 1, Len(d))

Done(d) == [data |-> d, logged |-> TRUE, words |-> <<>>, ok |-> TRUE]
Checked(d, ok) == [Done(d) EXCEPT !.ok = ok]

(* return 0u before the history is appended to *)
Refused(d) == {[Done(d) EXCEPT !.logged = FALSE]}

EraseBytes(d) ==
    IF Len(d) <= 1 THEN Refused(d)
    ELSE UNION {{Checked(Part(d, 0, i) \o SubSeq(d, i + n + 1, Len(d)), n < Len(d))
                    : i \in Rnd(Len(d) - n + 1)} : n \in {k + 1 : k \in Rnd(Len(d) \div 2)}}

InsertByte(d, max) ==
    IF Len(d) >= max THEN Refused(d)
    ELSE {Done(InsertBytesAt(d, i, <<v>>)) : i \in Rnd(Len(d) + 1), v \in ByteValues}

(* Mutant of InsertRepeatedBytes: the room left does not bound what is inserted. *)
InsertUnbounded(d, max) ==
    IF Len(d) + MinRepeat >= max THEN Refused(d)
    ELSE {Done(InsertBytesAt(d, i, [k \in 1 .. n |-> Other])) : i \in Rnd(Len(d) + 1), n \in MinRepeat .. MaxRepeat}

(* Zeros or 255s, none of them a digit. *)
InsertRepeatedBytes(d, max) ==
    IF Len(d) + MinRepeat >= max THEN Refused(d)
    ELSE LET most == Least(max - Len(d), MaxRepeat)
         IN  {Checked(InsertBytesAt(d, i, [k \in 1 .. n |-> Other]), Len(d) + n <= max /\ n > 0)
                 : i \in Rnd(Len(d) + 1), n \in {k + MinRepeat : k \in Rnd(most - MinRepeat + 1)}}

(* The byte is written whether or not there is one; where it goes then is left open. *)
ChangeByte(d, max) ==
    IF Len(d) > max THEN Refused(d)
    ELSE IF d = <<>> THEN {Checked(d, FALSE)}
    ELSE {Done(WriteAt(d, i, <<v>>)) : i \in Rnd(Len(d)), v \in ByteValues}

ChangeBit(d, max) ==
    IF Len(d) > max THEN Refused(d)
    ELSE IF d = <<>> THEN {Checked(d, FALSE)}
    ELSE UNION {{Done(WriteAt(d, i, <<v>>)) : v \in {w \in ByteValues : w /= d[i + 1] \/ w = Other}}
                   : i \in Rnd(Len(d))}

ShuffleBytes(d, max) ==
    IF Len(d) > max \/ d = <<>> THEN Refused(d)
    ELSE UNION {UNION {{Checked(WriteAt(d, s, [k \in 1 .. n |-> d[s + p[k]]]), s + n <= Len(d))
                           : p \in {f \in [1 .. n -> 1 .. n] : IsInjective(f)}}
                          : s \in Rnd(Len(d) - n)}
                   : n \in {k + 1 : k \in Rnd(Least(Len(d), MaxShuffle))}}

-----------------------------------------------------------------------------
Number(s) == FoldLeft(LAMBDA v, digit : (v * Base + digit) % Word, 0, s)
Digits(v, n) == [k \in 1 .. n |-> (v \div Base ^ (n - k)) % Base]

NextNumbers(v) ==
    {(v + 1) % Word, (v - 1) % Word, v \div 2, (2 * v) % Word} \cup Rnd((v * v) % Word)

(* From a random position the next number is changed in place. *)
ChangeASCIIInteger(d, max) ==
    IF Len(d) > max THEN Refused(d)
    ELSE UNION {LET from == {i \in b .. Len(d) - 1 : IsDigit(d[i + 1])}
                    first == CHOOSE i \in from : \A j \in from : i <= j
                    last == CHOOSE e \in first + 1 .. Len(d) :
                                /\ \A i \in first .. e - 1 : IsDigit(d[i + 1])
                                /\ e = Len(d) \/ ~IsDigit(d[e + 1])
                    n == last - first
                IN  IF from = {} THEN Refused(d)
                    ELSE {Done(WriteAt(d, first, Digits(v, n))) : v \in NextNumbers(Number(Part(d, first, n)))}
                   : b \in Rnd(Len(d))}

(* The bytes of the result may be any.  The history is appended to first. *)
ChangeBinaryInteger(d, max) ==
    IF Len(d) > max THEN Refused(d)
    ELSE UNION {IF Len(d) < n THEN {Done(d)}
                ELSE {Checked(WriteAt(d, at, s), at + n <= Len(d))
                         : at \in Rnd(Len(d) - n + 1), s \in [1 .. n -> ByteValues]} : n \in IntSizes}

-----------------------------------------------------------------------------
(* std::copy and std::copy_backward, a byte at a time. *)
CopyBytes(d, from, to, order) ==
    FoldLeft(LAMBDA s, k : [s EXCEPT ![to + k] = s[from + k]], d, order)

(* Mutant of CopySelf: always forwards. *)
CopyForward(d, from, to, n) == CopyBytes(d, from, to, [k \in 1 .. n |-> k])

CopySelf(d, from, to, n) ==
    IF n = 0 \/ from = to THEN d
    ELSE IF from + n <= to \/ to + n <= from \/ to < from
    THEN CopyBytes(d, from, to, [k \in 1 .. n |-> k])
    ELSE CopyBytes(d, from, to, [k \in 1 .. n |-> n + 1 - k])

(* Mutant of CopyPartOf: what there is to copy does not bound the size. *)
CopyTooMuchOf(from, d, own) ==
    UNION {UNION {{Checked(IF n > Len(from) THEN d ELSE WriteAt(d, t, Part(from, f, n)), f + n <= Len(from))
                      : f \in Rnd(Len(from) - n + 1)}
                     : n \in {k + 1 : k \in Rnd(Len(d) - t)}} : t \in Rnd(Len(d))}

(* from is another value than d when own is FALSE. *)
CopyPartOf(from, d, own) ==
    UNION {UNION {LET n == Least(size, Len(from))
                  IN  {Checked(IF own THEN CopySelf(d, f, t, n) ELSE WriteAt(d, t, Part(from, f, n)),
                               t + size <= Len(d) /\ f + n <= Len(from))
                          : f \in Rnd(Len(from) - n + 1)}
                     : size \in {k + 1 : k \in Rnd(Len(d) - t)}} : t \in Rnd(Len(d))}

InsertPartOf(from, d, max) ==
    LET most == Least(max - Len(d), Len(from))
    IN  UNION {{Checked(InsertBytesAt(d, t, Part(from, f, n)), f + n <= Len(from) /\ t + n <= max)
                   : f \in Rnd(Len(from) - n + 1), t \in Rnd(Len(d) + 1)}
                  : n \in {k + 1 : k \in Rnd(most)}}

CopyPart(d, max) ==
    IF Len(d) > max \/ d = <<>> THEN Refused(d)
    ELSE CopyPartOf(d, d, TRUE) \cup (IF Len(d) = max THEN {} ELSE InsertPartOf(d, d, max))

(* detail::Crossover: pieces of both in turn, the first of d.  turn names the
   source of every byte. *)
Interleaved(d, c, max) ==
    UNION {LET n == Least(m, Len(d) + Len(c))
               Taken(turn, who, k) == Cardinality({j \in 1 .. k : turn[j] = who})
           IN  {Done([k \in 1 .. n |-> IF turn[k] = 1 THEN d[Taken(turn, 1, k)] ELSE c[Taken(turn, 2, k)]])
                   : turn \in {t \in [1 .. n -> 1 .. 2] :
                                  t[1] = 1 /\ Taken(t, 1, n) <= Len(d) /\ Taken(t, 2, n) <= Len(c)}}
              : m \in {k + 1 : k \in Rnd(max)}}

CrossoverWith(d, c, max) ==
    IF Len(d) > max \/ d = <<>> \/ c = <<>> THEN Refused(d)
    ELSE {[r EXCEPT !.ok = @ /\ Len(r.data) \in 1 .. max]
             : r \in Interleaved(d, c, max) \cup CopyPartOf(c, d, FALSE)
                     \cup (IF Len(d) >= max THEN {} ELSE InsertPartOf(c, d, max))}

-----------------------------------------------------------------------------
(* Inserted or written over, when there is room.  No entry has a position
   hint: Load and UpdateDictionary set none.  The history has been appended to. *)
ApplyDictionaryEntry(d, w, max) ==
    LET Used(values) == {[Done(e) EXCEPT !.words = <<w>>] : e \in values}
    IN  (IF Len(d) + Len(w) > max THEN {Done(d)}
         ELSE Used({InsertBytesAt(d, i, w) : i \in Rnd(Len(d) + 1)}))
        \cup (IF Len(w) > Len(d) THEN {Done(d)}
              ELSE Used({WriteAt(d, i, w) : i \in Rnd(Len(d) + 1 - Len(w))}))

AddWordFromDictionary(d, dict, max) ==
    IF Len(d) > max \/ dict = <<>> THEN {Done(d)}
    ELSE UNION {ApplyDictionaryEntry(d, w, max) : w \in Range(dict)}

ToASCII(d) == [k \in DOMAIN d |-> IF d[k] = Other THEN Space ELSE d[k]]

(* Mutant of UpdateDictionary: a word is not looked for. *)
AppendWords(dict, words) == dict \o words

UpdateDictionary(dict, words) ==
    FoldLeft(LAMBDA known, w : IF w \in Range(known) THEN known ELSE Append(known, w), dict, words)

-----------------------------------------------------------------------------
LmSelect ==
    /\ lm_pc = "select"
    /\ lm_data' \in LmSeeds /\ lm_cross' \in LmCrossovers
    /\ lm_seed' = Len(lm_data') /\ lm_round' = 0 /\ lm_ok' = TRUE
    /\ lm_pc' = "clear"
    /\ UNCHANGED <<lm_logged, lm_words, lm_auto, lm_tries, lm_ascii>>

(* Mutant of LmClear: create_dict_entry is left out. *)
ClearHistoryOnly ==
    /\ lm_pc = "clear"
    /\ lm_logged' = FALSE /\ lm_tries' = 0
    /\ lm_pc' = "mutate"
    /\ UNCHANGED <<lm_seed, lm_data, lm_cross, lm_words, lm_auto, lm_round, lm_ascii, lm_ok>>

(* create_history and create_dict_entry *)
LmClear ==
    /\ lm_pc = "clear"
    /\ lm_logged' = FALSE /\ lm_words' = <<>> /\ lm_tries' = 0
    /\ lm_pc' = "mutate"
    /\ UNCHANGED <<lm_seed, lm_data, lm_cross, lm_auto, lm_round, lm_ascii, lm_ok>>

(* One pass of mutation_loop. *)
MutateBy(outcomes) ==
    /\ lm_pc = "mutate"
    /\ \E r \in outcomes :
           /\ lm_data' = IF lm_ascii THEN ToASCII(r.data) ELSE r.data
           /\ lm_logged' = (lm_logged \/ r.logged)
           /\ lm_words' = lm_words \o r.words
           /\ lm_ok' = r.ok
    /\ lm_tries' = lm_tries + 1
    /\ lm_pc' = IF lm_logged' \/ lm_tries' = MutationDepth THEN "execute" ELSE "mutate"
    /\ UNCHANGED <<lm_seed, lm_cross, lm_auto, lm_round, lm_ascii>>

(* The execution, update_dict when it found coverage, and the exit of local_loop
   (reduce_depth is off). *)
LmExecute ==
    /\ lm_pc = "execute"
    /\ lm_round' = lm_round + 1
    /\ \E added \in BOOLEAN :
           /\ lm_auto' = IF added THEN UpdateDictionary(lm_auto, lm_words) ELSE lm_auto
           /\ lm_pc' = IF added \/ lm_round' = LmRetries THEN "select" ELSE "clear"
    /\ UNCHANGED <<lm_seed, lm_data, lm_cross, lm_logged, lm_words, lm_tries, lm_ascii, lm_ok>>

LmNext ==
    \/ LmSelect \/ LmClear \/ LmExecute
    \/ MutateBy(EraseBytes(lm_data))
    \/ MutateBy(InsertByte(lm_data, LmMaxLength))
    \/ MutateBy(InsertRepeatedBytes(lm_data, LmMaxLength))
    \/ MutateBy(ChangeByte(lm_data, LmMaxLength))
    \/ MutateBy(ChangeBit(lm_data, LmMaxLength))
    \/ MutateBy(ShuffleBytes(lm_data, LmMaxLength))
    \/ MutateBy(ChangeASCIIInteger(lm_data, LmMaxLength))
    \/ MutateBy(ChangeBinaryInteger(lm_data, LmMaxLength))
    \/ MutateBy(CopyPart(lm_data, LmMaxLength))
    \/ MutateBy(CrossoverWith(lm_data, lm_cross, LmMaxLength))
    \/ MutateBy(AddWordFromDictionary(lm_data, ManualWords, LmMaxLength))
    \/ MutateBy(AddWordFromDictionary(lm_data, lm_auto, LmMaxLength))

-----------------------------------------------------------------------------
(* Mask takes the bytes that are masked, Unmask puts them back; when there are
   fewer than were taken, the rest closes up. *)
Mask(d, mask) ==
    LET pairs == [k \in 1 .. Least(Len(d), Len(mask)) |-> <<mask[k], d[k]>>]
        taken == SelectSeq(pairs, LAMBDA e : e[1])
    IN  [k \in DOMAIN taken |-> taken[k][2]]

(* Mutant of Unmask: the places of bytes that are gone keep what they held. *)
UnmaskKeepsPlace(src, mask, d) ==
    LET Nth(k) == Cardinality({j \in 1 .. k : mask[j]})
    IN  [k \in DOMAIN d |-> IF k <= Len(mask) /\ mask[k] /\ Nth(k) <= Len(src) THEN src[Nth(k)] ELSE d[k]]

Unmask(src, mask, d) ==
    LET Nth(k) == Cardinality({j \in 1 .. k : mask[j]})
        Byte(k) == IF k > Len(mask) THEN <<d[k]>>
                   ELSE IF ~mask[k] THEN <<d[k]>>
                   ELSE IF Nth(k) <= Len(src) THEN <<src[Nth(k)]>> ELSE <<>>
    IN  FlattenSeq([k \in DOMAIN d |-> Byte(k)])

-----------------------------------------------------------------------------
(* No mutator reads or writes outside of the data, and none of the assertions
   of the mutators fails, but for one case: ChangeByte and ChangeBit do not ask
   whether there is a byte.  SelectSeed yields an empty value for a disabled
   record; a value that is not empty is never emptied, so nothing else leads
   there. *)
AccessesRight == lm_ok \/ (lm_seed = 0 /\ lm_data = <<>>)

(* What is executed is not longer than max_length, or than its seed when that
   already was, and it is empty only if the seed is. *)
MutantSize ==
    lm_pc \in {"mutate", "execute"} =>
        Len(lm_data) \in Least(1, lm_seed) .. (IF lm_seed > LmMaxLength THEN lm_seed ELSE LmMaxLength)

(* The words that update_dict would credit with new coverage are in the input
   that is executed: neither a word of an earlier round nor one that found no
   place is among them.  only_ascii may replace bytes of a word. *)
UsedWordPresent ==
    lm_pc = "execute" /\ ~lm_ascii =>
        \A w \in Range(lm_words) : \E i \in 0 .. Len(lm_data) - Len(w) : Part(lm_data, i, Len(w)) = w

(* The persistent auto dictionary takes what the manual one has, a word once:
   its fixed capacity, which UpdateDictionary does not ask for, suffices. *)
AutoDictFits == Len(lm_auto) <= DictCapacity /\ IsInjective(lm_auto)

(* CopySelf moves the bytes as if it had taken them out first, wherever the two
   places overlap. *)
SelfCopyExact ==
    \A n \in 0 .. Len(lm_data) : \A from, to \in 0 .. Len(lm_data) - n :
        CopySelf(lm_data, from, to, n) = WriteAt(lm_data, to, Part(lm_data, from, n))

(* Unmask undoes Mask; and whatever became of the bytes between them, the
   unmasked ones stay and keep their order. *)
MaskRoundTrip ==
    \A m \in 0 .. Len(lm_data) : \A mask \in [1 .. m -> BOOLEAN] :
        LET took == Mask(lm_data, mask)
            Rest(d) == SelectSeq(d, LAMBDA v : v /= Base + 2)
        IN  /\ Unmask(took, mask, lm_data) = lm_data
            /\ \A n \in 0 .. Len(took) :
                   Rest(Unmask([k \in 1 .. n |-> Base + 2], mask, lm_data))
                       = Rest([k \in DOMAIN lm_data |-> IF k <= m /\ mask[k] THEN Base + 2 ELSE lm_data[k]])
=============================================================================
