------------------------------ MODULE AflPrune -------------------------------
(***************************************************************************)
(* AFL's deterministic stages on a buffer of one or two bytes, with the    *)
(* tests by which AFLMutator leaves out mutants it takes for repetitions.  *)
(*                                                                         *)
(* The buffer is the little endian number of its bytes.  All its bytes are *)
(* taken to matter (AflDet has the effector map), and the stages of four   *)
(* bytes do not apply.                                                     *)
(***************************************************************************)
EXTENDS Integers, Sequences, FiniteSets, Bitwise, SequencesExt

CONSTANTS
    Originals,      \* [val, blen]: the buffers
    ArithMax,       \* ARITH_MAX
    Interesting8, Interesting16Only     \* INTERESTING_8 and INTERESTING_16

ASSUME PruneAssumption ==
    /\ \A o \in Originals : o.blen \in {1, 2} /\ o.val \in 0..2 ^ (8 * o.blen) - 1
    /\ ArithMax \in 1..127
    /\ Interesting8 \in Seq(-128..127) /\ Interesting16Only \in Seq(-32768..32767)

VARIABLES
    original,       \* the buffer the stages start from and come back to
    runs,           \* the buffers executed, in order
    prune_stage       \* the next stage

pruneVars == <<original, runs, prune_stage>>

Swap16(v) == (v % 256) * 256 + v \div 256
Interesting16 == Interesting8 \o Interesting16Only
Byte(v, i) == (v \div 256 ^ i) % 256

\* v with byte i set to b.
SetByte(v, i, b) == v + (b - Byte(v, i)) * 256 ^ i

\* The number of n neighbouring ones.
Ones(n) == 2 ^ n - 1

-----------------------------------------------------------------------------
(* The tests.                                                              *)

CouldBeBitflip(xor) ==
    \/ xor = 0
    \/ \E sh \in 0..15 : \/ xor \in {Ones(n) * 2 ^ sh : n \in {1, 2, 4}}
                         \/ sh % 8 = 0 /\ xor \in {Ones(8) * 2 ^ sh, Ones(16) * 2 ^ sh}

\* One is the other plus or minus at most ARITH_MAX, in numbers below m.
Near(a, b, m) == (a - b) % m <= ArithMax \/ (b - a) % m <= ArithMax

\* Mutant: one too far.
CouldBeArithFar(old, new, blen) ==
    LET Far(a, b) == (a - b) % 256 <= ArithMax + 1 \/ (b - a) % 256 <= ArithMax + 1
    IN  \/ old = new
        \/ \E i \in 0..blen - 1 : /\ \A k \in (0..blen - 1) \ {i} : Byte(old, k) = Byte(new, k)
                                  /\ Far(Byte(old, i), Byte(new, i))

CouldBeArith(old, new, blen) ==
    \/ old = new
    \/ \E i \in 0..blen - 1 : /\ \A k \in (0..blen - 1) \ {i} : Byte(old, k) = Byte(new, k)
                              /\ Near(Byte(old, i), Byte(new, i), 256)
    \/ blen = 2 /\ (Near(old, new, 65536) \/ Near(Swap16(old), Swap16(new), 65536))

CouldBeInterest(old, new, blen, check_le) ==
    \/ old = new
    \/ \E i \in 0..blen - 1, b \in Range(Interesting8) : new = SetByte(old, i, b % 256)
    \/ check_le /\ blen = 2 /\ \E w \in Range(Interesting16) : new = w % 65536

-----------------------------------------------------------------------------
(* The mutations.  <<>>: not needed, so not executed.                      *)

\* AddN and SubN; d is the signed distance.
ArithByte(v, i, d) ==
    LET r == SetByte(v, i, (Byte(v, i) + d) % 256)
    IN  IF CouldBeBitflip(Byte(v, i) ^^ Byte(r, i)) THEN <<>> ELSE <<r>>

ArithWord(v, d, be) ==
    LET low == IF be THEN v \div 256 ELSE v % 256
        r == IF be THEN Swap16((Swap16(v) + d) % 65536) ELSE (v + d) % 65536
    IN  IF low + d \in 0..255 \/ CouldBeBitflip(v ^^ r) THEN <<>> ELSE <<r>>

\* Mutant: the arithmetic stage is forgotten.
InterestByteFlipsOnly(v, i, b) ==
    IF CouldBeBitflip(Byte(v, i) ^^ (b % 256)) THEN <<>> ELSE <<SetByte(v, i, b % 256)>>

InterestByte(v, i, b) ==
    LET old == Byte(v, i)
    IN  IF CouldBeBitflip(old ^^ (b % 256)) \/ CouldBeArith(old, b % 256, 1) THEN <<>>
        ELSE <<SetByte(v, i, b % 256)>>

InterestWord(v, w, be) ==
    LET r == IF be THEN Swap16(w % 65536) ELSE w % 65536
    IN  IF \/ be /\ r = w % 65536
           \/ CouldBeBitflip(v ^^ r) \/ CouldBeArith(v, r, 2) \/ CouldBeInterest(v, r, 2, be)
        THEN <<>> ELSE <<r>>

\* FlipBit: bits are numbered from the highest of the first byte on.
FlipBit(v, pos, n) ==
    FoldLeft(LAMBDA a, b : a ^^ (2 ^ (8 * (b \div 8) + 7 - (b % 8))), v, [k \in 1..n |-> pos + k - 1])

FlipByte(v, i, n) == FoldLeft(LAMBDA a, k : SetByte(a, k, 255 - Byte(a, k)), v,
                              [k \in 1..n |-> i + k - 1])

-----------------------------------------------------------------------------
(* The stages.                                                             *)

\* Every run is followed by the restoration of the buffer.
Runs(stage, next, more) ==
    /\ prune_stage = stage /\ prune_stage' = next
    /\ runs' = runs \o more /\ UNCHANGED original

Upto(n) == [k \in 1..n |-> k - 1]
ConcatOver(F(_), s) == FoldLeft(LAMBDA a, x : a \o F(x), <<>>, s)

BitFlips ==
    Runs("bit flips", "byte flips",
         ConcatOver(LAMBDA n : [k \in 1..8 * original.blen + 1 - n |-> FlipBit(original.val, k - 1, n)],
                    <<1, 2, 4>>))

ByteFlips ==
    Runs("byte flips", "arith",
         ConcatOver(LAMBDA n : [k \in 1..original.blen + 1 - n |-> FlipByte(original.val, k - 1, n)],
                    [n \in 1..original.blen |-> n]))

Distances == ConcatOver(LAMBDA j : <<j, -j>>, [j \in 1..ArithMax |-> j])

Arith ==
    LET v == original.val
        bytes == ConcatOver(LAMBDA i : ConcatOver(LAMBDA d : ArithByte(v, i, d), Distances),
                            Upto(original.blen))
        words == ConcatOver(LAMBDA j : ConcatOver(LAMBDA be : ArithWord(v, j, be) \o ArithWord(v, -j, be),
                                                  <<FALSE, TRUE>>), [j \in 1..ArithMax |-> j])
    IN  Runs("arith", "interest", IF original.blen = 1 THEN bytes ELSE bytes \o words)

Interest ==
    LET v == original.val
        bytes == ConcatOver(LAMBDA i : ConcatOver(LAMBDA b : InterestByte(v, i, b), Interesting8),
                            Upto(original.blen))
        words == ConcatOver(LAMBDA w : InterestWord(v, w, FALSE) \o InterestWord(v, w, TRUE),
                            Interesting16)
    IN  Runs("interest", "end", IF original.blen = 1 THEN bytes ELSE bytes \o words)

PruneInit == original \in Originals /\ runs = <<>> /\ prune_stage = "bit flips"
PruneNext == BitFlips \/ ByteFlips \/ Arith \/ Interest

-----------------------------------------------------------------------------
(* Properties.                                                             *)

\* What the stages would execute if nothing were left out.
Intended ==
    LET v == original.val
        d == (-ArithMax)..ArithMax
        bytes == {SetByte(v, i, (Byte(v, i) + k) % 256) : i \in 0..original.blen - 1, k \in d}
                 \cup {SetByte(v, i, b % 256) : i \in 0..original.blen - 1, b \in Range(Interesting8)}
        words == {(v + k) % 65536 : k \in d} \cup {Swap16((Swap16(v) + k) % 65536) : k \in d}
                 \cup {w % 65536 : w \in Range(Interesting16)}
                 \cup {Swap16(w % 65536) : w \in Range(Interesting16)}
    IN  (IF original.blen = 1 THEN bytes ELSE bytes \cup words) \ {v}

\* The neighbouring bits of the word that are not neighbours for FlipBit.
AcrossBytes(xor) == \E n \in {2, 4}, sh \in 1..7 : sh + n > 8 /\ xor = Ones(n) * 2 ^ sh

\* Nothing is lost: a mutant the tests leave out was executed in an earlier stage, the
\* one exception being patterns across the byte border that CouldBeBitflip takes for bit
\* flips of the buffer and FlipBit, which counts bits the other way, never makes.
NoMutantLost ==
    prune_stage = "end" =>
        \A r \in Intended : r \in Range(runs) \/ AcrossBytes(original.val ^^ r)

\* Nothing is executed twice in a buffer of one byte.
NoMutantTwice == original.blen = 1 => Cardinality(Range(runs)) = Len(runs)
=============================================================================
