---------------------------- MODULE AflVariants -----------------------------
(***************************************************************************)
(* The fuzzers that are made of AFL's parts, AFLFast, IJON and DIE, each   *)
(* with what it keeps of its own.                                          *)
(***************************************************************************)
EXTENDS AflFast, Ijon, Die

VariantsSpec == FastSpec /\ IjonSpec /\ DieSpec

\* What AFLFast, IJON and DIE keep beside AFL's queue: counters that say when nothing
\* waits, inputs that reach the maxima, scripts with their own types.
AflVariantsRight ==
    /\ PendingLeaks /\ PendingFavoredReal
    /\ NonemptyExact /\ StoredReaches
    /\ PairsMatch
=============================================================================
