----------------------------- MODULE MCAflScore -----------------------------
(* Model values are interchangeable: only the order of slots matters.       *)
EXTENDS AflScoreLoop, TLC

Symmetry == Permutations(Case)
=============================================================================
