------------------------------ MODULE AflLearns ------------------------------
(***************************************************************************)
(* What AFL learns of a seed and what it does with it: AflDet finds words  *)
(* and the bytes that matter, AflDict keeps the words and tries them.      *)
(***************************************************************************)
EXTENDS AflDet, AflDict

LearnsSpec ==
    /\ DetSeed /\ DetBlank /\ [][DetNext]_detVars
    /\ DictInit /\ [][DictNext]_dictVars

\* What AFL learns of a seed is true of it (its words, the bytes that matter), the
\* automatic dictionary has no doubles and keeps the words that are used most, and each
\* word is tried on the seed as it was.
AflLearnsRight ==
    /\ [](TokensAreWords /\ EffCountExact /\ SkipsNoEffect)
    /\ [](AutoDistinct /\ OverwriteRestores /\ OneWordAtATime)
    /\ HotWordsKept
=============================================================================
