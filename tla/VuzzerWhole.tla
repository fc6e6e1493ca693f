---------------------------- MODULE VuzzerWhole -----------------------------
(***************************************************************************)
(* VUzzer: its evolutionary loop and, beside it, the buffers its mutators  *)
(* work on.  The loop hands a mutator a copy of a seed and gets a new      *)
(* input; nothing else passes between them.                                *)
(***************************************************************************)
EXTENDS Vuzzer, VuzzerMutator

VuzzerSpec ==
    /\ VInit /\ [][VNext]_vVars
    /\ VmInit /\ [][VmNext]_vmVars

\* VUzzer remembers coverage by the right keys, no record in another, loses none when it
\* trims its records, traces every seed it says it has traced, and its mutators stay inside
\* the input but for the two situations that WildOnlyKnown names.
VuzzerSound ==
    /\ [](BitsFaithful /\ RecordsTrimmed /\ SeenHasTaintSeed) /\ CoverageSurvivesTrims
    /\ [](WildOnlyKnown /\ CrossKeepsLength)
=============================================================================
