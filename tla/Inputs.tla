------------------------------- MODULE Inputs --------------------------------
(***************************************************************************)
(* The two ways of keeping inputs: OnDiskExecInput, as the fuzzers of the  *)
(* command line use it, and the input sets of PythonFuzzer.                *)
(***************************************************************************)
EXTENDS ExecInput, PyFuzzer

\* A program that does both, in any order.
InputsSpec ==
    /\ InputInit /\ [][InputNext]_inputVars
    /\ PyInit /\ [][PyNext]_pyVars

\* An input, its file and its identifier agree, in OnDiskExecInput and in PythonFuzzer,
\* over restarts and resets, and the user's seeds are not written to, but in a later session
\* for the ones that SeedExposed names.
InputsSound ==
    /\ SeedsUntouched /\ MemoryIsFile
    /\ HeldIdsSelectable /\ SeedShowsItsRun /\ FilesOfThisSession
=============================================================================
