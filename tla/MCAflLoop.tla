----------------------------- MODULE MCAflLoop ------------------------------
(* Small sets of traces for AflLoop: the empty one is a run without        *)
(* instrumentation output.                                                 *)
EXTENDS AflLoop

TwoTraces == {{0}, {0, 1}}

ThreeTraces == {{}, {0}, {0, 1}}

\* Two deterministic runs in a row can time out and end the stage.
FewRuns == [trim |-> 1, det |-> 2, rand |-> 1]

OneRun == [trim |-> 1, det |-> 1, rand |-> 1]

=============================================================================
