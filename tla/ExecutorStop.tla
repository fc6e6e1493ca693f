---------------------------- MODULE ExecutorStop -----------------------------
(***************************************************************************)
(* An executor together with the memory of a stop request: whether one     *)
(* came while Run waited for the PUT that is running.                      *)
(***************************************************************************)
EXTENDS Executor

VARIABLE asked        \* a stop request came in this run, with the PUT running

stopVars == <<vars, asked>>

StopInit == Init /\ asked = FALSE

\* Run has read the pid of the PUT and waits for its status; in the branch without a fork
\* server it has stored the pid.
Waiting == pc \in {"poll", "capture", "wait"}

StopNext ==
    \/ ReceiveStopSignal /\ asked' = (asked \/ (Waiting /\ put = "running"))
    \/ Next /\ asked' = (asked /\ pc' # "idle")

StopSpec == StopInit /\ [][StopNext]_stopVars

\* "we should kill the child process(of PUT) so that NativeLinuxExecutor could halt without
\* waiting the timeout": a PUT that was running when a stop request came to the waiting Run is
\* not left to its time limit.
StopReachesPut == asked => ended # "timekill"
=============================================================================
