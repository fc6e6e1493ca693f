------------------------------- MODULE PutRun -------------------------------
(***************************************************************************)
(* What an executor promises its caller: Run starts the program under test *)
(* (PUT), and returns a reason that tells how the PUT ended.  The fuzzing  *)
(* algorithms rely on nothing else.                                        *)
(*                                                                         *)
(* busy     the caller is inside Run                                       *)
(* elapsed  the time limit of the current run has passed                   *)
(* ended    how the PUT of the current run ended ("no" while it runs)      *)
(* reason   what the last Run reported                                     *)
(***************************************************************************)
VARIABLES busy, elapsed, ended, reason

vars == <<busy, elapsed, ended, reason>>

\* The ways a PUT can end: by itself, because it could not be executed, by a
\* signal of its own (or with the exit code that stands for one, MSAN_ERROR), or
\* by a SIGKILL from the kernel, from the time limit or from a stop request.
Endings == {"exit", "execfail", "signal", "oomkill", "timekill", "stopkill"}

SigKills == {"oomkill", "timekill", "stopkill"}

\* The reasons that are truthful for a PUT that ended so.  A PUT killed by
\* SIGKILL may be reported as timed out only when the limit did pass; whoever
\* sends the SIGKILL after the limit has passed, the report may say either.
Truthful(how, late) ==
    CASE how = "exit"     -> {"NONE"}
      [] how = "execfail" -> {"ERROR"}
      [] how = "signal"   -> {"CRASH"}
      [] how = "timekill" -> {"TMOUT"}
      [] OTHER            -> IF late THEN {"TMOUT", "CRASH"} ELSE {"CRASH"}

Init ==
    /\ busy = FALSE
    /\ elapsed = FALSE
    /\ ended = "no"
    /\ reason = "NONE"

Start ==
    /\ ~busy
    /\ busy' = TRUE
    /\ elapsed' = FALSE
    /\ ended' = "no"
    /\ UNCHANGED reason

\* The limit passes; that may be what ends the PUT.
LimitPasses ==
    /\ busy
    /\ elapsed' = TRUE
    /\ ended' \in {ended} \cup (IF ended = "no" THEN {"timekill"} ELSE {})
    /\ UNCHANGED <<busy, reason>>

PutEnds ==
    /\ busy
    /\ ended = "no"
    /\ ended' \in Endings \ {"timekill"}
    /\ UNCHANGED <<busy, elapsed, reason>>

Return ==
    /\ busy
    /\ ended # "no"
    /\ busy' = FALSE
    /\ reason' \in Truthful(ended, elapsed)
    /\ UNCHANGED <<elapsed, ended>>

Next == Start \/ LimitPasses \/ PutEnds \/ Return

Spec == Init /\ [][Next]_vars
=============================================================================
