------------------------------ MODULE Executor ------------------------------
(***************************************************************************)
(* NativeLinuxExecutor::Run and everything that runs beside it: the PUT,   *)
(* the fork server, the SIGALRM handler and ReceiveStopSignal, which a     *)
(* signal handler may call between any two steps of Run.                   *)
(*                                                                         *)
(* ProxyExecutor has the same Run; it only builds another argument vector. *)
(*                                                                         *)
(* pc names the place in Run.  There is one executor and one PUT at a      *)
(* time; the pid of the PUT of the current run is Pid.  Clocks are not     *)
(* modelled: a time limit may pass whenever it is being watched.           *)
(***************************************************************************)
EXTENDS Integers, Sequences

CONSTANTS
    ForkSrv,    \* forksrv: run the PUT through a fork server
    Record,     \* record_stdout_and_err: capture the output of the PUT
    TimeLimit   \* exec_timelimit_ms # 0

ASSUME ModeAssumption ==
    ForkSrv \in BOOLEAN /\ Record \in BOOLEAN /\ TimeLimit \in BOOLEAN

VARIABLES
    pc,              \* where Run is
    limited,         \* timeout_ms # 0 after its default was applied
    child_pid,       \* the member: -1, 0 or the pid of the PUT
    child_timed_out, \* the member
    timer,           \* ITIMER_REAL is armed
    timeout,         \* the local flag of the fork server branch
    last_exit_reason,
    put,             \* the PUT process: "none", "running", "zombie", "reaped"
    ended,           \* its wait status, by cause: "no" or one of Endings
    blocked,         \* the output stream the PUT is blocked on, or "no"
    closed,          \* the output streams no process writes any more
    closed_count,    \* the local counter of the capture loop
    fs,              \* the fork server: "ready", "serving", "dead"
    request,         \* the request pipe holds four bytes
    replies,         \* the reply pipe: "pid" and "status" messages
    elapsed,         \* history: the time limit has passed in this run
    stale_kill       \* history: a kill was sent to a pid already reaped

runVars == <<pc, limited, child_pid, child_timed_out, timer, timeout,
             last_exit_reason>>
putVars == <<put, ended, blocked, closed>>
fsVars  == <<fs, request, replies>>
vars    == <<runVars, putVars, closed_count, fsVars, elapsed, stale_kill>>

Abstract == INSTANCE PutRun WITH
    busy   <- pc # "idle",
    reason <- last_exit_reason

Pid     == 1
Streams == {"out", "err"}

Goto(from, to) == pc = from /\ pc' = to

\* ERROR() prints a message and calls std::exit(1).
Exit(from) == Goto(from, "exited")

-----------------------------------------------------------------------------
(* The PUT.  How it behaves is up to the program under test.               *)

PutDies(how) ==
    /\ put' = "zombie"
    /\ ended' = how
    /\ blocked' = "no"
    /\ closed' = Streams

\* The PUT runs to its end: it exits, or a signal ends it.  "signal" is also the
\* exit code MSAN_ERROR of a PUT built with a sanitizer.
PutEnds ==
    /\ put = "running" /\ blocked = "no"
    /\ \E how \in {"exit", "signal", "oomkill"} : PutDies(how)
    /\ UNCHANGED <<runVars, closed_count, fsVars, elapsed, stale_kill>>

\* execv fails: the child records it in child_state and exits.
ExecFails ==
    /\ put = "running" /\ blocked = "no" /\ ~ForkSrv
    /\ PutDies("execfail")
    /\ UNCHANGED <<runVars, closed_count, fsVars, elapsed, stale_kill>>

\* The PUT writes more than a pipe holds; nobody has read it yet.
PutFillsPipe ==
    /\ Record /\ put = "running" /\ blocked = "no"
    /\ \E s \in Streams \ closed : blocked' = s
    /\ UNCHANGED <<runVars, put, ended, closed, closed_count, fsVars,
                   elapsed, stale_kill>>

\* The PUT closes one of its output streams.  (The fork server keeps its own
\* copy open.)
PutClosesStream ==
    /\ Record /\ ~ForkSrv /\ put = "running" /\ blocked = "no"
    /\ \E s \in Streams \ closed : closed' = closed \cup {s}
    /\ UNCHANGED <<runVars, put, ended, blocked, closed_count, fsVars,
                   elapsed, stale_kill>>

-----------------------------------------------------------------------------
(* Signals.                                                                *)

\* Mutant: child_pid is invalidated before kill(), which then misses the PUT.
KillChild_Swapped(how) ==
    /\ how \in Abstract!SigKills
    /\ child_pid' = IF child_pid > 0 THEN -1 ELSE child_pid
    /\ UNCHANGED <<stale_kill, putVars>>

\* Executor::KillChildWithoutWait: kill(child_pid, SIGKILL) reaches the PUT
\* only while the PUT has not ended.
KillChildWithoutWait(how) ==
    \/ /\ child_pid > 0
       /\ child_pid' = -1
       /\ stale_kill' = (stale_kill \/ put = "reaped")
       /\ IF put = "running" THEN PutDies(how) ELSE UNCHANGED putVars
    \/ /\ child_pid <= 0
       /\ UNCHANGED <<child_pid, stale_kill, putVars>>

\* Mutant: the flag is not set.
AlarmHandler_NoFlag ==
    /\ timer
    /\ timer' = FALSE
    /\ elapsed' = TRUE
    /\ KillChildWithoutWait("timekill")
    /\ UNCHANGED <<pc, limited, child_timed_out, timeout, last_exit_reason,
                   closed_count, fsVars>>

\* AlarmHandler: the timer is one-shot.
AlarmHandler ==
    /\ timer
    /\ timer' = FALSE
    /\ elapsed' = TRUE
    /\ KillChildWithoutWait("timekill")
    /\ child_timed_out' = TRUE
    /\ UNCHANGED <<pc, limited, timeout, last_exit_reason, closed_count,
                   fsVars>>

\* ReceiveStopSignal, called from a signal handler of the fuzzer's owner.
ReceiveStopSignal ==
    /\ pc # "exited"
    /\ KillChildWithoutWait("stopkill")
    /\ UNCHANGED <<pc, limited, child_timed_out, timer, timeout,
                   last_exit_reason, closed_count, fsVars, elapsed>>

-----------------------------------------------------------------------------
(* The fork server, which lives in the instrumented PUT.                   *)

FsFork ==
    /\ fs = "ready" /\ request
    /\ request' = FALSE
    /\ fs' = "serving"
    /\ put' = "running" /\ ended' = "no" /\ blocked' = "no" /\ closed' = {}
    /\ replies' = Append(replies, "pid")
    /\ UNCHANGED <<runVars, closed_count, elapsed, stale_kill>>

FsReap ==
    /\ fs = "serving" /\ put = "zombie"
    /\ fs' = "ready"
    /\ put' = "reaped"
    /\ replies' = Append(replies, "status")
    /\ UNCHANGED <<runVars, ended, blocked, closed, closed_count, request,
                   elapsed, stale_kill>>

FsDies ==
    /\ ForkSrv /\ fs # "dead"
    /\ fs' = "dead"
    /\ UNCHANGED <<runVars, putVars, closed_count, request, replies, elapsed,
                   stale_kill>>

-----------------------------------------------------------------------------
(* Run: the common head.                                                   *)

RunBegin(timeout_given) ==
    /\ Goto("idle", IF ForkSrv THEN "request" ELSE "fork")
    /\ limited' = (timeout_given \/ TimeLimit)
    /\ timeout' = TRUE
    /\ put' = "none" /\ ended' = "no" /\ blocked' = "no" /\ closed' = {}
    /\ closed_count' = 0
    /\ elapsed' = FALSE
    /\ UNCHANGED <<child_pid, child_timed_out, timer, last_exit_reason,
                   fsVars, stale_kill>>

(* Run: the fork server branch.                                            *)

\* A request to a dead server fails with EPIPE: FileError, then ERROR.
Request ==
    /\ IF fs = "dead" THEN Exit("request") /\ UNCHANGED request
                      ELSE Goto("request", "read_pid") /\ request' = TRUE
    /\ UNCHANGED <<limited, child_pid, child_timed_out, timer, timeout,
                   last_exit_reason, putVars, closed_count, fs, replies,
                   elapsed, stale_kill>>

\* The blocking read of the pid; end of file means FileError, then ERROR.
ReadPid ==
    /\ \/ /\ replies # << >>
          /\ replies' = Tail(replies)
          /\ Goto("read_pid", "poll")
       \/ /\ replies = << >> /\ fs = "dead"
          /\ UNCHANGED replies
          /\ Exit("read_pid")
    /\ UNCHANGED <<limited, child_pid, child_timed_out, timer, timeout,
                   last_exit_reason, putVars, closed_count, fs, request,
                   elapsed, stale_kill>>

\* The epoll loop reads the status before the limit.
PollStatus ==
    /\ limited /\ replies # << >>
    /\ replies' = Tail(replies)
    /\ timeout' = FALSE
    /\ Goto("poll", "got_pid")
    /\ UNCHANGED <<limited, child_pid, child_timed_out, timer,
                   last_exit_reason, putVars, closed_count, fs, request,
                   elapsed, stale_kill>>

\* The epoll loop empties an output pipe.
PollOutput ==
    /\ pc = "poll" /\ limited /\ blocked # "no"
    /\ blocked' = "no"
    /\ UNCHANGED <<runVars, put, ended, closed, closed_count, fsVars, elapsed,
                   stale_kill>>

\* The reply pipe hangs up with nothing in it, or an output pipe does: ERROR.
PollHangup ==
    /\ limited /\ fs = "dead"
    /\ replies = << >> \/ (Record /\ put # "running")
    /\ Exit("poll")
    /\ UNCHANGED <<limited, child_pid, child_timed_out, timer, timeout,
                   last_exit_reason, putVars, closed_count, fsVars, elapsed,
                   stale_kill>>

\* left_ms runs out; with a limit of 0 the loop is not entered at all.
PollTimeout ==
    /\ Goto("poll", "got_pid")
    /\ elapsed' = TRUE
    /\ UNCHANGED <<limited, child_pid, child_timed_out, timer, timeout,
                   last_exit_reason, putVars, closed_count, fsVars,
                   stale_kill>>

\* Only now is the pid of the PUT stored in the member.
StorePid ==
    /\ Goto("got_pid", "check_pid")
    /\ child_pid' = Pid
    /\ UNCHANGED <<limited, child_timed_out, timer, timeout,
                   last_exit_reason, putVars, closed_count, fsVars, elapsed,
                   stale_kill>>

\* Mutant: a PUT that timed out is taken for a failed fork.
CheckPid_Timeout ==
    /\ IF child_pid <= 0 \/ timeout THEN Exit("check_pid") ELSE Goto("check_pid", "settle")
    /\ UNCHANGED <<limited, child_pid, child_timed_out, timer, timeout,
                   last_exit_reason, putVars, closed_count, fsVars, elapsed,
                   stale_kill>>

CheckPid ==
    /\ IF child_pid <= 0 THEN Exit("check_pid") ELSE Goto("check_pid", "settle")
    /\ UNCHANGED <<limited, child_pid, child_timed_out, timer, timeout,
                   last_exit_reason, putVars, closed_count, fsVars, elapsed,
                   stale_kill>>

\* Mutant: the flag is not set.
Settle_NoFlag ==
    /\ Goto("settle", IF timeout THEN "read_status" ELSE "classify")
    /\ IF timeout THEN KillChildWithoutWait("timekill")
                  ELSE UNCHANGED <<child_pid, stale_kill, putVars>>
    /\ UNCHANGED <<limited, child_timed_out, timer, timeout, last_exit_reason,
                   closed_count, fsVars, elapsed>>

\* Mutant: the status of a killed PUT is left in the pipe.
Settle_NoReread ==
    /\ Goto("settle", "classify")
    /\ IF timeout THEN KillChildWithoutWait("timekill") /\ child_timed_out' = TRUE
                  ELSE UNCHANGED <<child_pid, stale_kill, putVars, child_timed_out>>
    /\ UNCHANGED <<limited, timer, timeout, last_exit_reason, closed_count,
                   fsVars, elapsed>>

\* A PUT that timed out is killed and its status read from the server again.
Settle ==
    /\ Goto("settle", IF timeout THEN "read_status" ELSE "classify")
    /\ IF timeout THEN KillChildWithoutWait("timekill") /\ child_timed_out' = TRUE
                  ELSE UNCHANGED <<child_pid, stale_kill, putVars, child_timed_out>>
    /\ UNCHANGED <<limited, timer, timeout, last_exit_reason, closed_count,
                   fsVars, elapsed>>

\* The blocking read of the status, outside the try block: end of file throws.
ReadStatus ==
    /\ \/ /\ replies # << >>
          /\ replies' = Tail(replies)
          /\ Goto("read_status", "classify")
       \/ /\ replies = << >> /\ fs = "dead"
          /\ UNCHANGED replies
          /\ Exit("read_status")
    /\ UNCHANGED <<limited, child_pid, child_timed_out, timer, timeout,
                   last_exit_reason, putVars, closed_count, fs, request,
                   elapsed, stale_kill>>

-----------------------------------------------------------------------------
(* Run: the branch without a fork server.                                  *)

\* fork() returns in the parent; its result is not stored yet.
Fork ==
    /\ \/ Goto("fork", "forked") /\ put' = "running"
       \/ Goto("fork", "exited") /\ put' = put   \* fork() failed
    /\ UNCHANGED <<limited, child_pid, child_timed_out, timer, timeout,
                   last_exit_reason, ended, blocked, closed, closed_count,
                   fsVars, elapsed, stale_kill>>

StoreChildPid ==
    /\ Goto("forked", "check_fork")
    /\ child_pid' = Pid
    /\ UNCHANGED <<limited, child_timed_out, timer, timeout,
                   last_exit_reason, putVars, closed_count, fsVars, elapsed,
                   stale_kill>>

CheckFork ==
    /\ IF child_pid < 0 THEN Exit("check_fork") ELSE Goto("check_fork", "arm")
    /\ UNCHANGED <<limited, child_pid, child_timed_out, timer, timeout,
                   last_exit_reason, putVars, closed_count, fsVars, elapsed,
                   stale_kill>>

\* Mutant: the flag of the run before is kept.
Arm_KeepsFlag ==
    /\ Goto("arm", IF Record THEN "capture" ELSE "wait")
    /\ timer' = IF TimeLimit THEN TRUE ELSE timer
    /\ UNCHANGED <<limited, child_pid, child_timed_out, timeout,
                   last_exit_reason, putVars, closed_count, fsVars, elapsed,
                   stale_kill>>

\* Mutant: the timer is not set while the output is captured.
Arm_NoTimer ==
    /\ Goto("arm", IF Record THEN "capture" ELSE "wait")
    /\ child_timed_out' = FALSE
    /\ timer' = (TimeLimit /\ ~Record)
    /\ UNCHANGED <<limited, child_pid, timeout, last_exit_reason, putVars,
                   closed_count, fsVars, elapsed, stale_kill>>

\* The timer is set only if exec_timelimit_ms is not 0, whatever timeout_ms is.
Arm ==
    /\ Goto("arm", IF Record THEN "capture" ELSE "wait")
    /\ child_timed_out' = FALSE
    /\ timer' = IF TimeLimit THEN TRUE ELSE timer
    /\ UNCHANGED <<limited, child_pid, timeout, last_exit_reason, putVars,
                   closed_count, fsVars, elapsed, stale_kill>>

\* The capture loop empties an output pipe.
CaptureOutput ==
    /\ pc = "capture" /\ limited /\ blocked # "no"
    /\ blocked' = "no"
    /\ UNCHANGED <<runVars, put, ended, closed, closed_count, fsVars, elapsed,
                   stale_kill>>

\* Mutant: one hang-up too many is waited for.
Hangups_Three == 3

\* The number of hang-up events that end the capture loop.
Hangups == 2

\* A hang-up event.  epoll is level-triggered: a closed stream reports it every
\* time, and closed_count does not tell the streams apart.
CaptureHangup ==
    /\ pc = "capture" /\ limited /\ closed # {}
    /\ closed_count' = closed_count + 1
    /\ pc' = IF closed_count' = Hangups THEN "wait" ELSE "capture"
    /\ UNCHANGED <<limited, child_pid, child_timed_out, timer, timeout,
                   last_exit_reason, putVars, fsVars, elapsed, stale_kill>>

\* left_ms runs out; with a limit of 0 the loop is not entered at all.
CaptureTimeout ==
    /\ Goto("capture", "wait")
    /\ UNCHANGED <<limited, child_pid, child_timed_out, timer, timeout,
                   last_exit_reason, putVars, closed_count, fsVars, elapsed,
                   stale_kill>>

\* Mutant: waitpid is called until it finds no child any more.
Wait_UntilNoChild ==
    /\ \/ pc = "wait" /\ put = "zombie" /\ put' = "reaped" /\ UNCHANGED pc
       \/ put = "reaped" /\ Goto("wait", "disarm") /\ UNCHANGED put
    /\ UNCHANGED <<limited, child_pid, child_timed_out, timer, timeout,
                   last_exit_reason, ended, blocked, closed, closed_count,
                   fsVars, elapsed, stale_kill>>

\* waitpid(child_pid): the PUT is the only child, also when child_pid is -1.
Wait ==
    /\ put = "zombie"
    /\ Goto("wait", "disarm")
    /\ put' = "reaped"
    /\ UNCHANGED <<limited, child_pid, child_timed_out, timer, timeout,
                   last_exit_reason, ended, blocked, closed, closed_count,
                   fsVars, elapsed, stale_kill>>

\* The rest of the output is read, then the timer is reset.
Disarm ==
    /\ Goto("disarm", "classify")
    /\ timer' = IF TimeLimit THEN FALSE ELSE timer
    /\ UNCHANGED <<limited, child_pid, child_timed_out, timeout,
                   last_exit_reason, putVars, closed_count, fsVars, elapsed,
                   stale_kill>>

-----------------------------------------------------------------------------
(* Run: the common tail.                                                   *)

ExitReason ==
    CASE ended = "signal" -> "CRASH"
      [] ended \in Abstract!SigKills -> IF child_timed_out THEN "TMOUT" ELSE "CRASH"
      [] ended = "execfail" -> "ERROR"
      [] OTHER -> "NONE"

\* The status says the PUT has ended, so child_pid is cleared.
Classify ==
    /\ Goto("classify", "idle")
    /\ child_pid' = 0
    /\ last_exit_reason' = ExitReason
    /\ UNCHANGED <<limited, child_timed_out, timer, timeout, putVars,
                   closed_count, fsVars, elapsed, stale_kill>>

\* The fuzzer process is gone.
Exited == pc = "exited" /\ UNCHANGED vars

Init ==
    /\ pc = "idle" /\ limited = TimeLimit
    /\ child_pid = 0 /\ child_timed_out = FALSE /\ timer = FALSE
    /\ timeout = TRUE /\ last_exit_reason = "NONE"
    /\ put = "none" /\ ended = "no" /\ blocked = "no" /\ closed = {}
    /\ closed_count = 0
    /\ fs = "ready" /\ request = FALSE /\ replies = << >>
    /\ elapsed = FALSE /\ stale_kill = FALSE

ForkServerRun ==
    Request \/ ReadPid \/ PollStatus \/ PollOutput \/ PollHangup \/ PollTimeout
    \/ StorePid \/ CheckPid \/ Settle \/ ReadStatus

PlainRun ==
    Fork \/ StoreChildPid \/ CheckFork \/ Arm \/ CaptureOutput
    \/ CaptureHangup \/ CaptureTimeout \/ Wait \/ Disarm

Put == PutEnds \/ ExecFails \/ PutFillsPipe \/ PutClosesStream

Server == FsFork \/ FsReap

Next ==
    \/ \E timeout_given \in BOOLEAN : RunBegin(timeout_given)
    \/ ForkServerRun \/ PlainRun \/ Classify \/ Exited
    \/ Put \/ Server \/ FsDies
    \/ AlarmHandler \/ ReceiveStopSignal
-----------------------------------------------------------------------------
(***************************************************************************)
(* Fairness.  Run is sequential code that never stops by itself; the       *)
(* kernel's clock fires a set timer and returns from epoll_wait once its   *)
(* time is up; the fork server answers.  Nothing is assumed of the PUT,    *)
(* nor that a stop request ever comes.                                     *)
(***************************************************************************)
Fairness ==
    /\ WF_vars(ForkServerRun \/ PlainRun \/ Classify)
    /\ WF_vars(PollTimeout) /\ WF_vars(CaptureTimeout) /\ WF_vars(AlarmHandler)
    /\ WF_vars(FsFork) /\ WF_vars(FsReap)

Spec == Init /\ [][Next]_vars /\ Fairness

-----------------------------------------------------------------------------
(* Properties.                                                             *)

Places ==
    {"idle", "exited", "classify",
     "request", "read_pid", "poll", "got_pid", "check_pid", "settle",
     "read_status",
     "fork", "forked", "check_fork", "arm", "capture", "wait", "disarm"}

FlagsOK ==
    /\ limited \in BOOLEAN
    /\ child_timed_out \in BOOLEAN
    /\ timer \in BOOLEAN
    /\ timeout \in BOOLEAN
    /\ request \in BOOLEAN
    /\ elapsed \in BOOLEAN
    /\ stale_kill \in BOOLEAN

ValuesOK ==
    /\ pc \in Places
    /\ child_pid \in {-1, 0, Pid}
    /\ last_exit_reason \in {"NONE", "TMOUT", "CRASH", "ERROR"}
    /\ put \in {"none", "running", "zombie", "reaped"}
    /\ ended \in {"no"} \cup Abstract!Endings
    /\ blocked \in {"no"} \cup Streams
    /\ closed \in SUBSET Streams
    /\ closed_count \in 0..2
    /\ fs \in {"ready", "serving", "dead"}
    /\ replies \in Seq({"pid", "status"})

\* Every variable keeps its type; the capture loop of Run counts at most two
\* hang-ups.
TypeOK == FlagsOK /\ ValuesOK

\* When Run has returned, nothing of the run is left behind to disturb the next
\* one: the PUT has been reaped (by waitpid or by the fork server), child_pid
\* is cleared, no timer can fire and no byte waits in the fork server's pipes.
NothingLeftBehind ==
    pc = "idle" =>
        /\ put \in {"none", "reaped"}
        /\ child_pid = 0
        /\ ~timer
        /\ ~request /\ replies = << >>

\* The reason Run reports fits the way the PUT ended: a PUT killed for its time
\* limit is a timeout and never a crash, one that exited before the kill
\* arrived is neither, and a failed execv is an error.
ReasonFitsEnding ==
    (pc = "idle" /\ put = "reaped") =>
        last_exit_reason \in Abstract!Truthful(ended, TRUE)

\* Once Run has stored the pid, whoever must end the PUT can: as long as the
\* PUT runs, child_pid names it, for AlarmHandler, for ReceiveStopSignal and
\* for the timeout of the fork server branch.
KillReachesPut ==
    (pc \in {"check_fork", "arm", "capture", "wait", "check_pid", "settle"}
        /\ put = "running") => child_pid = Pid

\* A stop request between the store of the pid and its check looks like a failed
\* fork, and Run ends the process with ERROR: the PUT does not outlive it then.  Only
\* a fork server that has died can leave one behind.
ExitLeavesNoPut ==
    pc = "exited" => put # "running" \/ fs = "dead"

\* FAULT_TMOUT is "execution time limit exceeded": a run is reported so only if
\* its own limit did pass.
TimeoutIsOfThisRun ==
    (pc = "idle" /\ put = "reaped" /\ last_exit_reason = "TMOUT") => elapsed

\* KillChildWithoutWait "checks if the child process is active", but by child_pid:
\* a kill of a pid already reaped, which may be another process by then, comes only
\* between waitpid and the reset of child_pid, never before or after.
StaleKillWindow ==
    [][stale_kill' # stale_kill => pc \in {"disarm", "classify"}]_vars

\* Without a fork server, Run does what an executor promises.
RefinesPutRun == Abstract!Spec

\* Run's postcondition (3): with a time limit, given by the caller or by
\* exec_timelimit_ms, Run comes to an end whatever the PUT does.
LimitedRunReturns ==
    (pc # "idle" /\ limited) ~> (pc \in {"idle", "exited"})

=============================================================================
