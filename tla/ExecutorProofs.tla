--------------------------- MODULE ExecutorProofs ---------------------------
(***************************************************************************)
(* Proofs about Executor, for every combination of its modes, and about    *)
(* Executors, for every set of orderly plans.                              *)
(*                                                                         *)
(* One Run: none of the three invariants is inductive by itself: that      *)
(* nothing is left behind when Run returns depends on where the PUT, the   *)
(* fork server and its pipes are at every place of Run.  Inv says where    *)
(* they are.                                                               *)
(*                                                                         *)
(* All executors of a process: a run is right because the environment, the *)
(* active instance and the handler belong to the executor that was made    *)
(* last, and because whatever the plan runs is either that one or has a    *)
(* fork server, which keeps the environment of its own construction.  That *)
(* nothing is erased twice and nothing stays follows from who owns each    *)
(* segment.                                                                *)
(***************************************************************************)
EXTENDS Executor, Executors, FiniteSetTheorems, SequenceTheorems, TLAPS

ServerPlaces == {"request", "read_pid", "poll", "got_pid", "check_pid",
                 "settle", "read_status"}
PlainPlaces  == {"fork", "forked", "check_fork", "arm", "capture", "wait",
                 "disarm"}

\* Each branch of Run is only taken in its mode, and the timer belongs to one.
ModeInv ==
    /\ pc \in ServerPlaces => ForkSrv
    /\ pc \in PlainPlaces => ~ForkSrv
    /\ ~ForkSrv => fs = "ready" /\ ~request /\ replies = << >>
    /\ timer => TimeLimit /\ pc \in {"capture", "wait", "disarm"}
    /\ pc \in {"fork", "forked", "check_fork", "arm"} => closed_count = 0
    /\ pc = "capture" => closed_count < Hangups

\* child_pid is set from the store on; once a kill has cleared it, the PUT no
\* longer runs.
PidInv ==
    /\ pc \in {"idle", "request", "read_pid", "poll", "got_pid", "fork",
               "forked"} => child_pid = 0
    /\ pc \in {"check_pid", "settle", "check_fork", "arm", "capture", "wait"}
           => child_pid # 0 /\ (child_pid = -1 => put # "running")

\* How the PUT ended is known exactly when it has ended; a kill for the time
\* limit has set the flag, and the flag stands until the run is classified.
EndInv ==
    /\ put \in {"none", "running"} <=> ended = "no"
    /\ ended = "timekill" =>
           /\ child_timed_out
           /\ pc \in {"capture", "wait", "disarm", "read_status", "classify",
                      "idle", "exited"}
    /\ (pc \in {"capture", "wait", "disarm", "classify"} /\ ~ForkSrv
           /\ child_timed_out) => elapsed

\* The fork server has the PUT, or has reaped it and reported its status.
Serving ==
    \/ put \in {"running", "zombie"} /\ fs \in {"serving", "dead"} /\ replies = << >>
    \/ put = "reaped" /\ fs \in {"ready", "dead"} /\ replies = <<"status">>

\* As Serving, with the message that holds the pid still in the pipe.
Started ==
    \/ put \in {"running", "zombie"} /\ fs \in {"serving", "dead"} /\ replies = <<"pid">>
    \/ put = "reaped" /\ fs \in {"ready", "dead"} /\ replies = <<"pid", "status">>

Answered(state) ==
    ~request /\ put \in state /\ fs \in {"ready", "dead"} /\ replies = << >>

\* The protocol with the fork server, place by place.
ServerInv ==
    ForkSrv =>
        /\ pc = "idle" => Answered({"none", "reaped"})
        /\ pc = "request" => Answered({"none"}) /\ timeout
        /\ pc = "read_pid" =>
               /\ timeout
               /\ \/ request /\ put = "none" /\ fs \in {"ready", "dead"} /\ replies = << >>
                  \/ ~request /\ Started
        /\ pc = "poll" => timeout /\ ~request /\ Serving
        /\ pc \in {"got_pid", "check_pid", "settle"} =>
               IF timeout THEN ~request /\ Serving ELSE Answered({"reaped"})
        /\ pc = "read_status" =>
               ~request /\ Serving /\ put # "running" /\ child_timed_out
        /\ pc = "classify" => Answered({"reaped"})

\* Without a fork server, Run itself starts and reaps the PUT.
PlainInv ==
    ~ForkSrv =>
        /\ pc = "idle" => put \in {"none", "reaped"}
        /\ pc = "fork" => put = "none"
        /\ pc \in {"forked", "check_fork", "arm", "capture", "wait"} =>
               put \in {"running", "zombie"}
        /\ pc \in {"disarm", "classify"} => put = "reaped"

Inv ==
    /\ TypeOK /\ ModeInv /\ PidInv /\ EndInv /\ ServerInv /\ PlainInv
    /\ ReasonFitsEnding

-----------------------------------------------------------------------------
(* Facts about the messages in the reply pipe.                             *)

\* Appending the status behind the pid.
LEMMA AppendStatus == Append(<<"pid">>, "status") = <<"pid", "status">>
  <1> DEFINE s == Append(<<"pid">>, "status")
             t == <<"pid", "status">>
             S == {"pid", "status"}
  <1>1. s \in Seq(S) /\ t \in Seq(S)
    OBVIOUS
  <1>2. Len(s) = 2 /\ Len(t) = 2
    OBVIOUS
  <1>3. s[1] = t[1] /\ s[2] = t[2]
    OBVIOUS
  <1> HIDE DEF s, t, S
  <1>4. \A i \in 1..Len(s) : s[i] = t[i]
    BY <1>2, <1>3
  <1>5. s = t
    BY <1>1, <1>2, <1>4, SeqEqual
  <1> QED
    BY <1>5 DEF s, t

\* What the fork server and Run do to the reply pipe, on the values it takes.
LEMMA ReplyFacts ==
    /\ Append(<< >>, "pid") = <<"pid">>
    /\ Append(<< >>, "status") = <<"status">>
    /\ Append(<<"pid">>, "status") = <<"pid", "status">>
    /\ Tail(<<"pid">>) = << >>
    /\ Tail(<<"status">>) = << >>
    /\ Tail(<<"pid", "status">>) = <<"status">>
    /\ <<"pid">> # << >> /\ <<"status">> # << >> /\ <<"pid", "status">> # << >>
  BY AppendStatus

\* Appending to and taking from the reply pipe keep its type.
LEMMA ReplyType ==
    ASSUME replies \in Seq({"pid", "status"})
    PROVE  /\ Append(replies, "pid") \in Seq({"pid", "status"})
           /\ Append(replies, "status") \in Seq({"pid", "status"})
           /\ replies # << >> => Tail(replies) \in Seq({"pid", "status"})
  OBVIOUS

\* Every execution starts in a state that satisfies Inv.
LEMMA InitInv == Init => Inv
  <1> SUFFICES ASSUME Init PROVE Inv
    OBVIOUS
  <1> USE ModeAssumption DEF Init
  <1>1. FlagsOK
    BY DEF FlagsOK
  <1>4. ValuesOK
    BY DEF ValuesOK, Places, Pid
  <1>2. ModeInv /\ PidInv /\ EndInv
    BY DEF ModeInv, PidInv, EndInv, ServerPlaces, PlainPlaces
  <1>3. ServerInv /\ PlainInv /\ ReasonFitsEnding
    BY DEF ServerInv, PlainInv, ReasonFitsEnding, Answered
  <1> QED
    BY <1>1, <1>2, <1>3, <1>4 DEF Inv, TypeOK

\* Every step of Run, of the PUT, of the fork server and of the two signal
\* handlers keeps Inv.
LEMMA NextInv == Inv /\ [Next]_vars => Inv'
  <1> SUFFICES ASSUME Inv, [Next]_vars PROVE Inv'
    OBVIOUS
  <1> USE ModeAssumption, ReplyFacts, ReplyType
      DEF Inv, TypeOK, FlagsOK, ValuesOK, ModeInv, PidInv, EndInv, ServerInv, PlainInv, Answered,
          Serving, Started, ReasonFitsEnding, Places, ServerPlaces, PlainPlaces,
          Pid, Streams, Hangups, Abstract!Endings, Abstract!SigKills,
          Abstract!Truthful, Goto, Exit, runVars, putVars, fsVars
  <1>1. ASSUME NEW timeout_given \in BOOLEAN, RunBegin(timeout_given) PROVE Inv'
    <2> USE <1>1 DEF RunBegin
    <2>1. FlagsOK'
      OBVIOUS
    <2>2. ValuesOK'
      OBVIOUS
    <2>3. ModeInv'
      OBVIOUS
    <2>4. PidInv'
      OBVIOUS
    <2>5. EndInv'
      OBVIOUS
    <2>6. ServerInv'
      OBVIOUS
    <2>7. PlainInv'
      OBVIOUS
    <2>8. ReasonFitsEnding'
      OBVIOUS
    <2> QED
      BY <2>1, <2>2, <2>3, <2>4, <2>5, <2>6, <2>7, <2>8
  <1>2. CASE PutEnds
    BY <1>2 DEF PutEnds, PutDies
  <1>3. CASE ExecFails
    BY <1>3 DEF ExecFails, PutDies
  <1>4. CASE PutFillsPipe
    BY <1>4 DEF PutFillsPipe
  <1>5. CASE PutClosesStream
    BY <1>5 DEF PutClosesStream
  <1>6. CASE AlarmHandler
    <2> USE <1>6 DEF AlarmHandler, KillChildWithoutWait, PutDies
    <2>1. FlagsOK'
      OBVIOUS
    <2>2. ValuesOK'
      OBVIOUS
    <2>3. ModeInv'
      OBVIOUS
    <2>4. PidInv'
      OBVIOUS
    <2>5. EndInv'
      OBVIOUS
    <2>6. ServerInv'
      OBVIOUS
    <2>7. PlainInv'
      OBVIOUS
    <2>8. ReasonFitsEnding'
      OBVIOUS
    <2> QED
      BY <2>1, <2>2, <2>3, <2>4, <2>5, <2>6, <2>7, <2>8
  <1>7. CASE ReceiveStopSignal
    <2> USE <1>7 DEF ReceiveStopSignal, KillChildWithoutWait, PutDies
    <2>1. FlagsOK'
      OBVIOUS
    <2>2. ValuesOK'
      OBVIOUS
    <2>3. ModeInv'
      OBVIOUS
    <2>4. PidInv'
      OBVIOUS
    <2>5. EndInv'
      OBVIOUS
    <2>6. ServerInv'
      OBVIOUS
    <2>7. PlainInv'
      OBVIOUS
    <2>8. ReasonFitsEnding'
      OBVIOUS
    <2> QED
      BY <2>1, <2>2, <2>3, <2>4, <2>5, <2>6, <2>7, <2>8
  <1>8. CASE FsFork
    <2> USE <1>8 DEF FsFork
    <2>1. FlagsOK'
      OBVIOUS
    <2>2. ValuesOK'
      OBVIOUS
    <2>3. ModeInv'
      OBVIOUS
    <2>4. PidInv'
      OBVIOUS
    <2>5. EndInv'
      OBVIOUS
    <2>6. ServerInv'
      OBVIOUS
    <2>7. PlainInv'
      OBVIOUS
    <2>8. ReasonFitsEnding'
      OBVIOUS
    <2> QED
      BY <2>1, <2>2, <2>3, <2>4, <2>5, <2>6, <2>7, <2>8
  <1>9. CASE FsReap
    <2> USE <1>9 DEF FsReap
    <2>1. FlagsOK'
      OBVIOUS
    <2>2. ValuesOK'
      OBVIOUS
    <2>3. ModeInv'
      OBVIOUS
    <2>4. PidInv'
      OBVIOUS
    <2>5. EndInv'
      OBVIOUS
    <2>6. ServerInv'
      OBVIOUS
    <2>7. PlainInv'
      OBVIOUS
    <2>8. ReasonFitsEnding'
      OBVIOUS
    <2> QED
      BY <2>1, <2>2, <2>3, <2>4, <2>5, <2>6, <2>7, <2>8
  <1>10. CASE FsDies
    BY <1>10 DEF FsDies
  <1>11. CASE Request
    <2> USE <1>11 DEF Request
    <2>1. FlagsOK'
      OBVIOUS
    <2>2. ValuesOK'
      OBVIOUS
    <2>3. ModeInv'
      OBVIOUS
    <2>4. PidInv'
      OBVIOUS
    <2>5. EndInv'
      OBVIOUS
    <2>6. ServerInv'
      OBVIOUS
    <2>7. PlainInv'
      OBVIOUS
    <2>8. ReasonFitsEnding'
      OBVIOUS
    <2> QED
      BY <2>1, <2>2, <2>3, <2>4, <2>5, <2>6, <2>7, <2>8
  <1>12. CASE ReadPid
    <2> USE <1>12 DEF ReadPid
    <2>1. FlagsOK'
      OBVIOUS
    <2>2. ValuesOK'
      OBVIOUS
    <2>3. ModeInv'
      OBVIOUS
    <2>4. PidInv'
      OBVIOUS
    <2>5. EndInv'
      OBVIOUS
    <2>6. ServerInv'
      OBVIOUS
    <2>7. PlainInv'
      OBVIOUS
    <2>8. ReasonFitsEnding'
      OBVIOUS
    <2> QED
      BY <2>1, <2>2, <2>3, <2>4, <2>5, <2>6, <2>7, <2>8
  <1>13. CASE PollStatus
    <2> USE <1>13 DEF PollStatus
    <2>1. FlagsOK'
      OBVIOUS
    <2>2. ValuesOK'
      OBVIOUS
    <2>3. ModeInv'
      OBVIOUS
    <2>4. PidInv'
      OBVIOUS
    <2>5. EndInv'
      OBVIOUS
    <2>6. ServerInv'
      OBVIOUS
    <2>7. PlainInv'
      OBVIOUS
    <2>8. ReasonFitsEnding'
      OBVIOUS
    <2> QED
      BY <2>1, <2>2, <2>3, <2>4, <2>5, <2>6, <2>7, <2>8
  <1>14. CASE PollOutput
    BY <1>14 DEF PollOutput
  <1>15. CASE PollHangup
    BY <1>15 DEF PollHangup
  <1>16. CASE PollTimeout
    BY <1>16 DEF PollTimeout
  <1>17. CASE StorePid
    BY <1>17 DEF StorePid
  <1>18. CASE CheckPid
    BY <1>18 DEF CheckPid
  <1>19. CASE Settle
    <2> USE <1>19 DEF Settle, KillChildWithoutWait, PutDies
    <2>1. FlagsOK'
      OBVIOUS
    <2>2. ValuesOK'
      OBVIOUS
    <2>3. ModeInv'
      OBVIOUS
    <2>4. PidInv'
      OBVIOUS
    <2>5. EndInv'
      OBVIOUS
    <2>6. ServerInv'
      OBVIOUS
    <2>7. PlainInv'
      OBVIOUS
    <2>8. ReasonFitsEnding'
      OBVIOUS
    <2> QED
      BY <2>1, <2>2, <2>3, <2>4, <2>5, <2>6, <2>7, <2>8
  <1>20. CASE ReadStatus
    <2> USE <1>20 DEF ReadStatus
    <2>1. FlagsOK'
      OBVIOUS
    <2>2. ValuesOK'
      OBVIOUS
    <2>3. ModeInv'
      OBVIOUS
    <2>4. PidInv'
      OBVIOUS
    <2>5. EndInv'
      OBVIOUS
    <2>6. ServerInv'
      OBVIOUS
    <2>7. PlainInv'
      OBVIOUS
    <2>8. ReasonFitsEnding'
      OBVIOUS
    <2> QED
      BY <2>1, <2>2, <2>3, <2>4, <2>5, <2>6, <2>7, <2>8
  <1>21. CASE Fork
    BY <1>21 DEF Fork
  <1>22. CASE StoreChildPid
    BY <1>22 DEF StoreChildPid
  <1>23. CASE CheckFork
    BY <1>23 DEF CheckFork
  <1>24. CASE Arm
    <2> USE <1>24 DEF Arm
    <2>1. FlagsOK'
      OBVIOUS
    <2>2. ValuesOK'
      OBVIOUS
    <2>3. ModeInv'
      OBVIOUS
    <2>4. PidInv'
      OBVIOUS
    <2>5. EndInv'
      OBVIOUS
    <2>6. ServerInv'
      OBVIOUS
    <2>7. PlainInv'
      OBVIOUS
    <2>8. ReasonFitsEnding'
      OBVIOUS
    <2> QED
      BY <2>1, <2>2, <2>3, <2>4, <2>5, <2>6, <2>7, <2>8
  <1>25. CASE CaptureOutput
    BY <1>25 DEF CaptureOutput
  <1>26. CASE CaptureHangup
    BY <1>26 DEF CaptureHangup
  <1>27. CASE CaptureTimeout
    BY <1>27 DEF CaptureTimeout
  <1>28. CASE Wait
    BY <1>28 DEF Wait
  <1>29. CASE Disarm
    <2> USE <1>29 DEF Disarm
    <2>1. FlagsOK'
      OBVIOUS
    <2>2. ValuesOK'
      OBVIOUS
    <2>3. ModeInv'
      OBVIOUS
    <2>4. PidInv'
      OBVIOUS
    <2>5. EndInv'
      OBVIOUS
    <2>6. ServerInv'
      OBVIOUS
    <2>7. PlainInv'
      OBVIOUS
    <2>8. ReasonFitsEnding'
      OBVIOUS
    <2> QED
      BY <2>1, <2>2, <2>3, <2>4, <2>5, <2>6, <2>7, <2>8
  <1>30. CASE Classify
    BY <1>30 DEF Classify, ExitReason
  <1>31. CASE UNCHANGED vars
    BY <1>31 DEF vars
  <1> QED
    BY <1>1, <1>2, <1>3, <1>4, <1>5, <1>6, <1>7, <1>8, <1>9, <1>10, <1>11, <1>12,
       <1>13, <1>14, <1>15, <1>16, <1>17, <1>18, <1>19, <1>20, <1>21, <1>22, <1>23, <1>24,
       <1>25, <1>26, <1>27, <1>28, <1>29, <1>30, <1>31
    DEF Next, ForkServerRun, PlainRun, Put, Server, Exited

-----------------------------------------------------------------------------
(* The theorems.                                                           *)

\* Inv holds in every reachable state, in every mode.
LEMMA AlwaysInv == Spec => []Inv
  BY InitInv, NextInv, PTL DEF Spec

\* Every variable keeps its type.
THEOREM TypeCorrect == Spec => []TypeOK
  <1>1. Inv => TypeOK
    BY DEF Inv
  <1> QED
    BY <1>1, AlwaysInv, PTL

\* When Run has returned, no process, pid, timer or pipe byte of the run is left,
\* in both modes and whatever the signal handlers did on the way.
THEOREM LeavesNothingBehind == Spec => []NothingLeftBehind
  <1>1. Inv => NothingLeftBehind
    BY ModeAssumption
    DEF Inv, TypeOK, FlagsOK, ModeInv, PidInv, ServerInv, PlainInv, Answered,
        NothingLeftBehind
  <1> QED
    BY <1>1, AlwaysInv, PTL

\* The reported reason fits the way the PUT ended.
THEOREM ReportsEnding == Spec => []ReasonFitsEnding
  <1>1. Inv => ReasonFitsEnding
    BY DEF Inv
  <1> QED
    BY <1>1, AlwaysInv, PTL

\* A PUT that runs past the store of its pid can be killed through child_pid.
THEOREM KillsReachPut == Spec => []KillReachesPut
  <1>1. Inv => KillReachesPut
    BY DEF Inv, TypeOK, ValuesOK, PidInv, KillReachesPut, Pid
  <1> QED
    BY <1>1, AlwaysInv, PTL

-----------------------------------------------------------------------------
(* Refinement.  Without a fork server, every step of Executor is a step of *)
(* PutRun or leaves the variables of PutRun unchanged.                     *)

\* When Run has ended the process, a server that lives has nothing to start either.
Orphanless ==
    pc = "exited" => (put # "running" /\ ~request) \/ fs = "dead"

\* However Run ends the process, no PUT runs on but one whose fork server has died.
THEOREM ExitsLeaveNoPut == Spec => []ExitLeavesNoPut
  <1>1. Init => Orphanless
    BY DEF Init, Orphanless
  <1>2. ASSUME Inv, Orphanless, [Next]_vars
        PROVE  Orphanless'
    <2> USE <1>2 DEF Orphanless, Goto, Exit, runVars, putVars, fsVars
    <2>1. ASSUME NEW timeout_given \in BOOLEAN, RunBegin(timeout_given)
          PROVE  Orphanless'
      BY <2>1 DEF RunBegin
    <2>2. CASE PutEnds \/ ExecFails \/ PutFillsPipe \/ PutClosesStream
      BY <2>2 DEF PutEnds, ExecFails, PutFillsPipe, PutClosesStream, PutDies
    <2>3. CASE AlarmHandler \/ ReceiveStopSignal
      BY <2>3 DEF AlarmHandler, ReceiveStopSignal, KillChildWithoutWait, PutDies
    <2>4. CASE Fork \/ StoreChildPid \/ Arm \/ Wait \/ Disarm \/ Classify
      BY <2>4 DEF Fork, StoreChildPid, Arm, Wait, Disarm, Classify, Inv, ModeInv,
                PlainPlaces, PlainInv
    <2>5. CASE CaptureOutput \/ CaptureHangup \/ CaptureTimeout
      BY <2>5 DEF CaptureOutput, CaptureHangup, CaptureTimeout
    <2>6. CASE CheckFork \/ CheckPid
      BY <2>6 DEF CheckFork, CheckPid, Inv, TypeOK, ValuesOK, PidInv, Pid, ModeInv, PlainPlaces,
                ServerPlaces, ServerInv, Answered
    <2>7. CASE Request
      BY <2>7 DEF Request
    <2>8. CASE ReadPid \/ PollHangup \/ ReadStatus
      BY <2>8 DEF ReadPid, PollHangup, ReadStatus
    <2>9. CASE PollStatus \/ PollOutput \/ PollTimeout \/ StorePid
      BY <2>9 DEF PollStatus, PollOutput, PollTimeout, StorePid
    <2>10. CASE Settle
      BY <2>10 DEF Settle, KillChildWithoutWait, PutDies
    <2>11. CASE Server \/ FsDies
      BY <2>11 DEF Server, FsFork, FsReap, FsDies
    <2>12. CASE UNCHANGED vars
      BY <2>12 DEF vars
    <2> QED
      BY <2>1, <2>2, <2>3, <2>4, <2>5, <2>6, <2>7, <2>8, <2>9, <2>10, <2>11, <2>12
      DEF Next, PlainRun, ForkServerRun, Put, Exited
  <1>3. Orphanless => ExitLeavesNoPut
    BY DEF Orphanless, ExitLeavesNoPut
  <1> QED
    BY <1>1, <1>2, <1>3, AlwaysInv, PTL DEF Spec

\* Before the first Run the executor is idle, as PutRun starts.
LEMMA InitRefines == Init => Abstract!Init
  BY DEF Init, Abstract!Init

\* Without a fork server every step of Run, of the PUT and of the signal handlers
\* is a step of PutRun or changes nothing that PutRun sees.
LEMMA NextRefines ==
    ASSUME ~ForkSrv
    PROVE  Inv /\ [Next]_vars => [Abstract!Next]_(Abstract!vars)
  <1> SUFFICES ASSUME Inv, [Next]_vars
               PROVE  Abstract!Next \/ UNCHANGED Abstract!vars
    OBVIOUS
  <1> USE DEF Abstract!vars, Goto, Exit, runVars, putVars, fsVars
  <1>1. ASSUME NEW timeout_given \in BOOLEAN, RunBegin(timeout_given)
        PROVE  Abstract!Start
    BY <1>1 DEF RunBegin, Abstract!Start
  <1>2. CASE PutEnds
    <2>1. pc # "idle" /\ ended = "no"
      BY <1>2 DEF PutEnds, Inv, EndInv, PlainInv
    <2>2. Abstract!PutEnds
      BY <1>2, <2>1 DEF PutEnds, PutDies, Abstract!PutEnds, Abstract!Endings
    <2> QED
      BY <2>2 DEF Abstract!Next
  <1>3. CASE ExecFails
    <2>1. pc # "idle" /\ ended = "no"
      BY <1>3 DEF ExecFails, Inv, EndInv, PlainInv
    <2>2. Abstract!PutEnds
      BY <1>3, <2>1 DEF ExecFails, PutDies, Abstract!PutEnds, Abstract!Endings
    <2> QED
      BY <2>2 DEF Abstract!Next
  <1>4. CASE AlarmHandler
    <2>1. pc # "idle" /\ (put = "running" => ended = "no")
      BY <1>4 DEF AlarmHandler, Inv, EndInv, ModeInv
    <2>2. Abstract!LimitPasses
      BY <1>4, <2>1
      DEF AlarmHandler, KillChildWithoutWait, PutDies, Abstract!LimitPasses
    <2> QED
      BY <2>2 DEF Abstract!Next
  <1>5. CASE ReceiveStopSignal
    <2>1. child_pid > 0 => pc # "idle"
      BY DEF Inv, PidInv
    <2>2. put = "running" => ended = "no"
      BY DEF Inv, EndInv
    <2>3. Abstract!PutEnds \/ UNCHANGED Abstract!vars
      BY <1>5, <2>1, <2>2
      DEF ReceiveStopSignal, KillChildWithoutWait, PutDies, Abstract!PutEnds,
          Abstract!Endings
    <2> QED
      BY <2>3 DEF Abstract!Next
  <1>6. CASE Classify
    <2>1. /\ ended \in Abstract!Endings
          /\ ended = "timekill" => child_timed_out
          /\ child_timed_out => elapsed
      BY <1>6 DEF Classify, Inv, TypeOK, ValuesOK, EndInv, PlainInv
    <2>2. ExitReason \in Abstract!Truthful(ended, elapsed)
      BY <2>1
      DEF ExitReason, Abstract!Truthful, Abstract!SigKills, Abstract!Endings
    <2>3. Abstract!Return
      BY <1>6, <2>1, <2>2 DEF Classify, Abstract!Return, Abstract!Endings
    <2> QED
      BY <2>3 DEF Abstract!Next
  <1>7. CASE PutFillsPipe \/ PutClosesStream
    BY <1>7 DEF PutFillsPipe, PutClosesStream
  <1>8. CASE Fork \/ StoreChildPid \/ CheckFork \/ Arm
    BY <1>8 DEF Fork, StoreChildPid, CheckFork, Arm
  <1>9. CASE CaptureOutput \/ CaptureHangup \/ CaptureTimeout \/ Wait \/ Disarm
    BY <1>9 DEF CaptureOutput, CaptureHangup, CaptureTimeout, Wait, Disarm
  <1>10. ~ForkServerRun /\ ~Server /\ ~FsDies
    BY DEF ForkServerRun, Request, ReadPid, PollStatus, PollOutput, PollHangup,
           PollTimeout, StorePid, CheckPid, Settle, ReadStatus, Server, FsFork,
           FsReap, FsDies, Inv, ModeInv, ServerPlaces
  <1>11. CASE UNCHANGED vars
    BY <1>11 DEF vars
  <1> QED
    BY <1>1, <1>2, <1>3, <1>4, <1>5, <1>6, <1>7, <1>8, <1>9, <1>10, <1>11
    DEF Next, PlainRun, Put, Exited, Abstract!Next

\* Without a fork server, Run is what PutRun says: it returns only after the PUT
\* has ended, with a reason that is truthful for the end of that PUT and for
\* whether its own time limit has passed.
THEOREM PlainRunRefines ==
    ASSUME ~ForkSrv
    PROVE  Spec => RefinesPutRun
  <1>1. Inv /\ [Next]_vars => [Abstract!Next]_(Abstract!vars)
    BY NextRefines
  <1> QED
    BY <1>1, InitRefines, AlwaysInv, PTL DEF Spec, RefinesPutRun, Abstract!Spec

\* Without a fork server, a signal handler or Run itself can only kill a reaped pid
\* between waitpid and the reset of child_pid.
THEOREM StaleKillsConfined ==
    ASSUME ~ForkSrv
    PROVE  Spec => StaleKillWindow
  <1>1. ASSUME Inv, [Next]_vars, stale_kill' # stale_kill
        PROVE  pc \in {"disarm", "classify"}
    <2> USE DEF Goto, Exit, runVars, putVars, fsVars
    <2>1. CASE AlarmHandler \/ ReceiveStopSignal
      <3>1. child_pid > 0 /\ put = "reaped"
        BY <1>1, <2>1 DEF AlarmHandler, ReceiveStopSignal, KillChildWithoutWait, Inv, TypeOK, FlagsOK
      <3> QED
        BY <1>1, <2>1, <3>1
        DEF AlarmHandler, ReceiveStopSignal, Inv, TypeOK, ValuesOK, Places, ModeInv, PidInv, PlainInv,
            ServerPlaces
    <2>2. CASE PutEnds \/ ExecFails \/ PutFillsPipe \/ PutClosesStream
      BY <1>1, <2>2 DEF PutEnds, ExecFails, PutFillsPipe, PutClosesStream, PutDies
    <2>3. CASE Fork \/ StoreChildPid \/ CheckFork \/ Arm \/ Wait \/ Disarm \/ Classify
      BY <1>1, <2>3 DEF Fork, StoreChildPid, CheckFork, Arm, Wait, Disarm, Classify
    <2>4. CASE CaptureOutput \/ CaptureHangup \/ CaptureTimeout
      BY <1>1, <2>4 DEF CaptureOutput, CaptureHangup, CaptureTimeout
    <2>5. ASSUME NEW timeout_given \in BOOLEAN, RunBegin(timeout_given)
          PROVE  FALSE
      BY <1>1, <2>5 DEF RunBegin
    <2>6. ~ForkServerRun /\ ~Server /\ ~FsDies
      BY <1>1 DEF ForkServerRun, Request, ReadPid, PollStatus, PollOutput, PollHangup,
             PollTimeout, StorePid, CheckPid, Settle, ReadStatus, Server, FsFork,
             FsReap, FsDies, Inv, ModeInv, ServerPlaces
    <2>7. CASE UNCHANGED vars
      BY <1>1, <2>7 DEF vars
    <2> QED
      BY <1>1, <2>1, <2>2, <2>3, <2>4, <2>5, <2>6, <2>7
      DEF Next, PlainRun, Put, Exited
  <1>2. Inv /\ [Next]_vars => [stale_kill' # stale_kill => pc \in {"disarm", "classify"}]_vars
    BY <1>1
  <1> QED
    BY <1>2, AlwaysInv, PTL DEF Spec, StaleKillWindow

-----------------------------------------------------------------------------
(* Executors.                                                               *)

MakePcs == {"maps", "env", "server"}
PutPcs  == {"arm", "poll", "wait"}
RunPcs  == {"spawn", "ran"} \cup PutPcs
DropPcs == {"derived", "base", "terminate", "members"}

ExecutorRec ==
    [kind : Kinds, open : BOOLEAN, offset : {0, 1}, shm : [Attachers -> Nat], srv : BOOLEAN,
     srv_env : [EnvVars -> Nat], child : {-1, 0, 1}, timed_out : BOOLEAN, pipe : SUBSET Nat,
     out : SUBSET Nat, reason : {"none", "FAULT_TMOUT", "FAULT_CRASH", "FAULT_NONE"}]

PutRec == [st : {"none", "running", "dead"}, env : [EnvVars -> Nat], worked : BOOLEAN,
           end : {"no", "kill", "signal", "exit"}]

XTypes ==
    /\ x_ex \in Seq(ExecutorRec)
    /\ x_pc \in {"idle", "exited"} \cup MakePcs \cup RunPcs \cup DropPcs
    /\ x_cur \in Nat /\ (x_pc \in MakePcs \cup RunPcs \cup DropPcs => x_cur \in 1..Len(x_ex))
    /\ x_env \in [EnvVars -> Nat]
    /\ x_shm \in [DOMAIN x_shm -> Nat] /\ x_next \in Nat \ {0}
    /\ x_active \in [{"native", "proxy"} -> Nat]
    /\ x_put \in PutRec
    /\ x_put.st = "running" => x_pc \in PutPcs
    /\ x_put.st = "dead" => x_put.end # "no"
    /\ x_file \in Nat /\ x_tok \in Nat

\* The executors whose destructor has begun.
Dropped == {i \in 1..Len(x_ex) : ~x_ex[i].open \/ (i = x_cur /\ x_pc \in DropPcs)}

\* The rest of the plan is what is left of an orderly plan after the steps so far.
PlanFollowed ==
    \E plan \in FuzzerPlans : \E p \in 0..Len(plan) :
        /\ x_todo = SubSeq(plan, p + 1, Len(plan))
        /\ Len(x_ex) = MadeBy(plan, p)
        /\ \A q \in 1..p : plan[q][1] = "make" => x_ex[MadeBy(plan, q)].kind = plan[q][2]
        /\ \A i \in 1..Len(x_ex) : \E q \in 1..p : plan[q][1] = "make" /\ MadeBy(plan, q) = i
        /\ \A i \in 1..Len(x_ex) : i \in Dropped <=> \E q \in 1..p : plan[q] = <<"drop", i>>

\* Every segment belongs to one attacher of one executor.
SegmentsOwned ==
    /\ \A e \in 1..Len(x_ex) : \A a \in Attachers : x_ex[e].shm[a] < x_next
    /\ \A e, f \in 1..Len(x_ex) : \A a, b \in Attachers :
          x_ex[e].shm[a] = x_ex[f].shm[b] /\ x_ex[e].shm[a] # 0 => e = f /\ a = b
    /\ \A s : s \in DOMAIN x_shm <=> s # 0 /\ \E e \in 1..Len(x_ex) : \E a \in Attachers : x_ex[e].shm[a] = s

\* The variables of environment name the maps of executor e, except for PT's path map.
Names(environment, e) ==
    \A a \in x_ex[e].kind.maps \ {"path"} : environment[SHM_ENV_VAR(a)] = x_ex[e].shm[a]

\* An executor has its maps, and its fork server names them.
Built(e) ==
    /\ \A a \in x_ex[e].kind.maps : x_ex[e].shm[a] # 0
    /\ x_ex[e].kind.forksrv => Names(x_ex[e].srv_env, e)

AllBuilt ==
    /\ \A e \in 1..Len(x_ex) \ Dropped : (e = x_cur => x_pc \notin MakePcs \cup {"exited"}) => Built(e)
    /\ \A e \in 1..Len(x_ex) : ~x_ex[e].open => ~x_ex[e].srv /\ \A a \in Attachers : x_ex[e].shm[a] = 0
    /\ x_pc \in MakePcs => x_cur = Len(x_ex) /\ x_ex[x_cur].open
    /\ x_pc = "maps" => \A a \in Attachers : x_ex[x_cur].shm[a] = 0
    /\ x_pc \in {"env", "server"} => \A a \in Kind.maps : x_ex[x_cur].shm[a] # 0
    /\ x_pc = "env" => \A a \in Attachers \ Kind.maps : x_ex[x_cur].shm[a] = 0
    /\ x_pc = "base" => \A a \in {"path", "fav"} : x_ex[x_cur].shm[a] = 0
    /\ x_pc \in {"terminate", "members"} => \A a \in Attachers : x_ex[x_cur].shm[a] = 0
    /\ x_pc = "members" => ~x_ex[x_cur].open

\* What the process has once belongs to the executor that was made last.
LastMadeHasAll ==
    /\ x_sig = {x_ex[e].kind.class : e \in 1..Len(x_ex)}
    /\ \A e \in 1..Len(x_ex) :
          (\A f \in 1..Len(x_ex) : x_ex[f].kind.class = x_ex[e].kind.class) => x_handler = x_ex[e].kind.class
    /\ Len(x_ex) # 0 /\ Len(x_ex) \notin Dropped =>
          /\ x_active[x_ex[Len(x_ex)].kind.class] = Len(x_ex)
          /\ x_pc \notin {"maps", "env"} => Names(x_env, Len(x_ex))

\* What a plan lets a fuzzer run.
MayRun(e) ==
    /\ e \in 1..Len(x_ex) \ Dropped
    /\ Exposed(x_ex[e].kind) =>
          e = Len(x_ex) /\ \A f \in 1..Len(x_ex) : x_ex[f].kind.class = x_ex[e].kind.class

RunRight ==
    /\ x_pc \in RunPcs => MayRun(x_cur) /\ x_file = x_tok
    /\ \A e \in 1..Len(x_ex) : (e = x_cur => x_pc \notin PutPcs) => x_ex[e].pipe = {}
    /\ x_pc \in PutPcs \cup {"spawn"} => x_ex[x_cur].out = {}
    /\ x_pc = "spawn" =>
          x_ex[x_cur].offset = 0 /\ \A a \in Kind.maps : x_shm[x_ex[x_cur].shm[a]] = 0
    /\ x_pc \in PutPcs \cup {"ran"} =>
          /\ Names(x_put.env, x_cur)
          /\ \A a \in Kind.maps \ {"path"} :
                x_shm[x_ex[x_cur].shm[a]] = IF x_put.worked THEN x_tok ELSE 0
    /\ x_pc \in PutPcs =>
          /\ ~x_put.worked => x_ex[x_cur].offset = 0
          /\ x_ex[x_cur].pipe = IF x_put.worked /\ Kind.record THEN {x_tok} ELSE {}
    /\ x_pc = "arm" => ~Kind.forksrv
    /\ x_timer => x_pc = "wait" /\ ~Kind.forksrv /\ Kind.limit

ExecutorsInv ==
    /\ XTypes /\ PlanFollowed /\ SegmentsOwned /\ AllBuilt /\ LastMadeHasAll /\ RunRight
    /\ FeedbackOfItsRun /\ OutputOfItsRun /\ x_err # "shm"

-----------------------------------------------------------------------------
(* Kinds and plans.                                                         *)

LEMMA KindFacts ==
    ASSUME NEW k \in Kinds
    PROVE  /\ k.class \in {"native", "proxy"} /\ k.maps \in SUBSET Attachers
           /\ k.maps \subseteq {"edge", "bb"} \/ k = PTExecutor
           /\ k = PTExecutor => k.maps = {"path", "fav"} /\ k.class = "proxy"
           /\ k.class = "native" => k.maps # {}
  <1> USE DEF Native, QEMUExecutor, CoreSightExecutor, PTExecutor, PinToolExecutor
  <1>1. k.class \in {"native", "proxy"}
    BY DEF Kinds
  <1>4. k.maps \in SUBSET Attachers
    BY DEF Kinds, Attachers
  <1>5. k.maps \subseteq {"edge", "bb"} \/ k = PTExecutor
    BY DEF Kinds
  <1>6. k = PTExecutor => k.maps = {"path", "fav"} /\ k.class = "proxy"
    OBVIOUS
  <1>7. k.class = "native" => k.maps # {}
    BY DEF Kinds
  <1> QED
    BY <1>1, <1>4, <1>5, <1>6, <1>7

LEMMA PlanTypes ==
    ASSUME NEW plan, Orderly(plan)
    PROVE  /\ Len(plan) \in Nat
           /\ \A p \in 1..Len(plan) :
                 \/ plan[p][1] = "make" /\ plan[p][2] \in Kinds
                 \/ plan[p][1] \in {"run", "drop"} /\ plan[p][2] \in Nat \ {0} /\ plan[p] = <<plan[p][1], plan[p][2]>>
  BY DEF Orderly

LEMMA MadeSets ==
    ASSUME NEW plan, NEW p \in Nat
    PROVE  /\ IsFiniteSet({q \in 1..p : plan[q][1] = "make"})
           /\ MadeBy(plan, p) \in Nat
  <1>1. IsFiniteSet(1..p)
    BY FS_Interval
  <1>2. IsFiniteSet({q \in 1..p : plan[q][1] = "make"})
    BY <1>1, FS_Subset
  <1> QED
    BY <1>2, FS_CardinalityType DEF MadeBy

\* How the count grows along a plan.
LEMMA MadeSteps ==
    ASSUME NEW plan, NEW p \in Nat
    PROVE  /\ MadeBy(plan, 0) = 0
           /\ plan[p + 1][1] = "make" => MadeBy(plan, p + 1) = MadeBy(plan, p) + 1
           /\ plan[p + 1][1] # "make" => MadeBy(plan, p + 1) = MadeBy(plan, p)
  <1> DEFINE S(n) == {q \in 1..n : plan[q][1] = "make"}
  <1>1. IsFiniteSet(S(p)) /\ p + 1 \notin S(p)
    <2>1. IsFiniteSet(S(p))
      BY MadeSets, Zenon
    <2> QED
      BY <2>1
  <1>2. plan[p + 1][1] = "make" => S(p + 1) = S(p) \cup {p + 1}
    OBVIOUS
  <1>3. plan[p + 1][1] # "make" => S(p + 1) = S(p)
    OBVIOUS
  <1>4. S(0) = {}
    OBVIOUS
  <1> HIDE DEF S
  <1>5. Cardinality(S(p) \cup {p + 1}) = Cardinality(S(p)) + 1
    BY <1>1, FS_AddElement
  <1>6. Cardinality(S(0)) = 0
    BY <1>4, FS_EmptySet
  <1>7. MadeBy(plan, 0) = Cardinality(S(0)) /\ MadeBy(plan, p) = Cardinality(S(p))
        /\ MadeBy(plan, p + 1) = Cardinality(S(p + 1))
    BY DEF MadeBy, S
  <1> QED
    BY <1>2, <1>3, <1>5, <1>6, <1>7

LEMMA MadeMonotone ==
    ASSUME NEW plan, NEW q \in Nat, NEW p \in Nat, q <= p
    PROVE  /\ MadeBy(plan, q) <= MadeBy(plan, p)
           /\ (\A r \in 1..p : plan[r][1] = "make" => r <= q) => MadeBy(plan, q) = MadeBy(plan, p)
           /\ q # 0 /\ plan[q][1] = "make" => MadeBy(plan, q) >= 1
  <1> DEFINE S(n) == {r \in 1..n : plan[r][1] = "make"}
  <1>1. S(q) \subseteq S(p) /\ IsFiniteSet(S(p)) /\ IsFiniteSet(S(q))
    <2>1. IsFiniteSet(S(p)) /\ IsFiniteSet(S(q))
      BY MadeSets, Zenon
    <2> QED
      BY <2>1
  <1>2. (\A r \in 1..p : plan[r][1] = "make" => r <= q) => S(q) = S(p)
    OBVIOUS
  <1>3. q # 0 /\ plan[q][1] = "make" => q \in S(q)
    OBVIOUS
  <1> HIDE DEF S
  <1>4. Cardinality(S(q)) <= Cardinality(S(p))
    BY <1>1, FS_Subset
  <1>5. q \in S(q) => Cardinality(S(q)) >= 1
    BY <1>1, FS_EmptySet, FS_CardinalityType
  <1>6. MadeBy(plan, q) = Cardinality(S(q)) /\ MadeBy(plan, p) = Cardinality(S(p))
    BY DEF MadeBy, S
  <1> QED
    BY <1>2, <1>3, <1>4, <1>5, <1>6

\* The first p steps of plan have led to this state.
Followed(plan, p) ==
    /\ x_todo = SubSeq(plan, p + 1, Len(plan))
    /\ Len(x_ex) = MadeBy(plan, p)
    /\ \A q \in 1..p : plan[q][1] = "make" => x_ex[MadeBy(plan, q)].kind = plan[q][2]
    /\ \A i \in 1..Len(x_ex) : \E q \in 1..p : plan[q][1] = "make" /\ MadeBy(plan, q) = i
    /\ \A i \in 1..Len(x_ex) : i \in Dropped <=> \E q \in 1..p : plan[q] = <<"drop", i>>

\* The next step of the plan.
LEMMA NextStep ==
    ASSUME PlanFollowed, x_todo # <<>>
    PROVE  \E plan : \E p \in Nat :
              /\ Orderly(plan) /\ plan \in FuzzerPlans /\ p + 1 \in 1..Len(plan) /\ Followed(plan, p)
              /\ Head(x_todo) = plan[p + 1] /\ Tail(x_todo) = SubSeq(plan, (p + 1) + 1, Len(plan))
  <1>1. PICK plan \in FuzzerPlans : \E p \in 0..Len(plan) : Followed(plan, p)
    BY DEF PlanFollowed, Followed
  <1>2. PICK p \in 0..Len(plan) : Followed(plan, p)
    BY <1>1
  <1>3. Orderly(plan)
    BY PlansAssumption
  <1>4. Len(plan) \in Nat /\ p \in Nat /\ x_todo = SubSeq(plan, p + 1, Len(plan))
    BY <1>2, <1>3, PlanTypes DEF Followed
  <1> DEFINE Steps == ({"make"} \X Kinds) \cup ({"run", "drop"} \X (Nat \ {0}))
  <1>5. plan \in Seq(Steps)
    BY <1>3 DEF Orderly
  <1> HIDE DEF Steps
  <1>6. p + 1 \in 1..Len(plan)
    <2>1. ASSUME p = Len(plan) PROVE x_todo = <<>>
      BY <2>1, <1>4, <1>5
    <2> QED
      BY <2>1, <1>4
  <1>7. Head(x_todo) = plan[p + 1] /\ Tail(x_todo) = SubSeq(plan, (p + 1) + 1, Len(plan))
    BY <1>4, <1>5, <1>6
  <1> QED
    BY <1>2, <1>3, <1>4, <1>6, <1>7

\* What is run was made, was not dropped and, if it is exposed, was made last.
LEMMA RunPlanned ==
    ASSUME PlanFollowed, x_todo # <<>>, Head(x_todo)[1] = "run"
    PROVE  MayRun(Head(x_todo)[2])
  <1>1. PICK plan : \E p \in Nat :
              /\ Orderly(plan) /\ plan \in FuzzerPlans /\ p + 1 \in 1..Len(plan) /\ Followed(plan, p)
              /\ Head(x_todo) = plan[p + 1]
    BY NextStep
  <1>2. PICK p \in Nat :
              /\ Orderly(plan) /\ p + 1 \in 1..Len(plan) /\ Followed(plan, p)
              /\ Head(x_todo) = plan[p + 1]
    BY <1>1
  <1> DEFINE i == plan[p + 1][2]
  <1>3. PICK q \in 1..Len(plan) : Makes(plan, q, p + 1)
    BY <1>2 DEF Orderly
  <1>4. q \in Nat /\ q # 0 /\ q <= p /\ q \in 1..p /\ plan[q][1] = "make" /\ MadeBy(plan, q) = i /\ Len(plan) \in Nat
    BY <1>2, <1>3, PlanTypes DEF Makes
  <1>5. Len(x_ex) = MadeBy(plan, p) /\ x_ex[i].kind = plan[q][2]
    BY <1>2, <1>4 DEF Followed
  <1>6. i \in 1..Len(x_ex)
    <2>1. MadeBy(plan, q) \in Nat /\ MadeBy(plan, p) \in Nat
      BY <1>4, MadeSets
    <2>2. MadeBy(plan, q) <= MadeBy(plan, p) /\ MadeBy(plan, q) >= 1
      BY <1>4, MadeMonotone
    <2> QED
      BY <1>4, <1>5, <2>1, <2>2
  <1>7. i \notin Dropped
    <2>1. ASSUME NEW r \in 1..p PROVE plan[r] # <<"drop", i>>
      <3>1. r \in 1..Len(plan) /\ r < p + 1
        BY <1>2, <1>4
      <3> QED
        BY <1>2, <3>1 DEF Orderly
    <2> QED
      BY <1>2, <1>6, <2>1 DEF Followed
  <1>8. ASSUME Exposed(x_ex[i].kind)
        PROVE  i = Len(x_ex) /\ \A f \in 1..Len(x_ex) : x_ex[f].kind.class = x_ex[i].kind.class
    <2>1. ASSUME NEW r \in 1..p, plan[r][1] = "make"
          PROVE  r <= q /\ plan[r][2].class = plan[q][2].class
      <3>1. r \in 1..Len(plan) /\ r < p + 1 /\ p + 1 \in 1..Len(plan)
        BY <1>2, <1>4
      <3> QED
        BY <1>2, <1>3, <1>5, <1>8, <2>1, <3>1 DEF Orderly
    <2>2. MadeBy(plan, q) = MadeBy(plan, p)
      BY <1>4, <2>1, MadeMonotone
    <2>3. ASSUME NEW f \in 1..Len(x_ex) PROVE x_ex[f].kind.class = x_ex[i].kind.class
      <3>1. PICK r \in 1..p : plan[r][1] = "make" /\ MadeBy(plan, r) = f
        BY <1>2 DEF Followed
      <3>2. x_ex[f].kind = plan[r][2]
        BY <1>2, <3>1 DEF Followed
      <3> QED
        BY <1>5, <2>1, <3>1, <3>2
    <2> QED
      BY <1>4, <1>5, <2>2, <2>3
  <1>9. Head(x_todo)[2] = i
    BY <1>2
  <1> HIDE DEF i
  <1> QED
    BY <1>6, <1>7, <1>8, <1>9 DEF MayRun

\* What is dropped was made.
LEMMA DropPlanned ==
    ASSUME PlanFollowed, x_todo # <<>>, Head(x_todo)[1] = "drop"
    PROVE  Head(x_todo)[2] \in 1..Len(x_ex)
  <1>1. PICK plan : \E p \in Nat :
              /\ Orderly(plan) /\ plan \in FuzzerPlans /\ p + 1 \in 1..Len(plan) /\ Followed(plan, p)
              /\ Head(x_todo) = plan[p + 1]
    BY NextStep
  <1>2. PICK p \in Nat :
              /\ Orderly(plan) /\ p + 1 \in 1..Len(plan) /\ Followed(plan, p)
              /\ Head(x_todo) = plan[p + 1]
    BY <1>1
  <1>3. PICK q \in 1..Len(plan) : Makes(plan, q, p + 1)
    BY <1>2 DEF Orderly
  <1>4. q \in Nat /\ q # 0 /\ q <= p /\ plan[q][1] = "make" /\ MadeBy(plan, q) = plan[p + 1][2] /\ Len(plan) \in Nat
    BY <1>2, <1>3, PlanTypes DEF Makes
  <1>5. MadeBy(plan, q) \in Nat /\ MadeBy(plan, p) \in Nat
    BY <1>4, MadeSets
  <1>6. MadeBy(plan, q) <= MadeBy(plan, p) /\ MadeBy(plan, q) >= 1
    BY <1>4, MadeMonotone
  <1>7. Len(x_ex) = MadeBy(plan, p)
    BY <1>2 DEF Followed
  <1> QED
    BY <1>2, <1>4, <1>5, <1>6, <1>7

SameKinds ==
    Len(x_ex') = Len(x_ex) /\ \A e \in 1..Len(x_ex) : x_ex'[e].kind = x_ex[e].kind

\* Steps that take nothing from the plan.
LEMMA PlanKept ==
    ASSUME PlanFollowed, x_todo' = x_todo, SameKinds, Dropped' = Dropped
    PROVE  PlanFollowed'
  <1>1. PICK plan \in FuzzerPlans : \E p \in 0..Len(plan) : Followed(plan, p)
    BY DEF PlanFollowed, Followed
  <1>2. PICK p \in 0..Len(plan) : Followed(plan, p)
    BY <1>1
  <1>3. Orderly(plan) /\ Len(plan) \in Nat
    BY PlansAssumption, PlanTypes
  <1>4. ASSUME NEW q \in 1..p, plan[q][1] = "make" PROVE x_ex'[MadeBy(plan, q)].kind = plan[q][2]
    <2>1. MadeBy(plan, q) \in Nat /\ MadeBy(plan, q) >= 1 /\ MadeBy(plan, q) <= MadeBy(plan, p) /\ MadeBy(plan, p) \in Nat
      <3>1. q \in Nat /\ p \in Nat /\ q # 0 /\ q <= p
        BY <1>3
      <3> QED
        BY <1>4, <3>1, MadeSets, MadeMonotone
    <2>2. MadeBy(plan, q) \in 1..Len(x_ex)
      BY <1>2, <2>1 DEF Followed
    <2> QED
      BY <1>2, <1>4, <2>2 DEF Followed, SameKinds
  <1>5. /\ x_todo' = SubSeq(plan, p + 1, Len(plan)) /\ Len(x_ex') = MadeBy(plan, p)
        /\ \A i \in 1..Len(x_ex') : \E q \in 1..p : plan[q][1] = "make" /\ MadeBy(plan, q) = i
        /\ \A i \in 1..Len(x_ex') : i \in Dropped' <=> \E q \in 1..p : plan[q] = <<"drop", i>>
    BY <1>2 DEF Followed, SameKinds
  <1> QED
    BY <1>4, <1>5 DEF PlanFollowed

\* A step of the plan that makes nothing.
LEMMA PlanAdvances ==
    ASSUME PlanFollowed, x_todo # <<>>, x_todo' = Tail(x_todo), SameKinds,
           \/ Head(x_todo)[1] = "run" /\ Dropped' = Dropped
           \/ Head(x_todo)[1] = "drop" /\ Dropped' = Dropped \cup {Head(x_todo)[2]}
    PROVE  PlanFollowed'
  <1>1. PICK plan : \E p \in Nat :
              /\ Orderly(plan) /\ plan \in FuzzerPlans /\ p + 1 \in 1..Len(plan) /\ Followed(plan, p)
              /\ Head(x_todo) = plan[p + 1] /\ Tail(x_todo) = SubSeq(plan, (p + 1) + 1, Len(plan))
    BY NextStep
  <1>2. PICK p \in Nat :
              /\ Orderly(plan) /\ plan \in FuzzerPlans /\ p + 1 \in 1..Len(plan) /\ Followed(plan, p)
              /\ Head(x_todo) = plan[p + 1] /\ Tail(x_todo) = SubSeq(plan, (p + 1) + 1, Len(plan))
    BY <1>1
  <1>3. /\ Len(plan) \in Nat /\ plan[p + 1][1] \in {"run", "drop"}
        /\ plan[p + 1] = <<plan[p + 1][1], plan[p + 1][2]>>
    BY <1>2, PlanTypes
  <1>4. MadeBy(plan, p + 1) = MadeBy(plan, p)
    BY <1>3, MadeSteps
  <1>5. \A r \in 1..p + 1 : r \in 1..p \/ r = p + 1
    BY <1>2
  <1>6. \A r \in 1..p : r \in 1..p + 1
    BY <1>2
  <1>7. ASSUME NEW q \in 1..p + 1, plan[q][1] = "make" PROVE x_ex'[MadeBy(plan, q)].kind = plan[q][2]
    <2>1. q \in 1..p /\ q \in Nat /\ q # 0 /\ q <= p
      BY <1>3, <1>5, <1>7
    <2>2. MadeBy(plan, q) \in Nat /\ MadeBy(plan, q) >= 1 /\ MadeBy(plan, q) <= MadeBy(plan, p) /\ MadeBy(plan, p) \in Nat
      BY <1>7, <2>1, MadeSets, MadeMonotone
    <2>3. MadeBy(plan, q) \in 1..Len(x_ex)
      BY <1>2, <2>2 DEF Followed
    <2> QED
      BY <1>2, <1>7, <2>1, <2>3 DEF Followed, SameKinds
  <1>8. \A i \in 1..Len(x_ex') : \E q \in 1..p + 1 : plan[q][1] = "make" /\ MadeBy(plan, q) = i
    BY <1>2, <1>6 DEF Followed, SameKinds
  <1>9. ASSUME NEW i \in 1..Len(x_ex')
        PROVE  i \in Dropped' <=> \E q \in 1..p + 1 : plan[q] = <<"drop", i>>
    <2>1. i \in 1..Len(x_ex)
      BY DEF SameKinds
    <2>2. i \in Dropped <=> \E q \in 1..p : plan[q] = <<"drop", i>>
      BY <1>2, <2>1 DEF Followed
    <2>3. p + 1 \in 1..p + 1
      BY <1>2
    <2>4. (\E q \in 1..p + 1 : plan[q] = <<"drop", i>>) <=> (i \in Dropped \/ plan[p + 1] = <<"drop", i>>)
      BY <1>5, <1>6, <2>2, <2>3
    <2>5. plan[p + 1] = <<"drop", i>> <=> plan[p + 1][1] = "drop" /\ plan[p + 1][2] = i
      BY <1>3
    <2> QED
      BY <1>2, <2>4, <2>5
  <1>10. x_todo' = SubSeq(plan, (p + 1) + 1, Len(plan)) /\ Len(x_ex') = MadeBy(plan, p + 1)
         /\ p + 1 \in 0..Len(plan) /\ plan \in FuzzerPlans
    BY <1>2, <1>3, <1>4 DEF Followed, SameKinds
  <1> QED
    BY <1>7, <1>8, <1>9, <1>10 DEF PlanFollowed

\* An executor is made.
LEMMA PlanMakes ==
    ASSUME PlanFollowed, x_todo # <<>>, x_todo' = Tail(x_todo), Head(x_todo)[1] = "make",
           Len(x_ex') = Len(x_ex) + 1, Len(x_ex) \in Nat,
           \A e \in 1..Len(x_ex) : x_ex'[e] = x_ex[e],
           x_ex'[Len(x_ex) + 1].kind = Head(x_todo)[2], Dropped' = Dropped, Len(x_ex) + 1 \notin Dropped
    PROVE  PlanFollowed' /\ Head(x_todo)[2] \in Kinds
  <1>1. PICK plan : \E p \in Nat :
              /\ Orderly(plan) /\ plan \in FuzzerPlans /\ p + 1 \in 1..Len(plan) /\ Followed(plan, p)
              /\ Head(x_todo) = plan[p + 1] /\ Tail(x_todo) = SubSeq(plan, (p + 1) + 1, Len(plan))
    BY NextStep
  <1>2. PICK p \in Nat :
              /\ Orderly(plan) /\ plan \in FuzzerPlans /\ p + 1 \in 1..Len(plan) /\ Followed(plan, p)
              /\ Head(x_todo) = plan[p + 1] /\ Tail(x_todo) = SubSeq(plan, (p + 1) + 1, Len(plan))
    BY <1>1
  <1>3. Len(plan) \in Nat /\ plan[p + 1][1] = "make" /\ plan[p + 1][2] \in Kinds
    BY <1>2, PlanTypes
  <1>4. MadeBy(plan, p + 1) = MadeBy(plan, p) + 1 /\ MadeBy(plan, p) = Len(x_ex)
    BY <1>2, <1>3, MadeSteps DEF Followed
  <1>5. \A r \in 1..p + 1 : r \in 1..p \/ r = p + 1
    BY <1>2
  <1>6. p + 1 \in 1..p + 1 /\ \A r \in 1..p : r \in 1..p + 1
    BY <1>2
  <1>7. ASSUME NEW q \in 1..p + 1, plan[q][1] = "make" PROVE x_ex'[MadeBy(plan, q)].kind = plan[q][2]
    <2>1. CASE q = p + 1
      BY <2>1, <1>2, <1>4
    <2>2. CASE q \in 1..p
      <3>1. q \in Nat /\ q # 0 /\ q <= p
        BY <2>2
      <3>2. MadeBy(plan, q) \in Nat /\ MadeBy(plan, q) >= 1 /\ MadeBy(plan, q) <= MadeBy(plan, p)
        BY <1>7, <3>1, MadeSets, MadeMonotone
      <3>3. MadeBy(plan, q) \in 1..Len(x_ex)
        BY <1>4, <3>2
      <3> QED
        BY <1>2, <1>7, <2>2, <3>3 DEF Followed
    <2> QED
      BY <1>5, <2>1, <2>2
  <1>8. ASSUME NEW i \in 1..Len(x_ex) + 1
        PROVE  \E q \in 1..p + 1 : plan[q][1] = "make" /\ MadeBy(plan, q) = i
    <2>1. CASE i = Len(x_ex) + 1
      BY <2>1, <1>3, <1>4, <1>6
    <2>2. CASE i \in 1..Len(x_ex)
      BY <2>2, <1>2, <1>6 DEF Followed
    <2> QED
      BY <2>1, <2>2
  <1>9. \A q \in 1..p + 1 : \A i : plan[q] = <<"drop", i>> => q \in 1..p
    BY <1>3, <1>5
  <1>10. ASSUME NEW i \in 1..Len(x_ex) + 1
         PROVE  i \in Dropped' <=> \E q \in 1..p + 1 : plan[q] = <<"drop", i>>
    <2>1. CASE i \in 1..Len(x_ex)
      BY <2>1, <1>2, <1>6, <1>9 DEF Followed
    <2>2. CASE i = Len(x_ex) + 1
      <3>1. ASSUME NEW r \in 1..p, plan[r] = <<"drop", i>> PROVE FALSE
        <4>1. r \in 1..Len(plan) /\ plan[r][1] = "drop" /\ plan[r][2] = i
          BY <1>2, <1>3, <3>1
        <4>2. PICK q \in 1..Len(plan) : Makes(plan, q, r)
          BY <1>2, <4>1 DEF Orderly
        <4>3. q \in Nat /\ q <= p /\ MadeBy(plan, q) = i
          BY <4>1, <4>2, <1>2 DEF Makes
        <4>4. MadeBy(plan, q) <= MadeBy(plan, p)
          BY <4>3, MadeMonotone
        <4> QED
          BY <1>4, <2>2, <4>3, <4>4
      <3> QED
        BY <2>2, <1>9, <3>1
    <2> QED
      BY <2>1, <2>2
  <1>11. /\ x_todo' = SubSeq(plan, (p + 1) + 1, Len(plan)) /\ Len(x_ex') = MadeBy(plan, p + 1)
         /\ p + 1 \in 0..Len(plan) /\ plan \in FuzzerPlans
    BY <1>2, <1>3, <1>4
  <1>12. \A i \in 1..Len(x_ex') : i \in 1..Len(x_ex) + 1
    OBVIOUS
  <1>13. PlanFollowed'
    <2>1. \A i \in 1..Len(x_ex') : \E q \in 1..p + 1 : plan[q][1] = "make" /\ MadeBy(plan, q) = i
      BY <1>8, <1>12
    <2>2. \A i \in 1..Len(x_ex') : i \in Dropped' <=> \E q \in 1..p + 1 : plan[q] = <<"drop", i>>
      BY <1>10, <1>12
    <2> QED
      BY <1>7, <1>11, <2>1, <2>2 DEF PlanFollowed
  <1> QED
    BY <1>2, <1>3, <1>13

\* When the plan is done, everything was dropped.
LEMMA PlanDone ==
    ASSUME PlanFollowed, x_todo = <<>>
    PROVE  \A i \in 1..Len(x_ex) : i \in Dropped
  <1>1. PICK plan \in FuzzerPlans : \E p \in 0..Len(plan) : Followed(plan, p)
    BY DEF PlanFollowed, Followed
  <1>2. PICK p \in 0..Len(plan) : Followed(plan, p)
    BY <1>1
  <1>3. Orderly(plan) /\ Len(plan) \in Nat
    BY PlansAssumption, PlanTypes
  <1>4. p = Len(plan)
    <2> DEFINE Steps == ({"make"} \X Kinds) \cup ({"run", "drop"} \X (Nat \ {0}))
    <2>1. plan \in Seq(Steps)
      BY <1>3 DEF Orderly
    <2> HIDE DEF Steps
    <2>2. x_todo = SubSeq(plan, p + 1, Len(plan))
      BY <1>2 DEF Followed
    <2>3. ASSUME p < Len(plan) PROVE Len(SubSeq(plan, p + 1, Len(plan))) # 0
      BY <1>3, <2>1, <2>3
    <2>4. Len(x_todo) = 0
      OBVIOUS
    <2> QED
      BY <1>3, <2>2, <2>3, <2>4
  <1>5. ASSUME NEW i \in 1..Len(x_ex) PROVE i \in Dropped
    <2>1. PICK q \in 1..p : plan[q][1] = "make" /\ MadeBy(plan, q) = i
      BY <1>2 DEF Followed
    <2>2. \E r \in 1..Len(plan) : plan[r] = <<"drop", i>>
      BY <1>3, <1>4, <2>1 DEF Orderly
    <2> QED
      BY <1>2, <1>4, <2>2 DEF Followed
  <1> QED
    BY <1>5

-----------------------------------------------------------------------------
(* Steps of a run.                                                          *)

\* Executor c becomes r.
Becomes(c, r) == x_ex' = [x_ex EXCEPT ![c] = r]

LEMMA OneExecutor ==
    ASSUME x_ex \in Seq(ExecutorRec), NEW c \in 1..Len(x_ex), NEW r \in ExecutorRec, Becomes(c, r)
    PROVE  /\ x_ex' \in Seq(ExecutorRec) /\ Len(x_ex') = Len(x_ex)
           /\ x_ex'[c] = r /\ \A e \in 1..Len(x_ex) : e # c => x_ex'[e] = x_ex[e]
  BY DEF Becomes

\* What a run leaves alone.
Quiet ==
    /\ Len(x_ex') = Len(x_ex)
    /\ \A e \in 1..Len(x_ex) :
          /\ x_ex'[e].kind = x_ex[e].kind /\ x_ex'[e].open = x_ex[e].open /\ x_ex'[e].shm = x_ex[e].shm
          /\ x_ex'[e].srv = x_ex[e].srv /\ x_ex'[e].srv_env = x_ex[e].srv_env
    /\ UNCHANGED <<x_env, x_next, x_active, x_sig, x_handler>> /\ DOMAIN x_shm' = DOMAIN x_shm

LEMMA QuietKeeps ==
    ASSUME XTypes, SegmentsOwned, AllBuilt, LastMadeHasAll, Quiet,
           x_pc \in {"idle"} \cup RunPcs, x_pc' \in {"idle"} \cup RunPcs
    PROVE  /\ Dropped' = Dropped /\ SameKinds
           /\ SegmentsOwned' /\ AllBuilt' /\ LastMadeHasAll'
           /\ \A e \in 1..Len(x_ex) : MayRun(e) => MayRun(e)'
           /\ \A e \in 1..Len(x_ex) : Names(x_env, e) => Names(x_env, e)'
  <1>0. /\ x_pc \notin MakePcs \cup DropPcs \cup {"exited", "maps", "env", "server", "base", "terminate", "members"}
        /\ x_pc' \notin MakePcs \cup DropPcs \cup {"exited", "maps", "env", "server", "base", "terminate", "members"}
    BY DEF RunPcs, PutPcs, MakePcs, DropPcs
  <1>1. Dropped' = Dropped
    BY <1>0 DEF Dropped, Quiet
  <1>2. SameKinds
    BY DEF SameKinds, Quiet
  <1>3. SegmentsOwned'
    BY DEF SegmentsOwned, Quiet
  <1>4. ASSUME NEW e \in 1..Len(x_ex), NEW environment, Names(environment, e)
        PROVE  \A a \in x_ex'[e].kind.maps \ {"path"} : environment[SHM_ENV_VAR(a)] = x_ex'[e].shm[a]
    BY <1>4 DEF Names, Quiet
  <1>5. ASSUME NEW e \in 1..Len(x_ex), Built(e) PROVE Built(e)'
    <2>1. \A a \in x_ex'[e].kind.maps : x_ex'[e].shm[a] # 0
      BY <1>5 DEF Built, Quiet
    <2>2. ASSUME x_ex'[e].kind.forksrv
          PROVE  \A a \in x_ex'[e].kind.maps \ {"path"} : x_ex'[e].srv_env[SHM_ENV_VAR(a)] = x_ex'[e].shm[a]
      BY <1>5, <2>2 DEF Built, Names, Quiet
    <2> QED
      BY <2>1, <2>2 DEF Built, Names
  <1>6. AllBuilt'
    <2>1. \A e \in 1..Len(x_ex) \ Dropped : Built(e)
      BY <1>0 DEF AllBuilt
    <2>2. \A e \in 1..Len(x_ex') \ Dropped' : Built(e)'
      BY <1>1, <1>5, <2>1 DEF Quiet
    <2>3. \A e \in 1..Len(x_ex') : ~x_ex'[e].open => ~x_ex'[e].srv /\ \A a \in Attachers : x_ex'[e].shm[a] = 0
      BY DEF AllBuilt, Quiet
    <2> QED
      BY <1>0, <2>2, <2>3 DEF AllBuilt
  <1>7. LastMadeHasAll'
    <2>1. x_sig' = {x_ex'[e].kind.class : e \in 1..Len(x_ex')}
      BY DEF LastMadeHasAll, Quiet
    <2>2. \A e \in 1..Len(x_ex') :
             (\A f \in 1..Len(x_ex') : x_ex'[f].kind.class = x_ex'[e].kind.class) => x_handler' = x_ex'[e].kind.class
      BY DEF LastMadeHasAll, Quiet
    <2>3. ASSUME Len(x_ex') # 0 /\ Len(x_ex') \notin Dropped'
          PROVE  x_active'[x_ex'[Len(x_ex')].kind.class] = Len(x_ex') /\ Names(x_env, Len(x_ex))'
      <3>1. Len(x_ex') = Len(x_ex) /\ Len(x_ex) \in 1..Len(x_ex)
        BY <2>3 DEF Quiet, XTypes
      <3>2. x_active[x_ex[Len(x_ex)].kind.class] = Len(x_ex) /\ Names(x_env, Len(x_ex))
        BY <1>0, <1>1, <2>3, <3>1 DEF LastMadeHasAll
      <3>3. Names(x_env, Len(x_ex))'
        BY <1>4, <3>1, <3>2 DEF Quiet, Names
      <3> QED
        BY <3>1, <3>2, <3>3 DEF Quiet
    <2> QED
      BY <2>1, <2>2, <2>3 DEF LastMadeHasAll
  <1>8. \A e \in 1..Len(x_ex) : MayRun(e) => MayRun(e)'
    BY <1>1 DEF MayRun, Quiet, Exposed
  <1>9. \A e \in 1..Len(x_ex) : Names(x_env, e) => Names(x_env, e)'
    BY <1>4 DEF Names, Quiet
  <1> QED
    BY <1>1, <1>2, <1>3, <1>6, <1>7, <1>8, <1>9

\* r differs from the executor x_cur only in what a run changes.
Alike(r) ==
    /\ r \in ExecutorRec
    /\ r.kind = x_ex[x_cur].kind /\ r.open = x_ex[x_cur].open /\ r.shm = x_ex[x_cur].shm
    /\ r.srv = x_ex[x_cur].srv /\ r.srv_env = x_ex[x_cur].srv_env

\* A step in the middle of a run.
RunFrame(r) ==
    /\ Alike(r) /\ Becomes(x_cur, r)
    /\ UNCHANGED <<x_todo, x_cur, x_env, x_next, x_active, x_sig, x_handler, x_file, x_tok>>
    /\ DOMAIN x_shm' = DOMAIN x_shm
    /\ x_pc \in RunPcs /\ x_pc' \in {"idle"} \cup RunPcs

LEMMA RunStep ==
    ASSUME ExecutorsInv, NEW r, RunFrame(r)
    PROVE  /\ PlanFollowed' /\ SegmentsOwned' /\ AllBuilt' /\ LastMadeHasAll'
           /\ x_ex' \in Seq(ExecutorRec) /\ Len(x_ex') = Len(x_ex) /\ x_cur \in 1..Len(x_ex)
           /\ x_ex'[x_cur] = r /\ \A e \in 1..Len(x_ex) : e # x_cur => x_ex'[e] = x_ex[e]
           /\ MayRun(x_cur) /\ MayRun(x_cur)' /\ x_file = x_tok
           /\ \A e \in 1..Len(x_ex) : e # x_cur => x_ex'[e].pipe = {}
           /\ Dropped' = Dropped /\ Len(x_ex) \in Nat
  <1>1. x_ex \in Seq(ExecutorRec) /\ x_cur \in 1..Len(x_ex) /\ Len(x_ex) \in Nat
    BY DEF ExecutorsInv, XTypes, RunFrame
  <1>2. /\ x_ex' \in Seq(ExecutorRec) /\ Len(x_ex') = Len(x_ex)
        /\ x_ex'[x_cur] = r /\ \A e \in 1..Len(x_ex) : e # x_cur => x_ex'[e] = x_ex[e]
    BY <1>1, OneExecutor DEF RunFrame, Alike
  <1>3. Quiet
    BY <1>1, <1>2 DEF Quiet, RunFrame, Alike
  <1>4. /\ Dropped' = Dropped /\ SameKinds /\ SegmentsOwned' /\ AllBuilt' /\ LastMadeHasAll'
        /\ \A e \in 1..Len(x_ex) : MayRun(e) => MayRun(e)'
    BY <1>3, QuietKeeps DEF ExecutorsInv, RunFrame
  <1>5. PlanFollowed'
    BY <1>4, PlanKept DEF ExecutorsInv, RunFrame
  <1>6. MayRun(x_cur) /\ x_file = x_tok
    BY DEF ExecutorsInv, RunRight, RunFrame
  <1>7. MayRun(x_cur)'
    <2>1. PICK c : c = x_cur
      OBVIOUS
    <2>2. x_cur' = c
      BY <2>1 DEF RunFrame
    <2>3. MayRun(c)'
      BY <1>1, <1>4, <1>6, <2>1
    <2> QED
      BY <2>2, <2>3 DEF MayRun
  <1>8. \A e \in 1..Len(x_ex) : e # x_cur => x_ex'[e].pipe = {}
    BY <1>2 DEF ExecutorsInv, RunRight
  <1> QED
    BY <1>1, <1>2, <1>4, <1>5, <1>6, <1>7, <1>8

\* RunRight after a step of the run, from what the step left of its executor.
PutRight(r) ==
    /\ r.out = {} /\ Names(x_put'.env, x_cur)
    /\ \A a \in Kind.maps \ {"path"} :
          x_shm'[x_ex[x_cur].shm[a]] = IF x_put'.worked THEN x_tok ELSE 0
    /\ ~x_put'.worked => r.offset = 0
    /\ r.pipe = IF x_put'.worked /\ Kind.record THEN {x_tok} ELSE {}
    /\ x_pc' = "arm" => ~Kind.forksrv
    /\ x_timer' => x_pc' = "wait" /\ ~Kind.forksrv /\ Kind.limit

LEMMA RunRightAgain ==
    ASSUME ExecutorsInv, NEW r, RunFrame(r), x_pc' \in PutPcs, PutRight(r)
    PROVE  RunRight'
  <1>1. /\ x_ex' \in Seq(ExecutorRec) /\ Len(x_ex') = Len(x_ex) /\ x_cur \in 1..Len(x_ex)
        /\ x_ex'[x_cur] = r /\ \A e \in 1..Len(x_ex) : e # x_cur => x_ex'[e] = x_ex[e]
        /\ MayRun(x_cur)' /\ x_file = x_tok
        /\ \A e \in 1..Len(x_ex) : e # x_cur => x_ex'[e].pipe = {}
    BY RunStep
  <1>2. /\ x_cur' = x_cur /\ x_file' = x_file /\ x_tok' = x_tok
        /\ r.kind = x_ex[x_cur].kind /\ r.shm = x_ex[x_cur].shm
    BY DEF RunFrame, Alike
  <1>3. Kind' = Kind /\ Kind = r.kind
    BY <1>1, <1>2 DEF Kind
  <1>4. Names(x_put.env, x_cur)'
    BY <1>1, <1>2 DEF Names, PutRight
  <1>5. x_pc' # "spawn" /\ x_pc' # "ran"
    BY DEF PutPcs
  <1>6. \A a \in Kind'.maps \ {"path"} :
           x_shm'[x_ex'[x_cur'].shm[a]] = IF x_put'.worked THEN x_tok' ELSE 0
    BY <1>1, <1>2, <1>3 DEF PutRight
  <1>7. \A e \in 1..Len(x_ex') : (e = x_cur' => x_pc' \notin PutPcs) => x_ex'[e].pipe = {}
    BY <1>1, <1>2
  <1> QED
    BY <1>1, <1>2, <1>3, <1>4, <1>5, <1>6, <1>7 DEF RunRight, PutRight

\* Typing after a step of the run.
LEMMA RunTypes ==
    ASSUME ExecutorsInv, NEW r, RunFrame(r), x_shm' \in [DOMAIN x_shm' -> Nat],
           x_put' \in PutRec, x_put'.st = "running" => x_pc' \in PutPcs, x_put'.st = "dead" => x_put'.end # "no"
    PROVE  XTypes'
  <1>1. x_ex' \in Seq(ExecutorRec) /\ Len(x_ex') = Len(x_ex) /\ x_cur \in 1..Len(x_ex)
    BY RunStep
  <1>2. x_pc' \in {"idle", "exited"} \cup MakePcs \cup RunPcs \cup DropPcs
    BY DEF RunFrame
  <1> QED
    BY <1>1, <1>2 DEF XTypes, RunFrame, ExecutorsInv

\* A step between the start of the PUT and its end.
PutStep(r) ==
    /\ RunFrame(r) /\ x_pc' \in PutPcs /\ PutRight(r)
    /\ x_shm' \in [DOMAIN x_shm' -> Nat] /\ x_put' \in PutRec
    /\ x_put'.st = "dead" => x_put'.end # "no"
    /\ UNCHANGED <<x_copies, x_err>>

LEMMA PutStepKeeps ==
    ASSUME ExecutorsInv, NEW r, PutStep(r)
    PROVE  ExecutorsInv'
  <1>1. RunFrame(r) /\ x_pc' \in PutPcs
    BY DEF PutStep
  <1>2. /\ PlanFollowed' /\ SegmentsOwned' /\ AllBuilt' /\ LastMadeHasAll' /\ MayRun(x_cur)
    BY <1>1, RunStep
  <1>3. XTypes'
    BY <1>1, RunTypes DEF PutStep
  <1>4. RunRight'
    BY RunRightAgain DEF PutStep
  <1>5. FeedbackOfItsRun' /\ OutputOfItsRun' /\ x_err' # "shm"
    BY DEF ExecutorsInv, FeedbackOfItsRun, OutputOfItsRun, PutStep, PutPcs
  <1> QED
    BY <1>2, <1>3, <1>4, <1>5 DEF ExecutorsInv

\* The executor that runs.
LEMMA Runner ==
    ASSUME ExecutorsInv, x_pc \in RunPcs
    PROVE  /\ x_ex \in Seq(ExecutorRec) /\ x_cur \in 1..Len(x_ex) /\ x_ex[x_cur] \in ExecutorRec
           /\ x_put \in PutRec /\ x_shm \in [DOMAIN x_shm -> Nat] /\ x_tok \in Nat /\ x_file = x_tok
           /\ x_put.st = "dead" => x_put.end # "no"
           /\ MayRun(x_cur) /\ Built(x_cur) /\ Kind \in Kinds
           /\ \A a \in Kind.maps : x_ex[x_cur].shm[a] \in DOMAIN x_shm
  <1>1. x_ex \in Seq(ExecutorRec) /\ x_cur \in 1..Len(x_ex)
    BY DEF ExecutorsInv, XTypes
  <1>2. x_ex[x_cur] \in ExecutorRec
    BY <1>1
  <1>3. MayRun(x_cur) /\ x_file = x_tok
    BY DEF ExecutorsInv, RunRight
  <1>4. Built(x_cur)
    <2>1. x_pc \notin MakePcs \cup {"exited"}
      BY DEF MakePcs, RunPcs, PutPcs
    <2> QED
      BY <1>3, <2>1 DEF ExecutorsInv, AllBuilt, MayRun
  <1>5. Kind \in Kinds
    BY <1>2 DEF Kind, ExecutorRec
  <1>6. ASSUME NEW a \in Kind.maps PROVE x_ex[x_cur].shm[a] \in DOMAIN x_shm
    <2>1. a \in Attachers
      BY <1>5, KindFacts
    <2>2. x_ex[x_cur].shm[a] # 0
      BY <1>4 DEF Built, Kind
    <2> QED
      BY <1>1, <2>1, <2>2 DEF ExecutorsInv, SegmentsOwned
  <1>7. x_put \in PutRec /\ x_shm \in [DOMAIN x_shm -> Nat] /\ x_tok \in Nat /\ (x_put.st = "dead" => x_put.end # "no")
    BY DEF ExecutorsInv, XTypes
  <1> QED
    BY <1>1, <1>2, <1>3, <1>4, <1>5, <1>6, <1>7

\* r and the PUT are as far as they were.
SamePut(r) ==
    /\ r.out = x_ex[x_cur].out /\ r.pipe = x_ex[x_cur].pipe /\ r.offset = x_ex[x_cur].offset
    /\ x_put'.env = x_put.env /\ x_put'.worked = x_put.worked /\ x_shm' = x_shm
    /\ x_pc' = "arm" => x_pc = "arm"
    /\ x_timer' => x_pc' = "wait" /\ ~Kind.forksrv /\ Kind.limit

LEMMA PutUnmoved ==
    ASSUME ExecutorsInv, x_pc \in PutPcs, NEW r, SamePut(r)
    PROVE  PutRight(r)
  BY DEF ExecutorsInv, RunRight, PutRight, SamePut

LEMMA ForkPutKeeps ==
    ASSUME ExecutorsInv, ForkPut
    PROVE  ExecutorsInv'
  <1> DEFINE r == [x_ex[x_cur] EXCEPT !.child = 1]
  <1>1. /\ x_pc = "spawn" /\ x_pc' = "arm" /\ x_put' = NewPut(x_env)
        /\ UNCHANGED <<x_todo, x_cur, x_env, x_shm, x_next, x_active, x_sig, x_handler, x_timer, x_file,
                   x_tok, x_copies, x_err>> /\ ~Kind.forksrv
    BY DEF ForkPut
  <1>2. x_ex \in Seq(ExecutorRec) /\ x_cur \in 1..Len(x_ex) /\ x_ex[x_cur] \in ExecutorRec /\ MayRun(x_cur)
    BY <1>1, Runner DEF RunPcs
  <1>3. r \in ExecutorRec
    BY <1>2 DEF ExecutorRec
  <1>4. Alike(r) /\ r.out = x_ex[x_cur].out /\ r.pipe = x_ex[x_cur].pipe /\ r.offset = x_ex[x_cur].offset
    BY <1>2, <1>3 DEF Alike, ExecutorRec
  <1>5. Becomes(x_cur, r)
    BY <1>2 DEF ForkPut, Becomes
  <1>6. RunFrame(r)
    BY <1>1, <1>4, <1>5 DEF RunFrame, RunPcs, PutPcs
  <1> HIDE DEF r
  <1>7. /\ x_put'.st = "running" /\ x_put'.env = x_env /\ x_put'.worked = FALSE /\ x_put' \in PutRec
    BY <1>1 DEF NewPut, ExecutorsInv, XTypes, PutRec
  <1>8. Names(x_env, x_cur)
    <2>1. CASE Exposed(Kind)
      <3>1. x_cur = Len(x_ex) /\ x_cur \notin Dropped
        BY <1>2, <2>1 DEF MayRun, Kind
      <3> QED
        BY <1>1, <1>2, <3>1 DEF ExecutorsInv, LastMadeHasAll
    <2>2. CASE ~Exposed(Kind)
      BY <1>1, <2>2 DEF Exposed, Names, Kind
    <2> QED
      BY <2>1, <2>2
  <1>9. /\ x_ex[x_cur].out = {} /\ x_ex[x_cur].offset = 0 /\ x_ex[x_cur].pipe = {}
        /\ \A a \in Kind.maps : x_shm[x_ex[x_cur].shm[a]] = 0
        /\ ~x_timer
    BY <1>1, <1>2 DEF ExecutorsInv, RunRight, PutPcs
  <1>10. PutRight(r)
    BY <1>1, <1>4, <1>7, <1>8, <1>9 DEF PutRight
  <1>11. PutStep(r)
    BY <1>1, <1>6, <1>7, <1>10 DEF PutStep, PutPcs, ExecutorsInv, XTypes
  <1> QED
    BY <1>11, PutStepKeeps

LEMMA RequestPutKeeps ==
    ASSUME ExecutorsInv, RequestPut
    PROVE  ExecutorsInv'
  <1> DEFINE r == x_ex[x_cur]
  <1>1. /\ x_pc = "spawn" /\ x_pc' = "poll" /\ x_put' = NewPut(x_ex[x_cur].srv_env)
        /\ UNCHANGED <<x_todo, x_cur, x_ex, x_env, x_shm, x_next, x_active, x_sig, x_handler, x_timer,
                       x_file, x_tok, x_copies, x_err>> /\ Kind.forksrv
    BY DEF RequestPut
  <1>2. x_ex \in Seq(ExecutorRec) /\ x_cur \in 1..Len(x_ex) /\ x_ex[x_cur] \in ExecutorRec /\ Built(x_cur)
    BY <1>1, Runner DEF RunPcs
  <1>3. Alike(r)
    BY <1>2 DEF Alike
  <1>4. Becomes(x_cur, r)
    BY <1>1, <1>2 DEF Becomes
  <1>5. RunFrame(r)
    BY <1>1, <1>3, <1>4 DEF RunFrame, RunPcs, PutPcs
  <1>6. x_put'.st = "running" /\ x_put'.env = r.srv_env /\ x_put'.worked = FALSE /\ x_put' \in PutRec
    BY <1>1, <1>2 DEF NewPut, ExecutorRec, PutRec
  <1>7. Names(r.srv_env, x_cur)
    BY <1>1, <1>2 DEF Built, Kind
  <1>8. /\ r.out = {} /\ r.offset = 0 /\ r.pipe = {}
        /\ \A a \in Kind.maps : x_shm[r.shm[a]] = 0
        /\ ~x_timer
    BY <1>1, <1>2 DEF ExecutorsInv, RunRight, PutPcs
  <1>9. PutRight(r)
    BY <1>1, <1>6, <1>7, <1>8 DEF PutRight
  <1>10. PutStep(r)
    BY <1>1, <1>5, <1>6, <1>9 DEF PutStep, PutPcs, ExecutorsInv, XTypes
  <1> QED
    BY <1>10, PutStepKeeps

\* The PUT writes to every map of its executor but the path map, and reads what was written
\* for this run.
LEMMA PutWorksKeeps ==
    ASSUME ExecutorsInv, PutWorks
    PROVE  ExecutorsInv'
  <1>1. /\ x_put.st = "running" /\ ~x_put.worked /\ x_pc \in PutPcs /\ x_pc \in RunPcs
        /\ x_put' = [x_put EXCEPT !.worked = TRUE]
        /\ UNCHANGED <<x_todo, x_pc, x_cur, x_env, x_next, x_active, x_sig, x_handler, x_timer, x_file,
                       x_tok, x_copies, x_err>>
    BY DEF PutWorks, ExecutorsInv, XTypes, RunPcs
  <1>2. /\ x_ex \in Seq(ExecutorRec) /\ x_cur \in 1..Len(x_ex) /\ x_ex[x_cur] \in ExecutorRec
        /\ x_put \in PutRec /\ x_shm \in [DOMAIN x_shm -> Nat] /\ x_tok \in Nat /\ x_file = x_tok
        /\ Kind \in Kinds /\ \A a \in Kind.maps : x_ex[x_cur].shm[a] \in DOMAIN x_shm
    BY <1>1, Runner
  <1>3. /\ Names(x_put.env, x_cur) /\ x_ex[x_cur].offset = 0 /\ x_ex[x_cur].pipe = {} /\ x_ex[x_cur].out = {}
        /\ x_pc = "arm" => ~Kind.forksrv
        /\ x_timer => x_pc = "wait" /\ ~Kind.forksrv /\ Kind.limit
    BY <1>1 DEF ExecutorsInv, RunRight
  <1> DEFINE r == [x_ex[x_cur] EXCEPT !.offset = 1,
                                      !.pipe = IF Kind.record THEN @ \cup {x_tok} ELSE @]
  <1>4. x_shm' = [s \in DOMAIN x_shm |-> IF \E v \in EnvVars : x_put.env[v] = s THEN x_tok ELSE x_shm[s]]
    BY <1>2, <1>3 DEF PutWorks
  <1>5. Becomes(x_cur, r)
    BY <1>2, <1>3 DEF PutWorks, Becomes
  <1>6. r \in ExecutorRec /\ r.out = {} /\ r.pipe = IF Kind.record THEN {x_tok} ELSE {}
    BY <1>2, <1>3 DEF ExecutorRec
  <1>7. Alike(r)
    BY <1>2, <1>6 DEF Alike, ExecutorRec
  <1> HIDE DEF r
  <1>8. x_shm' \in [DOMAIN x_shm' -> Nat] /\ DOMAIN x_shm' = DOMAIN x_shm
    BY <1>2, <1>4
  <1>9. RunFrame(r)
    BY <1>1, <1>5, <1>7, <1>8 DEF RunFrame
  <1>10. x_put' \in PutRec /\ x_put'.worked /\ x_put'.env = x_put.env /\ x_put'.st = "running"
    BY <1>1, <1>2 DEF PutRec
  <1>11. ASSUME NEW a \in Kind.maps \ {"path"} PROVE x_shm'[x_ex[x_cur].shm[a]] = x_tok
    <2>1. x_put.env[SHM_ENV_VAR(a)] = x_ex[x_cur].shm[a]
      BY <1>3 DEF Names, Kind
    <2>2. SHM_ENV_VAR(a) \in EnvVars
      <3>1. a \in {"edge", "bb", "fav"}
        BY <1>2, KindFacts DEF Attachers
      <3> QED
        BY <3>1 DEF SHM_ENV_VAR, EnvVars
    <2> QED
      BY <1>2, <1>4, <2>1, <2>2
  <1>12. PutRight(r)
    BY <1>1, <1>3, <1>6, <1>10, <1>11 DEF PutRight
  <1>13. PutStep(r)
    BY <1>1, <1>8, <1>9, <1>10, <1>12 DEF PutStep
  <1> QED
    BY <1>13, PutStepKeeps

LEMMA PutExitsKeeps ==
    ASSUME ExecutorsInv, PutExits
    PROVE  ExecutorsInv'
  <1> DEFINE r == x_ex[x_cur]
  <1>1. /\ x_put.st = "running" /\ x_pc \in PutPcs /\ x_pc \in RunPcs
        /\ UNCHANGED <<x_todo, x_pc, x_cur, x_ex, x_env, x_shm, x_next, x_active, x_sig, x_handler,
                       x_timer, x_file, x_tok, x_copies, x_err>>
    BY DEF PutExits, ExecutorsInv, XTypes, RunPcs
  <1>2. /\ x_ex \in Seq(ExecutorRec) /\ x_cur \in 1..Len(x_ex) /\ x_ex[x_cur] \in ExecutorRec
        /\ x_put \in PutRec /\ x_shm \in [DOMAIN x_shm -> Nat]
    BY <1>1, Runner
  <1>3. PICK how \in {"exit", "signal"} : x_put' = [x_put EXCEPT !.st = "dead", !.end = how]
    BY DEF PutExits
  <1>4. Alike(r)
    BY <1>2 DEF Alike
  <1>5. Becomes(x_cur, r)
    BY <1>1, <1>2 DEF Becomes
  <1>6. RunFrame(r)
    BY <1>1, <1>4, <1>5 DEF RunFrame
  <1>7. /\ x_put' \in PutRec /\ x_put'.worked = x_put.worked /\ x_put'.env = x_put.env
        /\ x_put'.st = "dead" /\ x_put'.end # "no"
    BY <1>2, <1>3 DEF PutRec
  <1>8. x_timer => x_pc = "wait" /\ ~Kind.forksrv /\ Kind.limit
    BY DEF ExecutorsInv, RunRight
  <1>9. SamePut(r)
    BY <1>1, <1>7, <1>8 DEF SamePut
  <1>10. PutStep(r)
    BY <1>1, <1>2, <1>6, <1>7, <1>9, PutUnmoved DEF PutStep
  <1> QED
    BY <1>10, PutStepKeeps

LEMMA ArmTimerKeeps ==
    ASSUME ExecutorsInv, ArmTimer
    PROVE  ExecutorsInv'
  <1> DEFINE r == [x_ex[x_cur] EXCEPT !.timed_out = FALSE]
  <1>1. /\ x_pc = "arm" /\ x_pc' = "wait" /\ x_timer' = Kind.limit /\ x_pc \in PutPcs /\ x_pc \in RunPcs
        /\ UNCHANGED <<x_todo, x_cur, x_env, x_shm, x_next, x_active, x_sig, x_handler, x_put, x_file,
                       x_tok, x_copies, x_err>>
    BY DEF ArmTimer, PutPcs, RunPcs
  <1>2. /\ x_ex \in Seq(ExecutorRec) /\ x_cur \in 1..Len(x_ex) /\ x_ex[x_cur] \in ExecutorRec
        /\ x_put \in PutRec /\ x_shm \in [DOMAIN x_shm -> Nat] /\ (x_put.st = "dead" => x_put.end # "no")
    BY <1>1, Runner
  <1>3. r \in ExecutorRec
    BY <1>2 DEF ExecutorRec
  <1>4. Alike(r) /\ r.out = x_ex[x_cur].out /\ r.pipe = x_ex[x_cur].pipe /\ r.offset = x_ex[x_cur].offset
    BY <1>2, <1>3 DEF Alike, ExecutorRec
  <1>5. Becomes(x_cur, r)
    BY <1>2 DEF ArmTimer, Becomes
  <1> HIDE DEF r
  <1>6. RunFrame(r)
    BY <1>1, <1>4, <1>5 DEF RunFrame, RunPcs, PutPcs
  <1>7. ~Kind.forksrv
    BY <1>1 DEF ExecutorsInv, RunRight
  <1>8. SamePut(r)
    BY <1>1, <1>4, <1>7 DEF SamePut
  <1>9. PutStep(r)
    BY <1>1, <1>2, <1>6, <1>8, PutUnmoved DEF PutStep, PutPcs
  <1> QED
    BY <1>9, PutStepKeeps

LEMMA PollEndsKeeps ==
    ASSUME ExecutorsInv, PollEnds
    PROVE  ExecutorsInv'
  <1>1. /\ x_pc = "poll" /\ x_pc' = "wait" /\ x_pc \in PutPcs /\ x_pc \in RunPcs
        /\ UNCHANGED <<x_todo, x_cur, x_env, x_shm, x_next, x_active, x_sig, x_handler, x_timer, x_file,
                       x_tok, x_copies, x_err>>
    BY DEF PollEnds, PutPcs, RunPcs
  <1>2. /\ x_ex \in Seq(ExecutorRec) /\ x_cur \in 1..Len(x_ex) /\ x_ex[x_cur] \in ExecutorRec
        /\ x_put \in PutRec /\ x_shm \in [DOMAIN x_shm -> Nat] /\ (x_put.st = "dead" => x_put.end # "no")
    BY <1>1, Runner
  <1>3. PICK late \in BOOLEAN :
         /\ x_ex' = [x_ex EXCEPT ![x_cur].child = IF late THEN -1 ELSE 1,
                                 ![x_cur].timed_out = late \/ @]
         /\ x_put' = IF late /\ x_put.st = "running"
                       THEN [x_put EXCEPT !.st = "dead", !.end = "kill"] ELSE x_put
    BY DEF PollEnds
  <1> DEFINE r == [x_ex[x_cur] EXCEPT !.child = IF late THEN -1 ELSE 1, !.timed_out = late \/ @]
  <1>4. r \in ExecutorRec
    BY <1>2 DEF ExecutorRec
  <1>5. Alike(r) /\ r.out = x_ex[x_cur].out /\ r.pipe = x_ex[x_cur].pipe /\ r.offset = x_ex[x_cur].offset
    BY <1>2, <1>4 DEF Alike, ExecutorRec
  <1>6. Becomes(x_cur, r)
    BY <1>2, <1>3 DEF Becomes
  <1> HIDE DEF r
  <1>7. RunFrame(r)
    BY <1>1, <1>5, <1>6 DEF RunFrame, RunPcs, PutPcs
  <1>8. /\ x_put' \in PutRec /\ x_put'.worked = x_put.worked /\ x_put'.env = x_put.env
        /\ (x_put'.st = "dead" => x_put'.end # "no")
    BY <1>2, <1>3 DEF PutRec
  <1>9. ~x_timer'
    BY <1>1 DEF ExecutorsInv, RunRight
  <1>10. SamePut(r)
    BY <1>1, <1>5, <1>8, <1>9 DEF SamePut
  <1>11. PutStep(r)
    BY <1>1, <1>2, <1>7, <1>8, <1>10, PutUnmoved DEF PutStep, PutPcs
  <1> QED
    BY <1>11, PutStepKeeps

\* KillChildWithoutWait of the executor that runs.
LEMMA KilledKeeps ==
    ASSUME ExecutorsInv, x_pc \in PutPcs, NEW timed_out \in BOOLEAN, Killed(x_cur, timed_out),
           x_timer' => x_timer,
           UNCHANGED <<x_todo, x_pc, x_cur, x_env, x_shm, x_next, x_active, x_sig, x_handler,
                       x_file, x_tok, x_copies, x_err>>
    PROVE  ExecutorsInv'
  <1>1. x_pc \in RunPcs
    BY DEF RunPcs
  <1>2. /\ x_ex \in Seq(ExecutorRec) /\ x_cur \in 1..Len(x_ex) /\ x_ex[x_cur] \in ExecutorRec
        /\ x_put \in PutRec /\ x_shm \in [DOMAIN x_shm -> Nat] /\ (x_put.st = "dead" => x_put.end # "no")
    BY <1>1, Runner
  <1> DEFINE r == [x_ex[x_cur] EXCEPT !.child = IF @ > 0 THEN -1 ELSE @, !.timed_out = timed_out \/ @]
  <1>4. r \in ExecutorRec
    BY <1>2 DEF ExecutorRec
  <1>5. Alike(r) /\ r.out = x_ex[x_cur].out /\ r.pipe = x_ex[x_cur].pipe /\ r.offset = x_ex[x_cur].offset
    BY <1>2, <1>4 DEF Alike, ExecutorRec
  <1>6. Becomes(x_cur, r)
    BY <1>2 DEF Becomes, Killed
  <1> HIDE DEF r
  <1>7. RunFrame(r)
    BY <1>1, <1>5, <1>6 DEF RunFrame
  <1>8. /\ x_put' \in PutRec /\ x_put'.worked = x_put.worked /\ x_put'.env = x_put.env
        /\ (x_put'.st = "dead" => x_put'.end # "no")
    BY <1>2 DEF PutRec, Killed
  <1>9. x_timer => x_pc = "wait" /\ ~Kind.forksrv /\ Kind.limit
    BY DEF ExecutorsInv, RunRight
  <1>10. SamePut(r)
    BY <1>1, <1>5, <1>8, <1>9 DEF SamePut
  <1>11. PutStep(r)
    BY <1>1, <1>2, <1>7, <1>8, <1>10, PutUnmoved DEF PutStep
  <1> QED
    BY <1>11, PutStepKeeps

\* The timer is that of the executor that runs, and its handler finds this executor.
LEMMA AlarmFinds ==
    ASSUME ExecutorsInv
    PROVE  AlarmHitsRunner
  <1> SUFFICES ASSUME x_timer PROVE x_handler = Kind.class /\ x_active[x_handler] = x_cur
    BY DEF AlarmHitsRunner
  <1>1. x_pc = "wait" /\ ~Kind.forksrv /\ Kind.limit /\ x_pc \in RunPcs
    BY DEF ExecutorsInv, RunRight, RunPcs, PutPcs
  <1>2. MayRun(x_cur) /\ x_cur \in 1..Len(x_ex)
    BY <1>1, Runner
  <1>3. Exposed(x_ex[x_cur].kind)
    BY <1>1 DEF Exposed, Kind
  <1>4. /\ x_cur = Len(x_ex) /\ x_cur \notin Dropped
        /\ \A f \in 1..Len(x_ex) : x_ex[f].kind.class = x_ex[x_cur].kind.class
    BY <1>2, <1>3 DEF MayRun
  <1>5. x_handler = x_ex[x_cur].kind.class
    BY <1>2, <1>4 DEF ExecutorsInv, LastMadeHasAll
  <1>6. x_active[x_ex[x_cur].kind.class] = x_cur
    BY <1>2, <1>4 DEF ExecutorsInv, LastMadeHasAll
  <1> QED
    BY <1>5, <1>6 DEF Kind

LEMMA AlarmRingsKeeps ==
    ASSUME ExecutorsInv, AlarmRings
    PROVE  ExecutorsInv'
  <1>1. x_timer /\ x_active[x_handler] = x_cur
    BY AlarmFinds DEF AlarmRings, AlarmHitsRunner
  <1>2. x_pc \in PutPcs /\ x_pc \in RunPcs
    BY <1>1 DEF ExecutorsInv, RunRight, PutPcs, RunPcs
  <1>3. x_cur # 0
    BY <1>2, Runner
  <1>4. /\ Killed(x_cur, TRUE) /\ ~x_timer'
        /\ UNCHANGED <<x_todo, x_pc, x_cur, x_env, x_shm, x_next, x_active, x_sig, x_handler,
                       x_file, x_tok, x_copies, x_err>>
    BY <1>1, <1>3 DEF AlarmRings
  <1>5. PICK b \in BOOLEAN : b = TRUE
    OBVIOUS
  <1> QED
    BY <1>2, <1>4, <1>5, KilledKeeps

LEMMA StopArrivesKeeps ==
    ASSUME ExecutorsInv, StopArrives
    PROVE  ExecutorsInv'
  <1>1. /\ x_pc \in PutPcs /\ Killed(x_cur, FALSE)
        /\ UNCHANGED <<x_todo, x_pc, x_cur, x_env, x_shm, x_next, x_active, x_sig, x_handler, x_timer,
                       x_file, x_tok, x_copies, x_err>>
    BY DEF StopArrives, PutPcs
  <1>2. PICK b \in BOOLEAN : b = FALSE
    OBVIOUS
  <1> QED
    BY <1>1, <1>2, KilledKeeps

LEMMA RunEndsKeeps ==
    ASSUME ExecutorsInv, RunEnds
    PROVE  ExecutorsInv'
  <1>1. /\ x_pc = "wait" /\ x_pc' = "ran" /\ x_put.st = "dead" /\ ~x_timer' /\ x_pc \in PutPcs /\ x_pc \in RunPcs
        /\ x_put' = [x_put EXCEPT !.st = "none"]
        /\ UNCHANGED <<x_todo, x_cur, x_env, x_shm, x_next, x_active, x_sig, x_handler, x_file, x_tok,
                       x_copies, x_err>>
    BY DEF RunEnds, PutPcs, RunPcs
  <1>2. /\ x_ex \in Seq(ExecutorRec) /\ x_cur \in 1..Len(x_ex) /\ x_ex[x_cur] \in ExecutorRec
        /\ x_put \in PutRec /\ x_shm \in [DOMAIN x_shm -> Nat] /\ x_put.end # "no"
    BY <1>1, Runner
  <1> DEFINE r == [x_ex[x_cur] EXCEPT !.child = 0, !.reason = Reason(x_cur),
                                      !.out = @ \cup x_ex[x_cur].pipe, !.pipe = {}]
  <1>3. Reason(x_cur) \in {"none", "FAULT_TMOUT", "FAULT_CRASH", "FAULT_NONE"}
    <2>1. x_put.end \in {"kill", "signal", "exit"}
      BY <1>2 DEF PutRec
    <2> QED
      BY <2>1 DEF Reason
  <1>4. r \in ExecutorRec /\ r.pipe = {} /\ r.out = x_ex[x_cur].out \cup x_ex[x_cur].pipe
    BY <1>2, <1>3 DEF ExecutorRec
  <1>5. Alike(r)
    BY <1>2, <1>4 DEF Alike, ExecutorRec
  <1>6. Becomes(x_cur, r)
    BY <1>2 DEF Becomes, RunEnds
  <1> HIDE DEF r
  <1>7. RunFrame(r)
    BY <1>1, <1>5, <1>6 DEF RunFrame, RunPcs
  <1>8. /\ PlanFollowed' /\ SegmentsOwned' /\ AllBuilt' /\ LastMadeHasAll' /\ MayRun(x_cur)'
        /\ Len(x_ex') = Len(x_ex) /\ x_ex'[x_cur] = r /\ x_file = x_tok
        /\ \A e \in 1..Len(x_ex) : e # x_cur => x_ex'[e].pipe = {}
    BY <1>7, RunStep
  <1>9. /\ x_put' \in PutRec /\ x_put'.worked = x_put.worked /\ x_put'.env = x_put.env /\ x_put'.st = "none"
    BY <1>1, <1>2 DEF PutRec
  <1>10. XTypes'
    BY <1>1, <1>2, <1>7, <1>9, RunTypes
  <1>11. /\ Names(x_put.env, x_cur) /\ x_ex[x_cur].out = {}
         /\ x_ex[x_cur].pipe = IF x_put.worked /\ Kind.record THEN {x_tok} ELSE {}
         /\ \A a \in Kind.maps \ {"path"} :
                x_shm[x_ex[x_cur].shm[a]] = IF x_put.worked THEN x_tok ELSE 0
    BY <1>1 DEF ExecutorsInv, RunRight
  <1>12. Kind' = Kind /\ r.kind = Kind /\ r.shm = x_ex[x_cur].shm
    BY <1>1, <1>5, <1>8 DEF Kind, Alike
  <1>13. RunRight'
    <2>1. Names(x_put.env, x_cur)'
      BY <1>1, <1>8, <1>9, <1>11, <1>12 DEF Names, Kind
    <2>2. \A a \in Kind'.maps \ {"path"} :
             x_shm'[x_ex'[x_cur'].shm[a]] = IF x_put'.worked THEN x_tok' ELSE 0
      BY <1>1, <1>8, <1>9, <1>11, <1>12
    <2>3. \A e \in 1..Len(x_ex') : x_ex'[e].pipe = {}
      BY <1>4, <1>8
    <2> QED
      BY <1>1, <1>8, <2>1, <2>2, <2>3 DEF RunRight, PutPcs
  <1>14. OutputOfItsRun'
    <2>1. Kind.record => r.out = IF x_put.worked THEN {x_tok} ELSE {}
      BY <1>4, <1>11
    <2> QED
      BY <1>1, <1>8, <1>9, <1>12, <2>1 DEF OutputOfItsRun
  <1>15. FeedbackOfItsRun' /\ x_err' # "shm"
    BY <1>1 DEF ExecutorsInv, FeedbackOfItsRun
  <1> QED
    BY <1>8, <1>10, <1>13, <1>14, <1>15 DEF ExecutorsInv

LEMMA ConvertKeeps ==
    ASSUME ExecutorsInv, ConvertToPersistent
    PROVE  ExecutorsInv'
  <1> DEFINE r == x_ex[x_cur]
  <1>1. /\ x_pc = "ran" /\ x_pc' = "idle" /\ x_pc \in RunPcs
        /\ UNCHANGED <<x_todo, x_cur, x_ex, x_env, x_shm, x_next, x_active, x_sig, x_handler, x_timer,
                       x_put, x_file, x_tok, x_err>>
    BY DEF ConvertToPersistent, RunPcs
  <1>2. /\ x_ex \in Seq(ExecutorRec) /\ x_cur \in 1..Len(x_ex) /\ x_ex[x_cur] \in ExecutorRec
        /\ x_put \in PutRec /\ x_shm \in [DOMAIN x_shm -> Nat] /\ (x_put.st = "dead" => x_put.end # "no")
    BY <1>1, Runner
  <1>3. Alike(r)
    BY <1>2 DEF Alike
  <1>4. Becomes(x_cur, r)
    BY <1>1, <1>2 DEF Becomes
  <1>5. RunFrame(r)
    BY <1>1, <1>3, <1>4 DEF RunFrame
  <1>6. PlanFollowed' /\ SegmentsOwned' /\ AllBuilt' /\ LastMadeHasAll'
    BY <1>5, RunStep
  <1>7. x_put.st # "running"
    BY <1>1 DEF ExecutorsInv, XTypes, PutPcs
  <1>8. XTypes'
    BY <1>1, <1>2, <1>5, <1>7, RunTypes
  <1>9. RunRight'
    BY <1>1, <1>2 DEF ExecutorsInv, RunRight, RunPcs, PutPcs
  <1>10. FeedbackOfItsRun'
    <2>1. \A a \in Kind.maps \ {"path"} :
             x_shm[x_ex[x_cur].shm[a]] = IF x_put.worked THEN x_tok ELSE 0
      BY <1>1 DEF ExecutorsInv, RunRight
    <2>2. ASSUME NEW c \in x_copies', c.map # "path"
          PROVE  c.content = IF c.worked THEN c.run ELSE 0
      <3>1. CASE c \in x_copies
        BY <2>2, <3>1 DEF ExecutorsInv, FeedbackOfItsRun
      <3>2. CASE c \notin x_copies
        <4>1. PICK a \in Kind.maps :
                 c = [run |-> x_tok, worked |-> x_put.worked, map |-> a,
                      content |-> x_shm[x_ex[x_cur].shm[a]]]
          BY <2>2, <3>2 DEF ConvertToPersistent
        <4>2. c.map = a /\ c.run = x_tok /\ c.worked = x_put.worked /\ c.content = x_shm[x_ex[x_cur].shm[a]]
          BY <4>1
        <4> QED
          BY <2>1, <2>2, <4>2
      <3> QED
        BY <3>1, <3>2
    <2> QED
      BY <2>2 DEF FeedbackOfItsRun
  <1>11. OutputOfItsRun' /\ x_err' # "shm"
    BY <1>1 DEF ExecutorsInv, OutputOfItsRun
  <1> QED
    BY <1>6, <1>8, <1>9, <1>10, <1>11 DEF ExecutorsInv

LEMMA RunBeginsKeeps ==
    ASSUME ExecutorsInv, RunBegins
    PROVE  ExecutorsInv'
  <1>1. PICK c : c = Head(x_todo)[2]
    OBVIOUS
  <1>2. /\ x_pc = "idle" /\ x_pc' = "spawn" /\ x_todo # <<>> /\ Head(x_todo)[1] = "run" /\ x_cur' = c
        /\ x_todo' = Tail(x_todo) /\ x_tok' = x_tok + 1 /\ x_file' = x_tok + 1
        /\ UNCHANGED <<x_env, x_next, x_active, x_sig, x_handler, x_timer, x_put, x_copies, x_err>>
    BY <1>1 DEF RunBegins
  <1>3. MayRun(c)
    BY <1>1, <1>2, RunPlanned DEF ExecutorsInv
  <1>4. /\ x_ex \in Seq(ExecutorRec) /\ c \in 1..Len(x_ex) /\ c \notin Dropped
        /\ x_shm \in [DOMAIN x_shm -> Nat] /\ x_tok \in Nat
    BY <1>3 DEF ExecutorsInv, XTypes, MayRun
  <1>5. x_ex[c] \in ExecutorRec
    BY <1>4
  <1> DEFINE r == [x_ex[c] EXCEPT !.out = {}, !.offset = 0]
  <1>6. r \in ExecutorRec /\ r.out = {} /\ r.offset = 0 /\ r.pipe = x_ex[c].pipe
    BY <1>5 DEF ExecutorRec
  <1>7. /\ r.kind = x_ex[c].kind /\ r.open = x_ex[c].open /\ r.shm = x_ex[c].shm
        /\ r.srv = x_ex[c].srv /\ r.srv_env = x_ex[c].srv_env
    BY <1>5 DEF ExecutorRec
  <1>8. Becomes(c, r)
    BY <1>2, <1>4 DEF RunBegins, Becomes
  <1> HIDE DEF r
  <1>9. /\ x_ex' \in Seq(ExecutorRec) /\ Len(x_ex') = Len(x_ex)
        /\ x_ex'[c] = r /\ \A e \in 1..Len(x_ex) : e # c => x_ex'[e] = x_ex[e]
    BY <1>4, <1>6, <1>8, OneExecutor
  <1>10. x_shm' = [s \in DOMAIN x_shm |-> IF \E a \in Attachers : x_ex[c].shm[a] = s THEN 0 ELSE x_shm[s]]
    BY <1>2 DEF RunBegins, ShmReset
  <1>11. Quiet
    BY <1>2, <1>4, <1>7, <1>9, <1>10 DEF Quiet
  <1>12. /\ Dropped' = Dropped /\ SameKinds /\ SegmentsOwned' /\ AllBuilt' /\ LastMadeHasAll'
         /\ MayRun(c)'
    BY <1>2, <1>3, <1>4, <1>11, QuietKeeps DEF ExecutorsInv, RunPcs
  <1>13. PlanFollowed'
    BY <1>2, <1>12, PlanAdvances DEF ExecutorsInv
  <1>14. XTypes'
    <2>1. x_shm' \in [DOMAIN x_shm' -> Nat]
      BY <1>4, <1>10
    <2>2. x_put.st # "running"
      BY <1>2 DEF ExecutorsInv, XTypes, PutPcs
    <2> QED
      BY <1>2, <1>4, <1>9, <2>1, <2>2 DEF ExecutorsInv, XTypes, RunPcs
  <1>15. RunRight'
    <2>1. \A e \in 1..Len(x_ex') : x_ex'[e].pipe = {}
      BY <1>2, <1>4, <1>6, <1>9 DEF ExecutorsInv, RunRight, PutPcs
    <2>2. x_ex[c].kind \in Kinds
      BY <1>5 DEF ExecutorRec
    <2>3. Kind' = x_ex[c].kind
      BY <1>2, <1>7, <1>9 DEF Kind
    <2>4. Built(c)
      BY <1>2, <1>4 DEF ExecutorsInv, AllBuilt, MakePcs
    <2>5. ASSUME NEW a \in Kind'.maps PROVE x_shm'[x_ex'[x_cur'].shm[a]] = 0
      <3>1. a \in Attachers /\ x_ex[c].shm[a] # 0
        BY <2>2, <2>3, <2>4, KindFacts DEF Built
      <3>2. x_ex[c].shm[a] \in DOMAIN x_shm
        BY <1>4, <3>1 DEF ExecutorsInv, SegmentsOwned
      <3> QED
        BY <1>2, <1>7, <1>9, <1>10, <3>1, <3>2
    <2>6. ~x_timer
      BY <1>2 DEF ExecutorsInv, RunRight
    <2>7. MayRun(x_cur)'
      BY <1>2, <1>12 DEF MayRun
    <2> QED
      BY <1>2, <1>6, <1>9, <2>1, <2>5, <2>6, <2>7 DEF RunRight, PutPcs
  <1>16. FeedbackOfItsRun' /\ OutputOfItsRun' /\ x_err' # "shm"
    BY <1>2 DEF ExecutorsInv, FeedbackOfItsRun, OutputOfItsRun
  <1> QED
    BY <1>12, <1>13, <1>14, <1>15, <1>16 DEF ExecutorsInv

-----------------------------------------------------------------------------
(* Construction.                                                            *)

LEMMA InitilizeKeeps ==
    ASSUME ExecutorsInv, Initilize
    PROVE  ExecutorsInv'
  <1>1. PICK kind : kind = Head(x_todo)[2]
    OBVIOUS
  <1> DEFINE n == Len(x_ex)
             r == NewExecutor(kind)
  <1>2. /\ x_pc = "idle" /\ x_todo # <<>> /\ Head(x_todo)[1] = "make" /\ x_cur' = n + 1
        /\ x_todo' = Tail(x_todo) /\ x_ex' = Append(x_ex, r)
        /\ x_sig' = x_sig \cup {kind.class}
        /\ x_handler' = (IF kind.class \in x_sig THEN x_handler ELSE kind.class)
        /\ x_active' = [x_active EXCEPT ![kind.class] = n + 1]
        /\ x_pc' = (IF kind.class = "native" \/ kind.maps # {} THEN "maps" ELSE "server")
        /\ UNCHANGED <<x_env, x_shm, x_next, x_timer, x_put, x_file, x_tok, x_copies, x_err>>
    BY <1>1 DEF Initilize
  <1>3. x_ex \in Seq(ExecutorRec) /\ n \in Nat
    BY DEF ExecutorsInv, XTypes
  <1>4. /\ r.kind = kind /\ r.open = TRUE /\ r.shm = [a \in Attachers |-> 0] /\ r.srv = FALSE /\ r.pipe = {}
    BY DEF NewExecutor
  <1>5. /\ Len(x_ex') = n + 1 /\ x_ex'[n + 1] = r /\ \A e \in 1..n : x_ex'[e] = x_ex[e]
    BY <1>2, <1>3
  <1>6. x_pc' \in {"maps", "server"} /\ x_pc' \notin DropPcs /\ x_pc' \in MakePcs
    BY <1>2 DEF DropPcs, MakePcs
  <1>7. \A e : e \in 1..n + 1 <=> e \in 1..n \/ e = n + 1
    BY <1>3
  <1>8. Dropped' = Dropped /\ n + 1 \notin Dropped /\ n + 1 \notin Dropped'
    <2>1. n + 1 \notin Dropped
      BY <1>3 DEF Dropped
    <2>2. x_pc \notin DropPcs
      BY <1>2 DEF DropPcs
    <2>3. \A e \in 1..n + 1 : ~x_ex'[e].open <=> e \in 1..n /\ ~x_ex[e].open
      BY <1>3, <1>4, <1>5, <1>7
    <2>4. Dropped' = {e \in 1..n + 1 : ~x_ex'[e].open}
      BY <1>5, <1>6 DEF Dropped
    <2>5. Dropped = {e \in 1..n : ~x_ex[e].open}
      BY <2>2 DEF Dropped
    <2> QED
      BY <1>7, <2>1, <2>3, <2>4, <2>5
  <1>9. PlanFollowed' /\ kind \in Kinds
    <2>1. x_ex'[Len(x_ex) + 1].kind = Head(x_todo)[2]
      BY <1>1, <1>4, <1>5
    <2> QED
      BY <1>1, <1>2, <1>3, <1>5, <1>8, <2>1, PlanMakes DEF ExecutorsInv
  <1>10. r \in ExecutorRec
    BY <1>9 DEF NewExecutor, ExecutorRec
  <1>11. kind.class \in {"native", "proxy"} /\ kind.maps \in SUBSET Attachers /\ (kind.class = "native" => kind.maps # {})
    BY <1>9, KindFacts
  <1> HIDE DEF r, n
  <1>12. x_ex' \in Seq(ExecutorRec)
    BY <1>2, <1>3, <1>10
  <1>13. XTypes'
    <2>1. x_cur' \in Nat /\ x_cur' \in 1..Len(x_ex')
      BY <1>2, <1>3, <1>5
    <2>2. x_active' \in [{"native", "proxy"} -> Nat]
      BY <1>2, <1>3, <1>11 DEF ExecutorsInv, XTypes
    <2>3. x_put.st # "running"
      BY <1>2 DEF ExecutorsInv, XTypes, PutPcs
    <2> QED
      BY <1>2, <1>6, <1>12, <2>1, <2>2, <2>3 DEF ExecutorsInv, XTypes, MakePcs
  <1>14. \A a \in Attachers : x_ex'[n + 1].shm[a] = 0
    BY <1>4, <1>5
  <1>15. SegmentsOwned'
    <2>0. /\ \A e \in 1..n : \A a \in Attachers : x_ex[e].shm[a] < x_next
          /\ \A e, f \in 1..n : \A a, b \in Attachers :
                 x_ex[e].shm[a] = x_ex[f].shm[b] /\ x_ex[e].shm[a] # 0 => e = f /\ a = b
          /\ \A s : s \in DOMAIN x_shm <=> s # 0 /\ \E e \in 1..n : \E a \in Attachers : x_ex[e].shm[a] = s
      BY DEF ExecutorsInv, SegmentsOwned, n
    <2>1. \A e \in 1..n + 1 : \A a \in Attachers : x_ex'[e].shm[a] < x_next
      BY <1>5, <1>7, <1>14, <2>0 DEF ExecutorsInv, XTypes
    <2>2. \A e, f \in 1..n + 1 : \A a, b \in Attachers :
              x_ex'[e].shm[a] = x_ex'[f].shm[b] /\ x_ex'[e].shm[a] # 0 => e = f /\ a = b
      BY <1>5, <1>7, <1>14, <2>0
    <2>3. \A s : s \in DOMAIN x_shm <=> s # 0 /\ \E e \in 1..n + 1 : \E a \in Attachers : x_ex'[e].shm[a] = s
      BY <1>5, <1>7, <1>14, <2>0
    <2> QED
      BY <1>2, <1>5, <2>1, <2>2, <2>3 DEF SegmentsOwned
  <1>16. ASSUME NEW e \in 1..n, Built(e) PROVE Built(e)'
    BY <1>5, <1>16 DEF Built, Names
  <1>17. AllBuilt'
    <2>1. \A e \in 1..n \ Dropped : Built(e)
      BY <1>2 DEF ExecutorsInv, AllBuilt, MakePcs, n
    <2>2. \A e \in 1..Len(x_ex') \ Dropped' :
             (e = x_cur' => x_pc' \notin MakePcs \cup {"exited"}) => Built(e)'
      BY <1>2, <1>5, <1>6, <1>7, <1>8, <1>16, <2>1
    <2>3. \A e \in 1..Len(x_ex') : ~x_ex'[e].open => ~x_ex'[e].srv /\ \A a \in Attachers : x_ex'[e].shm[a] = 0
      BY <1>4, <1>5, <1>7 DEF ExecutorsInv, AllBuilt, n
    <2>4. Kind' = kind
      BY <1>2, <1>4, <1>5 DEF Kind
    <2>5. x_pc' = "server" => kind.maps = {}
      BY <1>2
    <2> QED
      BY <1>2, <1>4, <1>5, <1>6, <1>14, <2>2, <2>3, <2>4, <2>5 DEF AllBuilt
  <1>18. LastMadeHasAll'
    <2>0. x_sig = {x_ex[e].kind.class : e \in 1..n}
      BY DEF ExecutorsInv, LastMadeHasAll, n
    <2>1. x_sig' = {x_ex'[e].kind.class : e \in 1..n + 1}
      BY <1>2, <1>4, <1>5, <1>7, <2>0
    <2>2. ASSUME NEW e \in 1..n + 1, \A f \in 1..n + 1 : x_ex'[f].kind.class = x_ex'[e].kind.class
          PROVE  x_handler' = x_ex'[e].kind.class
      <3>1. n + 1 \in 1..n + 1 /\ x_ex'[e].kind.class = kind.class
        BY <1>3, <1>4, <1>5, <2>2
      <3>2. \A f \in 1..n : x_ex[f].kind.class = kind.class
        BY <1>5, <1>7, <2>2, <3>1
      <3>3. CASE kind.class \in x_sig
        <4>1. PICK f \in 1..n : x_ex[f].kind.class = kind.class
          BY <2>0, <3>3
        <4>2. x_handler = kind.class
          BY <3>2, <4>1 DEF ExecutorsInv, LastMadeHasAll, n
        <4> QED
          BY <1>2, <3>1, <3>3, <4>2
      <3>4. CASE kind.class \notin x_sig
        BY <1>2, <3>1, <3>4
      <3> QED
        BY <3>3, <3>4
    <2>3. x_active'[x_ex'[n + 1].kind.class] = n + 1
      BY <1>2, <1>4, <1>5, <1>11 DEF ExecutorsInv, XTypes
    <2>4. x_pc' \notin {"maps", "env"} => x_ex'[n + 1].kind.maps = {}
      BY <1>2, <1>4, <1>5
    <2>5. x_pc' \notin {"maps", "env"} => Names(x_env, Len(x_ex))'
      BY <1>5, <2>4 DEF Names
    <2> QED
      BY <1>5, <2>1, <2>2, <2>3, <2>5 DEF LastMadeHasAll
  <1>19. RunRight'
    <2>1. x_pc' \notin RunPcs \cup PutPcs /\ x_pc' # "spawn" /\ x_pc' # "ran" /\ x_pc' # "arm"
      BY <1>6 DEF RunPcs, PutPcs
    <2>2. \A e \in 1..Len(x_ex') : x_ex'[e].pipe = {}
      BY <1>2, <1>4, <1>5, <1>7 DEF ExecutorsInv, RunRight, PutPcs, n
    <2>3. ~x_timer'
      BY <1>2 DEF ExecutorsInv, RunRight
    <2> QED
      BY <2>1, <2>2, <2>3 DEF RunRight
  <1>20. FeedbackOfItsRun' /\ OutputOfItsRun' /\ x_err' # "shm"
    BY <1>2, <1>6 DEF ExecutorsInv, FeedbackOfItsRun, OutputOfItsRun
  <1> QED
    BY <1>9, <1>13, <1>15, <1>17, <1>18, <1>19, <1>20 DEF ExecutorsInv

\* The executor that is made or dropped.
LEMMA Worker ==
    ASSUME ExecutorsInv, x_pc \in MakePcs \cup DropPcs
    PROVE  /\ x_ex \in Seq(ExecutorRec) /\ x_cur \in 1..Len(x_ex) /\ x_ex[x_cur] \in ExecutorRec
           /\ Len(x_ex) \in Nat /\ x_put.st # "running" /\ ~x_timer /\ Kind \in Kinds
           /\ \A e \in 1..Len(x_ex) : x_ex[e].pipe = {}
  <1>1. x_ex \in Seq(ExecutorRec) /\ x_cur \in 1..Len(x_ex)
    BY DEF ExecutorsInv, XTypes
  <1>2. x_ex[x_cur] \in ExecutorRec /\ Len(x_ex) \in Nat
    BY <1>1
  <1>3. x_pc \notin PutPcs /\ x_pc \notin RunPcs /\ x_pc # "wait"
    BY DEF PutPcs, RunPcs, MakePcs, DropPcs
  <1>4. x_put.st # "running" /\ ~x_timer /\ \A e \in 1..Len(x_ex) : x_ex[e].pipe = {}
    BY <1>3 DEF ExecutorsInv, XTypes, RunRight
  <1>5. Kind \in Kinds
    BY <1>2 DEF Kind, ExecutorRec
  <1> QED
    BY <1>1, <1>2, <1>4, <1>5

\* A step that makes or drops the executor x_cur, which becomes r.
WorkFrame(r) ==
    /\ r \in ExecutorRec /\ Becomes(x_cur, r)
    /\ r.kind = x_ex[x_cur].kind /\ r.pipe = x_ex[x_cur].pipe
    /\ UNCHANGED <<x_todo, x_cur, x_sig, x_handler, x_timer, x_put, x_file, x_tok, x_copies>>
    /\ x_pc \in MakePcs \cup DropPcs /\ x_pc' \in MakePcs \cup DropPcs \cup {"idle", "exited"}
    /\ x_pc \in MakePcs => x_pc' \notin DropPcs /\ r.open = x_ex[x_cur].open
    /\ x_pc \in DropPcs => x_pc' \in DropPcs \/ ~r.open
    /\ x_env' \in [EnvVars -> Nat] /\ x_shm' \in [DOMAIN x_shm' -> Nat] /\ x_next' \in Nat \ {0}
    /\ x_active' \in [{"native", "proxy"} -> Nat] /\ x_err' # "shm"

LEMMA WorkStep ==
    ASSUME ExecutorsInv, NEW r, WorkFrame(r)
    PROVE  /\ XTypes' /\ PlanFollowed' /\ RunRight' /\ FeedbackOfItsRun' /\ OutputOfItsRun' /\ x_err' # "shm"
           /\ Len(x_ex') = Len(x_ex) /\ x_ex'[x_cur] = r
           /\ \A e \in 1..Len(x_ex) : e # x_cur => x_ex'[e] = x_ex[e]
           /\ Dropped' = Dropped /\ Kind' = Kind /\ SameKinds
           /\ x_sig' = {x_ex'[e].kind.class : e \in 1..Len(x_ex')}
           /\ \A e \in 1..Len(x_ex') :
                 (\A f \in 1..Len(x_ex') : x_ex'[f].kind.class = x_ex'[e].kind.class)
                      => x_handler' = x_ex'[e].kind.class
  <1>1. /\ x_ex \in Seq(ExecutorRec) /\ x_cur \in 1..Len(x_ex) /\ x_ex[x_cur] \in ExecutorRec
        /\ Len(x_ex) \in Nat /\ x_put.st # "running" /\ ~x_timer
        /\ \A e \in 1..Len(x_ex) : x_ex[e].pipe = {}
    BY Worker DEF WorkFrame
  <1>2. /\ x_ex' \in Seq(ExecutorRec) /\ Len(x_ex') = Len(x_ex)
        /\ x_ex'[x_cur] = r /\ \A e \in 1..Len(x_ex) : e # x_cur => x_ex'[e] = x_ex[e]
    BY <1>1, OneExecutor DEF WorkFrame
  <1>3. SameKinds
    BY <1>1, <1>2 DEF SameKinds, WorkFrame
  <1>4. Dropped' = Dropped
    <2>1. CASE x_pc \in MakePcs
      <3>1. x_pc \notin DropPcs /\ x_pc' \notin DropPcs
        BY <2>1 DEF MakePcs, DropPcs, WorkFrame
      <3>2. \A e \in 1..Len(x_ex) : x_ex'[e].open = x_ex[e].open
        BY <1>1, <1>2, <2>1 DEF WorkFrame
      <3> QED
        BY <1>2, <3>1, <3>2 DEF Dropped
    <2>2. CASE x_pc \in DropPcs
      BY <1>1, <1>2, <2>2 DEF Dropped, WorkFrame
    <2> QED
      BY <2>1, <2>2 DEF WorkFrame
  <1>5. PlanFollowed'
    BY <1>3, <1>4, PlanKept DEF ExecutorsInv, WorkFrame
  <1>6. XTypes'
    BY <1>1, <1>2 DEF ExecutorsInv, XTypes, WorkFrame
  <1>7. x_pc' \notin PutPcs /\ x_pc' \notin RunPcs /\ x_pc' \notin {"wait", "spawn", "ran", "arm"}
    BY DEF PutPcs, RunPcs, MakePcs, DropPcs, WorkFrame
  <1>8. RunRight'
    <2>1. \A e \in 1..Len(x_ex') : x_ex'[e].pipe = {}
      BY <1>1, <1>2 DEF WorkFrame
    <2>2. ~x_timer'
      BY <1>1 DEF WorkFrame
    <2> QED
      BY <1>7, <2>1, <2>2 DEF RunRight
  <1>9. FeedbackOfItsRun' /\ OutputOfItsRun' /\ x_err' # "shm"
    BY <1>7 DEF ExecutorsInv, FeedbackOfItsRun, OutputOfItsRun, WorkFrame
  <1>10. Kind' = Kind
    BY <1>1, <1>2 DEF Kind, WorkFrame
  <1>11. x_sig' = {x_ex'[e].kind.class : e \in 1..Len(x_ex')}
    BY <1>3 DEF ExecutorsInv, LastMadeHasAll, SameKinds, WorkFrame
  <1>12. \A e \in 1..Len(x_ex') :
                 (\A f \in 1..Len(x_ex') : x_ex'[f].kind.class = x_ex'[e].kind.class)
                      => x_handler' = x_ex'[e].kind.class
    BY <1>3 DEF ExecutorsInv, LastMadeHasAll, SameKinds, WorkFrame
  <1> QED
    BY <1>2, <1>3, <1>4, <1>5, <1>6, <1>8, <1>9, <1>10, <1>11, <1>12

LEMMA SetupSharedMemoriesKeeps ==
    ASSUME ExecutorsInv, SetupSharedMemories
    PROVE  ExecutorsInv'
  <1> DEFINE n == Len(x_ex)
             Id(a) == x_next + (CASE a = "edge" -> 0 [] a = "bb" -> 1 [] a = "path" -> 2 [] a = "fav" -> 3)
             own == [a \in Attachers |-> IF a \in Kind.maps THEN Id(a) ELSE 0]
             r == [x_ex[x_cur] EXCEPT !.shm = own]
  <1>1. /\ x_pc = "maps" /\ x_pc' = "env" /\ x_pc \in MakePcs
        /\ UNCHANGED <<x_todo, x_cur, x_env, x_active, x_sig, x_handler, x_timer, x_put, x_file, x_tok,
                       x_copies, x_err>>
    BY DEF SetupSharedMemories, MakePcs
  <1>2. /\ x_ex \in Seq(ExecutorRec) /\ x_cur \in 1..n /\ x_ex[x_cur] \in ExecutorRec /\ Kind \in Kinds
        /\ n \in Nat
    BY <1>1, Worker
  <1>3. /\ x_ex' = [x_ex EXCEPT ![x_cur].shm = own] /\ x_next' = x_next + 4
        /\ x_shm' = [s \in DOMAIN x_shm \cup {Id(a) : a \in Kind.maps} |-> IF s < x_next THEN x_shm[s] ELSE 0]
    BY DEF SetupSharedMemories, ShmSetup
  <1>4. Kind.maps \in SUBSET Attachers
    BY <1>2, KindFacts
  <1>5. x_next \in Nat \ {0} /\ x_shm \in [DOMAIN x_shm -> Nat]
    BY DEF ExecutorsInv, XTypes
  <1>6. \A a \in Attachers : Id(a) \in Nat /\ Id(a) >= x_next /\ Id(a) < x_next + 4 /\ Id(a) # 0
    BY <1>5 DEF Attachers
  <1>7. \A a, b \in Attachers : Id(a) = Id(b) => a = b
    BY <1>5 DEF Attachers
  <1> HIDE DEF Id
  <1>8. own \in [Attachers -> Nat]
    BY <1>6
  <1>9. r \in ExecutorRec /\ r.shm = own
    BY <1>2, <1>8 DEF ExecutorRec
  <1>10. r.kind = x_ex[x_cur].kind /\ r.open = x_ex[x_cur].open /\ r.pipe = x_ex[x_cur].pipe /\ r.srv = x_ex[x_cur].srv
    BY <1>2 DEF ExecutorRec
  <1>11. Becomes(x_cur, r)
    BY <1>2, <1>3 DEF Becomes
  <1> HIDE DEF r
  <1>12. \A s \in DOMAIN x_shm : s \in Nat /\ s < x_next
    <2>1. ASSUME NEW e \in 1..n, NEW a \in Attachers PROVE x_ex[e].shm[a] \in Nat
      <3>1. x_ex[e] \in ExecutorRec
        BY <1>2
      <3> QED
        BY <3>1 DEF ExecutorRec
    <2> QED
      BY <2>1 DEF ExecutorsInv, SegmentsOwned, n
  <1>13. x_shm' \in [DOMAIN x_shm' -> Nat]
    <2>1. \A s \in DOMAIN x_shm \cup {Id(a) : a \in Kind.maps} : s < x_next => s \in DOMAIN x_shm
      BY <1>4, <1>5, <1>6
    <2> QED
      BY <1>3, <1>5, <2>1
  <1>14. WorkFrame(r)
    BY <1>1, <1>3, <1>5, <1>9, <1>10, <1>11, <1>13 DEF WorkFrame, MakePcs, DropPcs, ExecutorsInv, XTypes
  <1>15. /\ XTypes' /\ PlanFollowed' /\ RunRight' /\ FeedbackOfItsRun' /\ OutputOfItsRun' /\ x_err' # "shm"
         /\ Len(x_ex') = n /\ x_ex'[x_cur] = r
         /\ \A e \in 1..n : e # x_cur => x_ex'[e] = x_ex[e]
         /\ Dropped' = Dropped /\ Kind' = Kind
         /\ x_sig' = {x_ex'[e].kind.class : e \in 1..Len(x_ex')}
         /\ \A e \in 1..Len(x_ex') :
                 (\A f \in 1..Len(x_ex') : x_ex'[f].kind.class = x_ex'[e].kind.class)
                      => x_handler' = x_ex'[e].kind.class
    BY <1>14, WorkStep
  <1>16. \A a \in Attachers : x_ex[x_cur].shm[a] = 0
    BY <1>1 DEF ExecutorsInv, AllBuilt
  <1>17. /\ \A a \in Kind.maps : x_ex'[x_cur].shm[a] = Id(a)
         /\ \A a \in Attachers \ Kind.maps : x_ex'[x_cur].shm[a] = 0
    BY <1>4, <1>9, <1>15
  <1>18. /\ \A e \in 1..n : \A a \in Attachers : x_ex[e].shm[a] < x_next
         /\ \A e, f \in 1..n : \A a, b \in Attachers :
                x_ex[e].shm[a] = x_ex[f].shm[b] /\ x_ex[e].shm[a] # 0 => e = f /\ a = b
         /\ \A s : s \in DOMAIN x_shm <=> s # 0 /\ \E e \in 1..n : \E a \in Attachers : x_ex[e].shm[a] = s
    BY DEF ExecutorsInv, SegmentsOwned
  <1> HIDE DEF own, n
  <1>19. \A e \in 1..n : \A a \in Attachers :
            \/ x_ex'[e].shm[a] = 0
            \/ e # x_cur /\ x_ex'[e].shm[a] = x_ex[e].shm[a] /\ x_ex'[e].shm[a] < x_next
            \/ e = x_cur /\ a \in Kind.maps /\ x_ex'[e].shm[a] = Id(a)
    BY <1>15, <1>17, <1>18
  <1>20. SegmentsOwned'
    <2>1. \A e \in 1..n : \A a \in Attachers : x_ex'[e].shm[a] < x_next'
      <3>1. \A e \in 1..n : \A a \in Attachers : x_ex[e].shm[a] \in Nat
        <4>1. \A e \in 1..n : x_ex[e] \in ExecutorRec
          BY <1>2 DEF n
        <4> QED
          BY <4>1 DEF ExecutorRec
      <3> QED
        BY <1>3, <1>5, <1>6, <1>19, <3>1
    <2>2. ASSUME NEW e \in 1..n, NEW f \in 1..n, NEW a \in Attachers, NEW b \in Attachers,
                 x_ex'[e].shm[a] = x_ex'[f].shm[b], x_ex'[e].shm[a] # 0
          PROVE  e = f /\ a = b
      <3>1. \A m \in 1..n : \A c \in Attachers : x_ex[m].shm[c] \in Nat
        <4>1. \A m \in 1..n : x_ex[m] \in ExecutorRec
          BY <1>2 DEF n
        <4> QED
          BY <4>1 DEF ExecutorRec
      <3>2. CASE e # x_cur /\ f # x_cur
        BY <1>15, <1>18, <2>2, <3>2
      <3>3. CASE e = x_cur /\ f = x_cur
        BY <1>7, <1>19, <2>2, <3>3
      <3>4. CASE e = x_cur /\ f # x_cur
        BY <1>5, <1>6, <1>19, <2>2, <3>1, <3>4
      <3>5. CASE e # x_cur /\ f = x_cur
        BY <1>5, <1>6, <1>19, <2>2, <3>1, <3>5
      <3> QED
        BY <3>2, <3>3, <3>4, <3>5
    <2>3. ASSUME NEW s PROVE s \in DOMAIN x_shm' <=> s # 0 /\ \E e \in 1..n : \E a \in Attachers : x_ex'[e].shm[a] = s
      <3>1. s \in DOMAIN x_shm' <=> s \in DOMAIN x_shm \/ \E a \in Kind.maps : s = Id(a)
        BY <1>3
      <3>2. ASSUME s \in DOMAIN x_shm PROVE s # 0 /\ \E e \in 1..n : \E a \in Attachers : x_ex'[e].shm[a] = s
        <4>1. s # 0
          BY <1>18, <3>2
        <4>2. PICK e \in 1..n : \E a \in Attachers : x_ex[e].shm[a] = s
          BY <1>18, <3>2
        <4>3. e # x_cur
          BY <1>16, <4>1, <4>2
        <4> QED
          BY <1>15, <4>1, <4>2, <4>3
      <3>3. ASSUME NEW a \in Kind.maps, s = Id(a) PROVE s # 0 /\ \E e \in 1..n : \E b \in Attachers : x_ex'[e].shm[b] = s
        BY <1>2, <1>4, <1>6, <1>17, <3>3 DEF n
      <3>4. ASSUME NEW e \in 1..n, NEW a \in Attachers, x_ex'[e].shm[a] = s, s # 0
            PROVE  s \in DOMAIN x_shm \/ \E b \in Kind.maps : s = Id(b)
        BY <1>18, <1>19, <3>4
      <3> QED
        BY <3>1, <3>2, <3>3, <3>4
    <2> QED
      BY <1>15, <2>1, <2>2, <2>3 DEF SegmentsOwned
  <1>21. ASSUME NEW e \in 1..n, e # x_cur, Built(e) PROVE Built(e)'
    BY <1>15, <1>21 DEF Built, Names
  <1>22. x_cur' = x_cur /\ x_cur = n /\ x_ex[x_cur].open
    BY <1>1 DEF ExecutorsInv, AllBuilt, n
  <1>23. AllBuilt'
    <2>1. \A e \in 1..n \ Dropped : e # x_cur => Built(e)
      BY DEF ExecutorsInv, AllBuilt, n
    <2>2. \A e \in 1..Len(x_ex') \ Dropped' :
             (e = x_cur' => x_pc' \notin MakePcs \cup {"exited"}) => Built(e)'
      BY <1>1, <1>15, <1>21, <1>22, <2>1 DEF MakePcs
    <2>3. \A e \in 1..Len(x_ex') : ~x_ex'[e].open => ~x_ex'[e].srv /\ \A a \in Attachers : x_ex'[e].shm[a] = 0
      <3>1. \A e \in 1..n : ~x_ex[e].open => ~x_ex[e].srv /\ \A a \in Attachers : x_ex[e].shm[a] = 0
        BY DEF ExecutorsInv, AllBuilt, n
      <3>2. x_ex'[x_cur].open
        BY <1>10, <1>15, <1>22
      <3>3. \A e \in 1..n : e = x_cur \/ x_ex'[e] = x_ex[e]
        BY <1>15
      <3> QED
        BY <1>15, <3>1, <3>2, <3>3
    <2>4. \A a \in Kind'.maps : x_ex'[x_cur'].shm[a] # 0
      BY <1>4, <1>6, <1>15, <1>17, <1>22
    <2>5. \A a \in Attachers \ Kind'.maps : x_ex'[x_cur'].shm[a] = 0
      BY <1>15, <1>17, <1>22
    <2>6. x_cur' = Len(x_ex') /\ x_ex'[x_cur'].open
      BY <1>10, <1>15, <1>22
    <2> QED
      BY <1>1, <2>2, <2>3, <2>4, <2>5, <2>6 DEF AllBuilt
  <1>24. LastMadeHasAll'
    <2>1. Len(x_ex) = n /\ n # 0 /\ (n \notin Dropped => x_active[x_ex[n].kind.class] = n)
      BY <1>2, <1>22 DEF ExecutorsInv, LastMadeHasAll, n
    <2>2. n \notin Dropped => x_active'[x_ex'[n].kind.class] = n
      BY <1>1, <1>10, <1>15, <1>22, <2>1
    <2> QED
      BY <1>1, <1>15, <2>2 DEF LastMadeHasAll
  <1> QED
    BY <1>15, <1>20, <1>23, <1>24 DEF ExecutorsInv

\* What the other executors have stays theirs when only x_cur becomes r.
LEMMA OthersBuilt ==
    ASSUME ExecutorsInv, NEW r, WorkFrame(r)
    PROVE  /\ \A e \in 1..Len(x_ex) \ Dropped : e # x_cur => Built(e)'
           /\ (r.open \/ (~r.srv /\ \A a \in Attachers : r.shm[a] = 0)) =>
                 \A e \in 1..Len(x_ex') : ~x_ex'[e].open => ~x_ex'[e].srv /\ \A a \in Attachers : x_ex'[e].shm[a] = 0
  <1>1. /\ Len(x_ex') = Len(x_ex) /\ x_ex'[x_cur] = r
        /\ \A e \in 1..Len(x_ex) : e # x_cur => x_ex'[e] = x_ex[e]
    BY WorkStep
  <1>2. ASSUME NEW e \in 1..Len(x_ex) \ Dropped, e # x_cur PROVE Built(e)'
    <2>1. Built(e)
      BY <1>2 DEF ExecutorsInv, AllBuilt
    <2> QED
      BY <1>1, <1>2, <2>1 DEF Built, Names
  <1>3. ASSUME r.open \/ (~r.srv /\ \A a \in Attachers : r.shm[a] = 0), NEW e \in 1..Len(x_ex'), ~x_ex'[e].open
        PROVE  ~x_ex'[e].srv /\ \A a \in Attachers : x_ex'[e].shm[a] = 0
    <2>1. CASE e = x_cur
      BY <1>1, <1>3, <2>1
    <2>2. CASE e # x_cur
      BY <1>1, <1>3, <2>2 DEF ExecutorsInv, AllBuilt
    <2> QED
      BY <2>1, <2>2
  <1> QED
    BY <1>2, <1>3

\* The variables name the maps of this executor, whatever they named before.
LEMMA EnvironmentSet ==
    ASSUME ExecutorsInv, SetupEnvironmentVariablesForTarget
    PROVE  x_env' \in [EnvVars -> Nat] /\ Names(x_env', x_cur)
  <1>1. x_pc = "env" /\ x_pc \in MakePcs
    BY DEF SetupEnvironmentVariablesForTarget, MakePcs
  <1>2. x_ex[x_cur] \in ExecutorRec /\ Kind \in Kinds
    BY <1>1, Worker
  <1>3. PICK shm \in [Attachers -> Nat] : shm = x_ex[x_cur].shm
    BY <1>2 DEF ExecutorRec
  <1>4. x_env \in [EnvVars -> Nat]
    BY DEF ExecutorsInv, XTypes
  <1>5. /\ SHM_ENV_VAR("edge") = "__AFL_SHM_ID" /\ SHM_ENV_VAR("path") = "__AFL_SHM_ID"
        /\ SHM_ENV_VAR("bb") = "__WYVERN_SHM_ID" /\ SHM_ENV_VAR("fav") = "__AFL_PTFAV_SHM_ID"
    BY DEF SHM_ENV_VAR
  <1>6. shm["edge"] \in Nat /\ shm["bb"] \in Nat /\ shm["path"] \in Nat /\ shm["fav"] \in Nat
    BY DEF Attachers
  <1>7. PICK own : /\ own \in [EnvVars -> Nat] /\ own = PTEnvironment(Kind)
                   /\ Kind = PTExecutor => own["__AFL_PTFAV_SHM_ID"] = shm["fav"]
    <2>1. CASE Kind = PTExecutor
      <3>1. PTEnvironment(Kind) =
               [[x_env EXCEPT !["__AFL_SHM_ID"] = shm["path"]] EXCEPT !["__AFL_PTFAV_SHM_ID"] = shm["fav"]]
        BY <1>3, <1>5, <2>1 DEF PTEnvironment, SetupEnvironmentVariable
      <3> QED
        BY <1>4, <1>6, <3>1 DEF EnvVars
    <2>2. CASE Kind # PTExecutor
      BY <1>4, <2>2 DEF PTEnvironment
    <2> QED
      BY <2>1, <2>2
  <1>8. x_env' = [[own EXCEPT !["__AFL_SHM_ID"] = shm["edge"]] EXCEPT !["__WYVERN_SHM_ID"] = shm["bb"]]
    BY <1>3, <1>5, <1>7 DEF SetupEnvironmentVariablesForTarget, SetupEnvironmentVariable
  <1>9. /\ x_env' \in [EnvVars -> Nat] /\ x_env'["__AFL_SHM_ID"] = shm["edge"]
        /\ x_env'["__WYVERN_SHM_ID"] = shm["bb"] /\ x_env'["__AFL_PTFAV_SHM_ID"] = own["__AFL_PTFAV_SHM_ID"]
    BY <1>6, <1>7, <1>8 DEF EnvVars
  <1>10. ASSUME NEW a \in Kind.maps \ {"path"} PROVE x_env'[SHM_ENV_VAR(a)] = shm[a]
    <2>1. a \in {"edge", "bb"} \/ (Kind = PTExecutor /\ a = "fav")
      BY <1>2, KindFacts
    <2> QED
      BY <1>5, <1>7, <1>9, <2>1
  <1> QED
    BY <1>3, <1>9, <1>10 DEF Names, Kind

LEMMA SetupEnvironmentKeeps ==
    ASSUME ExecutorsInv, SetupEnvironmentVariablesForTarget
    PROVE  ExecutorsInv'
  <1> DEFINE r == x_ex[x_cur]
  <1>1. /\ x_pc = "env" /\ x_pc' = "server" /\ x_pc \in MakePcs
        /\ UNCHANGED <<x_todo, x_cur, x_ex, x_shm, x_next, x_active, x_sig, x_handler, x_timer, x_put,
                       x_file, x_tok, x_copies, x_err>>
    BY DEF SetupEnvironmentVariablesForTarget, MakePcs
  <1>2. /\ x_ex \in Seq(ExecutorRec) /\ x_cur \in 1..Len(x_ex) /\ x_ex[x_cur] \in ExecutorRec /\ Kind \in Kinds
        /\ Len(x_ex) \in Nat
    BY <1>1, Worker
  <1>3. x_env' \in [EnvVars -> Nat] /\ Names(x_env', x_cur)
    BY EnvironmentSet
  <1>4. WorkFrame(r)
    BY <1>1, <1>2, <1>3 DEF WorkFrame, Becomes, MakePcs, DropPcs, ExecutorsInv, XTypes
  <1>5. /\ XTypes' /\ PlanFollowed' /\ RunRight' /\ FeedbackOfItsRun' /\ OutputOfItsRun' /\ x_err' # "shm"
        /\ Dropped' = Dropped /\ Kind' = Kind
        /\ x_sig' = {x_ex'[e].kind.class : e \in 1..Len(x_ex')}
        /\ \A e \in 1..Len(x_ex') :
                 (\A f \in 1..Len(x_ex') : x_ex'[f].kind.class = x_ex'[e].kind.class)
                      => x_handler' = x_ex'[e].kind.class
    BY <1>4, WorkStep
  <1>6. SegmentsOwned'
    BY <1>1 DEF ExecutorsInv, SegmentsOwned
  <1>7. x_cur = Len(x_ex) /\ x_ex[x_cur].open /\ \A a \in Kind.maps : x_ex[x_cur].shm[a] # 0
    BY <1>1 DEF ExecutorsInv, AllBuilt
  <1>8. AllBuilt'
    <2>1. \A e \in 1..Len(x_ex) \ Dropped : e # x_cur => Built(e)'
      BY <1>4, OthersBuilt
    <2>2. \A e \in 1..Len(x_ex') : ~x_ex'[e].open => ~x_ex'[e].srv /\ \A a \in Attachers : x_ex'[e].shm[a] = 0
      BY <1>4, <1>7, OthersBuilt
    <2> QED
      BY <1>1, <1>5, <1>7, <2>1, <2>2 DEF AllBuilt, MakePcs
  <1>9. LastMadeHasAll'
    <2>1. Len(x_ex') = x_cur /\ Names(x_env, Len(x_ex))'
      BY <1>1, <1>3, <1>7 DEF Names
    <2>2. x_cur \notin Dropped => x_active[x_ex[x_cur].kind.class] = x_cur
      BY <1>2, <1>7 DEF ExecutorsInv, LastMadeHasAll
    <2> QED
      BY <1>1, <1>5, <2>1, <2>2 DEF LastMadeHasAll
  <1> QED
    BY <1>5, <1>6, <1>8, <1>9 DEF ExecutorsInv

LEMMA SetupForkServerKeeps ==
    ASSUME ExecutorsInv, SetupForkServer
    PROVE  ExecutorsInv'
  <1>1. /\ x_pc = "server" /\ x_pc \in MakePcs
        /\ UNCHANGED <<x_todo, x_cur, x_env, x_shm, x_next, x_active, x_sig, x_handler, x_timer, x_put,
                       x_file, x_tok, x_copies>>
    BY DEF SetupForkServer, MakePcs
  <1>2. /\ x_ex \in Seq(ExecutorRec) /\ x_cur \in 1..Len(x_ex) /\ x_ex[x_cur] \in ExecutorRec /\ Kind \in Kinds
        /\ Len(x_ex) \in Nat
    BY <1>1, Worker
  <1>3. x_cur = Len(x_ex) /\ x_ex[x_cur].open /\ \A a \in Kind.maps : x_ex[x_cur].shm[a] # 0
    BY <1>1 DEF ExecutorsInv, AllBuilt
  <1>4. x_cur \notin Dropped
    BY <1>1, <1>3 DEF Dropped, DropPcs
  <1>5. Names(x_env, x_cur) /\ x_active[x_ex[x_cur].kind.class] = x_cur
    BY <1>1, <1>2, <1>3, <1>4 DEF ExecutorsInv, LastMadeHasAll
  <1>6. PICK r \in ExecutorRec :
           /\ Becomes(x_cur, r) /\ r.kind = x_ex[x_cur].kind /\ r.pipe = x_ex[x_cur].pipe
           /\ r.open = x_ex[x_cur].open /\ r.shm = x_ex[x_cur].shm
           /\ x_pc' \in {"idle", "exited"} /\ x_err' # "shm"
           /\ x_pc' = "idle" /\ Kind.forksrv => r.srv_env = x_env
    <2>1. CASE x_ex' = x_ex
      <3>1. /\ x_pc' \in {"idle", "exited"} /\ x_err' # "shm"
            /\ x_pc' = "idle" => ~Kind.forksrv \/ x_ex' = [x_ex EXCEPT ![x_cur].srv = TRUE, ![x_cur].srv_env = x_env]
        BY DEF SetupForkServer, ExecutorsInv
      <3>2. ASSUME x_ex' = [x_ex EXCEPT ![x_cur].srv = TRUE, ![x_cur].srv_env = x_env]
            PROVE  x_ex[x_cur].srv_env = x_env
        <4>1. x_ex'[x_cur].srv_env = x_env
          BY <1>2, <3>2 DEF ExecutorRec
        <4> QED
          BY <2>1, <4>1
      <3>3. Becomes(x_cur, x_ex[x_cur])
        BY <1>2, <2>1 DEF Becomes
      <3> QED
        BY <1>2, <3>1, <3>2, <3>3
    <2>2. CASE x_ex' # x_ex
      <3> DEFINE r == [x_ex[x_cur] EXCEPT !.srv = TRUE, !.srv_env = x_env]
      <3>1. x_ex' = [x_ex EXCEPT ![x_cur].srv = TRUE, ![x_cur].srv_env = x_env] /\ x_pc' = "idle" /\ x_err' # "shm"
        BY <2>2 DEF SetupForkServer, ExecutorsInv
      <3>2. r \in ExecutorRec
        BY <1>2 DEF ExecutorRec, ExecutorsInv, XTypes
      <3>3. /\ r.kind = x_ex[x_cur].kind /\ r.pipe = x_ex[x_cur].pipe /\ r.srv_env = x_env
            /\ r.open = x_ex[x_cur].open /\ r.shm = x_ex[x_cur].shm
        BY <1>2 DEF ExecutorRec
      <3>4. Becomes(x_cur, r)
        BY <1>2, <3>1 DEF Becomes
      <3> HIDE DEF r
      <3> QED
        BY <3>1, <3>2, <3>3, <3>4
    <2> QED
      BY <2>1, <2>2
  <1>7. WorkFrame(r)
    BY <1>1, <1>2, <1>6 DEF WorkFrame, MakePcs, DropPcs, ExecutorsInv, XTypes
  <1>8. /\ XTypes' /\ PlanFollowed' /\ RunRight' /\ FeedbackOfItsRun' /\ OutputOfItsRun' /\ x_err' # "shm"
        /\ Dropped' = Dropped /\ Kind' = Kind /\ Len(x_ex') = Len(x_ex) /\ x_ex'[x_cur] = r
        /\ \A e \in 1..Len(x_ex) : e # x_cur => x_ex'[e] = x_ex[e]
        /\ x_sig' = {x_ex'[e].kind.class : e \in 1..Len(x_ex')}
        /\ \A e \in 1..Len(x_ex') :
                 (\A f \in 1..Len(x_ex') : x_ex'[f].kind.class = x_ex'[e].kind.class)
                      => x_handler' = x_ex'[e].kind.class
    BY <1>7, WorkStep
  <1>9. \A e \in 1..Len(x_ex) : x_ex'[e].shm = x_ex[e].shm
    BY <1>6, <1>8
  <1>10. SegmentsOwned'
    BY <1>1, <1>8, <1>9 DEF ExecutorsInv, SegmentsOwned
  <1>11. AllBuilt'
    <2>1. \A e \in 1..Len(x_ex) \ Dropped : e # x_cur => Built(e)'
      BY <1>7, OthersBuilt
    <2>2. \A e \in 1..Len(x_ex') : ~x_ex'[e].open => ~x_ex'[e].srv /\ \A a \in Attachers : x_ex'[e].shm[a] = 0
      BY <1>3, <1>6, <1>7, OthersBuilt
    <2>3. ASSUME x_pc' = "idle" PROVE \A e \in 1..Len(x_ex) : e = x_cur => Built(e)'
      BY <1>3, <1>5, <1>6, <1>8, <2>3 DEF Built, Names, Kind
    <2>4. \A e \in 1..Len(x_ex') \ Dropped' :
             (e = x_cur' => x_pc' \notin MakePcs \cup {"exited"}) => Built(e)'
      BY <1>1, <1>6, <1>8, <2>1, <2>3
    <2> QED
      BY <1>6, <2>2, <2>4 DEF AllBuilt, MakePcs
  <1>12. LastMadeHasAll'
    <2>1. Names(x_env, Len(x_ex))'
      BY <1>1, <1>3, <1>5, <1>6, <1>8 DEF Names
    <2> QED
      BY <1>1, <1>3, <1>5, <1>6, <1>8, <2>1 DEF LastMadeHasAll
  <1> QED
    BY <1>8, <1>10, <1>11, <1>12 DEF ExecutorsInv

-----------------------------------------------------------------------------
(* Destruction.                                                             *)

LEMMA DropBeginsKeeps ==
    ASSUME ExecutorsInv, DropBegins
    PROVE  ExecutorsInv'
  <1>1. PICK c : c = Head(x_todo)[2]
    OBVIOUS
  <1>2. /\ x_pc = "idle" /\ x_pc' = "derived" /\ x_todo # <<>> /\ Head(x_todo)[1] = "drop" /\ x_cur' = c
        /\ x_todo' = Tail(x_todo) /\ x_pc' \in DropPcs
        /\ UNCHANGED <<x_ex, x_env, x_shm, x_next, x_active, x_sig, x_handler, x_timer, x_put, x_file,
                       x_tok, x_copies, x_err>>
    BY <1>1 DEF DropBegins, DropPcs
  <1>3. c \in 1..Len(x_ex) /\ x_ex \in Seq(ExecutorRec) /\ Len(x_ex) \in Nat
    BY <1>1, <1>2, DropPlanned DEF ExecutorsInv, XTypes
  <1>4. Dropped' = Dropped \cup {c}
    BY <1>2, <1>3 DEF Dropped, DropPcs
  <1>5. SameKinds
    BY <1>2 DEF SameKinds
  <1>6. PlanFollowed'
    BY <1>1, <1>2, <1>4, <1>5, PlanAdvances DEF ExecutorsInv
  <1>7. XTypes'
    BY <1>2, <1>3 DEF ExecutorsInv, XTypes, PutPcs, RunPcs
  <1>8. SegmentsOwned'
    BY <1>2 DEF ExecutorsInv, SegmentsOwned
  <1>9. \A e \in 1..Len(x_ex) : Built(e) => Built(e)'
    BY <1>2 DEF Built, Names
  <1>10. AllBuilt'
    <2>1. \A e \in 1..Len(x_ex) \ Dropped : Built(e)
      BY <1>2 DEF ExecutorsInv, AllBuilt, MakePcs
    <2>2. \A e \in 1..Len(x_ex) : ~x_ex[e].open => ~x_ex[e].srv /\ \A a \in Attachers : x_ex[e].shm[a] = 0
      BY DEF ExecutorsInv, AllBuilt
    <2> QED
      BY <1>2, <1>4, <1>9, <2>1, <2>2 DEF AllBuilt, MakePcs
  <1>11. LastMadeHasAll'
    BY <1>2, <1>4 DEF ExecutorsInv, LastMadeHasAll, Names
  <1>12. RunRight'
    BY <1>2 DEF ExecutorsInv, RunRight, RunPcs, PutPcs
  <1>13. FeedbackOfItsRun' /\ OutputOfItsRun' /\ x_err' # "shm"
    BY <1>2 DEF ExecutorsInv, FeedbackOfItsRun, OutputOfItsRun
  <1> QED
    BY <1>6, <1>7, <1>8, <1>10, <1>11, <1>12, <1>13 DEF ExecutorsInv

\* The three times a destructor erases.
EraseTurn(atts, next) ==
    \/ x_pc = "derived" /\ next = "base" /\ atts = {"path", "fav"}
    \/ x_pc = "base" /\ next = "terminate" /\ atts = {"edge", "bb"}
    \/ x_pc = "members" /\ next = "idle" /\ atts = {"edge", "bb"}

\* What a destructor does when it erases: the active instances lose no other executor.
EraseFrame(atts, next) ==
    /\ EraseTurn(atts, next) /\ Erase(atts, next)
    /\ UNCHANGED <<x_todo, x_cur, x_env, x_next, x_sig, x_handler, x_timer, x_put, x_file, x_tok, x_copies>>
    /\ x_active' \in [{"native", "proxy"} -> Nat]
    /\ \A c \in {"native", "proxy"} : x_active[c] # x_cur => x_active'[c] = x_active[c]

LEMMA ErasedSegments ==
    ASSUME ExecutorsInv, NEW atts, NEW next, EraseFrame(atts, next)
    PROVE  /\ atts \in SUBSET Attachers /\ x_pc \in DropPcs /\ x_pc' = next /\ x_err' = x_err
           /\ x_shm' = [s \in DOMAIN x_shm \ ({x_ex[x_cur].shm[a] : a \in atts} \ {0}) |-> x_shm[s]]
           /\ x_ex' = [x_ex EXCEPT ![x_cur].shm = [a \in Attachers |-> IF a \in atts THEN 0 ELSE x_ex[x_cur].shm[a]]]
  <1>1. atts \in SUBSET Attachers /\ x_pc \in DropPcs
    BY DEF EraseFrame, EraseTurn, Attachers, DropPcs
  <1>2. x_cur \in 1..Len(x_ex) /\ x_ex \in Seq(ExecutorRec)
    BY <1>1, Worker
  <1>3. ASSUME NEW s \in {x_ex[x_cur].shm[a] : a \in atts} \ {0} PROVE s \in DOMAIN x_shm
    <2>1. PICK a \in atts : s = x_ex[x_cur].shm[a]
      BY <1>3
    <2>2. a \in Attachers /\ s # 0
      BY <1>1, <1>3
    <2> QED
      BY <1>2, <2>1, <2>2 DEF ExecutorsInv, SegmentsOwned
  <1>4. ({x_ex[x_cur].shm[a] : a \in atts} \ {0}) \subseteq DOMAIN x_shm
    BY <1>3
  <1> QED
    BY <1>1, <1>2, <1>4 DEF EraseFrame, Erase

LEMMA EraseKeepsAll ==
    ASSUME ExecutorsInv, NEW atts, NEW next, EraseFrame(atts, next)
    PROVE  ExecutorsInv'
  <1> DEFINE own == [a \in Attachers |-> IF a \in atts THEN 0 ELSE x_ex[x_cur].shm[a]]
             r == [x_ex[x_cur] EXCEPT !.shm = own]
             gone == {x_ex[x_cur].shm[a] : a \in atts} \ {0}
  <1>1. /\ atts \in SUBSET Attachers /\ x_pc \in DropPcs /\ x_pc' = next /\ x_err' = x_err
        /\ x_shm' = [s \in DOMAIN x_shm \ gone |-> x_shm[s]] /\ x_ex' = [x_ex EXCEPT ![x_cur].shm = own]
    BY ErasedSegments
  <1>2. /\ x_ex \in Seq(ExecutorRec) /\ x_cur \in 1..Len(x_ex) /\ x_ex[x_cur] \in ExecutorRec /\ Len(x_ex) \in Nat
    BY <1>1, Worker
  <1>3. EraseTurn(atts, next)
    BY DEF EraseFrame
  <1>4. next \in DropPcs \cup {"idle"} /\ next \notin MakePcs \cup {"exited", "members", "maps", "env", "server"}
    BY <1>3 DEF EraseTurn, DropPcs, MakePcs
  <1>5. own \in [Attachers -> Nat]
    BY <1>2 DEF ExecutorRec
  <1>6. \A a \in Attachers : own[a] = IF a \in atts THEN 0 ELSE x_ex[x_cur].shm[a]
    OBVIOUS
  <1>7. /\ r \in ExecutorRec /\ r.shm = own /\ r.kind = x_ex[x_cur].kind /\ r.open = x_ex[x_cur].open
        /\ r.pipe = x_ex[x_cur].pipe /\ r.srv = x_ex[x_cur].srv
    <2> HIDE DEF own
    <2> QED
      BY <1>2, <1>5 DEF ExecutorRec
  <1>8. Becomes(x_cur, r)
    BY <1>1, <1>2 DEF Becomes
  <1> HIDE DEF r, own
  <1>9. /\ UNCHANGED <<x_todo, x_cur, x_env, x_next, x_sig, x_handler, x_timer, x_put, x_file, x_tok, x_copies>>
        /\ x_active' \in [{"native", "proxy"} -> Nat]
        /\ \A c \in {"native", "proxy"} : x_active[c] # x_cur => x_active'[c] = x_active[c]
    BY DEF EraseFrame
  <1>10. /\ x_shm' \in [DOMAIN x_shm' -> Nat] /\ DOMAIN x_shm' = DOMAIN x_shm \ gone
    BY <1>1 DEF ExecutorsInv, XTypes
  <1>11. next = "idle" => ~r.open
    BY <1>3, <1>7 DEF EraseTurn, ExecutorsInv, AllBuilt
  <1>12. WorkFrame(r)
    <2>1. x_env' \in [EnvVars -> Nat] /\ x_next' \in Nat \ {0} /\ x_err' # "shm"
      BY <1>1, <1>9 DEF ExecutorsInv, XTypes
    <2>2. x_pc \notin MakePcs /\ x_pc' \in MakePcs \cup DropPcs \cup {"idle", "exited"}
          /\ (x_pc' \in DropPcs \/ ~r.open)
      BY <1>1, <1>4, <1>11 DEF MakePcs, DropPcs
    <2> QED
      BY <1>1, <1>7, <1>8, <1>9, <1>10, <2>1, <2>2 DEF WorkFrame
  <1>13. /\ XTypes' /\ PlanFollowed' /\ RunRight' /\ FeedbackOfItsRun' /\ OutputOfItsRun' /\ x_err' # "shm"
         /\ Dropped' = Dropped /\ Kind' = Kind /\ Len(x_ex') = Len(x_ex) /\ x_ex'[x_cur] = r
         /\ \A e \in 1..Len(x_ex) : e # x_cur => x_ex'[e] = x_ex[e]
         /\ x_sig' = {x_ex'[e].kind.class : e \in 1..Len(x_ex')}
         /\ \A e \in 1..Len(x_ex') :
                 (\A f \in 1..Len(x_ex') : x_ex'[f].kind.class = x_ex'[e].kind.class)
                      => x_handler' = x_ex'[e].kind.class
         /\ SameKinds
    BY <1>12, WorkStep
  <1>14. SegmentsOwned'
    <2>0. /\ \A e \in 1..Len(x_ex) : \A a \in Attachers : x_ex[e].shm[a] < x_next
          /\ \A e, f \in 1..Len(x_ex) : \A a, b \in Attachers :
                 x_ex[e].shm[a] = x_ex[f].shm[b] /\ x_ex[e].shm[a] # 0 => e = f /\ a = b
          /\ \A s : s \in DOMAIN x_shm <=> s # 0 /\ \E e \in 1..Len(x_ex) : \E a \in Attachers : x_ex[e].shm[a] = s
          /\ x_next \in Nat \ {0}
      BY DEF ExecutorsInv, SegmentsOwned, XTypes
    <2>1. \A e \in 1..Len(x_ex) : \A a \in Attachers :
             x_ex'[e].shm[a] = IF e = x_cur /\ a \in atts THEN 0 ELSE x_ex[e].shm[a]
      BY <1>6, <1>7, <1>13
    <2>2. \A e \in 1..Len(x_ex) : \A a \in Attachers : x_ex'[e].shm[a] < x_next
      BY <2>0, <2>1
    <2>3. \A e, f \in 1..Len(x_ex) : \A a, b \in Attachers :
              x_ex'[e].shm[a] = x_ex'[f].shm[b] /\ x_ex'[e].shm[a] # 0 => e = f /\ a = b
      BY <2>0, <2>1
    <2>4. ASSUME NEW s
          PROVE  s \in DOMAIN x_shm' <=> s # 0 /\ \E e \in 1..Len(x_ex) : \E a \in Attachers : x_ex'[e].shm[a] = s
      <3>1. s \in DOMAIN x_shm' <=> s \in DOMAIN x_shm /\ s \notin gone
        BY <1>10
      <3>2. ASSUME s \in DOMAIN x_shm, s \notin gone
            PROVE  s # 0 /\ \E e \in 1..Len(x_ex) : \E a \in Attachers : x_ex'[e].shm[a] = s
        <4>1. s # 0
          BY <2>0, <3>2
        <4>2. PICK e \in 1..Len(x_ex) : \E a \in Attachers : x_ex[e].shm[a] = s
          BY <2>0, <3>2
        <4>3. PICK a \in Attachers : x_ex[e].shm[a] = s
          BY <4>2
        <4>4. ~(e = x_cur /\ a \in atts)
          BY <3>2, <4>1, <4>3
        <4> QED
          BY <2>1, <4>1, <4>3, <4>4
      <3>3. ASSUME s # 0, NEW e \in 1..Len(x_ex), NEW a \in Attachers, x_ex'[e].shm[a] = s
            PROVE  s \in DOMAIN x_shm /\ s \notin gone
        <4>1. ~(e = x_cur /\ a \in atts) /\ x_ex[e].shm[a] = s
          BY <2>1, <3>3
        <4>2. s \in DOMAIN x_shm
          BY <2>0, <3>3, <4>1
        <4>3. ASSUME NEW b \in atts, x_ex[x_cur].shm[b] = s PROVE FALSE
          BY <1>1, <1>2, <2>0, <3>3, <4>1, <4>3
        <4> QED
          BY <4>2, <4>3
      <3> QED
        BY <3>1, <3>2, <3>3
    <2> HIDE DEF gone
    <2> QED
      BY <1>9, <1>13, <2>2, <2>3, <2>4 DEF SegmentsOwned
  <1> HIDE DEF gone
  <1>15. x_cur \in Dropped
    BY <1>1, <1>2 DEF Dropped
  <1>16. \A a \in atts : own[a] = 0
    BY <1>1, <1>6
  <1>17. AllBuilt'
    <2>1. \A e \in 1..Len(x_ex) \ Dropped : e # x_cur => Built(e)'
      BY <1>12, OthersBuilt
    <2>2. \A e \in 1..Len(x_ex') \ Dropped' : Built(e)'
      BY <1>13, <1>15, <2>1
    <2>3. ~r.open => ~r.srv /\ \A a \in Attachers : r.shm[a] = 0
      BY <1>2, <1>6, <1>7 DEF ExecutorsInv, AllBuilt
    <2>4. \A e \in 1..Len(x_ex') : ~x_ex'[e].open => ~x_ex'[e].srv /\ \A a \in Attachers : x_ex'[e].shm[a] = 0
      BY <1>12, <2>3, OthersBuilt
    <2>5. x_pc' = "base" => \A a \in {"path", "fav"} : x_ex'[x_cur'].shm[a] = 0
      BY <1>1, <1>3, <1>7, <1>9, <1>13, <1>16 DEF EraseTurn
    <2>6. ASSUME x_pc' = "terminate" PROVE \A a \in Attachers : x_ex'[x_cur'].shm[a] = 0
      <3>1. x_pc = "base" /\ atts = {"edge", "bb"}
        BY <1>1, <1>3, <2>6 DEF EraseTurn
      <3>2. \A a \in {"path", "fav"} : x_ex[x_cur].shm[a] = 0
        BY <3>1 DEF ExecutorsInv, AllBuilt
      <3> QED
        BY <1>6, <1>7, <1>9, <1>13, <3>1, <3>2 DEF Attachers
    <2> QED
      BY <1>1, <1>4, <2>2, <2>4, <2>5, <2>6 DEF AllBuilt
  <1>18. LastMadeHasAll'
    <2>1. ASSUME Len(x_ex) # 0, Len(x_ex) \notin Dropped
          PROVE  x_active'[x_ex'[Len(x_ex)].kind.class] = Len(x_ex) /\ Names(x_env, Len(x_ex))'
      <3>1. Len(x_ex) # x_cur /\ Len(x_ex) \in 1..Len(x_ex) /\ x_ex'[Len(x_ex)] = x_ex[Len(x_ex)]
        BY <1>2, <1>13, <1>15, <2>1
      <3>2. x_pc \notin {"maps", "env"}
        BY <1>1 DEF DropPcs
      <3>3. x_active[x_ex[Len(x_ex)].kind.class] = Len(x_ex) /\ Names(x_env, Len(x_ex))
        BY <2>1, <3>2 DEF ExecutorsInv, LastMadeHasAll
      <3>4. x_ex[Len(x_ex)].kind.class \in {"native", "proxy"}
        <4>1. x_ex[Len(x_ex)] \in ExecutorRec
          BY <1>2, <3>1
        <4>2. x_ex[Len(x_ex)].kind \in Kinds
          BY <4>1 DEF ExecutorRec
        <4> QED
          BY <4>2, KindFacts
      <3> QED
        BY <1>9, <1>13, <3>1, <3>3, <3>4 DEF Names
    <2> QED
      BY <1>13, <2>1 DEF LastMadeHasAll
  <1> QED
    BY <1>13, <1>14, <1>17, <1>18 DEF ExecutorsInv

LEMMA DropDerivedKeeps ==
    ASSUME ExecutorsInv, DropDerived
    PROVE  ExecutorsInv'
  <1>1. EraseFrame({"path", "fav"}, "base")
    BY DEF DropDerived, EraseFrame, EraseTurn, ExecutorsInv, XTypes
  <1> QED
    BY <1>1, EraseKeepsAll

LEMMA DropExecutorKeeps ==
    ASSUME ExecutorsInv, DropExecutor
    PROVE  ExecutorsInv'
  <1>1. x_active \in [{"native", "proxy"} -> Nat]
    BY DEF ExecutorsInv, XTypes
  <1>2. /\ x_active' \in [{"native", "proxy"} -> Nat]
        /\ \A c \in {"native", "proxy"} : x_active[c] # x_cur => x_active'[c] = x_active[c]
    BY <1>1 DEF DropExecutor
  <1>3. EraseFrame({"edge", "bb"}, "terminate")
    BY <1>2 DEF DropExecutor, EraseFrame, EraseTurn
  <1> QED
    BY <1>3, EraseKeepsAll

LEMMA DropMembersKeeps ==
    ASSUME ExecutorsInv, DropMembers
    PROVE  ExecutorsInv'
  <1>1. EraseFrame({"edge", "bb"}, "idle")
    BY DEF DropMembers, EraseFrame, EraseTurn, ExecutorsInv, XTypes
  <1> QED
    BY <1>1, EraseKeepsAll

LEMMA TerminateForkServerKeeps ==
    ASSUME ExecutorsInv, TerminateForkServer
    PROVE  ExecutorsInv'
  <1> DEFINE r == [x_ex[x_cur] EXCEPT !.open = FALSE, !.srv = FALSE]
  <1>1. /\ x_pc = "terminate" /\ x_pc' = "members" /\ x_pc \in DropPcs /\ x_pc' \in DropPcs
        /\ x_ex' = [x_ex EXCEPT ![x_cur].open = FALSE, ![x_cur].srv = FALSE]
        /\ UNCHANGED <<x_todo, x_cur, x_env, x_shm, x_next, x_active, x_sig, x_handler, x_timer, x_put,
                       x_file, x_tok, x_copies, x_err>>
    BY DEF TerminateForkServer, DropPcs
  <1>2. /\ x_ex \in Seq(ExecutorRec) /\ x_cur \in 1..Len(x_ex) /\ x_ex[x_cur] \in ExecutorRec /\ Len(x_ex) \in Nat
    BY <1>1, Worker
  <1>3. /\ r \in ExecutorRec /\ r.shm = x_ex[x_cur].shm /\ r.kind = x_ex[x_cur].kind /\ ~r.open
        /\ r.pipe = x_ex[x_cur].pipe /\ ~r.srv
    BY <1>2 DEF ExecutorRec
  <1>4. Becomes(x_cur, r)
    BY <1>1, <1>2 DEF Becomes
  <1> HIDE DEF r
  <1>5. WorkFrame(r)
    BY <1>1, <1>3, <1>4 DEF WorkFrame, MakePcs, DropPcs, ExecutorsInv, XTypes
  <1>6. /\ XTypes' /\ PlanFollowed' /\ RunRight' /\ FeedbackOfItsRun' /\ OutputOfItsRun' /\ x_err' # "shm"
        /\ Dropped' = Dropped /\ Kind' = Kind /\ Len(x_ex') = Len(x_ex) /\ x_ex'[x_cur] = r
        /\ \A e \in 1..Len(x_ex) : e # x_cur => x_ex'[e] = x_ex[e]
        /\ x_sig' = {x_ex'[e].kind.class : e \in 1..Len(x_ex')}
        /\ \A e \in 1..Len(x_ex') :
                 (\A f \in 1..Len(x_ex') : x_ex'[f].kind.class = x_ex'[e].kind.class)
                      => x_handler' = x_ex'[e].kind.class
    BY <1>5, WorkStep
  <1>7. \A e \in 1..Len(x_ex) : x_ex'[e].shm = x_ex[e].shm
    BY <1>3, <1>6
  <1>8. SegmentsOwned'
    BY <1>1, <1>6, <1>7 DEF ExecutorsInv, SegmentsOwned
  <1>9. x_cur \in Dropped
    BY <1>1, <1>2 DEF Dropped
  <1>10. \A a \in Attachers : r.shm[a] = 0
    BY <1>1, <1>3 DEF ExecutorsInv, AllBuilt
  <1>11. AllBuilt'
    <2>1. \A e \in 1..Len(x_ex) \ Dropped : e # x_cur => Built(e)'
      BY <1>5, OthersBuilt
    <2>2. \A e \in 1..Len(x_ex') \ Dropped' : Built(e)'
      BY <1>6, <1>9, <2>1
    <2>3. \A e \in 1..Len(x_ex') : ~x_ex'[e].open => ~x_ex'[e].srv /\ \A a \in Attachers : x_ex'[e].shm[a] = 0
      BY <1>3, <1>5, <1>10, OthersBuilt
    <2> QED
      BY <1>1, <1>3, <1>6, <1>10, <2>2, <2>3 DEF AllBuilt, MakePcs
  <1>12. LastMadeHasAll'
    <2>1. ASSUME Len(x_ex) # 0, Len(x_ex) \notin Dropped
          PROVE  x_active'[x_ex'[Len(x_ex)].kind.class] = Len(x_ex) /\ Names(x_env, Len(x_ex))'
      <3>1. Len(x_ex) # x_cur /\ x_ex'[Len(x_ex)] = x_ex[Len(x_ex)]
        BY <1>2, <1>6, <1>9, <2>1
      <3>2. x_active[x_ex[Len(x_ex)].kind.class] = Len(x_ex) /\ Names(x_env, Len(x_ex))
        BY <1>1, <2>1 DEF ExecutorsInv, LastMadeHasAll
      <3> QED
        BY <1>1, <1>6, <3>1, <3>2 DEF Names
    <2> QED
      BY <1>6, <2>1 DEF LastMadeHasAll
  <1> QED
    BY <1>6, <1>8, <1>11, <1>12 DEF ExecutorsInv

-----------------------------------------------------------------------------
(* All together.                                                            *)

LEMMA ExecutorsBegin == XInit => ExecutorsInv
  <1> SUFFICES ASSUME XInit PROVE ExecutorsInv
    OBVIOUS
  <1> USE DEF XInit
  <1>1. x_ex = <<>> /\ Len(x_ex) = 0 /\ x_ex \in Seq(ExecutorRec) /\ 1..Len(x_ex) = {}
    OBVIOUS
  <1>2. XTypes
    <2>1. x_shm \in [DOMAIN x_shm -> Nat]
      OBVIOUS
    <2>2. x_put \in PutRec
      BY DEF PutRec
    <2> QED
      BY <1>1, <2>1, <2>2 DEF XTypes, MakePcs, RunPcs, PutPcs, DropPcs
  <1>3. PlanFollowed
    <2>1. PICK plan \in FuzzerPlans : x_todo = plan
      OBVIOUS
    <2>2. Orderly(plan) /\ Len(plan) \in Nat
      BY PlansAssumption, PlanTypes
    <2>3. x_todo = SubSeq(plan, 0 + 1, Len(plan))
      <3> DEFINE Steps == ({"make"} \X Kinds) \cup ({"run", "drop"} \X (Nat \ {0}))
      <3>1. plan \in Seq(Steps)
        BY <2>2 DEF Orderly
      <3> HIDE DEF Steps
      <3> QED
        BY <2>1, <2>2, <3>1
    <2>4. MadeBy(plan, 0) = 0
      BY MadeSteps
    <2>5. 0 \in 0..Len(plan) /\ 1..0 = {}
      BY <2>2
    <2> QED
      BY <1>1, <2>3, <2>4, <2>5 DEF PlanFollowed
  <1>4. SegmentsOwned
    BY <1>1 DEF SegmentsOwned
  <1>5. AllBuilt
    BY <1>1 DEF AllBuilt, MakePcs
  <1>6. LastMadeHasAll
    BY <1>1 DEF LastMadeHasAll
  <1>7. RunRight
    BY <1>1 DEF RunRight, RunPcs, PutPcs
  <1> QED
    BY <1>2, <1>3, <1>4, <1>5, <1>6, <1>7 DEF ExecutorsInv, FeedbackOfItsRun, OutputOfItsRun

LEMMA ExecutorsStep == ExecutorsInv /\ [XNext]_xVars => ExecutorsInv'
  <1> SUFFICES ASSUME ExecutorsInv, [XNext]_xVars PROVE ExecutorsInv'
    OBVIOUS
  <1>1. CASE UNCHANGED xVars
    <2> USE <1>1 DEF xVars
    <2>1. Kind' = Kind /\ Dropped' = Dropped /\ SameKinds
      BY DEF Kind, Dropped, SameKinds
    <2>2. PlanFollowed'
      BY <2>1, PlanKept DEF ExecutorsInv
    <2>3. XTypes' /\ SegmentsOwned'
      BY DEF ExecutorsInv, XTypes, SegmentsOwned
    <2>4. \A e : Built(e) <=> Built(e)'
      BY DEF Built, Names
    <2>5. AllBuilt'
      BY <2>1, <2>4 DEF ExecutorsInv, AllBuilt
    <2>6. LastMadeHasAll'
      BY <2>1 DEF ExecutorsInv, LastMadeHasAll, Names
    <2>7. MayRun(x_cur)' <=> MayRun(x_cur)
      BY <2>1 DEF MayRun
    <2>8. RunRight'
      BY <2>1, <2>7 DEF ExecutorsInv, RunRight, Names
    <2>9. FeedbackOfItsRun' /\ OutputOfItsRun' /\ x_err' # "shm"
      BY <2>1 DEF ExecutorsInv, FeedbackOfItsRun, OutputOfItsRun
    <2> QED
      BY <2>2, <2>3, <2>5, <2>6, <2>8, <2>9 DEF ExecutorsInv
  <1>2. CASE XNext
    BY <1>2, InitilizeKeeps, SetupSharedMemoriesKeeps, SetupEnvironmentKeeps, SetupForkServerKeeps,
       RunBeginsKeeps, ForkPutKeeps, RequestPutKeeps, PutWorksKeeps, PutExitsKeeps, ArmTimerKeeps, PollEndsKeeps,
       AlarmRingsKeeps, StopArrivesKeeps, RunEndsKeeps, ConvertKeeps, DropBeginsKeeps, DropDerivedKeeps,
       DropExecutorKeeps, TerminateForkServerKeeps, DropMembersKeeps, Zenon DEF XNext
  <1> QED
    BY <1>1, <1>2

\* When the plan is done there is no segment, fork server or open file.
LEMMA NothingStays ==
    ASSUME ExecutorsInv
    PROVE  NothingLeft
  <1>1. x_err # "shm"
    BY DEF ExecutorsInv
  <1>2. ASSUME x_pc = "idle", x_todo = <<>>
        PROVE  DOMAIN x_shm = {} /\ \A e \in DOMAIN x_ex : ~x_ex[e].srv /\ ~x_ex[e].open
    <2>1. \A e \in 1..Len(x_ex) : e \in Dropped
      BY <1>2, PlanDone DEF ExecutorsInv
    <2>2. \A e \in 1..Len(x_ex) : ~x_ex[e].open
      BY <1>2, <2>1 DEF Dropped, DropPcs
    <2>3. \A e \in 1..Len(x_ex) : ~x_ex[e].srv /\ \A a \in Attachers : x_ex[e].shm[a] = 0
      BY <2>2 DEF ExecutorsInv, AllBuilt
    <2>4. \A s : s \notin DOMAIN x_shm
      BY <2>3 DEF ExecutorsInv, SegmentsOwned
    <2>5. DOMAIN x_ex = 1..Len(x_ex)
      BY DEF ExecutorsInv, XTypes
    <2> QED
      BY <2>2, <2>3, <2>4, <2>5
  <1> QED
    BY <1>1, <1>2 DEF NothingLeft

\* Executors of one process, whatever orderly plan a fuzzer follows with whatever number
\* of them, do not disturb each other: a feedback, an output and an alarm are those of the
\* run they belong to, no segment is removed twice, and nothing stays.
THEOREM ExecutorsStayApart == XSpec => []ExecutorsApart
  <1>1. ExecutorsInv => ExecutorsApart
    BY AlarmFinds, NothingStays DEF ExecutorsInv, ExecutorsApart
  <1> QED
    BY <1>1, ExecutorsBegin, ExecutorsStep, PTL DEF XSpec
=============================================================================
