------------------------------ MODULE Executors ------------------------------
(***************************************************************************)
(* All the executors of one process: what their constructors, Run and      *)
(* their destructors do to what the process has only once (the             *)
(* environment, SIGALRM and its timer, the static active_instance of each  *)
(* class, the System V segments, the file of the input).  Executor is the  *)
(* fine model of one Run; here Run is cut where executors can meet.        *)
(*                                                                         *)
(* A plan is what a fuzzer does with its executors, in its order: <<"make",*)
(* kind>>, <<"run", i>>, <<"drop", i>>, i counting constructions.  An      *)
(* input is the number of its run, and a PUT that works writes it to every *)
(* segment its environment names and to its output.                        *)
(***************************************************************************)
EXTENDS Integers, Sequences, FiniteSets

CONSTANTS FuzzerPlans     \* the plans that are checked, see PlansAssumption

VARIABLES
    x_todo,               \* the rest of the plan
    x_pc, x_cur,          \* where the executor x_cur is; "idle" between its operations
    x_ex,                 \* the executors, in the order of construction
    x_env,                \* the variables of the environment: a segment, or 0
    x_shm,                \* the segments that exist and what they hold
    x_next,               \* the next segment identifier
    x_active,             \* active_instance of each class, 0 for nullptr
    x_sig, x_handler,     \* has_setup_sighandlers; the class that owns SIGALRM
    x_timer,              \* ITIMER_REAL is armed
    x_put,                \* the PUT: its state, its environment, how it ended
    x_file,               \* the content of the file of the input
    x_tok,                \* the number of the run
    x_copies,             \* the PersistentMemoryFeedbacks, with their run
    x_err                 \* why the process ended

xVars == <<x_todo, x_pc, x_cur, x_ex, x_env, x_shm, x_next, x_active, x_sig, x_handler,
           x_timer, x_put, x_file, x_tok, x_copies, x_err>>

-----------------------------------------------------------------------------
(* Kinds of executors and what fuzzers do with them.                       *)

Native(forksrv, record) ==
    [class |-> "native", forksrv |-> forksrv, maps |-> {"edge", "bb"}, limit |-> TRUE, record |-> record]
QEMUExecutor ==
    [class |-> "proxy", forksrv |-> TRUE, maps |-> {"edge"}, limit |-> TRUE, record |-> FALSE]
CoreSightExecutor ==
    [class |-> "proxy", forksrv |-> FALSE, maps |-> {"edge"}, limit |-> TRUE, record |-> FALSE]
PTExecutor ==
    [class |-> "proxy", forksrv |-> TRUE, maps |-> {"path", "fav"}, limit |-> TRUE, record |-> FALSE]
PinToolExecutor ==
    [class |-> "proxy", forksrv |-> FALSE, maps |-> {}, limit |-> FALSE, record |-> FALSE]
PolyTrackerExecutor == PinToolExecutor

\* AFL and its kin have one executor until they end.
AflPlan(forksrv) ==
    <<<<"make", Native(forksrv, FALSE)>>, <<"run", 1>>, <<"run", 1>>, <<"drop", 1>>>>
\* VUzzer: without time limits, on one file.
VUzzerPlan ==
    <<<<"make", PinToolExecutor>>, <<"make", PolyTrackerExecutor>>, <<"run", 1>>, <<"run", 2>>,
      <<"run", 1>>, <<"drop", 2>>, <<"drop", 1>>>>
\* LibFuzzer: the flow of the initialization has an executor of its own.
LibFuzzerPlan ==
    <<<<"make", Native(TRUE, FALSE)>>, <<"run", 1>>, <<"drop", 1>>,
      <<"make", Native(TRUE, FALSE)>>, <<"run", 2>>, <<"drop", 2>>>>
\* NezhaFuzzer: the first one lives until those of the two targets are made.
NezhaPlan ==
    <<<<"make", Native(TRUE, FALSE)>>, <<"run", 1>>, <<"make", Native(TRUE, TRUE)>>,
      <<"make", Native(TRUE, TRUE)>>, <<"drop", 1>>, <<"run", 2>>, <<"run", 3>>, <<"run", 2>>,
      <<"drop", 2>>, <<"drop", 3>>>>
\* PythonFuzzer with one Reset.
PythonPlan(forksrv) ==
    <<<<"make", Native(forksrv, FALSE)>>, <<"run", 1>>, <<"drop", 1>>,
      <<"make", Native(forksrv, FALSE)>>, <<"run", 2>>, <<"drop", 2>>>>
LibraryPlan(kind) == <<<<"make", kind>>, <<"run", 1>>, <<"run", 1>>, <<"drop", 1>>>>

AllPlans ==
    {AflPlan(TRUE), AflPlan(FALSE), VUzzerPlan, LibFuzzerPlan, NezhaPlan, PythonPlan(TRUE),
     PythonPlan(FALSE), LibraryPlan(QEMUExecutor), LibraryPlan(CoreSightExecutor),
     LibraryPlan(PTExecutor)}

Kinds ==
    {Native(TRUE, TRUE), Native(TRUE, FALSE), Native(FALSE, TRUE), Native(FALSE, FALSE),
     QEMUExecutor, CoreSightExecutor, PTExecutor, PinToolExecutor}

\* How many executors the first p steps of a plan make.
MadeBy(plan, p) == Cardinality({q \in 1..p : plan[q][1] = "make"})

\* An executor that is not served by a fork server and needs what the process has once:
\* the environment for its maps, SIGALRM for its time limit.
Exposed(kind) == ~kind.forksrv /\ (kind.limit \/ kind.maps # {})

\* Step q makes the executor that step p runs or drops.
Makes(plan, q, p) == q < p /\ plan[q][1] = "make" /\ MadeBy(plan, q) = plan[p][2]

\* What fuzzers do: they run and drop what they made, nothing is run after it was dropped
\* and everything is dropped.  An exposed executor runs only while no other executor was
\* made after it and none of the other class before.
Orderly(plan) ==
    /\ plan \in Seq(({"make"} \X Kinds) \cup ({"run", "drop"} \X (Nat \ {0})))
    /\ \A p \in 1..Len(plan) : plan[p][1] \in {"run", "drop"} => \E q \in 1..Len(plan) : Makes(plan, q, p)
    /\ \A p, r \in 1..Len(plan) : plan[p][1] = "run" /\ r < p => plan[r] # <<"drop", plan[p][2]>>
    /\ \A p, q, r \in 1..Len(plan) :
          plan[p][1] = "run" /\ Makes(plan, q, p) /\ Exposed(plan[q][2]) /\ r < p /\ plan[r][1] = "make"
              => r <= q /\ plan[r][2].class = plan[q][2].class
    /\ \A q \in 1..Len(plan) : plan[q][1] = "make" =>
          \E p \in 1..Len(plan) : plan[p] = <<"drop", MadeBy(plan, q)>>

ASSUME PlansAssumption == \A plan \in FuzzerPlans : Orderly(plan)

-----------------------------------------------------------------------------
(* Coverage attachers.                                                     *)

Attachers == {"edge", "bb", "path", "fav"}
EnvVars   == {"__AFL_SHM_ID", "__WYVERN_SHM_ID", "__AFL_PTFAV_SHM_ID"}

SHM_ENV_VAR(a) ==
    CASE a \in {"edge", "path"} -> "__AFL_SHM_ID" [] a = "bb" -> "__WYVERN_SHM_ID"
      [] a = "fav" -> "__AFL_PTFAV_SHM_ID"

\* Setup: each attacher with a size gets a segment of its own.
ShmSetup(atts) ==
    LET Id(a) == x_next + (CASE a = "edge" -> 0 [] a = "bb" -> 1 [] a = "path" -> 2 [] a = "fav" -> 3)
    IN  /\ x_ex' = [x_ex EXCEPT ![x_cur].shm = [a \in Attachers |-> IF a \in atts THEN Id(a) ELSE 0]]
        /\ x_shm' = [s \in DOMAIN x_shm \cup {Id(a) : a \in atts} |-> IF s < x_next THEN x_shm[s] ELSE 0]
        /\ x_next' = x_next + 4

\* Reset: the segments of the executor are zeroed.
ShmReset(e) == [s \in DOMAIN x_shm |-> IF \E a \in Attachers : x_ex[e].shm[a] = s THEN 0 ELSE x_shm[s]]

\* Mutant: the identifier is kept, and the destructor of the attacher erases again.
EraseKeeps(atts, next) ==
    LET gone == {x_ex[x_cur].shm[a] : a \in atts} \ {0}
    IN  IF gone \subseteq DOMAIN x_shm
          THEN /\ x_shm' = [s \in DOMAIN x_shm \ gone |-> x_shm[s]]
               /\ x_pc' = next
               /\ UNCHANGED <<x_ex, x_err>>
          ELSE x_pc' = "exited" /\ x_err' = "shm" /\ UNCHANGED <<x_ex, x_shm>>

\* Erase: detach and remove; doing it to a removed segment is an ERROR.
Erase(atts, next) ==
    LET gone == {x_ex[x_cur].shm[a] : a \in atts} \ {0}
    IN  IF gone \subseteq DOMAIN x_shm
          THEN /\ x_shm' = [s \in DOMAIN x_shm \ gone |-> x_shm[s]]
               /\ x_ex' = [x_ex EXCEPT ![x_cur].shm = [a \in Attachers |-> IF a \in atts THEN 0 ELSE @[a]]]
               /\ x_pc' = next
               /\ UNCHANGED x_err
          ELSE x_pc' = "exited" /\ x_err' = "shm" /\ UNCHANGED <<x_ex, x_shm>>

\* Mutant: setenv does not overwrite.
EnvironmentKept(environment, a) ==
    IF environment[SHM_ENV_VAR(a)] # 0 /\ x_ex[x_cur].shm[a] # 0 THEN environment
    ELSE [environment EXCEPT ![SHM_ENV_VAR(a)] = x_ex[x_cur].shm[a]]

\* SetupEnvironmentVariable: an attacher without a segment unsets its variable.
SetupEnvironmentVariable(environment, a) ==
    [environment EXCEPT ![SHM_ENV_VAR(a)] = x_ex[x_cur].shm[a]]

\* PTExecutor sets its own two variables and then calls the version it overrides,
\* which has no edge map and so unsets __AFL_SHM_ID.
PTEnvironment(kind) ==
    IF kind = PTExecutor
    THEN SetupEnvironmentVariable(SetupEnvironmentVariable(x_env, "path"), "fav") ELSE x_env

-----------------------------------------------------------------------------
(* Construction.                                                           *)

Kind == x_ex[x_cur].kind

NewExecutor(kind) ==
    [kind |-> kind, open |-> TRUE, offset |-> 0, shm |-> [a \in Attachers |-> 0], srv |-> FALSE,
     srv_env |-> [v \in EnvVars |-> 0], child |-> 0, timed_out |-> FALSE, pipe |-> {}, out |-> {},
     reason |-> "none"]

\* Mutant: only the first executor of a class becomes the active instance.
InitializeOnce ==
    /\ x_pc = "idle" /\ x_todo # <<>> /\ Head(x_todo)[1] = "make"
    /\ LET kind == Head(x_todo)[2]
       IN  /\ x_ex' = Append(x_ex, NewExecutor(kind))
           /\ x_sig' = x_sig \cup {kind.class}
           /\ x_handler' = IF kind.class \in x_sig THEN x_handler ELSE kind.class
           /\ x_active' = IF kind.class \in x_sig THEN x_active
                          ELSE [x_active EXCEPT ![kind.class] = Len(x_ex) + 1]
           /\ x_pc' = IF kind.class = "native" \/ kind.maps # {} THEN "maps" ELSE "server"
    /\ x_cur' = Len(x_ex) + 1
    /\ x_todo' = Tail(x_todo)
    /\ UNCHANGED <<x_env, x_shm, x_next, x_timer, x_put, x_file, x_tok, x_copies, x_err>>

\* Up to OpenExecutorDependantFiles: the handlers once for each class, active_instance
\* always.  A proxy without shared memory leaves the environment alone.
Initilize ==
    /\ x_pc = "idle" /\ x_todo # <<>> /\ Head(x_todo)[1] = "make"
    /\ LET kind == Head(x_todo)[2]
       IN  /\ x_ex' = Append(x_ex, NewExecutor(kind))
           /\ x_sig' = x_sig \cup {kind.class}
           /\ x_handler' = IF kind.class \in x_sig THEN x_handler ELSE kind.class
           /\ x_active' = [x_active EXCEPT ![kind.class] = Len(x_ex) + 1]
           /\ x_pc' = IF kind.class = "native" \/ kind.maps # {} THEN "maps" ELSE "server"
    /\ x_cur' = Len(x_ex) + 1
    /\ x_todo' = Tail(x_todo)
    /\ UNCHANGED <<x_env, x_shm, x_next, x_timer, x_put, x_file, x_tok, x_copies, x_err>>

SetupSharedMemories ==
    /\ x_pc = "maps"
    /\ ShmSetup(Kind.maps)
    /\ x_pc' = "env"
    /\ UNCHANGED <<x_todo, x_cur, x_env, x_active, x_sig, x_handler, x_timer, x_put, x_file, x_tok,
                   x_copies, x_err>>

SetupEnvironmentVariablesForTarget ==
    /\ x_pc = "env"
    /\ x_env' = SetupEnvironmentVariable(SetupEnvironmentVariable(PTEnvironment(Kind), "edge"), "bb")
    /\ x_pc' = "server"
    /\ UNCHANGED <<x_todo, x_cur, x_ex, x_shm, x_next, x_active, x_sig, x_handler, x_timer, x_put,
                   x_file, x_tok, x_copies, x_err>>

\* The fork server keeps the environment it was started with, and so do its PUTs.  When
\* it does not answer in time it is terminated, and ERROR ends the process.
SetupForkServer ==
    /\ x_pc = "server"
    /\ \/ /\ ~Kind.forksrv
          /\ x_pc' = "idle"
          /\ UNCHANGED <<x_ex, x_err>>
       \/ /\ Kind.forksrv
          /\ x_ex' = [x_ex EXCEPT ![x_cur].srv = TRUE, ![x_cur].srv_env = x_env]
          /\ x_pc' = "idle"
          /\ UNCHANGED x_err
       \/ /\ Kind.forksrv
          /\ x_pc' = "exited" /\ x_err' = "server"
          /\ UNCHANGED x_ex
    /\ UNCHANGED <<x_todo, x_cur, x_env, x_shm, x_next, x_active, x_sig, x_handler, x_timer, x_put,
                   x_file, x_tok, x_copies>>

-----------------------------------------------------------------------------
(* Run.                                                                    *)

\* WriteTestInputToFile ends with the offset at the start of the file; the PUT shares it.
RunBegins ==
    /\ x_pc = "idle" /\ x_todo # <<>> /\ Head(x_todo)[1] = "run"
    /\ x_cur' = Head(x_todo)[2]
    /\ x_todo' = Tail(x_todo)
    /\ x_shm' = ShmReset(x_cur')
    /\ x_tok' = x_tok + 1
    /\ x_file' = x_tok'
    /\ x_ex' = [x_ex EXCEPT ![x_cur'].out = {}, ![x_cur'].offset = 0]
    /\ x_pc' = "spawn"
    /\ UNCHANGED <<x_env, x_next, x_active, x_sig, x_handler, x_timer, x_put, x_copies, x_err>>

NewPut(environment) == [st |-> "running", env |-> environment, worked |-> FALSE, end |-> "no"]

\* fork and execv: the PUT inherits the environment of this moment.
ForkPut ==
    /\ x_pc = "spawn" /\ ~Kind.forksrv
    /\ x_put' = NewPut(x_env)
    /\ x_ex' = [x_ex EXCEPT ![x_cur].child = 1]
    /\ x_pc' = "arm"
    /\ UNCHANGED <<x_todo, x_cur, x_env, x_shm, x_next, x_active, x_sig, x_handler, x_timer, x_file,
                   x_tok, x_copies, x_err>>

\* The fork server forks the PUT; child_pid is stored only after the epoll loop.
RequestPut ==
    /\ x_pc = "spawn" /\ Kind.forksrv
    /\ x_put' = NewPut(x_ex[x_cur].srv_env)
    /\ x_pc' = "poll"
    /\ UNCHANGED <<x_todo, x_cur, x_ex, x_env, x_shm, x_next, x_active, x_sig, x_handler, x_timer,
                   x_file, x_tok, x_copies, x_err>>

\* The PUT reads its input, marks the segments its environment names and writes output.
PutWorks ==
    /\ x_put.st = "running" /\ ~x_put.worked
    /\ LET read == IF x_ex[x_cur].offset = 0 THEN x_file ELSE 0
       IN  /\ x_shm' = [s \in DOMAIN x_shm |->
                          IF \E v \in EnvVars : x_put.env[v] = s THEN read ELSE x_shm[s]]
           /\ x_ex' = [x_ex EXCEPT ![x_cur].offset = 1,
                                   ![x_cur].pipe = IF Kind.record THEN @ \cup {read} ELSE @]
    /\ x_put' = [x_put EXCEPT !.worked = TRUE]
    /\ UNCHANGED <<x_todo, x_pc, x_cur, x_env, x_next, x_active, x_sig, x_handler, x_timer, x_file,
                   x_tok, x_copies, x_err>>

PutExits ==
    /\ x_put.st = "running"
    /\ \E how \in {"exit", "signal"} : x_put' = [x_put EXCEPT !.st = "dead", !.end = how]
    /\ UNCHANGED <<x_todo, x_pc, x_cur, x_ex, x_env, x_shm, x_next, x_active, x_sig, x_handler,
                   x_timer, x_file, x_tok, x_copies, x_err>>

\* KillChildWithoutWait of executor e, and whether it notes a timeout.
Killed(e, timed_out) ==
    /\ x_ex' = [x_ex EXCEPT ![e].child = IF @ > 0 THEN -1 ELSE @,
                            ![e].timed_out = timed_out \/ @]
    /\ x_put' = IF x_ex[e].child > 0 /\ e = x_cur /\ x_put.st = "running"
                  THEN [x_put EXCEPT !.st = "dead", !.end = "kill"] ELSE x_put

ArmTimer ==
    /\ x_pc = "arm"
    /\ x_ex' = [x_ex EXCEPT ![x_cur].timed_out = FALSE]
    /\ x_timer' = Kind.limit
    /\ x_pc' = "wait"
    /\ UNCHANGED <<x_todo, x_cur, x_env, x_shm, x_next, x_active, x_sig, x_handler, x_put, x_file,
                   x_tok, x_copies, x_err>>

\* The status has come, or the time is up: then the PUT is killed.
PollEnds ==
    /\ x_pc = "poll"
    /\ \E late \in BOOLEAN :
         /\ late \/ x_put.st = "dead"
         /\ x_ex' = [x_ex EXCEPT ![x_cur].child = IF late THEN -1 ELSE 1,
                                 ![x_cur].timed_out = late \/ @]
         /\ x_put' = IF late /\ x_put.st = "running"
                       THEN [x_put EXCEPT !.st = "dead", !.end = "kill"] ELSE x_put
    /\ x_pc' = "wait"
    /\ UNCHANGED <<x_todo, x_cur, x_env, x_shm, x_next, x_active, x_sig, x_handler, x_timer, x_file,
                   x_tok, x_copies, x_err>>

\* AlarmHandler: an assertion that there is an active instance, and its child is killed.
AlarmRings ==
    /\ x_timer
    /\ x_timer' = FALSE
    /\ LET a == x_active[x_handler]
       IN  IF a = 0 THEN x_pc' = "exited" /\ x_err' = "assert" /\ UNCHANGED <<x_ex, x_put>>
           ELSE Killed(a, TRUE) /\ UNCHANGED <<x_pc, x_err>>
    /\ UNCHANGED <<x_todo, x_cur, x_env, x_shm, x_next, x_active, x_sig, x_handler, x_file, x_tok,
                   x_copies>>

\* ReceiveStopSignal, while a run is under way.
StopArrives ==
    /\ x_pc \in {"arm", "poll", "wait"}
    /\ Killed(x_cur, FALSE)
    /\ UNCHANGED <<x_todo, x_pc, x_cur, x_env, x_shm, x_next, x_active, x_sig, x_handler, x_timer,
                   x_file, x_tok, x_copies, x_err>>

Reason(e) ==
    CASE x_put.end = "kill" -> IF x_ex[e].timed_out THEN "FAULT_TMOUT" ELSE "FAULT_CRASH"
      [] x_put.end = "signal" -> "FAULT_CRASH" [] x_put.end = "exit" -> "FAULT_NONE"

\* Mutant: the output that is still in the pipe is left there.
RunEndsUndrained ==
    /\ x_pc = "wait" /\ x_put.st = "dead"
    /\ x_ex' = [x_ex EXCEPT ![x_cur].child = 0, ![x_cur].reason = Reason(x_cur),
                            ![x_cur].out = @ \cup (IF x_put.end = "kill" THEN {} ELSE x_ex[x_cur].pipe),
                            ![x_cur].pipe = IF x_put.end = "kill" THEN @ ELSE {}]
    /\ x_put' = [x_put EXCEPT !.st = "none"]
    /\ x_timer' = FALSE
    /\ x_pc' = "ran"
    /\ UNCHANGED <<x_todo, x_cur, x_env, x_shm, x_next, x_active, x_sig, x_handler, x_file, x_tok,
                   x_copies, x_err>>

\* The status is read, the pipes are drained, the timer is taken back.
RunEnds ==
    /\ x_pc = "wait" /\ x_put.st = "dead"
    /\ x_ex' = [x_ex EXCEPT ![x_cur].child = 0, ![x_cur].reason = Reason(x_cur),
                            ![x_cur].out = @ \cup x_ex[x_cur].pipe, ![x_cur].pipe = {}]
    /\ x_put' = [x_put EXCEPT !.st = "none"]
    /\ x_timer' = FALSE
    /\ x_pc' = "ran"
    /\ UNCHANGED <<x_todo, x_cur, x_env, x_shm, x_next, x_active, x_sig, x_handler, x_file, x_tok,
                   x_copies, x_err>>

\* The fuzzer takes the feedback, makes it persistent and lets go of it before the next
\* Run: IsFeedbackLocked would not stop it, as no lock is ever allocated.
ConvertToPersistent ==
    /\ x_pc = "ran"
    /\ x_copies' = x_copies \cup
         {[run |-> x_tok, worked |-> x_put.worked, map |-> a,
           content |-> x_shm[x_ex[x_cur].shm[a]]] : a \in Kind.maps}
    /\ x_pc' = "idle"
    /\ UNCHANGED <<x_todo, x_cur, x_ex, x_env, x_shm, x_next, x_active, x_sig, x_handler, x_timer,
                   x_put, x_file, x_tok, x_err>>

-----------------------------------------------------------------------------
(* Destruction.                                                            *)

\* The members of a derived class go first, which are the attachers of PTExecutor.
DropBegins ==
    /\ x_pc = "idle" /\ x_todo # <<>> /\ Head(x_todo)[1] = "drop"
    /\ x_cur' = Head(x_todo)[2]
    /\ x_todo' = Tail(x_todo)
    /\ x_pc' = "derived"
    /\ UNCHANGED <<x_ex, x_env, x_shm, x_next, x_active, x_sig, x_handler, x_timer, x_put, x_file,
                   x_tok, x_copies, x_err>>

DropDerived ==
    /\ x_pc = "derived"
    /\ Erase({"path", "fav"}, "base")
    /\ UNCHANGED <<x_todo, x_cur, x_env, x_next, x_active, x_sig, x_handler, x_timer, x_put, x_file,
                   x_tok, x_copies>>

\* The destructor: another instance may have become the active one.
DropExecutor ==
    /\ x_pc = "base"
    /\ x_active' = [c \in DOMAIN x_active |-> IF x_active[c] = x_cur THEN 0 ELSE x_active[c]]
    /\ Erase({"edge", "bb"}, "terminate")
    /\ UNCHANGED <<x_todo, x_cur, x_env, x_next, x_sig, x_handler, x_timer, x_put, x_file, x_tok,
                   x_copies>>

TerminateForkServer ==
    /\ x_pc = "terminate"
    /\ x_ex' = [x_ex EXCEPT ![x_cur].open = FALSE, ![x_cur].srv = FALSE]
    /\ x_pc' = "members"
    /\ UNCHANGED <<x_todo, x_cur, x_env, x_shm, x_next, x_active, x_sig, x_handler, x_timer, x_put,
                   x_file, x_tok, x_copies, x_err>>

\* The destructors of the attachers erase once more.
DropMembers ==
    /\ x_pc = "members"
    /\ Erase({"edge", "bb"}, "idle")
    /\ UNCHANGED <<x_todo, x_cur, x_env, x_next, x_active, x_sig, x_handler, x_timer, x_put, x_file,
                   x_tok, x_copies>>

-----------------------------------------------------------------------------
XInit ==
    /\ x_todo \in FuzzerPlans
    /\ x_pc = "idle" /\ x_cur = 0
    /\ x_ex = <<>>
    /\ x_env = [v \in EnvVars |-> 0]
    /\ x_shm = <<>> /\ x_next = 1
    /\ x_active = [c \in {"native", "proxy"} |-> 0]
    /\ x_sig = {} /\ x_handler = "none" /\ x_timer = FALSE
    /\ x_put = [st |-> "none", env |-> [v \in EnvVars |-> 0], worked |-> FALSE, end |-> "no"]
    /\ x_file = 0 /\ x_tok = 0 /\ x_copies = {} /\ x_err = "none"

XNext ==
    \/ Initilize \/ SetupSharedMemories \/ SetupEnvironmentVariablesForTarget \/ SetupForkServer
    \/ RunBegins \/ ForkPut \/ RequestPut \/ PutWorks \/ PutExits \/ ArmTimer \/ PollEnds \/ AlarmRings
    \/ StopArrives \/ RunEnds \/ ConvertToPersistent
    \/ DropBegins \/ DropDerived \/ DropExecutor \/ TerminateForkServer \/ DropMembers

XSpec == XInit /\ [][XNext]_xVars

-----------------------------------------------------------------------------
(* Properties.                                                             *)

\* A PersistentMemoryFeedback shows for ever the input of the run it was taken after, or
\* nothing when the PUT of that run was stopped before it worked: never another run's
\* and never another executor's, whatever executors were made and dropped around it.  The
\* path map of PTExecutor is left out, see PTEnvironment.
FeedbackOfItsRun ==
    \A c \in x_copies : c.map # "path" => c.content = IF c.worked THEN c.run ELSE 0

\* The output that Run captured is the output of that run's PUT and of no other.
OutputOfItsRun ==
    x_pc = "ran" /\ Kind.record =>
        x_ex[x_cur].out = IF x_put.worked THEN {x_tok} ELSE {}

\* SIGALRM finds the executor whose run it limits: the timer is armed only while the
\* handler's class is that of the running executor and that is its active instance.
AlarmHitsRunner ==
    x_timer => x_handler = Kind.class /\ x_active[x_handler] = x_cur

\* Every segment is removed once and by its owner: dropping an executor never fails, and
\* when all are dropped there is no segment, no fork server and no open file any more.
NothingLeft ==
    /\ x_err # "shm"
    /\ x_pc = "idle" /\ x_todo = <<>> /\ x_ex # <<>> =>
         DOMAIN x_shm = {} /\ \A e \in DOMAIN x_ex : ~x_ex[e].srv /\ ~x_ex[e].open

\* Executors of one process do not disturb each other: a feedback, an output and an
\* alarm are those of the run they belong to, and nothing stays when they are dropped.
ExecutorsApart ==
    FeedbackOfItsRun /\ OutputOfItsRun /\ AlarmHitsRunner /\ NothingLeft
=============================================================================
