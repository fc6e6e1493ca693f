------------------------------ MODULE PyFuzzer -------------------------------
(***************************************************************************)
(* PythonFuzzer, the class that a Python script drives: the script selects *)
(* a seed, has it mutated and executed by one call, and goes on with the   *)
(* identifier that the call returned.  Reset and Release end a session.    *)
(*                                                                         *)
(* A call runs the flow mutation, PyExecutePUT, PyUpdate.  The content of  *)
(* an input is also what the PUT leaves in the coverage maps.              *)
(***************************************************************************)
EXTENDS Integers, FiniteSets

CONSTANTS
    PyContents,      \* contents of inputs
    PyFault,         \* what the PUT does with each: FAULT_NONE, FAULT_CRASH or FAULT_TMOUT
    PyInDir,         \* the contents of the files in in_dir
    MaxPyIds,        \* inputs created
    MaxPySessions    \* calls of Reset

VARIABLES
    py_inputs,       \* input_set, a content for each identifier
    py_tests,        \* test_set: the input and its feedback
    py_mutator,      \* the buffer of state->mutator, or NoContent
    py_files,        \* the files below out_dir: directory and content by identifier
    py_next,         \* ExecInput::id_counter
    py_map,          \* the coverage maps of the executor
    py_reason,       \* last_exit_reason
    py_pc,           \* "seeds", "idle", "execute", "update", "reply", "released", "exited"
    py_call,         \* the call that runs: "seed" of in_dir, "add" or "mutate"
    py_buf,          \* the buffer that is executed
    py_unread,       \* the files of in_dir still to be executed
    py_resp,         \* the response of the flow
    py_held,         \* the identifiers the script got in this session and did not remove
    py_sessions

pyVars == <<py_inputs, py_tests, py_mutator, py_files, py_next, py_map, py_reason, py_pc, py_call, py_buf,
            py_unread, py_resp, py_held, py_sessions>>

NoContent == "none"
InvalidId == -1

With(f, id, value) == [i \in DOMAIN f \cup {id} |-> IF i = id THEN value ELSE f[i]]
Without(f, id)     == [i \in DOMAIN f \ {id} |-> f[i]]

-----------------------------------------------------------------------------
(* Sessions.                                                               *)

PyInit ==
    /\ py_inputs = <<>> /\ py_tests = <<>> /\ py_mutator = NoContent /\ py_files = <<>>
    /\ py_next = 0 /\ py_map = NoContent /\ py_reason = "FAULT_NONE"
    /\ py_pc = "seeds" /\ py_call = "seed" /\ py_buf = NoContent /\ py_unread = PyInDir
    /\ py_resp = InvalidId /\ py_held = {} /\ py_sessions = 0

\* Mutant: out_dir is not emptied.
ResetKeepsFiles ==
    /\ py_pc \in {"idle", "released"}
    /\ py_sessions < MaxPySessions
    /\ py_sessions' = py_sessions + 1
    /\ py_inputs' = <<>> /\ py_tests' = <<>> /\ py_mutator' = NoContent
    /\ py_map' = NoContent /\ py_reason' = "FAULT_NONE"
    /\ py_held' = {}
    /\ py_unread' = PyInDir
    /\ py_pc' = "seeds"
    /\ UNCHANGED <<py_files, py_next, py_call, py_buf, py_resp>>

\* Reset: executor, out_dir, state and flow are made anew; the identifiers go on.
Reset ==
    /\ py_pc \in {"idle", "released"}
    /\ py_sessions < MaxPySessions
    /\ py_sessions' = py_sessions + 1
    /\ py_inputs' = <<>> /\ py_tests' = <<>> /\ py_mutator' = NoContent /\ py_files' = <<>>
    /\ py_map' = NoContent /\ py_reason' = "FAULT_NONE"
    /\ py_held' = {}
    /\ py_unread' = PyInDir
    /\ py_pc' = "seeds"
    /\ UNCHANGED <<py_next, py_call, py_buf, py_resp>>

\* Release: nothing is left that could be called but Reset.
Release ==
    /\ py_pc = "idle"
    /\ py_pc' = "released"
    /\ py_inputs' = <<>> /\ py_tests' = <<>> /\ py_mutator' = NoContent /\ py_files' = <<>>
    /\ py_map' = NoContent /\ py_reason' = "FAULT_NONE" /\ py_held' = {}
    /\ UNCHANGED <<py_next, py_call, py_buf, py_unread, py_resp, py_sessions>>

\* ExecuteInitialSeeds: add_seed for each file of in_dir.
ExecuteInitialSeeds ==
    /\ py_pc = "seeds"
    /\ \/ /\ py_unread = {}
          /\ py_pc' = "idle"
          /\ UNCHANGED <<py_unread, py_call, py_buf>>
       \/ \E c \in py_unread :
            /\ py_call' = "seed"
            /\ py_unread' = py_unread \ {c}
            /\ py_buf' = c
            /\ py_pc' = "execute"
    /\ UNCHANGED <<py_inputs, py_tests, py_mutator, py_files, py_next, py_map, py_reason, py_resp,
                   py_held, py_sessions>>

-----------------------------------------------------------------------------
(* The calls of the script.                                                *)

AddSeed ==
    /\ py_pc = "idle" /\ py_next < MaxPyIds
    /\ \E c \in PyContents : py_buf' = c
    /\ py_call' = "add" /\ py_pc' = "execute"
    /\ UNCHANGED <<py_inputs, py_tests, py_mutator, py_files, py_next, py_map, py_reason, py_unread,
                   py_resp, py_held, py_sessions>>

\* SelectSeed: an identifier that is not in test_set is an ERROR.
PySelectSeed ==
    /\ py_pc = "idle"
    /\ \/ /\ \E id \in DOMAIN py_tests : py_mutator' = py_tests[id].input
          /\ UNCHANGED py_pc
       \/ /\ py_pc' = "exited"
          /\ UNCHANGED py_mutator
    /\ UNCHANGED <<py_inputs, py_tests, py_files, py_next, py_map, py_reason, py_call, py_buf, py_unread,
                   py_resp, py_held, py_sessions>>

\* FlipBit, FlipByte, Havoc, Add, Sub, Interest and Overwrite: arguments that do not fit
\* the buffer are an ERROR, and so is a call without a selected seed (an assertion).
MutateSeed ==
    /\ py_pc = "idle" /\ py_next < MaxPyIds
    /\ \/ /\ py_mutator # NoContent
          /\ \E c \in PyContents : py_mutator' = c /\ py_buf' = c
          /\ py_call' = "mutate" /\ py_pc' = "execute"
       \/ /\ py_pc' = "exited"
          /\ UNCHANGED <<py_mutator, py_call, py_buf>>
    /\ UNCHANGED <<py_inputs, py_tests, py_files, py_next, py_map, py_reason, py_unread, py_resp,
                   py_held, py_sessions>>

\* RemoveSeed: an identifier that is not in test_set is an ERROR here, too.
RemoveSeed ==
    /\ py_pc = "idle"
    /\ \/ /\ \E id \in DOMAIN py_tests :
               /\ py_inputs' = Without(py_inputs, id)
               /\ py_tests' = Without(py_tests, id)
               /\ py_held' = py_held \ {id}
          /\ UNCHANGED py_pc
       \/ /\ py_pc' = "exited"
          /\ UNCHANGED <<py_inputs, py_tests, py_held>>
    /\ UNCHANGED <<py_mutator, py_files, py_next, py_map, py_reason, py_call, py_buf, py_unread,
                   py_resp, py_sessions>>

-----------------------------------------------------------------------------
(* The flow.                                                               *)

\* PyExecutePUT: ReceiveStopSignal may kill the PUT, which then looks like a crash.
PyExecutePUT ==
    /\ py_pc = "execute"
    /\ py_map' = py_buf
    /\ py_reason' \in {PyFault[py_buf], "FAULT_CRASH"}
    /\ py_pc' = "update"
    /\ UNCHANGED <<py_inputs, py_tests, py_mutator, py_files, py_next, py_call, py_buf, py_unread, py_resp,
                   py_held, py_sessions>>

Directory(reason) ==
    IF reason = "FAULT_TMOUT" THEN "hangs"
    ELSE IF reason = "FAULT_CRASH" THEN "crashes" ELSE "queue"

\* Mutant: identifiers are counted in the set, not globally.
NextIdBySize == Cardinality(DOMAIN py_inputs)

NextId == py_next

\* Mutant: the identifier is returned for every input.
UpdateAlwaysAnswers ==
    /\ py_pc = "update"
    /\ py_inputs' = With(py_inputs, NextId, py_buf)
    /\ py_files' = With(py_files, NextId, [dir |-> Directory(py_reason), content |-> py_buf])
    /\ py_tests' = IF py_reason \notin {"FAULT_TMOUT", "FAULT_CRASH"} /\ NextId \notin DOMAIN py_tests
                     THEN With(py_tests, NextId, [input |-> py_buf, feed |-> py_map]) ELSE py_tests
    /\ py_resp' = NextId
    /\ py_next' = py_next + 1
    /\ py_pc' = "reply"
    /\ UNCHANGED <<py_mutator, py_map, py_reason, py_call, py_buf, py_unread, py_held, py_sessions>>

\* PyUpdate: every input is saved and stays in input_set; only one that did no harm
\* becomes a test case.  emplace leaves an entry that is there.
PyUpdate ==
    /\ py_pc = "update"
    /\ py_inputs' = With(py_inputs, NextId, py_buf)
    /\ py_files' = With(py_files, NextId, [dir |-> Directory(py_reason), content |-> py_buf])
    /\ IF py_reason \in {"FAULT_TMOUT", "FAULT_CRASH"}
         THEN py_resp' = InvalidId /\ UNCHANGED py_tests
         ELSE /\ py_resp' = NextId
              /\ py_tests' = IF NextId \in DOMAIN py_tests THEN py_tests
                             ELSE With(py_tests, NextId, [input |-> py_buf, feed |-> py_map])
    /\ py_next' = py_next + 1
    /\ py_pc' = "reply"
    /\ UNCHANGED <<py_mutator, py_map, py_reason, py_call, py_buf, py_unread, py_held, py_sessions>>

\* The call ends: a mutation uses its mutator up, and the script has the response, but
\* not that of the files of in_dir.
Reply ==
    /\ py_pc = "reply"
    /\ py_mutator' = IF py_call = "mutate" THEN NoContent ELSE py_mutator
    /\ py_held' = IF py_call = "seed" \/ py_resp = InvalidId THEN py_held ELSE py_held \cup {py_resp}
    /\ py_pc' = IF py_call = "seed" THEN "seeds" ELSE "idle"
    /\ UNCHANGED <<py_inputs, py_tests, py_files, py_next, py_map, py_reason, py_call, py_buf, py_unread,
                   py_resp, py_sessions>>

PyNext ==
    \/ Reset \/ Release \/ ExecuteInitialSeeds \/ AddSeed \/ PySelectSeed \/ MutateSeed \/ RemoveSeed
    \/ PyExecutePUT \/ PyUpdate \/ Reply

-----------------------------------------------------------------------------
(* Properties.                                                             *)

\* An identifier that a call returned can be selected until the script removes it or
\* resets the fuzzer, whatever other seeds crash, hang or are removed.
HeldIdsSelectable == py_held \subseteq DOMAIN py_tests

\* A seed, the file of its identifier and its traces belong to one execution, and
\* the identifiers that GetSeedIDs names but SelectSeed refuses are those of inputs
\* saved as crashes or hangs.
SeedShowsItsRun ==
    /\ \A id \in DOMAIN py_tests :
         /\ py_tests[id].feed = py_tests[id].input /\ py_inputs[id] = py_tests[id].input
         /\ py_files[id] = [dir |-> "queue", content |-> py_tests[id].input]
    /\ \A id \in DOMAIN py_inputs \ DOMAIN py_tests : py_files[id].dir # "queue"

\* out_dir shows this session only: what an earlier one found is gone, and only a
\* seed that the script removed has a file but no input.
FilesOfThisSession ==
    \A id \in DOMAIN py_files : id \in DOMAIN py_inputs \/ py_files[id].dir = "queue"
=============================================================================
