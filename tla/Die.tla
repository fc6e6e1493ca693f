--------------------------------- MODULE Die ---------------------------------
(***************************************************************************)
(* DIE: an external program (esfuzz) turns the script of a seed into a     *)
(* number of scripts, each with a type file, in one directory that is used *)
(* over and over; fuzzuf runs them and keeps both files of what is new.    *)
(*                                                                         *)
(* A file is named by the round of esfuzz that wrote it and its number.    *)
(* esfuzz may die or be stopped after 30 seconds at any point.  A path is  *)
(* what the run of a script covers.                                        *)
(***************************************************************************)
EXTENDS Naturals, Sequences, FiniteSets, SequencesExt

CONSTANTS
    DiePaths,            \* what a run may cover
    MutCnt,              \* setting->mut_cnt, scripts per round
    KeepUnique,          \* KEEP_UNIQUE_HANG and KEEP_UNIQUE_CRASH
    MaxRounds, MaxScripts    \* bounds: rounds of esfuzz, seeds

ASSUME DieAssumption ==
    {MutCnt, KeepUnique, MaxRounds, MaxScripts} \subseteq Nat

NoFile == <<0, 0>>       \* no file, or an empty one
DieRuns == [reason : {"none", "tmout", "crash"}, path : DiePaths]

VARIABLES
    die_queue,           \* the seeds: script, type file, calibrated
    die_virgin,          \* virgin_bits, virgin_tmout and virgin_crash: what was covered
    die_saved,           \* files under hangs and crashes
    js_dir, ty_dir,      \* the directory "mutated"
    die_round, die_torn, \* rounds of esfuzz; history: one ended between two files of a pair
    die_pc, die_cur, die_n,  \* the flow, the chosen seed, the script that is next
    die_discovered       \* queued_discovered

dieDirs == <<js_dir, ty_dir, die_round, die_torn>>
dieVars == <<die_queue, die_virgin, die_saved, dieDirs, die_pc, die_cur, die_n, die_discovered>>

Scripts == 1..MutCnt

\* SelectSeed takes the seeds in turn.
DieSelect ==
    /\ die_pc = "select" /\ die_pc' = "mutate"
    /\ die_cur' = IF die_cur = Len(die_queue) THEN 1 ELSE die_cur + 1
    /\ UNCHANGED <<die_queue, die_virgin, die_saved, dieDirs, die_n, die_discovered>>

\* esfuzz, external: it writes the first k pairs, the script before its types.  When it ends
\* in the next pair, that has a new script with the types of an earlier round or an empty
\* type file, or an empty script.  What an earlier round wrote stays.
Cuts(n) == {<<<<die_round + 1, n>>, ty_dir[n]>>, <<<<die_round + 1, n>>, NoFile>>, <<NoFile, ty_dir[n]>>}

Esfuzz(k, cut) ==
    /\ js_dir' = [n \in Scripts |->
          IF n <= k THEN <<die_round + 1, n>> ELSE IF n = k + 1 THEN cut[1] ELSE js_dir[n]]
    /\ ty_dir' = [n \in Scripts |->
          IF n <= k THEN <<die_round + 1, n>> ELSE IF n = k + 1 THEN cut[2] ELSE ty_dir[n]]
    /\ die_torn' = (die_torn \/ (k < MutCnt /\ cut[1] # cut[2] /\ NoFile \notin {cut[1], cut[2]}))

DieMutate ==
    /\ die_pc = "mutate" /\ die_pc' = "run" /\ die_n' = 1
    /\ IF die_round < MaxRounds
       THEN /\ die_round' = die_round + 1
            /\ \/ \E k \in Scripts : \E cut \in Cuts(k) \cup {<<js_dir[k], ty_dir[k]>>} : Esfuzz(k - 1, cut)
               \/ Esfuzz(MutCnt, <<>>)
       ELSE UNCHANGED dieDirs
    /\ UNCHANGED <<die_queue, die_virgin, die_saved, die_cur, die_discovered>>

\* The script that is next, when one of its files is missing or empty.
DieSkip ==
    /\ die_pc = "run" /\ die_n <= MutCnt
    /\ js_dir[die_n] = NoFile \/ ty_dir[die_n] = NoFile
    /\ die_n' = die_n + 1
    /\ UNCHANGED <<die_queue, die_virgin, die_saved, dieDirs, die_pc, die_cur, die_discovered>>

\* Mutant: the type file of the seed is kept for what was made of it.
PairWithSeed(n) == [js |-> js_dir[n], ty |-> die_queue[die_cur].ty]

Pair(n) == [js |-> js_dir[n], ty |-> ty_dir[n]]

\* SaveIfInteresting.  A script with new coverage is queued and calibrated at once, and the
\* rest of the function looks at the last run of the calibration.  A new hang is run again with
\* a longer limit, unless the limit is long enough (as if the second run hung too): it may then
\* be a crash, or nothing.
SaveIfInteresting(run) ==
    LET new == run.reason = "none" /\ ~(run.path \subseteq die_virgin.none)
    IN  \E last \in IF new THEN DieRuns ELSE {run} :
        LET hang == /\ last.reason = "tmout" /\ Cardinality(die_saved.tmout) < KeepUnique
                    /\ ~(last.path \subseteq die_virgin.tmout)
        IN  \E end \in IF hang THEN DieRuns ELSE {last} :
            LET looked == end.reason = "crash" /\ Cardinality(die_saved.crash) < KeepUnique
                kept == [tmout |-> hang /\ end.reason = "tmout",
                         crash |-> looked /\ ~(end.path \subseteq die_virgin.crash)]
                covered == [none |-> (IF run.reason = "none" THEN run.path ELSE {}) \cup
                                     (IF new /\ last.reason = "none" THEN last.path ELSE {}),
                            tmout |-> IF hang THEN last.path ELSE {},
                            crash |-> IF looked THEN end.path ELSE {}]
            IN  /\ die_queue' = IF new THEN Append(die_queue, Pair(die_n)) ELSE die_queue
                /\ die_virgin' = [k \in DOMAIN die_virgin |-> die_virgin[k] \cup covered[k]]
                /\ die_saved' = [k \in DOMAIN die_saved |->
                      IF kept[k] THEN die_saved[k] \cup {Pair(die_n)} ELSE die_saved[k]]
                /\ die_discovered' = IF new /\ (kept.tmout \/ end.reason = "crash" \/ last.reason = "none")
                                     THEN die_discovered + 1 ELSE die_discovered

\* One script is run.  Its response is never set, so that neither a stop nor too many
\* timeouts end the round; after those only SaveIfInteresting is left out.
DieExecute(run, given_up) ==
    /\ die_pc = "run" /\ die_n <= MutCnt
    /\ js_dir[die_n] # NoFile /\ ty_dir[die_n] # NoFile
    /\ Len(die_queue) < MaxScripts
    /\ die_n' = die_n + 1
    /\ IF given_up THEN UNCHANGED <<die_queue, die_virgin, die_saved, die_discovered>>
       ELSE SaveIfInteresting(run)
    /\ UNCHANGED <<dieDirs, die_pc, die_cur>>

\* Mutant: a round that made nothing takes the same seed again.
RoundEndsSame ==
    /\ die_pc = "run" /\ (die_n > MutCnt \/ Len(die_queue) = MaxScripts)
    /\ die_pc' = IF js_dir[1] = NoFile THEN "mutate" ELSE "select"
    /\ UNCHANGED <<die_queue, die_virgin, die_saved, dieDirs, die_cur, die_n, die_discovered>>

DieRoundEnds ==
    /\ die_pc = "run" /\ (die_n > MutCnt \/ Len(die_queue) = MaxScripts)
    /\ die_pc' = "select"
    /\ UNCHANGED <<die_queue, die_virgin, die_saved, dieDirs, die_cur, die_n, die_discovered>>

\* ReadTestcases: a script whose type file could not be made is left out, so that a seed
\* has both.
ReadScripts == [i \in 1..2 |-> [js |-> <<0, i>>, ty |-> <<0, i>>]]

\* The state before the seeds are read.
DieBlank ==
    /\ die_virgin = [k \in {"none", "tmout", "crash"} |-> {}]
    /\ die_saved = [k \in {"tmout", "crash"} |-> {}]
    /\ js_dir = [n \in Scripts |-> NoFile] /\ ty_dir = [n \in Scripts |-> NoFile]
    /\ die_round = 0 /\ die_torn = FALSE
    /\ die_pc = "select" /\ die_cur = 0 /\ die_n = 1 /\ die_discovered = 0

DieNext ==
    \/ DieSelect \/ DieMutate \/ DieSkip \/ DieRoundEnds
    \/ \E run \in DieRuns, given_up \in BOOLEAN : DieExecute(run, given_up)

DieSpec == die_queue = ReadScripts /\ DieBlank /\ [][DieNext]_dieVars

-----------------------------------------------------------------------------
(* Properties.                                                             *)

\* The type file that is kept with a script is its own, in the queue and under hangs and
\* crashes, although the directory holds files of earlier rounds; only when esfuzz was
\* stopped between the two files can they belong to different scripts.
PairsMatch ==
    ~die_torn => \A t \in Range(die_queue) \cup die_saved.tmout \cup die_saved.crash : t.js = t.ty

\* Every seed gets its turn, however often esfuzz dies: DIE takes the seeds round and
\* round and skips none.
EverySeedTurns == \A i \in 1..MaxScripts : (i <= Len(die_queue)) ~> (die_cur = i)
=============================================================================
