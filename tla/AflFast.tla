------------------------------- MODULE AflFast -------------------------------
(***************************************************************************)
(* AFLFast: what it changes of AFL.  A seed counts how often its path was  *)
(* executed (n_fuzz) and how often it was chosen (fuzz_level); both decide *)
(* who wins a byte of the map and how much energy a chosen seed gets.      *)
(*                                                                         *)
(* A path is the set of map bytes it touches and stands for its checksum.  *)
(* A PUT is steady or varies from run to run, which is chosen at the       *)
(* start.  The part of the score that is AFL's own is any of BaseScores;   *)
(* what a stop request does is left to AflLoop.                            *)
(***************************************************************************)
EXTENDS Naturals, Sequences, FiniteSets, FiniteSetsExt, SequencesExt

CONSTANTS
    FastBytes,           \* bytes of the map, 0..n
    FastPaths,           \* paths that the PUT can take
    BaseScores,          \* score before the schedule's factor
    Schedule,            \* "FAST", "COE", "EXPLORE", "LIN", "QUAD" or "EXPLOIT"
    MaxFactor, MaxScore, \* 32 and HAVOC_MAX_MULT * 100
    ManyPaths,           \* 10: number of seeds that the early way out asks for
    CalChances,          \* CAL_CHANCES
    MaxLevel, MaxCount, MaxPaths, MaxExecs    \* bounds

ASSUME FastAssumption ==
    /\ FastBytes \subseteq Nat /\ IsFiniteSet(FastBytes)
    /\ FastPaths \subseteq (SUBSET FastBytes) \ {{}}
    /\ BaseScores \subseteq Nat \ {0}
    /\ Schedule \in {"FAST", "COE", "EXPLORE", "LIN", "QUAD", "EXPLOIT"}
    /\ {MaxFactor, MaxScore, ManyPaths, CalChances, MaxCount, MaxPaths, MaxExecs} \subseteq Nat
    /\ MaxLevel \in Nat \ {0}

NoSeed == 0
NoPath == {}             \* exec_cksum = 0, and no trace_mini

VARIABLES
    fast_varies,         \* the PUT need not take the same path again
    fast_queue,          \* the seeds: path (at the first run), cksum, n_fuzz, fuzz_level,
                         \* favored, cal_failed, trimmed
    fast_mini,           \* trace_mini of each seed
    fast_top,            \* winner of each byte, NoSeed: none
    fast_changed,        \* score_changed
    fast_pending, fast_pending_favored,
    fast_pc, fast_cur,   \* where the loop is, and the chosen seed
    fast_perf,           \* orig_perf
    fast_execs,          \* inputs made from the chosen seed
    fast_leaked          \* history: seeds abandoned first when they were not calibrated

fastCounters == <<fast_pending, fast_pending_favored, fast_leaked>>
fastLoop == <<fast_pc, fast_cur, fast_perf, fast_execs>>
fastRank == <<fast_top, fast_mini, fast_changed>>
fastVars == <<fast_varies, fast_queue, fastRank, fastCounters, fastLoop>>

NextP2(n) == CHOOSE p \in {2^k : k \in 0..n} : p >= n /\ \A k \in 0..n : 2^k >= n => p <= 2^k

WasFuzzed(t) == t.fuzz_level > 0

-----------------------------------------------------------------------------
(* Energy.                                                                 *)

Average(q) == FoldSet(LAMBDA i, s : q[i].n_fuzz + s, 0, DOMAIN q) \div Len(q)

\* The switch over the schedule in DoCalcScore, before it is cut to MaxFactor.
Factor(t) ==
    LET fuzz == IF t.n_fuzz = 0 THEN 1 ELSE t.n_fuzz
        power == IF t.fuzz_level < 16 THEN 2^t.fuzz_level ELSE MaxFactor
    IN  CASE Schedule = "EXPLORE" -> 1
          [] Schedule = "EXPLOIT" -> MaxFactor
          [] Schedule = "COE" -> IF t.n_fuzz <= Average(fast_queue) THEN power ELSE 0
          [] Schedule = "FAST" -> IF t.fuzz_level < 16 THEN power \div fuzz ELSE power \div NextP2(fuzz)
          [] Schedule = "LIN" -> t.fuzz_level \div fuzz
          [] Schedule = "QUAD" -> (t.fuzz_level * t.fuzz_level) \div fuzz

CutScore(n, limit) == IF n > limit THEN limit ELSE n

DoCalcScore(t, base) == CutScore(base * CutScore(Factor(t), MaxFactor), MaxScore)

-----------------------------------------------------------------------------
(* The winners of the map.                                                 *)

\* What a run of a seed may cover that took the given path at first.
Traces(path) == IF fast_varies THEN FastPaths ELSE {path}

\* The seed t of the queue q takes a byte from a winner whose path was executed more often,
\* or as often and at no less cost than t's.  Which winners cost less is left open.
Takes(q, t, b, cheaper) ==
    fast_top[b] = NoSeed \/
        LET mine == NextP2(q[t].n_fuzz)  his == NextP2(q[fast_top[b]].n_fuzz)
        IN  mine < his \/ (mine = his /\ fast_top[b] \notin cheaper)

\* trace_mini of the seed s, which was m, after t has won some bytes.  A loser gives it up
\* with its last byte.  The winner takes the new trace when it has none, or when the only
\* byte it had is the first that it wins.
MiniAfter(m, s, t, won, trace) ==
    LET held == {b \in FastBytes : fast_top[b] = s}
        resets == \E b \in won : held = {b} /\ \A c \in won : b <= c
    IN  IF s = t
        THEN IF won # {} /\ (m = NoPath \/ resets) THEN trace ELSE m
        ELSE IF held # {} /\ held \subseteq won THEN NoPath ELSE m

\* UpdateBitmapScore for the seed t of the queue q, with the trace of its last run; the
\* seeds of q have the traces minis.
UpdateBitmapScore(q, minis, t, trace) ==
    \E cheaper \in SUBSET (DOMAIN q \ {t}) :
        LET won == {b \in trace : Takes(q, t, b, cheaper)}
        IN  /\ fast_top' = [b \in FastBytes |-> IF b \in won THEN t ELSE fast_top[b]]
            /\ fast_mini' = [s \in DOMAIN q |-> MiniAfter(minis[s], s, t, won, trace)]
            /\ fast_changed' = (fast_changed \/ won # {})

Won == {b \in FastBytes : fast_top[b] # NoSeed}

\* The bytes whose winner CullQueue favors: it takes the bytes in turn, and passes over one
\* that is in the trace_mini of a seed favored before.
Picked(P) ==
    \A b \in Won : b \in P <=> \A c \in P : c < b => b \notin fast_mini[fast_top[c]]

\* CullQueue.  pending_favored is counted up at every byte, not once for each seed.
FastCull ==
    /\ fast_pc = "cull" /\ fast_pc' = "select"
    /\ IF fast_changed
       THEN \E P \in SUBSET Won :
              /\ Picked(P)
              /\ fast_queue' = [i \in DOMAIN fast_queue |->
                    [fast_queue[i] EXCEPT !.favored = \E b \in P : fast_top[b] = i]]
              /\ fast_pending_favored' = Cardinality({b \in P : ~WasFuzzed(fast_queue[fast_top[b]])})
              /\ fast_changed' = FALSE
       ELSE UNCHANGED <<fast_queue, fast_pending_favored, fast_changed>>
    /\ UNCHANGED <<fast_varies, fast_top, fast_mini, fast_pending, fast_leaked, fast_cur, fast_perf, fast_execs>>

-----------------------------------------------------------------------------
(* One turn with a seed.                                                   *)

\* SelectSeed takes the seeds in turn; ConsiderSkipMut may pass one over.
FastSelect ==
    LET t == fast_queue[fast_cur']
    IN  /\ fast_pc = "select"
        /\ fast_cur' = IF fast_cur = Len(fast_queue) THEN 1 ELSE fast_cur + 1
        /\ \/ fast_pc' = "calibrate"
           \/ /\ fast_pc' = "cull"
              /\ IF fast_pending_favored > 0 THEN WasFuzzed(t) \/ ~t.favored
                 ELSE ~t.favored /\ Len(fast_queue) > ManyPaths
        /\ fast_execs' = 0 /\ fast_perf' = 0
        /\ UNCHANGED <<fast_varies, fast_queue, fastRank, fastCounters>>

\* RetryCalibrate: a seed that was not calibrated gets another chance, with its checksum
\* forgotten.  That makes the calibration a first run, which has to find something new (or
\* FAULT_NOBITS sends the seed away); a steady PUT cannot, as its path is known already.
FastCalibrate ==
    LET t == fast_queue[fast_cur]
    IN  /\ fast_pc = "calibrate"
        /\ \/ /\ t.cal_failed = 0 /\ fast_pc' = "trim"
              /\ UNCHANGED <<fast_queue, fastRank>>
           \/ /\ t.cal_failed \in 1..CalChances - 1
              /\ \E sum, trace \in Traces(t.path) :
                    /\ fast_queue' = [fast_queue EXCEPT ![fast_cur] = [t EXCEPT !.cal_failed = 0, !.cksum = sum]]
                    /\ UpdateBitmapScore(fast_queue', fast_mini, fast_cur, trace)
              /\ fast_pc' = "abandon" \/ (fast_varies /\ fast_pc' = "trim")
           \/ /\ t.cal_failed \in 1..CalChances - 1 /\ fast_pc' = "abandon"
              /\ \E sum \in Traces(t.path) \cup {NoPath} :
                    fast_queue' = [fast_queue EXCEPT ![fast_cur] =
                        [t EXCEPT !.cal_failed = @ + 1, !.cksum = sum]]
              /\ UNCHANGED fastRank
           \/ /\ t.cal_failed >= CalChances /\ t.cal_failed > 0 /\ fast_pc' = "abandon"
              /\ UNCHANGED <<fast_queue, fastRank>>
        /\ UNCHANGED <<fast_varies, fastCounters, fast_cur, fast_perf, fast_execs>>

\* TrimCase, once for a seed.  A shorter input is kept when its checksum is the seed's, and
\* its trace is scored.
FastTrim ==
    LET t == fast_queue[fast_cur]
    IN  /\ fast_pc = "trim" /\ fast_pc' = "score"
        /\ \/ UNCHANGED <<fast_queue, fastRank>> /\ t.trimmed
           \/ /\ ~t.trimmed
              /\ fast_queue' = [fast_queue EXCEPT ![fast_cur] = [t EXCEPT !.trimmed = TRUE]]
              /\ UNCHANGED fastRank \/ UpdateBitmapScore(fast_queue', fast_mini, fast_cur, t.cksum)
        /\ UNCHANGED <<fast_varies, fastCounters, fast_cur, fast_perf, fast_execs>>

FastScore ==
    /\ fast_pc = "score" /\ fast_pc' = "det"
    /\ \E base \in BaseScores : fast_perf' = DoCalcScore(fast_queue[fast_cur], base)
    /\ UNCHANGED <<fast_varies, fast_queue, fastRank, fastCounters, fast_cur, fast_execs>>

\* ApplyDetMuts.  The way out for many seeds asks for a score that is not zero.
FastDet ==
    LET out == fast_perf # 0 /\ Len(fast_queue) > ManyPaths
    IN  /\ fast_pc = "det"
        /\ fast_pc' = IF out THEN "abandon" ELSE "mutate"
        /\ UNCHANGED <<fast_varies, fast_queue, fastRank, fastCounters, fast_cur, fast_perf, fast_execs>>

\* The loop at the head of SaveIfInteresting: every seed with that checksum, calibrated or
\* not.
Counted(path) ==
    [i \in DOMAIN fast_queue |->
        IF fast_queue[i].cksum = path
        THEN [fast_queue[i] EXCEPT !.n_fuzz = CutScore(@ + 1, MaxCount)] ELSE fast_queue[i]]

\* SaveIfInteresting sets the checksum before the calibration.
NewSeed(path, failed) ==
    [path |-> path, cksum |-> path, n_fuzz |-> 1, fuzz_level |-> 0, favored |-> FALSE,
     cal_failed |-> failed, trimmed |-> FALSE]

\* A mutant is executed: its path is counted, and a new one joins the queue, calibrated or
\* not.
FastExecute(path, new, failed) ==
    /\ fast_pc = "mutate" /\ fast_execs < MaxExecs
    /\ fast_execs' = fast_execs + 1
    /\ IF new /\ Len(fast_queue) < MaxPaths
       THEN /\ fast_queue' = Append(Counted(path), NewSeed(path, failed))
            /\ fast_pending' = fast_pending + 1
            /\ IF failed = 0
               THEN \E trace \in Traces(path) :
                      UpdateBitmapScore(fast_queue', Append(fast_mini, NoPath), Len(fast_queue'), trace)
               ELSE /\ fast_mini' = Append(fast_mini, NoPath)
                    /\ UNCHANGED <<fast_top, fast_changed>>
       ELSE /\ fast_queue' = Counted(path)
            /\ UNCHANGED <<fast_pending, fastRank>>
    /\ UNCHANGED <<fast_varies, fast_pending_favored, fast_leaked, fast_pc, fast_cur, fast_perf>>

\* The random stages always make some inputs, however small the score is.
FastMutated ==
    /\ fast_pc = "mutate" /\ fast_execs > 0 /\ fast_pc' = "abandon"
    /\ UNCHANGED <<fast_varies, fast_queue, fastRank, fastCounters, fast_cur, fast_perf, fast_execs>>

\* Mutant: a seed that failed its calibration leaves the count as well.
AbandonCountsAll ==
    LET t == fast_queue[fast_cur]
    IN  /\ fast_pc = "abandon" /\ fast_pc' = "cull"
        /\ fast_pending' = IF ~WasFuzzed(t) THEN fast_pending - 1 ELSE fast_pending
        /\ fast_pending_favored' =
              IF ~WasFuzzed(t) /\ t.favored THEN fast_pending_favored - 1 ELSE fast_pending_favored
        /\ fast_leaked' = IF t.cal_failed # 0 /\ ~WasFuzzed(t) THEN fast_leaked + 1 ELSE fast_leaked
        /\ fast_queue' = [fast_queue EXCEPT ![fast_cur].fuzz_level = CutScore(@ + 1, MaxLevel)]
        /\ UNCHANGED <<fast_varies, fastRank, fast_cur, fast_perf, fast_execs>>

\* Mutant: the favored seeds are not counted down.
AbandonKeepsFavored ==
    LET t == fast_queue[fast_cur]
    IN  /\ fast_pc = "abandon" /\ fast_pc' = "cull"
        /\ fast_pending' = IF t.cal_failed = 0 /\ ~WasFuzzed(t) THEN fast_pending - 1 ELSE fast_pending
        /\ fast_leaked' = IF t.cal_failed # 0 /\ ~WasFuzzed(t) THEN fast_leaked + 1 ELSE fast_leaked
        /\ fast_queue' = [fast_queue EXCEPT ![fast_cur].fuzz_level = CutScore(@ + 1, MaxLevel)]
        /\ UNCHANGED <<fast_varies, fast_pending_favored, fastRank, fast_cur, fast_perf, fast_execs>>

\* AbandonEntry: the level grows whether or not the seed was calibrated, the counters only
\* when it was.
FastAbandon ==
    LET t == fast_queue[fast_cur]
        first == t.cal_failed = 0 /\ ~WasFuzzed(t)
    IN  /\ fast_pc = "abandon" /\ fast_pc' = "cull"
        /\ fast_pending' = IF first THEN fast_pending - 1 ELSE fast_pending
        /\ fast_pending_favored' =
              IF first /\ t.favored THEN fast_pending_favored - 1 ELSE fast_pending_favored
        /\ fast_leaked' = IF t.cal_failed # 0 /\ ~WasFuzzed(t) THEN fast_leaked + 1 ELSE fast_leaked
        /\ fast_queue' = [fast_queue EXCEPT ![fast_cur].fuzz_level = CutScore(@ + 1, MaxLevel)]
        /\ UNCHANGED <<fast_varies, fastRank, fast_cur, fast_perf, fast_execs>>

\* After the dry run one seed is calibrated: its calibration's last run is scored.
FastInit ==
    /\ fast_varies \in BOOLEAN
    /\ \E path \in FastPaths : fast_queue = <<NewSeed(path, 0)>>
    /\ \E trace \in Traces(fast_queue[1].path) :
        /\ fast_top = [b \in FastBytes |-> IF b \in trace THEN 1 ELSE NoSeed]
        /\ fast_mini = <<trace>>
    /\ fast_changed = TRUE
    /\ fast_pending = 1 /\ fast_pending_favored = 0 /\ fast_leaked = 0
    /\ fast_pc = "cull" /\ fast_cur = 0 /\ fast_perf = 0 /\ fast_execs = 0

FastNext ==
    \/ FastCull \/ FastSelect \/ FastCalibrate \/ FastTrim \/ FastScore \/ FastDet
    \/ \E path \in FastPaths, new \in BOOLEAN, failed \in {0, 1} : FastExecute(path, new, failed)
    \/ FastMutated \/ FastAbandon

FastSpec == FastInit /\ [][FastNext]_fastVars

-----------------------------------------------------------------------------
(* Properties.                                                             *)

Unfuzzed == {i \in DOMAIN fast_queue : ~WasFuzzed(fast_queue[i])}

\* The counter that AFL_EXIT_WHEN_DONE waits for: it never misses a seed that was not
\* fuzzed, and is too large by the seeds that were abandoned first when they were not
\* calibrated, for those never leave it.
PendingLeaks == fast_pending = Cardinality(Unfuzzed) + fast_leaked

\* The favored seeds that wait for their first turn.
Waiting == {i \in Unfuzzed : fast_queue[i].favored}

\* The counter that makes ConsiderSkipMut pass over other seeds is the number of favored
\* seeds that wait for their first turn, so that the loop does not skip for nothing; also
\* after the winners changed and before the queue is culled.  CullQueue counts bytes, and a
\* seed of a varying PUT may win bytes that its trace_mini lacks, but only in its own turn.
PendingFavoredReal == fast_pending_favored = Cardinality(Waiting)

\* "each time the seed is selected, more energy is assigned, and the number of inputs
\* generated increases": a seed that got energy is mutated before it is abandoned.
EnergySpent == (fast_pc = "abandon" /\ fast_perf > 0) => fast_execs > 0
=============================================================================
