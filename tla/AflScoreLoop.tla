---------------------------- MODULE AflScoreLoop ----------------------------
(***************************************************************************)
(* The two loops over the coverage map in AFLState, byte by byte, compared *)
(* with the closed forms AflScore uses for them.                           *)
(***************************************************************************)
EXTENDS AflScore

\* Mutant: the reference count is tested before it is decremented.
Release_Early(r, s) ==
    [top |-> r.top, ref |-> [r.ref EXCEPT ![s] = @ - 1],
     mini |-> [r.mini EXCEPT ![s] = IF r.ref[s] = 0 THEN NoTrace ELSE @], changed |-> r.changed]

\* The previous winner s of a slot loses a reference, and with the last one its
\* trace_mini.
Release(r, s) ==
    [top |-> r.top, ref |-> [r.ref EXCEPT ![s] = @ - 1],
     mini |-> [r.mini EXCEPT ![s] = IF r.ref[s] = 1 THEN NoTrace ELSE @], changed |-> r.changed]

\* Testcase t becomes the winner of slot i.
Take(r, i, t, trace) ==
    [top |-> [r.top EXCEPT ![i] = t], ref |-> [r.ref EXCEPT ![t] = @ + 1],
     mini |-> [r.mini EXCEPT ![t] = IF @ = NoTrace THEN trace ELSE @], changed |-> TRUE]

\* One iteration of the loop of UpdateBitmapScoreWithRawTrace.
ScoreSlot(r, factor, i, t, trace) ==
    IF i \notin trace THEN r
    ELSE IF r.top[i] = Nil THEN Take(r, i, t, trace)
    ELSE IF factor[t] > factor[r.top[i]] THEN r
    ELSE Take(Release(r, r.top[i]), i, t, trace)

ScoreLoop(factor, t, trace) ==
    LET done[n \in 0..MapSize] ==
            IF n = 0
            THEN [top |-> top_rated, ref |-> tc_ref, mini |-> trace_mini,
                  changed |-> score_changed]
            ELSE ScoreSlot(done[n - 1], factor, n - 1, t, trace)
    IN  done[MapSize]

\* Mutant: has_top_rated receives only the slot itself.
CullSlot_NoMini(r, i) ==
    IF top_rated[i] # Nil /\ i \notin r.has
    THEN [has |-> r.has \cup {i}, picked |-> r.picked \cup {i}]
    ELSE r

\* One iteration of the loop of CullQueue over the map.
CullSlot(r, i) ==
    IF top_rated[i] # Nil /\ i \notin r.has
    THEN [has |-> r.has \cup trace_mini[top_rated[i]], picked |-> r.picked \cup {i}]
    ELSE r

CullLoop ==
    LET done[n \in 0..MapSize] ==
            IF n = 0 THEN [has |-> {}, picked |-> {}] ELSE CullSlot(done[n - 1], n - 1)
    IN  done[MapSize]

-----------------------------------------------------------------------------

\* Whatever the ranking is and whichever testcase is scored next (one that has
\* been trimmed is not scored again), with whichever trace, the loop of UpdateBitmapScoreWithRawTrace computes what
\* UpdateBitmapScore says: the winner that replaces itself, the loser of several
\* slots and the refreshed trace_mini included.
ScoreLoopAgrees ==
    \A t \in case_queue \ trimmed, trace \in SUBSET Slot :
        LET factor == [s \in Case |-> exec_us[s] * len[s]]
            W == Wins(factor, t, trace)
            r == ScoreLoop(factor, t, trace)
        IN  /\ r.top = [i \in Slot |-> IF i \in W THEN t ELSE top_rated[i]]
            /\ r.ref = [s \in Case |-> RefAfter(s, t, W)]
            /\ r.mini = [s \in Case |-> MiniAfter(s, t, W, trace)]
            /\ r.changed = (score_changed \/ W # {})

\* The loop of CullQueue picks the one set of slots that Picked describes.
CullLoopAgrees ==
    score_changed => {P \in SUBSET Rated : Picked(P)} = {CullLoop.picked}

\* The closed forms that the theorems are about are what the two loops of the code compute.
LoopsAgree == ScoreLoopAgrees /\ CullLoopAgrees

=============================================================================
