------------------------------- MODULE Walker --------------------------------
(***************************************************************************)
(* WalkerDiscreteDistribution: the tables of Walker's alias method, from   *)
(* which Havoc draws its mutations and Nautilus its rules.                 *)
(*                                                                         *)
(* The code divides every weight by the mean; here a weight is multiplied  *)
(* by the number of weights and the mean is the sum, so that the numbers   *)
(* stay whole.  Rounding of doubles is left out.                           *)
(***************************************************************************)
EXTENDS Naturals, Sequences, SequencesExt

CONSTANTS
    Weights       \* the sequences of weights a table is made of

ASSUME WalkerAssumption == \A w \in Weights : w \in Seq(Nat) /\ w # <<>>

VARIABLES
    weights,                       \* the argument of the constructor
    threshold, index,              \* _threshold and _index
    small, large,                  \* the two stacks of the constructor
    wpc                            \* "normalize", "pair", "ready" or "thrown"

walkerVars == <<weights, threshold, index, small, large, wpc>>

\* f[1] + ... + f[n].
SumUpTo(f, n) ==
    LET s[m \in 0..n] == IF m = 0 THEN 0 ELSE s[m - 1] + f[m]
    IN  s[n]

Total(w) == SumUpTo(w, Len(w))

\* The stack of a loop from 1 to n that pushes the members of S.
StackOf(S, n) ==
    LET s[m \in 0..n] == IF m = 0 THEN <<>> ELSE IF m \in S THEN Append(s[m - 1], m) ELSE s[m - 1]
    IN  s[n]

\* The checks, the normalization and the split into two groups.
Normalize ==
    /\ wpc = "normalize"
    /\ IF Total(weights) = 0
       THEN wpc' = "thrown" /\ UNCHANGED <<threshold, index, small, large>>
       ELSE LET p == [i \in DOMAIN weights |-> weights[i] * Len(weights)]
                all == [i \in DOMAIN weights |-> i]
            IN  /\ threshold' = p /\ index' = all
                /\ small' = StackOf({i \in DOMAIN weights : p[i] < Total(weights)}, Len(weights))
                /\ large' = StackOf({i \in DOMAIN weights : p[i] >= Total(weights)}, Len(weights))
                /\ wpc' = "pair"
    /\ UNCHANGED weights

\* Mutant: the large entry stays large whatever is left of it.
PairUpKeepsLarge ==
    LET j == Last(small)
        k == Last(large)
    IN  /\ wpc = "pair" /\ small # <<>> /\ large # <<>>
        /\ index' = [index EXCEPT ![j] = k]
        /\ threshold' = [threshold EXCEPT ![k] = IF @ + threshold[j] > Total(weights)
                                                 THEN @ + threshold[j] - Total(weights) ELSE 0]
        /\ small' = Front(small)
        /\ UNCHANGED <<weights, large, wpc>>

\* One turn of the loop: the last small entry is filled up from the last large one.
PairUp ==
    LET j == Last(small)
        k == Last(large)
        rest == threshold[k] - (Total(weights) - threshold[j])
    IN  /\ wpc = "pair" /\ small # <<>> /\ large # <<>>
        /\ index' = [index EXCEPT ![j] = k]
        /\ threshold' = [threshold EXCEPT ![k] = rest]
        /\ IF rest < Total(weights)
           THEN small' = Append(Front(small), k) /\ large' = Front(large)
           ELSE small' = Front(small) /\ UNCHANGED large
        /\ UNCHANGED <<weights, wpc>>

PairUpDone ==
    /\ wpc = "pair" /\ (small = <<>> \/ large = <<>>)
    /\ wpc' = "ready" /\ UNCHANGED <<weights, threshold, index, small, large>>

\* operator(): of Len * Total equally likely throws, those that choose i.  A throw is an
\* entry and a number below Total; the entry is chosen if its threshold is larger.
Chance(i) ==
    LET Own(j) == IF threshold[j] > Total(weights) THEN Total(weights) ELSE threshold[j]
        Of(j) == (IF j = i THEN Own(j) ELSE 0) + (IF index[j] = i THEN Total(weights) - Own(j) ELSE 0)
    IN  SumUpTo([j \in DOMAIN weights |-> Of(j)], Len(weights))

WalkerInit ==
    /\ weights \in Weights
    /\ threshold = <<>> /\ index = <<>> /\ small = <<>> /\ large = <<>> /\ wpc = "normalize"

WalkerNext == Normalize \/ PairUp \/ PairUpDone

WalkerSpec == WalkerInit /\ [][WalkerNext]_walkerVars

-----------------------------------------------------------------------------
\* Every index is drawn exactly as often as its weight says, whatever the order in which
\* the loop pairs entries; in particular one of weight zero never, so that Havoc never
\* takes a dictionary case without a dictionary.
WalkerExact ==
    wpc = "ready" => \A i \in DOMAIN weights : Chance(i) = weights[i] * Len(weights)
=============================================================================
