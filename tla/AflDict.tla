------------------------------- MODULE AflDict -------------------------------
(***************************************************************************)
(* AFL's dictionaries: the automatic one that grows while seeds are        *)
(* fuzzed, the one the user gives, and the stages that write words over a  *)
(* seed or insert them.                                                    *)
(*                                                                         *)
(* A word is a sequence of characters; Lower makes them small.  AflDet     *)
(* says which words a seed offers; here any word may come.                 *)
(***************************************************************************)
EXTENDS Naturals, Sequences, FiniteSets, SequencesExt

CONSTANTS
    Offered,             \* words that MaybeAddAuto is called with
    Builtin,             \* words that are interesting values
    UserDicts,           \* what the dictionary file may hold
    Lower(_),            \* tolower
    FuzzedSeed,          \* the seed the stages work on
    EffPositions,        \* its bytes whose block is in the effector map
    MaxAutoExtras, UseAutoExtras,
    MaxDetExtras,        \* MAX_DET_EXTRAS
    MaxFileLen,          \* MAX_FILE
    MaxHits              \* bound: hits of a word

ASSUME DictAssumption ==
    /\ Offered \subseteq Seq(Nat) \ {<<>>}
    /\ {MaxAutoExtras, UseAutoExtras, MaxDetExtras} \subseteq Nat
    /\ UseAutoExtras <= MaxAutoExtras \div 2        \* 50 and 500
    /\ FuzzedSeed \in Seq(Nat) \ {<<>>} /\ UserDicts \subseteq Seq(Seq(Nat))

VARIABLES
    extras,              \* the user's words, in the order of the file
    a_extras,            \* the automatic words with their hits
    dict_stage,          \* "none", "auto", "user" or "insert"
    dict_pos, dict_next, \* the loop counters: position and word
    last_len,            \* length of the word written last, 0: none
    dict_buf,            \* the mutator's buffer, or ex_tmp
    sent                 \* what was executed last, <<>>: nothing

dictStageVars == <<dict_stage, dict_pos, dict_next, last_len, dict_buf, sent>>
dictVars == <<extras, a_extras, dictStageVars>>

-----------------------------------------------------------------------------
(* The automatic dictionary.                                               *)

CheckEqualNocase(v, w) == Len(v) = Len(w) /\ \A i \in DOMAIN v : Lower(v[i]) = Lower(w[i])

\* The search of the user's words: from the first one that is long enough, while the
\* length is the same.
InExtras(mem) ==
    LET long == {i \in DOMAIN extras : Len(extras[i]) >= Len(mem)}
        from == CHOOSE i \in long : \A j \in long : i <= j
    IN  long # {} /\ \E i \in from..Len(extras) :
            /\ \A j \in from..i : Len(extras[j]) = Len(mem)
            /\ CheckEqualNocase(extras[i], mem)

\* std::sort: any order that Before allows.
Sorted(s, Before(_, _)) ==
    {t \in {[i \in DOMAIN s |-> s[p[i]]] : p \in {q \in [DOMAIN s -> DOMAIN s] : IsInjective(q)}} :
        \A i, j \in DOMAIN s : i < j => ~Before(t[j], t[i])}

ByHits(s) == Sorted(s, LAMBDA v, w : v.hit > w.hit)
ByLength(s) == Sorted(s, LAMBDA v, w : Len(v.data) < Len(w.data))

\* How many of the automatic words are in use.
NumInUse(s) == IF UseAutoExtras < Len(s) THEN UseAutoExtras ELSE Len(s)

\* The two sorts at the end of MaybeAddAuto: by hits, then the words in use by length.
SortInUse(t, n) == {u \o SubSeq(t, n + 1, Len(t)) : u \in ByLength(SubSeq(t, 1, n))}
SortAuto(s) == UNION {SortInUse(t, NumInUse(s)) : t \in ByHits(s)}

\* Mutant: any word may be thrown out.
ReplaceableAny == 1..MaxAutoExtras

\* The places a new word may take in a full dictionary: the lower half.
Replaceable == MaxAutoExtras \div 2 + 1..MaxAutoExtras

\* Mutant: words are compared as they are.
MaybeAddAutoCase(mem) ==
    /\ dict_stage = "none" /\ mem \notin {a_extras[i].data : i \in DOMAIN a_extras}
    /\ Len(a_extras) < MaxAutoExtras
    /\ a_extras' \in SortAuto(Append(a_extras, [data |-> mem, hit |-> 0]))
    /\ UNCHANGED <<extras, dictStageVars>>

MaybeAddAuto(mem) ==
    LET known == {i \in DOMAIN a_extras : CheckEqualNocase(a_extras[i].data, mem)}
        new == [data |-> mem, hit |-> 0]
    IN  /\ dict_stage = "none"
        /\ MaxAutoExtras # 0 /\ UseAutoExtras # 0
        /\ \E i \in DOMAIN mem : mem[i] # mem[1]
        /\ mem \notin Builtin /\ ~InExtras(mem)
        /\ \E s \in IF known # {}
                    THEN {[a_extras EXCEPT ![i].hit = @ + 1] : i \in known}
                    ELSE IF Len(a_extras) < MaxAutoExtras THEN {Append(a_extras, new)}
                    ELSE {[a_extras EXCEPT ![i] = new] : i \in Replaceable} :
               /\ \A i \in DOMAIN s : s[i].hit <= MaxHits
               /\ a_extras' \in SortAuto(s)
        /\ UNCHANGED <<extras, dictStageVars>>

-----------------------------------------------------------------------------
(* The stages.                                                             *)

WordsInUse ==
    IF dict_stage = "auto"
    THEN [i \in 1..NumInUse(a_extras) |-> a_extras[i].data]
    ELSE extras

StartStage(stage) ==
    /\ dict_stage = "none" /\ dict_stage' = stage
    /\ IF stage = "auto" THEN a_extras # <<>> ELSE extras # <<>>
    /\ dict_pos' = 1 /\ dict_next' = 1 /\ last_len' = 0 /\ sent' = <<>>
    /\ dict_buf' = IF stage = "insert" THEN <<>> ELSE FuzzedSeed
    /\ UNCHANGED <<extras, a_extras>>

\* b with w written from place i on.
Replaced(b, i, w) == [k \in DOMAIN b |-> IF k \in i..i + Len(w) - 1 THEN w[k - i + 1] ELSE b[k]]

\* DictOverwrite, one word.  Words that do not fit, that are there already or that touch
\* no block of the effector map are skipped; of very many user words any may be, as UR
\* has it.
DictOverwrite ==
    LET w == WordsInUse[dict_next]
        skip == \/ Len(w) > Len(FuzzedSeed) - dict_pos + 1
                \/ SubSeq(dict_buf, dict_pos, dict_pos + Len(w) - 1) = w
                \/ dict_pos..dict_pos + Len(w) - 1 \cap EffPositions = {}
    IN  /\ dict_stage \in {"auto", "user"} /\ dict_next <= Len(WordsInUse)
        /\ IF skip THEN UNCHANGED <<dict_buf, last_len, sent>>
           ELSE \/ /\ dict_buf' = Replaced(dict_buf, dict_pos, w)
                   /\ last_len' = Len(w) /\ sent' = dict_buf'
                \/ /\ dict_stage = "user" /\ Len(extras) > MaxDetExtras
                   /\ UNCHANGED <<dict_buf, last_len, sent>>
        /\ dict_next' = dict_next + 1
        /\ UNCHANGED <<extras, a_extras, dict_stage, dict_pos>>

\* Mutant: the buffer is left as the last word made it.
RestoreNothing ==
    /\ dict_stage \in {"auto", "user"} /\ dict_next > Len(WordsInUse)
    /\ IF dict_pos = Len(FuzzedSeed)
       THEN dict_stage' = "none" /\ UNCHANGED dict_pos
       ELSE dict_pos' = dict_pos + 1 /\ UNCHANGED dict_stage
    /\ dict_next' = 1 /\ last_len' = 0 /\ sent' = <<>>
    /\ UNCHANGED <<extras, a_extras, dict_buf>>

\* The end of the inner loop: the bytes of the last word are brought back.
Restore ==
    /\ dict_stage \in {"auto", "user"} /\ dict_next > Len(WordsInUse)
    /\ dict_buf' = Replaced(dict_buf, dict_pos, SubSeq(FuzzedSeed, dict_pos, dict_pos + last_len - 1))
    /\ IF dict_pos = Len(FuzzedSeed)
       THEN dict_stage' = "none" /\ UNCHANGED dict_pos
       ELSE dict_pos' = dict_pos + 1 /\ UNCHANGED dict_stage
    /\ dict_next' = 1 /\ last_len' = 0 /\ sent' = <<>>
    /\ UNCHANGED <<extras, a_extras>>

\* UserDictInsert, one word: the head is in the buffer already, the tail is copied.
DictInsert ==
    /\ dict_stage = "insert" /\ dict_next <= Len(extras)
    /\ IF Len(FuzzedSeed) + Len(extras[dict_next]) > MaxFileLen
       THEN dict_next' = Len(extras) + 1 /\ UNCHANGED <<dict_buf, sent>>
       ELSE /\ dict_next' = dict_next + 1
            /\ dict_buf' = SubSeq(dict_buf, 1, dict_pos - 1) \o extras[dict_next]
                               \o SubSeq(FuzzedSeed, dict_pos, Len(FuzzedSeed))
            /\ sent' = dict_buf'
    /\ UNCHANGED <<extras, a_extras, dict_stage, dict_pos, last_len>>

\* Mutant: the head keeps the word that was inserted last.
InsertHeadSkipped ==
    /\ dict_stage = "insert" /\ dict_next > Len(extras)
    /\ IF dict_pos > Len(FuzzedSeed)
       THEN dict_stage' = "none" /\ UNCHANGED dict_pos
       ELSE dict_pos' = dict_pos + 1 /\ UNCHANGED dict_stage
    /\ dict_next' = 1 /\ sent' = <<>>
    /\ UNCHANGED <<extras, a_extras, last_len, dict_buf>>

\* The end of the inner loop: one more byte of the head, behind the last one a byte that
\* nothing uses.
InsertHead ==
    /\ dict_stage = "insert" /\ dict_next > Len(extras)
    /\ IF dict_pos > Len(FuzzedSeed)
       THEN dict_stage' = "none" /\ UNCHANGED <<dict_pos, dict_buf>>
       ELSE /\ dict_pos' = dict_pos + 1 /\ UNCHANGED dict_stage
            /\ dict_buf' = Append(SubSeq(dict_buf, 1, dict_pos - 1), FuzzedSeed[dict_pos])
    /\ dict_next' = 1 /\ sent' = <<>>
    /\ UNCHANGED <<extras, a_extras, last_len>>

DictInit ==
    /\ extras \in UserDicts /\ a_extras = <<>>
    /\ dict_stage = "none" /\ dict_pos = 1 /\ dict_next = 1 /\ last_len = 0
    /\ dict_buf = FuzzedSeed /\ sent = <<>>

DictNext ==
    \/ \E mem \in Offered : MaybeAddAuto(mem)
    \/ \E stage \in {"auto", "user", "insert"} : StartStage(stage)
    \/ DictOverwrite \/ Restore \/ DictInsert \/ InsertHead

-----------------------------------------------------------------------------
(* Properties.                                                             *)

\* "Extras are sorted by size, from smallest to largest": what the stages and the search
\* of the user's words take for granted.  Nothing sorts the words of a dictionary file.
InOrderUpTo(words, n) == \A i, j \in 1..n : i < j => Len(words[i]) <= Len(words[j])
InOrder(words) == InOrderUpTo(words, Len(words))

\* The stage under way takes its words from smallest to largest: always the automatic
\* ones, the user's if the file has them so.
InSizeOrder == dict_stage = "auto" \/ InOrder(extras)

\* The automatic dictionary never holds a word twice, whatever the case, however often it
\* was sorted and words were replaced; and none the user gave, unless the file has a
\* longer word before a shorter one up to there.
AutoDistinct ==
    /\ \A i, j \in DOMAIN a_extras : CheckEqualNocase(a_extras[i].data, a_extras[j].data) => i = j
    /\ \A i \in DOMAIN a_extras, j \in DOMAIN extras :
           InOrderUpTo(extras, j) => ~CheckEqualNocase(a_extras[i].data, extras[j])

\* A word that is thrown out had no more hits than any word of the upper half, although
\* the words in use are not sorted by hits.
HotWordsStay ==
    [\A i \in DOMAIN a_extras :
        (\A k \in DOMAIN a_extras' : a_extras'[k].data # a_extras[i].data) =>
            \A j \in 1..MaxAutoExtras \div 2 : a_extras[j].hit >= a_extras[i].hit]_dictVars

\* MaybeAddAuto never throws out a word that is hotter than one of the upper half.
HotWordsKept == [][HotWordsStay]_dictVars

\* "Extras are sorted by size, from smallest to largest. This means that we don't have to
\* worry about restoring the buffer in between writes": each position starts from the seed.
SeedRestored ==
    (dict_stage \in {"auto", "user"} /\ dict_next = 1) => dict_buf = FuzzedSeed

\* So it does when the words are in this order, and the automatic ones always are.
OverwriteRestores == InSizeOrder => SeedRestored

\* A mutant differs from the seed in one word: inserted, or written over it, for which the
\* words must be in order.
OneWordAtATime ==
    sent # <<>> =>
        IF dict_stage = "insert"
        THEN \E w \in Range(extras) :
                sent = SubSeq(FuzzedSeed, 1, dict_pos - 1) \o w
                           \o SubSeq(FuzzedSeed, dict_pos, Len(FuzzedSeed))
        ELSE InSizeOrder => \E w \in Range(WordsInUse) : sent = Replaced(FuzzedSeed, dict_pos, w)
=============================================================================
