---------------------------- MODULE NautilusTree -----------------------------
(***************************************************************************)
(* Nautilus' grammars and derivation trees: what Context computes of a     *)
(* grammar, the trees it generates, the four mutations, the two            *)
(* minimizations, the recursions of a tree and the chunk store.            *)
(*                                                                         *)
(* A tree is the preorder sequence of its rules, next to the size of every *)
(* subtree and the parent of every node.  Node 1 is the root.  Terminals   *)
(* are values; rules are PlainRules, the only kind there is.  A random     *)
(* choice is any choice, and whether a tested tree still has the wanted    *)
(* bits is left open.                                                      *)
(***************************************************************************)
EXTENDS Naturals, Sequences, FiniteSets, SequencesExt

CONSTANTS
    Grammars,        \* grammars: sequences of [nt, children]
    Nonterminals,    \* every other child is a terminal
    Start,           \* the nonterminal inputs are generated from
    MaxTreeSize,     \* setting max_tree_size
    SizeMax,         \* the largest size_t
    ChunkSize,       \* size of the largest subtree the chunk store keeps
    MaxNodes,        \* bound: mutants larger than this are not kept
    MaxRecursion,    \* bound: max_len_of_recursions
    MaxChunkTrees    \* bound: trees in the chunk store

ASSUME TreeAssumption ==
    /\ Start \in Nonterminals
    /\ {MaxTreeSize, SizeMax, ChunkSize, MaxNodes, MaxRecursion,
        MaxChunkTrees} \subseteq Nat \ {0}
    /\ \A g \in Grammars : \A r \in DOMAIN g : g[r].nt \in Nonterminals

VARIABLES
    grammar,                  \* _rules of the context
    nts_to_min_size, rules_to_min_size, nts_to_rules, nts_to_num_options,
    broken,                   \* Initialize threw "Broken grammar"
    tree,                     \* the tree in hand: rules, sizes, paren
    trees, nts_to_chunks, seen_outputs       \* the chunk store

contextVars == <<grammar, nts_to_min_size, rules_to_min_size, nts_to_rules,
                 nts_to_num_options, broken>>
chunkVars == <<trees, nts_to_chunks, seen_outputs>>
treeVars == <<contextVars, tree, chunkVars>>

NoTree == [rules |-> <<>>, sizes |-> <<>>, paren |-> <<>>]

-----------------------------------------------------------------------------
(* The grammar.                                                            *)

Nonterms(g, r) == SelectSeq(g[r].children, LAMBDA c : c \in Nonterminals)
RulesOf(g, n) == {r \in DOMAIN g : g[r].nt = n}

SumOver(f, nts) == FoldLeft(LAMBDA a, n : a + f[n], 0, nts)

\* One sweep over the unknown rules.  A rule whose nonterminals are all known is
\* removed; it sets or lowers the size of its nonterminal.
MinLenSweep(g, st) ==
    LET Visit(s, r) ==
          IF \E n \in Range(Nonterms(g, r)) : s.nt[n] = 0
          THEN [s EXCEPT !.left = Append(@, r)]
          ELSE LET m == 1 + SumOver(s.nt, Nonterms(g, r))
                   n == g[r].nt
               IN  [s EXCEPT !.rule[r] = m,
                             !.nt[n] = IF @ = 0 \/ m < @ THEN m ELSE @,
                             !.changed = @ \/ (s.nt[n] # 0 /\ m < s.nt[n])]
    IN  FoldLeft(Visit, [st EXCEPT !.left = <<>>], st.left)

\* The inner loop: until no rule is unknown, or a sweep removes none.
RECURSIVE MinLenLoop(_, _)
MinLenLoop(g, st) ==
    IF st.left = <<>> THEN st
    ELSE LET s == MinLenSweep(g, st)
         IN  IF Len(s.left) = Len(st.left) THEN s ELSE MinLenLoop(g, s)

\* Mutant of CalcMinLen: rules computed with a size that was lowered later stay.
CalcMinLenOnce(g, st) == MinLenLoop(g, [st EXCEPT !.left = [r \in DOMAIN g |-> r]])

\* The outer loop: again while the size of a nonterminal was lowered.
RECURSIVE CalcMinLen(_, _)
CalcMinLen(g, st) ==
    LET s == MinLenLoop(g, [st EXCEPT !.left = [r \in DOMAIN g |-> r], !.changed = FALSE])
    IN  IF s.left # <<>> \/ ~s.changed THEN s ELSE CalcMinLen(g, s)

MinLens(g) == CalcMinLen(g, [nt |-> [n \in Nonterminals |-> 0], rule |-> [r \in DOMAIN g |-> 0],
                             left |-> <<>>, changed |-> FALSE])

\* The rules of every nonterminal, shortest first.
CalcRuleOrder(g, size) ==
    [n \in Nonterminals |-> SetToSortSeq(RulesOf(g, n),
        LAMBDA p, q : size[p] < size[q] \/ (size[p] = size[q] /\ p < q))]

\* A product that stays at the largest size_t instead of overflowing.
CalcNumOptionsForRule(g, opts, r) ==
    FoldLeft(LAMBDA a, n : IF a * opts[n] > SizeMax THEN SizeMax ELSE a * opts[n],
             1, Nonterms(g, r))

RECURSIVE CalcNumOptions(_, _)
CalcNumOptions(g, opts) ==
    LET Visit(o, r) == LET num == CalcNumOptionsForRule(g, o, r)
                       IN  [o EXCEPT ![g[r].nt] = IF @ < num THEN num ELSE @]
        next == FoldLeft(Visit, opts, [r \in DOMAIN g |-> r])
    IN  IF next = opts THEN opts ELSE CalcNumOptions(g, next)

ContextInitialize ==
    LET g == grammar
        m == MinLens(g)
    IN  /\ ~broken /\ nts_to_rules = <<>>
        /\ nts_to_min_size' = m.nt /\ rules_to_min_size' = m.rule
        /\ broken' = (m.left # <<>>)
        /\ nts_to_rules' = IF broken' THEN <<>> ELSE CalcRuleOrder(g, m.rule)
        /\ nts_to_num_options' =
             IF broken' THEN <<>>
             ELSE CalcNumOptions(g, [n \in Nonterminals |-> Cardinality(RulesOf(g, n))])
        /\ UNCHANGED <<grammar, tree, chunkVars>>

Ready == nts_to_rules # <<>>
MaxLen == MaxTreeSize + 2

-----------------------------------------------------------------------------
(* Generation.                                                             *)

\* What GetRandomRuleForNT may return: the rules before the first that is too long.
\* With no rule it throws.  A rule with one option is rare, not impossible.
GetApplicableRules(n, max_len) ==
    LET order == nts_to_rules[n]
        Fits(k) == \A j \in 1..k : rules_to_min_size[order[j]] <= max_len
    IN  {order[k] : k \in {j \in DOMAIN order : Fits(j)}}

\* Mutant of GetRandomLen: the bound of the proposals is one too large.
GetRandomLenOver(children, remaining) == 0..remaining + 1

\* The least of some random proposals; with one child left all that remains.
GetRandomLen(children, remaining) == IF children = 1 THEN {remaining} ELSE 0..remaining

NewNode(t, r) == [rules |-> Append(t.rules, r), sizes |-> Append(t.sizes, 0),
                  paren |-> Append(t.paren, 1)]

RECURSIVE Generate(_, _, _), GenerateChildren(_, _, _, _, _)
\* Rule::Generate: the possible trees, each with the size it reports.  The node of r
\* is the last of t.
Generate(t, r, len) ==
    LET nts == Nonterms(grammar, r)
    IN  GenerateChildren(t, Len(t.rules), nts, len - SumOver(nts_to_min_size, nts), 1)

GenerateChildren(t, parent, nts, remaining, total) ==
    IF nts = <<>> THEN {[tree |-> t, size |-> total]}
    ELSE LET min == nts_to_min_size[Head(nts)]
             offset == Len(t.rules) + 1
             After(o) == GenerateChildren(
                 [o.tree EXCEPT !.sizes[offset] = o.size, !.paren[offset] = parent],
                 parent, Tail(nts), remaining + min - o.size, total + o.size)
         IN  UNION {UNION {After(o) : o \in Generate(NewNode(t, r), r, cur - 1)} :
                 <<cur, r>> \in {<<c, q>> \in {l + min : l \in GetRandomLen(Len(nts), remaining)}
                                              \X (DOMAIN grammar) :
                                  q \in GetApplicableRules(Head(nts), c)}}

GenerateFromRule(r, max_len) ==
    {[o.tree EXCEPT !.sizes[1] = Len(o.tree.rules)] : o \in Generate(NewNode(NoTree, r), r, max_len)}

GenerateFromNT(n, len) == UNION {GenerateFromRule(r, len - 1) : r \in GetApplicableRules(n, len)}

-----------------------------------------------------------------------------
(* Trees.                                                                  *)

NT(t, i) == grammar[t.rules[i]].nt
Subtree(t, i) == SubSeq(t.rules, i, i + t.sizes[i] - 1)

\* CalcParents walks over the rules with a stack of nonterminals that are still to
\* be derived, each with the node it belongs to.
ParentsStep(st, i) ==
    IF st.stack = <<>> \/ Last(st.stack)[1] # grammar[st.rules[i]].nt
    THEN [st EXCEPT !.valid = FALSE]
    ELSE LET nts == Nonterms(grammar, st.rules[i])
         IN  [st EXCEPT !.paren = Append(@, Last(st.stack)[2]),
                        !.stack = Front(@) \o Reverse([k \in DOMAIN nts |-> <<nts[k], i>>])]

CalcParents(rules) ==
    FoldLeftDomain(LAMBDA st, i : IF st.valid THEN ParentsStep(st, i) ELSE st,
        [rules |-> rules, paren |-> <<>>, valid |-> TRUE,
         stack |-> <<<<grammar[rules[1]].nt, 1>>>>], rules)

\* Mutant of CalcSizes: from the root down, before the children are complete.
CalcSizesForward(paren) ==
    FoldLeft(LAMBDA s, i : [s EXCEPT ![paren[i]] = @ + s[i]],
             [i \in DOMAIN paren |-> 1], [i \in 1..Len(paren) - 1 |-> i + 1])

CalcSizes(paren) ==
    FoldLeft(LAMBDA s, i : [s EXCEPT ![paren[i]] = @ + s[i]],
             [i \in DOMAIN paren |-> 1], Reverse([i \in 1..Len(paren) - 1 |-> i + 1]))

\* TreeMutation::ToTree.
ToTree(rules) == LET paren == CalcParents(rules).paren
                 IN  [rules |-> rules, sizes |-> CalcSizes(paren), paren |-> paren]

\* MutateReplaceFromTree: t with the subtree at n replaced by that of other at m.
ReplaceFromTree(t, n, other, m) ==
    SubSeq(t.rules, 1, n - 1) \o Subtree(other, m)
        \o SubSeq(t.rules, n + t.sizes[n], Len(t.rules))

\* The Unparser: the terminals of the subtree at n, and the node it stops at.
RECURSIVE UnparseLoop(_, _, _, _)
UnparseLoop(rules, stack, i, out) ==
    IF stack = <<>> THEN [out |-> out, next |-> i]
    ELSE IF Last(stack) \in Nonterminals
         THEN UnparseLoop(rules, Front(stack) \o Reverse(grammar[rules[i]].children), i + 1, out)
         ELSE UnparseLoop(rules, Front(stack), i, Append(out, Last(stack)))

Unparse(t, n) == UnparseLoop(t.rules, <<NT(t, n)>>, n, <<>>)

\* Mutant of FindParents: the outermost node of the nonterminal, not the last.
FindParentsOutermost(t, n) ==
    LET Step(st, i) ==
          LET top == Last(st.stack)
              mine == NT(t, i) = n
              below == IF mine /\ top[1] = 0 THEN i ELSE top[1]
              kids == Len(Nonterms(grammar, t.rules[i]))
          IN  [stack |-> Front(st.stack) \o [k \in 1..kids |-> <<below, top[2] + 1>>],
               found |-> IF mine /\ top[1] # 0
                         THEN Append(st.found, [node |-> i, parent |-> top[1], depth |-> top[2]])
                         ELSE st.found]
    IN  FoldLeftDomain(Step, [stack |-> <<<<0, 0>>>>, found |-> <<>>], t.rules).found

\* RecursionInfo::FindParents for one nonterminal.  A stack entry is the last node of
\* that nonterminal above (0: none) and the depth.
FindParents(t, n) ==
    LET Step(st, i) ==
          LET top == Last(st.stack)
              mine == NT(t, i) = n
              below == IF mine THEN i ELSE top[1]
              kids == Len(Nonterms(grammar, t.rules[i]))
          IN  [stack |-> Front(st.stack) \o [k \in 1..kids |-> <<below, top[2] + 1>>],
               found |-> IF mine /\ top[1] # 0
                         THEN Append(st.found, [node |-> i, parent |-> top[1], depth |-> top[2]])
                         ELSE st.found]
    IN  FoldLeftDomain(Step, [stack |-> <<<<0, 0>>>>, found |-> <<>>], t.rules).found

\* GetRecursionPairByOffset: the loop asks for the parent of the same node each time.
RecursionPairs(t) ==
    UNION {{<<f.parent, f.node>> : f \in Range(FindParents(t, n))} : n \in Nonterminals}

-----------------------------------------------------------------------------
(* Mutations.                                                              *)

\* The mutant may be kept: queue.Add takes its ToTree.
Keep(rules) == Len(rules) <= MaxNodes /\ tree' = ToTree(rules) /\ UNCHANGED <<contextVars, chunkVars>>

GenerateInput ==
    /\ Ready
    /\ \E t \in GenerateFromNT(Start, MaxLen) : tree' = t
    /\ UNCHANGED <<contextVars, chunkVars>>

\* MutRules: a subtree begins with another rule of its nonterminal.
MutRules ==
    \E n \in DOMAIN tree.rules : \E r \in RulesOf(grammar, NT(tree, n)) \ {tree.rules[n]} :
        \E t \in GenerateFromRule(r, MaxLen) : Keep(ReplaceFromTree(tree, n, t, 1))

\* MutRandom: a new subtree for a nonterminal with several rules.
MutRandom ==
    \E n \in DOMAIN tree.rules :
        /\ Len(nts_to_rules[NT(tree, n)]) > 1
        /\ \E t \in GenerateFromNT(NT(tree, n), MaxLen) : Keep(ReplaceFromTree(tree, n, t, 1))

\* ChunkStore::GetAlternativeTo.
GetAlternativeTo(r) ==
    {c \in Range(nts_to_chunks[grammar[r].nt]) : trees[c.tree].rules[c.node] # r}

MutSplice ==
    \E n \in DOMAIN tree.rules : \E c \in GetAlternativeTo(tree.rules[n]) :
        Keep(ReplaceFromTree(tree, n, trees[c.tree], c.node))

\* The tree MutRandomRecursion builds for rec1, with the size it gives to its root:
\* what is before rec1 in rec0, num times; rec1; what is after it, num times.
RecursionTree(rec0, rec1, max_len) ==
    LET pre   == rec1 - rec0
        total == tree.sizes[rec0] - tree.sizes[rec1]
        post  == total - pre
        num   == max_len \div total
        last  == rec1 + tree.sizes[rec1]
        Times(from, len) == [k \in 1..num * len |-> tree.rules[from + ((k - 1) % len)]]
        first == IF num = 0 THEN rec1 ELSE rec0
        root  == tree.sizes[first] + (IF num > 0 /\ tree.sizes[rec0] >= pre
                                      THEN (num - 1) * total ELSE 0)
    IN  [rules |-> Times(rec0, pre) \o Subtree(tree, rec1)
                       \o (IF post = 0 THEN <<>> ELSE Times(last, post)),
         sizes |-> <<root>>]

MutRandomRecursion ==
    \E p \in RecursionPairs(tree), len \in 1..MaxRecursion :
        Keep(ReplaceFromTree(tree, p[2], RecursionTree(p[1], p[2], len), 1))

\* One step of MinimizeTree whose tester agrees.
MinimizeTree ==
    \E n \in DOMAIN tree.rules : LET min == nts_to_min_size[NT(tree, n)] IN
        /\ tree.sizes[n] > min
        /\ \E t \in GenerateFromNT(NT(tree, n), min) : Keep(ReplaceFromTree(tree, n, t, 1))

\* FindParentWithNT walks up until a node has the same nonterminal (0: none).
RECURSIVE FindParentWithNT(_, _, _)
FindParentWithNT(t, cur, n) ==
    IF cur = 1 THEN 0
    ELSE IF NT(t, t.paren[cur]) = n THEN t.paren[cur] ELSE FindParentWithNT(t, t.paren[cur], n)

\* One step of MinimizeRec whose tester agrees.
MinimizeRec ==
    \E n \in DOMAIN tree.rules : LET p == FindParentWithNT(tree, n, NT(tree, n)) IN
        p # 0 /\ Keep(ReplaceFromTree(tree, p, tree, n))

\* Mutant of ChunkStep: only an output of the whole tree makes it worth keeping.
ChunkStepRoot(st, i) ==
    LET out == Unparse(tree, i).out
    IN  IF tree.sizes[i] > ChunkSize \/ out \in st.seen THEN st
        ELSE [seen |-> st.seen \cup {out}, new |-> st.new \/ i = 1,
              chunks |-> [st.chunks EXCEPT ![NT(tree, i)] =
                            Append(@, [tree |-> Len(trees) + 1, node |-> i])]]

\* The subtree at i, if it is small and its output new.  The id of the tree is the
\* place it will have, if it is kept.
ChunkStep(st, i) ==
    LET out == Unparse(tree, i).out
    IN  IF tree.sizes[i] > ChunkSize \/ out \in st.seen THEN st
        ELSE [seen |-> st.seen \cup {out}, new |-> TRUE,
              chunks |-> [st.chunks EXCEPT ![NT(tree, i)] =
                            Append(@, [tree |-> Len(trees) + 1, node |-> i])]]

\* ChunkStore::AddTree.
AddTree ==
    LET end == FoldLeftDomain(ChunkStep, [seen |-> seen_outputs, new |-> FALSE,
                                          chunks |-> nts_to_chunks], tree.rules)
    IN  /\ tree # NoTree /\ Len(trees) < MaxChunkTrees
        /\ seen_outputs' = end.seen /\ nts_to_chunks' = end.chunks
        /\ trees' = IF end.new THEN Append(trees, tree) ELSE trees
        /\ UNCHANGED <<contextVars, tree>>

-----------------------------------------------------------------------------
TreeInit ==
    /\ grammar \in Grammars
    /\ nts_to_min_size = <<>> /\ rules_to_min_size = <<>> /\ nts_to_rules = <<>>
    /\ nts_to_num_options = <<>> /\ broken = FALSE
    /\ tree = NoTree
    /\ trees = <<>> /\ nts_to_chunks = [n \in Nonterminals |-> <<>>] /\ seen_outputs = {}

TreeNext ==
    \/ ContextInitialize \/ GenerateInput
    \/ MutRules \/ MutRandom \/ MutSplice \/ MutRandomRecursion
    \/ MinimizeTree \/ MinimizeRec \/ AddTree

-----------------------------------------------------------------------------
(* Properties.                                                             *)

\* The nonterminals that derive something.
RECURSIVE Productive(_, _)
Productive(g, known) ==
    LET next == known \cup {g[r].nt : r \in {q \in DOMAIN g : Range(Nonterms(g, q)) \subseteq known}}
    IN  IF next = known THEN known ELSE Productive(g, next)

\* CalcMinLen is right: it rejects exactly the grammars with a rule that derives
\* nothing, and for the others the sizes are those of the smallest trees (the equations
\* have one finite solution because every rule counts one).  A stale size would make
\* GetApplicableRules offer a rule that cannot be finished within its length.
MinSizesRight ==
    (broken \/ Ready) =>
        /\ broken <=> \E r \in DOMAIN grammar :
                         ~(Range(Nonterms(grammar, r)) \subseteq Productive(grammar, {}))
        /\ Ready => /\ \A r \in DOMAIN grammar :
                          rules_to_min_size[r] = 1 + SumOver(nts_to_min_size, Nonterms(grammar, r))
                    /\ \A n \in Productive(grammar, {}) :
                          nts_to_min_size[n] = rules_to_min_size[nts_to_rules[n][1]]

\* The rules from node i on are the preorder of one derivation of n: the node after it,
\* or 0.
RECURSIVE Derivation(_, _, _)
Derivation(rules, i, nts) ==
    IF nts = <<>> THEN i
    ELSE IF i = 0 \/ i > Len(rules) \/ grammar[rules[i]].nt # Head(nts) THEN 0
    ELSE Derivation(rules, i + 1, Nonterms(grammar, rules[i]) \o Tail(nts))

\* The tree in hand is one whole derivation of START, whatever generation, splicing,
\* recursion and minimization made of it, and its sizes and parents, kept while it was
\* generated or computed afterwards, are those of the derivation.  The unparser, which
\* reads the rules with a stack of its own, ends where the subtree ends.
TreeConsistent ==
    tree # NoTree =>
        /\ Derivation(tree.rules, 1, <<Start>>) = Len(tree.rules) + 1
        /\ \A i \in DOMAIN tree.rules :
              /\ Derivation(tree.rules, i, <<NT(tree, i)>>) = i + tree.sizes[i]
              /\ Unparse(tree, i).next = i + tree.sizes[i]
              /\ i > 1 => /\ tree.paren[i] < i
                          /\ i < tree.paren[i] + tree.sizes[tree.paren[i]]
                          /\ \A j \in tree.paren[i] + 1..i - 1 : i >= j + tree.sizes[j]

\* A recursion pair is a node and its closest ancestor of the same nonterminal, so
\* MutRandomRecursion never divides by zero; and no such node is missed.
RecursionsRight ==
    LET Above(i, j) == i < j /\ j < i + tree.sizes[i] /\ NT(tree, i) = NT(tree, j)
    IN  RecursionPairs(tree) =
          {p \in (DOMAIN tree.rules) \X (DOMAIN tree.rules) :
              Above(p[1], p[2]) /\ ~\E k \in DOMAIN tree.rules : Above(p[1], k) /\ Above(k, p[2])}

\* Every chunk refers to a tree that was really kept, and to a node of the chunk's
\* nonterminal whose output has been seen.
ChunksResolve ==
    \A n \in Nonterminals : \A c \in Range(nts_to_chunks[n]) :
        /\ c.tree \in DOMAIN trees /\ c.node \in DOMAIN trees[c.tree].rules
        /\ NT(trees[c.tree], c.node) = n
        /\ Unparse(trees[c.tree], c.node).out \in seen_outputs

\* A new input has at most MaxLen nodes, and minimization makes a tree smaller.
SizesBounded ==
    [/\ GenerateInput => Len(tree'.rules) <= MaxLen
     /\ (MinimizeTree \/ MinimizeRec) => Len(tree'.rules) < Len(tree.rules)]_treeVars
=============================================================================
