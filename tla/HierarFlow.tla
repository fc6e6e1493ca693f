----------------------------- MODULE HierarFlow ------------------------------
(***************************************************************************)
(* HierarFlow: a program builds a tree of nodes with <<, ||, HardLink and  *)
(* Finally, each call of which may throw, and then runs it from its head.  *)
(* A routine is shared by hard links and knows its node only by the        *)
(* reference that the node sets before it calls the routine.               *)
(*                                                                         *)
(* Every routine has the type int(int), so that any node can be the child  *)
(* of any other.  What the body of a plain routine does is up to its       *)
(* author: it calls its successors, sets the response and returns, in any  *)
(* way.  A response value is known by the activation that was to get it.   *)
(***************************************************************************)
EXTENDS Integers, Sequences, FiniteSets, SequencesExt

CONSTANTS
    MaxHfNodes,      \* the nodes beside the head
    MaxKids,         \* the nodes of one HierarFlowChildren
    MaxActs,         \* activations of nodes
    MaxHfCalls       \* calls of CallSuccessors in one activation

VARIABLES
    hf_rt,           \* the routine of each node, named by its first node
    hf_kind,         \* "plain", "random", or "finally" by routine
    hf_final,        \* final_node_impl of a FinalizeRoutine
    hf_parent,       \* parent, NoNode for nullptr
    hf_idx,          \* idx
    hf_succ,         \* succ_nodes
    hf_kids,         \* a HierarFlowChildren in a variable; empty when invalid
    hf_phase,        \* "build", "run", "thrown", or "undefined"
    hf_linked,       \* cur_linked_node_ref of each routine
    hf_resp,         \* resp_val: the activation that was to get it, 0 the default
    hf_stack,        \* the activations under way
    hf_acts

treeOfNodes == <<hf_rt, hf_kind, hf_final, hf_parent, hf_idx, hf_succ>>
hfVars == <<treeOfNodes, hf_kids, hf_phase, hf_linked, hf_resp, hf_stack, hf_acts>>

NoNode == -1
HeadNode == 0        \* the node of WrapToMakeHeadNode

Nodes == DOMAIN hf_rt

-----------------------------------------------------------------------------
(* Nodes.                                                                  *)

AddNode(routine, kind, final) ==
    LET n == Cardinality(Nodes)
    IN  /\ n <= MaxHfNodes
        /\ hf_rt' = [m \in Nodes \cup {n} |-> IF m = n THEN routine ELSE hf_rt[m]]
        /\ hf_kind' = [m \in Nodes \cup {n} |-> IF m = n THEN kind ELSE hf_kind[m]]
        /\ hf_final' = [m \in Nodes \cup {n} |-> IF m = n THEN final ELSE hf_final[m]]
        /\ hf_idx' = [m \in Nodes \cup {n} |-> IF m = n THEN 0
                                               ELSE IF m = final THEN 0 ELSE hf_idx[m]]
        /\ hf_parent' = [m \in Nodes \cup {n} |-> IF m = n THEN NoNode
                                                  ELSE IF m = final THEN n ELSE hf_parent[m]]
        /\ hf_succ' = [m \in Nodes \cup {n} |-> IF m = n THEN <<>> ELSE hf_succ[m]]
        /\ hf_linked' = [m \in Nodes \cup {n} |-> IF m = n THEN NoNode ELSE hf_linked[m]]
        /\ hf_resp' = [m \in Nodes \cup {n} |-> IF m = n THEN 0 ELSE hf_resp[m]]

\* CreateNode and CreateIrregularNode
CreateNode ==
    /\ hf_phase = "build"
    /\ \E kind \in {"plain", "random"} : AddNode(Cardinality(Nodes), kind, NoNode)
    /\ UNCHANGED <<hf_kids, hf_phase, hf_stack, hf_acts>>

\* HardLink: a node of its own for the same routine.  The comment of FinalizeRoutine
\* excludes its hard links.
HardLink ==
    /\ hf_phase = "build"
    /\ \E n \in Nodes \ {HeadNode} :
         /\ hf_kind[n] # "finally"
         /\ AddNode(hf_rt[n], hf_kind[n], NoNode)
    /\ UNCHANGED <<hf_kids, hf_phase, hf_stack, hf_acts>>

ThrowWrongUsage == hf_phase' = "thrown"

\* The exception leaves the function that builds, and its variables go with it.
KidsUnlessThrown == hf_kids' = IF hf_phase' = "thrown" THEN <<>> ELSE hf_kids

\* Finally: the node learns its parent without joining the successors.
Finally ==
    /\ hf_phase = "build"
    /\ \E n \in Nodes \ {HeadNode} :
         \/ /\ hf_parent[n] = NoNode
            /\ AddNode(Cardinality(Nodes), "finally", n)
            /\ UNCHANGED hf_phase
         \/ /\ hf_parent[n] # NoNode
            /\ ThrowWrongUsage
            /\ UNCHANGED <<treeOfNodes, hf_linked, hf_resp>>
    /\ KidsUnlessThrown
    /\ UNCHANGED <<hf_stack, hf_acts>>

-----------------------------------------------------------------------------
(* Edges.                                                                  *)

\* Mutant: the check looks one level up only.
LoopOneLevel(p, n) == p[n] = n

\* GuaranteeNoLoop: a parent appears twice on the way up from n, in the parents p.  The way
\* never ends then: there are nodes, n among them, whose parents are all among them.
LoopAt(p, n) == \E S \in SUBSET Nodes : n \in S /\ \A m \in S : p[m] \in S

\* Mutant: the children of a second group are counted from 0.
AddFromZero(n, nodes) ==
    LET free(k) == hf_parent[nodes[k]] = NoNode /\ \A j \in 1..(k - 1) : nodes[j] # nodes[k]
        set == {k \in DOMAIN nodes : \A j \in 1..k : free(j)}
        kth(m) == CHOOSE k \in set : nodes[k] = m
        named(m) == \E k \in set : nodes[k] = m
    IN  /\ hf_parent' = [m \in Nodes |-> IF named(m) THEN n ELSE hf_parent[m]]
        /\ hf_idx' = [m \in Nodes |-> IF named(m) THEN kth(m) - 1 ELSE hf_idx[m]]
        /\ hf_succ' = IF set = DOMAIN nodes THEN [hf_succ EXCEPT ![n] = @ \o nodes] ELSE hf_succ
        /\ IF set = DOMAIN nodes /\ ~LoopAt(hf_parent', n) THEN UNCHANGED hf_phase ELSE ThrowWrongUsage
        /\ UNCHANGED <<hf_rt, hf_kind, hf_final, hf_linked, hf_resp, hf_stack, hf_acts>>

\* AddSuccessor and AddSuccessors: the parents are set one by one until one is set
\* already, which throws; then the nodes join, and then the way up is checked.
AddSuccessors(n, nodes) ==
    LET free(k) == hf_parent[nodes[k]] = NoNode /\ \A j \in 1..(k - 1) : nodes[j] # nodes[k]
        set == {k \in DOMAIN nodes : \A j \in 1..k : free(j)}
        kth(m) == CHOOSE k \in set : nodes[k] = m
        named(m) == \E k \in set : nodes[k] = m
    IN  /\ hf_parent' = [m \in Nodes |-> IF named(m) THEN n ELSE hf_parent[m]]
        /\ hf_idx' = [m \in Nodes |-> IF named(m) THEN Len(hf_succ[n]) + kth(m) - 1 ELSE hf_idx[m]]
        /\ hf_succ' = IF set = DOMAIN nodes THEN [hf_succ EXCEPT ![n] = @ \o nodes] ELSE hf_succ
        /\ IF set = DOMAIN nodes /\ ~LoopAt(hf_parent', n) THEN UNCHANGED hf_phase ELSE ThrowWrongUsage
        /\ UNCHANGED <<hf_rt, hf_kind, hf_final, hf_linked, hf_resp, hf_stack, hf_acts>>

\* n << m, or the path that begins with m; also what WrapToMakeHeadNode does.
Connect ==
    /\ hf_phase = "build"
    /\ \E n \in Nodes, m \in Nodes \ {HeadNode} :
         /\ n = HeadNode => hf_succ[HeadNode] = <<>>
         /\ AddSuccessors(n, <<m>>)
    /\ KidsUnlessThrown

\* n || m, kids || m and m || kids: the old instance gives its nodes away.
Join ==
    /\ hf_phase = "build"
    /\ Len(hf_kids) < MaxKids
    /\ \E n, m \in Nodes \ {HeadNode} :
         hf_kids' \in IF hf_kids = <<>> THEN {<<n, m>>} ELSE {Append(hf_kids, m), <<m>> \o hf_kids}
    /\ UNCHANGED <<treeOfNodes, hf_phase, hf_linked, hf_resp, hf_stack, hf_acts>>

\* kids || m, whose value is not kept: kids is invalid from then on.
JoinAndForget ==
    /\ hf_phase = "build"
    /\ hf_kids # <<>>
    /\ hf_kids' = <<>>
    /\ UNCHANGED <<treeOfNodes, hf_phase, hf_linked, hf_resp, hf_stack, hf_acts>>

\* n << kids: an invalid instance throws.  The argument is a copy, so that the variable
\* stays valid; its nodes have their parent then.
ConnectChildren ==
    /\ hf_phase = "build"
    /\ \E n \in Nodes \ {HeadNode} :
         IF hf_kids = <<>>
           THEN ThrowWrongUsage /\ UNCHANGED <<treeOfNodes, hf_linked, hf_resp, hf_stack, hf_acts>>
           ELSE AddSuccessors(n, hf_kids)
    /\ KidsUnlessThrown

-----------------------------------------------------------------------------
(* Running.                                                                *)

Top == Last(hf_stack)
Routine == hf_rt[Top.node]
Linked == hf_linked[Routine]       \* UnwrapCurrentLinkedNodeRef
Caller == hf_stack[Len(hf_stack) - 1]

\* Mutant: the response is not reset.
EnterKeepsResponse(stack, n) ==
    /\ hf_acts < MaxActs
    /\ hf_acts' = hf_acts + 1
    /\ hf_linked' = [hf_linked EXCEPT ![hf_rt[n]] = n]
    /\ hf_stack' = Append(stack, [node |-> n, act |-> hf_acts', pre |-> hf_linked[hf_rt[n]],
                                  at |-> NoNode, mode |-> "body", calls |-> 0])
    /\ UNCHANGED hf_resp

\* operator() of a node: it resets its response and tells the routine who is running.
EnterNode(stack, n) ==
    /\ hf_acts < MaxActs
    /\ hf_acts' = hf_acts + 1
    /\ hf_resp' = [hf_resp EXCEPT ![n] = 0]
    /\ hf_linked' = [hf_linked EXCEPT ![hf_rt[n]] = n]
    /\ hf_stack' = Append(stack, [node |-> n, act |-> hf_acts', pre |-> hf_linked[hf_rt[n]],
                                  at |-> NoNode, mode |-> "body", calls |-> 0])

\* Mutant: the reference to the previous node of the routine is not put back.
LeaveKeepsLink(ref) ==
    /\ hf_linked' = hf_linked
    /\ hf_stack' = IF Len(hf_stack) = 1 THEN <<>>
                   ELSE [Front(hf_stack) EXCEPT ![Len(hf_stack) - 1].at =
                             IF Caller.mode = "children" THEN ref ELSE NoNode]

\* The end of operator(); only runAllChildren follows the reference that is returned.
LeaveNode(ref) ==
    /\ hf_linked' = [hf_linked EXCEPT ![Routine] = Top.pre]
    /\ hf_stack' = IF Len(hf_stack) = 1 THEN <<>>
                   ELSE [Front(hf_stack) EXCEPT ![Len(hf_stack) - 1].at =
                             IF Caller.mode = "children" THEN ref ELSE NoNode]

\* Mutant: the last of the siblings is not recognized.
WildAtEnd(n) ==
    /\ hf_parent[n] # NoNode
    /\ hf_idx[n] + 1 >= Len(hf_succ[hf_parent[n]])

\* GoToDefaultNext of the node n; succ_nodes is read without a check of its bounds.
WildNext(n) ==
    /\ hf_parent[n] # NoNode
    /\ hf_idx[n] + 1 > Len(hf_succ[hf_parent[n]])

GoToDefaultNext(n) ==
    IF hf_parent[n] = NoNode \/ hf_idx[n] + 1 = Len(hf_succ[hf_parent[n]]) THEN NoNode
    ELSE hf_succ[hf_parent[n]][hf_idx[n] + 2]

\* Returning GoToDefaultNext().
LeaveToNext ==
    IF WildNext(Linked) THEN hf_phase' = "undefined" /\ UNCHANGED <<hf_linked, hf_stack>>
    ELSE LeaveNode(GoToDefaultNext(Linked)) /\ UNCHANGED hf_phase

SetTop(field, value) == [hf_stack EXCEPT ![Len(hf_stack)][field] = value]

\* The head is called, when the flow is complete.
OneLoop ==
    /\ hf_phase \in {"build", "run"} /\ hf_stack = <<>>
    /\ \A n \in Nodes \ {HeadNode} : hf_parent[n] # NoNode
    /\ hf_succ[HeadNode] # <<>>
    /\ hf_phase' = "run"
    /\ hf_kids' = <<>>
    /\ EnterNode(<<>>, HeadNode)
    /\ UNCHANGED treeOfNodes

Running(kind) == hf_phase = "run" /\ hf_stack # <<>> /\ hf_kind[Top.node] = kind

\* runAllChildren starts with the first successor of the linked node.
CallSuccessors ==
    /\ \/ Running("plain") /\ Top.calls < IF Top.node = HeadNode THEN 1 ELSE MaxHfCalls
       \/ Running("finally") /\ Top.calls = 0
    /\ Top.mode = "body"
    /\ hf_stack' = [hf_stack EXCEPT ![Len(hf_stack)].mode = "children",
                                    ![Len(hf_stack)].calls = @ + 1,
                                    ![Len(hf_stack)].at = IF hf_succ[Linked] = <<>> THEN NoNode
                                                          ELSE hf_succ[Linked][1]]
    /\ UNCHANGED <<treeOfNodes, hf_kids, hf_phase, hf_linked, hf_resp, hf_acts>>

NextChild ==
    /\ hf_phase = "run" /\ hf_stack # <<>>
    /\ Top.mode = "children" /\ Top.at # NoNode
    /\ EnterNode(hf_stack, Top.at)
    /\ UNCHANGED <<treeOfNodes, hf_kids, hf_phase>>

AllChildrenCalled ==
    /\ hf_phase = "run" /\ hf_stack # <<>>
    /\ Top.mode = "children" /\ Top.at = NoNode
    /\ hf_stack' = SetTop("mode", "body")
    /\ UNCHANGED <<treeOfNodes, hf_kids, hf_phase, hf_linked, hf_resp, hf_acts>>

\* SetResponseValue writes to the parent of the linked node.
SetResponseValue ==
    /\ Running("plain") /\ Top.mode = "body" /\ Top.node # HeadNode
    /\ hf_resp' = [hf_resp EXCEPT ![hf_parent[Linked]] = Caller.act]
    /\ UNCHANGED <<treeOfNodes, hf_kids, hf_phase, hf_linked, hf_stack, hf_acts>>

PlainReturns ==
    /\ Running("plain") /\ Top.mode = "body"
    /\ Top.node = HeadNode => Top.calls = 1
    /\ \/ LeaveNode(NoNode) /\ UNCHANGED hf_phase      \* GoToParent
       \/ Top.node # HeadNode /\ LeaveToNext
    /\ UNCHANGED <<treeOfNodes, hf_kids, hf_resp, hf_acts>>

\* CallRandomChild: one successor, if there is one.
RandomCalls ==
    /\ Running("random") /\ Top.mode = "body" /\ hf_succ[Linked] # <<>>
    /\ \E m \in Range(hf_succ[Linked]) : EnterNode(SetTop("mode", "after"), m)
    /\ UNCHANGED <<treeOfNodes, hf_kids, hf_phase>>

RandomReturnsAtOnce ==
    /\ Running("random") /\ Top.mode = "body" /\ hf_succ[Linked] = <<>>
    /\ LeaveToNext
    /\ UNCHANGED <<treeOfNodes, hf_kids, hf_resp, hf_acts>>

\* FinalizeRoutine: the final node, whatever the successors returned.
CallFinalNode ==
    /\ Running("finally") /\ Top.mode = "body" /\ Top.calls = 1
    /\ EnterNode(SetTop("mode", "after"), hf_final[Top.node])
    /\ UNCHANGED <<treeOfNodes, hf_kids, hf_phase>>

\* Both hand the response of their own node on and return GoToDefaultNext.
IrregularReturns ==
    /\ hf_phase = "run" /\ hf_stack # <<>> /\ Top.mode = "after"
    /\ hf_resp' = [hf_resp EXCEPT ![hf_parent[Top.node]] =
                      IF hf_resp[Top.node] = Top.act THEN Caller.act ELSE hf_resp[Top.node]]
    /\ LeaveToNext
    /\ UNCHANGED <<treeOfNodes, hf_kids, hf_acts>>

-----------------------------------------------------------------------------
HfInit ==
    /\ hf_rt = [n \in {HeadNode} |-> HeadNode] /\ hf_kind = [n \in {HeadNode} |-> "plain"]
    /\ hf_final = [n \in {HeadNode} |-> NoNode] /\ hf_parent = [n \in {HeadNode} |-> NoNode]
    /\ hf_idx = [n \in {HeadNode} |-> 0] /\ hf_succ = [n \in {HeadNode} |-> <<>>]
    /\ hf_kids = <<>> /\ hf_phase = "build"
    /\ hf_linked = [n \in {HeadNode} |-> NoNode] /\ hf_resp = [n \in {HeadNode} |-> 0]
    /\ hf_stack = <<>> /\ hf_acts = 0

HfNext ==
    \/ CreateNode \/ HardLink \/ Finally \/ Connect \/ Join \/ JoinAndForget \/ ConnectChildren
    \/ OneLoop \/ CallSuccessors \/ NextChild \/ AllChildrenCalled \/ SetResponseValue
    \/ PlainReturns \/ RandomCalls \/ RandomReturnsAtOnce \/ CallFinalNode \/ IrregularReturns

HfSpec == HfInit /\ [][HfNext]_hfVars

-----------------------------------------------------------------------------
(* Properties.                                                             *)

\* As long as nothing was thrown the graph is a forest: of any nodes one has its parent
\* outside of them, so that every way up ends, although GuaranteeNoLoop looks only
\* upwards and only from the node that was extended last.
NoCycle ==
    hf_phase # "thrown" =>
        \A S \in SUBSET Nodes : S # {} => \E n \in S : hf_parent[n] \notin S

\* As long as nothing was thrown a node is a successor of its parent alone, at its idx,
\* however it was connected; the node given to Finally is a successor of none.
PlaceIsKnown ==
    hf_phase # "thrown" =>
        \A n, m \in Nodes : \A k \in DOMAIN hf_succ[n] :
            hf_succ[n][k] = m => hf_parent[m] = n /\ hf_idx[m] = k - 1

\* While a routine runs it takes itself for the node that was called, also after it was
\* called again at a hard link of that node further down.
KnowsItsNode ==
    hf_phase = "run" /\ hf_stack # <<>> => Linked = Top.node

\* A response that a node sees was set for this activation of it or is the default: it is
\* never one of an earlier call, and never one for another node.
ResponseIsCurrent ==
    hf_phase = "run" /\ hf_stack # <<>> => hf_resp[Top.node] \in {0, Top.act}

\* A successor is looked up where there is none in one case only: the node given to
\* Finally asks for its next and the try block has no successor.
WildOnlyInEmptyTry ==
    hf_phase = "undefined" =>
        /\ hf_kind[Caller.node] = "finally" /\ hf_final[Caller.node] = Top.node
        /\ hf_succ[Caller.node] = <<>>

\* A HierarFlow is a forest whatever calls built it, and while it runs a routine knows
\* its node, reads no answer of another call and looks up no successor that is not there,
\* except in the one case of an empty try block.
FlowSound ==
    NoCycle /\ PlaceIsKnown /\ KnowsItsNode /\ ResponseIsCurrent /\ WildOnlyInEmptyTry
=============================================================================
