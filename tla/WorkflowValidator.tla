-------------------------- MODULE WorkflowValidator --------------------------
(***************************************************************************)
(* What lets a draft be published (apps/api/src/modules/workflows/         *)
(* services/workflow-graph-validator.service.ts).  findCycles walks the    *)
(* graph depth first by calling itself; here the calls that have not       *)
(* returned are a stack, and each call, the next edge of one and each      *)
(* return is a step.  Nothing else happens between them in the code, and   *)
(* nothing here depends on them but the verdict.                           *)
(***************************************************************************)
EXTENDS WorkflowGraph

CONSTANT Graphs \* the drafts handed to publish

ASSUME ValidatorAssumption ==
  /\ NodeOrder \in Seq(Nodes)
  /\ Graphs \subseteq Seq([source : Nodes, target : Nodes, branch : STRING \union {None}])

VARIABLES
  graph, \* the draft's edges
  walk   \* findCycles: the nodes started from so far, the open calls, the nodes left, the issues

Call == [node : Nodes, next : Nat]
Walk == [starts : Nat, open : Seq(Call), left : SUBSET Nodes, cycles : SUBSET Nodes]

WalkInit ==
  /\ graph \in Graphs
  /\ walk = [starts |-> 0, open |-> <<>>, left |-> {}, cycles |-> {}]

-----------------------------------------------------------------------------
\* visiting, and the call on top.
Visiting == {walk.open[i].node : i \in DOMAIN walk.open}
Depth == Len(walk.open)
Top == walk.open[Depth]

\* Edges of the call on top that it has not followed.
Ahead == {j \in DOMAIN graph : j >= Top.next /\ graph[j].source = Top.node}

\* walk(n), called when the open calls have become calls: an issue, nothing, or a call.
Walked(starts, calls, n) ==
  IF n \in Visiting
  THEN [walk EXCEPT !.starts = starts, !.open = calls, !.cycles = @ \union ({n} \ LoopNodes)]
  ELSE IF n \in walk.left
  THEN [walk EXCEPT !.starts = starts, !.open = calls]
  ELSE [walk EXCEPT !.starts = starts, !.open = Append(calls, [node |-> n, next |-> 1])]

\* Mutant of StartFrom: walks from the first node only.
StartFromFirst ==
  /\ walk.open = <<>> /\ walk.starts = 0 /\ NodeOrder # <<>>
  /\ walk' = Walked(Len(NodeOrder), walk.open, NodeOrder[1])
  /\ graph' = graph

StartFrom ==
  /\ walk.open = <<>> /\ walk.starts < Len(NodeOrder)
  /\ walk' = Walked(walk.starts + 1, walk.open, NodeOrder[walk.starts + 1])
  /\ graph' = graph

\* The next edge of the call on top, in the order of the draft.
Follow ==
  /\ walk.open # <<>>
  /\ \E j \in Ahead :
       /\ \A i \in Ahead : j <= i
       /\ walk' = Walked(walk.starts, [walk.open EXCEPT ![Depth].next = j + 1], graph[j].target)
  /\ graph' = graph

\* A node whose edges are all followed is left, and not walked again.
Return ==
  /\ walk.open # <<>> /\ Ahead = {}
  /\ walk' = [walk EXCEPT !.open = SubSeq(@, 1, Depth - 1), !.left = @ \union {Top.node}]
  /\ graph' = graph

Validate == StartFrom \/ Follow \/ Return

-----------------------------------------------------------------------------
(* The verdict. *)

HasTrigger == \E n \in Nodes : Kind[n] \in {"event", "manual"}
UniqueIds == Cardinality(Nodes) = Len(NodeOrder)
Referenced == \A e \in EdgeSet(graph) : {e.source, e.target} \subseteq Nodes
Connected ==
  Cardinality(Nodes) > 1 => \A n \in Nodes : \E e \in EdgeSet(graph) : n \in {e.source, e.target}
BranchTargets ==
  \A n \in Nodes : Kind[n] = "branch" =>
    /\ Cardinality({i \in DOMAIN graph : graph[i].source = n}) >= 2
    /\ \A e \in From(graph, n) : e.branch # None

\* validate: the draft that is published has no issue.
Accepted ==
  /\ walk.starts = Len(NodeOrder) /\ walk.open = <<>> /\ walk.cycles = {}
  /\ HasTrigger /\ UniqueIds /\ Referenced /\ Connected /\ BranchTargets

\* A set of nodes a job can go round in, and one it can without ever meeting a loop node.
Round(S) == S # {} /\ \A n \in S : \E e \in From(graph, n) : e.target \in S
Endless == \E S \in SUBSET (Nodes \ LoopNodes) : Round(S)

-----------------------------------------------------------------------------
(* The inductive invariant. *)

WalkTypeOK == graph \in Graphs /\ walk \in Walk /\ walk.starts <= Len(NodeOrder)

\* A call follows the edge to the one above it; no node is open twice, or open and left.
Stacked ==
  /\ \A i, j \in DOMAIN walk.open : walk.open[i].node = walk.open[j].node => i = j
  /\ Visiting \intersect walk.left = {}
  /\ \A i \in DOMAIN walk.open : i < Depth =>
       \E e \in From(graph, walk.open[i].node) : e.target = walk.open[i + 1].node

\* Where an edge already followed leads, unless an issue is on record.
Settled == walk.left \union LoopNodes
EdgesSettle ==
  /\ \A n \in walk.left : \A e \in From(graph, n) : e.target \in Settled
  /\ \A i \in DOMAIN walk.open : \A j \in DOMAIN graph :
       j < walk.open[i].next /\ graph[j].source = walk.open[i].node =>
         \/ graph[j].target \in Settled
         \/ i < Depth /\ graph[j].target = walk.open[i + 1].node

\* The nodes left hold no round without a loop.
LeftEnds == \A S \in SUBSET (walk.left \ LoopNodes) : ~Round(S)

\* Every node started from is left or still open.
StartsSeen == \A i \in 1 .. walk.starts : NodeOrder[i] \in walk.left \union Visiting

WalkInv ==
  /\ WalkTypeOK /\ Stacked /\ StartsSeen
  /\ walk.cycles = {} => EdgesSettle /\ LeftEnds

\* An issue names a node that is on a round.
CyclesReal == \A n \in walk.cycles : \E S \in SUBSET Nodes : n \in S /\ Round(S)
=============================================================================
