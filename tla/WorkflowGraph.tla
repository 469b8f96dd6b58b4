---------------------------- MODULE WorkflowGraph ----------------------------
(***************************************************************************)
(* The graph of a workflow (apps/api/src/modules/workflows) and how a run  *)
(* moves over it (NodeHandlerRegistry and WorkflowProcessor.next).  A      *)
(* graph is the sequence of its edges over fixed nodes, in the order the   *)
(* draft lists them; the fields of a node that only fill a message are     *)
(* left out.                                                               *)
(***************************************************************************)
EXTENDS Integers, FiniteSets, Sequences

CONSTANTS
  NodeOrder,     \* the nodes as the draft lists them
  Kind,          \* "event" (a domain event starts it), "manual" (trigger.*), "action", "delay",
                 \* "condition", "branch", "loop", "terminate"
  MaxIterations, \* config.maxIterations of the loop nodes
  Watched,       \* config.variable of a condition: the loop whose counter it asks for, or None
  Fallback,      \* config.defaultBranch of a branch node
  None

Nodes == {NodeOrder[i] : i \in DOMAIN NodeOrder}
LoopNodes == {n \in Nodes : Kind[n] = "loop"}

ASSUME GraphAssumption ==
  /\ Kind \in [Nodes -> {"event", "manual", "action", "delay", "condition", "branch", "loop", "terminate"}]
  /\ MaxIterations \in 1 .. 100
  /\ Watched \in [{n \in Nodes : Kind[n] = "condition"} -> LoopNodes \union {None}]
  /\ Fallback \in [{n \in Nodes : Kind[n] = "branch"} -> STRING]
  /\ None \notin Nodes \union STRING

EdgeSet(graph) == {graph[i] : i \in DOMAIN graph}
From(graph, n) == {e \in EdgeSet(graph) : e.source = n}

-----------------------------------------------------------------------------
(* The handlers.  Nothing but a loop writes a variable, so a condition is   *)
(* true when the loop it watches has run, and the string a branch node      *)
(* would follow is never there.                                             *)

\* Mutant of Bump: every node counts itself.
BumpAny(n, counters) ==
  [m \in LoopNodes \union {n} |-> IF m \in LoopNodes \ {n} THEN counters[m] ELSE 1]

Bump(n, counters) == IF Kind[n] = "loop" THEN [counters EXCEPT ![n] = @ + 1] ELSE counters

\* Mutant of Answer: the loop goes on until the count is past the limit.
AnswerLate(n, counters) ==
  IF Kind[n] = "loop" /\ counters[n] < MaxIterations THEN "continue"
  ELSE IF Kind[n] = "condition" /\ counters[Watched[n]] > 0 THEN "true" ELSE None

Answer(n, counters) ==
  CASE Kind[n] = "condition" ->
         IF Watched[n] # None /\ counters[Watched[n]] > 0 THEN "true" ELSE "false"
    [] Kind[n] = "branch" -> Fallback[n]
    [] Kind[n] = "loop" -> IF counters[n] + 1 < MaxIterations THEN "continue" ELSE "done"
    [] OTHER -> None

\* next: the edges of the branch; without one the unnamed edges, or the only edge.
Following(graph, n, branch) ==
  IF branch # None THEN {e \in From(graph, n) : e.branch = branch}
  ELSE {e \in From(graph, n) :
          e.branch = None \/ Cardinality({i \in DOMAIN graph : graph[i].source = n}) = 1}

\* trigger: the first node of the type, else the first trigger.* node, else none.
StartNode(type) ==
  LET earlier(i, kind) == {j \in 1 .. i - 1 : Kind[NodeOrder[j]] = kind}
      first(kind) == {NodeOrder[i] : i \in {j \in DOMAIN NodeOrder :
                                              Kind[NodeOrder[j]] = kind /\ earlier(j, kind) = {}}}
      start == IF first(type) # {} THEN first(type) ELSE first("manual")
  IN  IF start # {} THEN CHOOSE n \in start : TRUE ELSE None
=============================================================================
