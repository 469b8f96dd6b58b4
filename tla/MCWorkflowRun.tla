---------------------------- MODULE MCWorkflowRun ----------------------------
(* Model checking of WorkflowRun, from four drafts.  The first is taken: after the trigger a    *)
(* condition and the loop whose counter it watches, side by side, with a delay at the end.  The  *)
(* second is refused, its round has no loop node; so is the third, whose round has one but is    *)
(* entered elsewhere.  The fourth is taken: its round is entered at its loop, by an edge that no *)
(* run follows.                                                                                  *)
EXTENDS WorkflowRun, TLC

MCNodes == <<"t", "c", "l", "d">>
MCKind == [t |-> "event", c |-> "condition", l |-> "loop", d |-> "delay"]
MCWatched == [c |-> "l"]
MCFallback == [n \in {} |-> "default"]
MCRecoverable == {"l"}
MCSymmetry == Permutations(Workers)
MCRetry == [n \in Nodes |-> IF n = "c" THEN 1 ELSE 2]

MCEdge(source, branch, target) == [source |-> source, target |-> target, branch |-> branch]
MCGraphs == {
  << MCEdge("t", None, "c"), MCEdge("t", None, "l"), MCEdge("l", "continue", "l"), MCEdge("c", "true", "d") >>,
  << MCEdge("t", None, "l"), MCEdge("l", "done", "l"), MCEdge("c", "false", "d"), MCEdge("d", None, "c") >>,
  << MCEdge("t", None, "c"), MCEdge("c", "true", "l"), MCEdge("l", "continue", "d"), MCEdge("d", None, "c") >>,
  << MCEdge("t", "other", "l"), MCEdge("t", None, "d"), MCEdge("l", "continue", "c"), MCEdge("c", "true", "l") >> }
=============================================================================
