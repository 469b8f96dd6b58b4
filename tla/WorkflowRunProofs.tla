-------------------------- MODULE WorkflowRunProofs --------------------------
(***************************************************************************)
(* Proofs about WorkflowRun, for any graphs, workers, limits and policies  *)
(* of retry, and any bounds on commands and faults.                        *)
(*                                                                         *)
(* The parts of IInv are each kept by themselves, given the types.  Most   *)
(* ask only where each worker is, so a step is first reduced to what it    *)
(* does to the one worker that takes it.  The walk of the validator comes  *)
(* first; it has an invariant of its own.                                  *)
(***************************************************************************)
EXTENDS WorkflowRun, FiniteSetTheorems, TLAPS

-----------------------------------------------------------------------------
(* The walk of findCycles *)

Edge == [source : Nodes, target : Nodes, branch : STRING \union {None}]

LEMMA EdgeType ==
  ASSUME graph \in Graphs
  PROVE  /\ Len(graph) \in Nat /\ DOMAIN graph = 1 .. Len(graph)
         /\ \A j \in DOMAIN graph : graph[j].source \in Nodes /\ graph[j].target \in Nodes
  <1>1. graph \in Seq(Edge)
    BY ValidatorAssumption DEF Edge
  <1>2. \A e \in Edge : e.source \in Nodes /\ e.target \in Nodes
    BY DEF Edge
  <1>3. \A j \in DOMAIN graph : graph[j] \in Edge
    BY <1>1
  <1> QED
    BY <1>1, <1>2, <1>3

LEMMA OrderType == Len(NodeOrder) \in Nat /\ DOMAIN NodeOrder = 1 .. Len(NodeOrder)
  BY ValidatorAssumption

LEMMA OpenType ==
  ASSUME WalkTypeOK
  PROVE  /\ walk.open \in Seq(Call) /\ Depth \in Nat /\ DOMAIN walk.open = 1 .. Depth
         /\ \A i \in DOMAIN walk.open : walk.open[i].node \in Nodes /\ walk.open[i].next \in Nat
         /\ walk.open # <<>> => Depth > 0 /\ Depth \in DOMAIN walk.open
         /\ walk.left \subseteq Nodes /\ walk.cycles \subseteq Nodes /\ walk.starts \in Nat
  <1>1. walk.open \in Seq(Call)
    BY DEF WalkTypeOK, Walk
  <1>2. \A c \in Call : c.node \in Nodes /\ c.next \in Nat
    BY DEF Call
  <1>3. \A i \in DOMAIN walk.open : walk.open[i] \in Call
    BY <1>1
  <1>4. Depth \in Nat /\ DOMAIN walk.open = 1 .. Depth
    BY <1>1 DEF Depth
  <1>5. walk.open # <<>> => Depth > 0
    BY <1>1 DEF Depth
  <1>6. walk.left \subseteq Nodes /\ walk.cycles \subseteq Nodes /\ walk.starts \in Nat
    BY DEF WalkTypeOK, Walk
  <1> QED
    BY <1>1, <1>2, <1>3, <1>4, <1>5, <1>6

\* The record a call leaves.
LEMMA WalkedIs ==
  ASSUME WalkTypeOK, NEW starts, NEW calls, NEW n, walk' = Walked(starts, calls, n)
  PROVE  /\ walk' = [starts |-> walk'.starts, open |-> walk'.open, left |-> walk'.left, cycles |-> walk'.cycles]
         /\ walk'.starts = starts /\ walk'.left = walk.left
         /\ n \in Visiting \union walk.left => walk'.open = calls
         /\ n \notin Visiting \union walk.left => walk'.open = Append(calls, [node |-> n, next |-> 1])
         /\ n \notin Visiting => walk'.cycles = walk.cycles
         /\ n \in Visiting => walk'.cycles = walk.cycles \union ({n} \ LoopNodes)
  <1>1. walk \in Walk
    BY DEF WalkTypeOK
  <1>2. CASE n \in Visiting
    BY <1>1, <1>2 DEF Walked, Walk
  <1>3. CASE n \notin Visiting /\ n \in walk.left
    BY <1>1, <1>3 DEF Walked, Walk
  <1>4. CASE n \notin Visiting /\ n \notin walk.left
    BY <1>1, <1>4 DEF Walked, Walk
  <1> QED
    BY <1>2, <1>3, <1>4

\* What a return leaves.
LEMMA ReturnIs ==
  ASSUME WalkTypeOK, Return
  PROVE  /\ walk' = [starts |-> walk.starts, open |-> walk'.open, left |-> walk'.left, cycles |-> walk.cycles]
         /\ walk'.starts = walk.starts /\ walk'.cycles = walk.cycles
         /\ walk'.open = SubSeq(walk.open, 1, Depth - 1)
         /\ walk'.left = walk.left \union {Top.node}
  <1>1. walk \in Walk
    BY DEF WalkTypeOK
  <1> QED
    BY <1>1 DEF Return, Walk

(* A call that is made: the open calls are the same but for how far they are. *)
Advanced(calls) ==
  /\ calls \in Seq(Call) /\ Len(calls) = Depth
  /\ \A i \in DOMAIN walk.open : calls[i].node = walk.open[i].node

\* How far they are, and the edge the call is made over.
Over(calls, n) ==
  /\ Depth > 0 => \E e \in From(graph, Top.node) : e.target = n
  /\ walk.cycles = {} => \A i \in DOMAIN walk.open : \A j \in DOMAIN graph :
       j < calls[i].next /\ graph[j].source = calls[i].node =>
         \/ graph[j].target \in Settled
         \/ i < Depth /\ graph[j].target = walk.open[i + 1].node
         \/ i = Depth /\ graph[j].target = n

LEMMA CallsType ==
  ASSUME WalkTypeOK, NEW calls, Advanced(calls), NEW n \in Nodes
  PROVE  /\ calls \in Seq(Call) /\ DOMAIN calls = 1 .. Depth
         /\ LET more == Append(calls, [node |-> n, next |-> 1])
            IN  /\ more \in Seq(Call) /\ Len(more) = Depth + 1 /\ DOMAIN more = 1 .. Depth + 1
                /\ \A i \in 1 .. Depth : more[i] = calls[i]
                /\ more[Depth + 1].node = n /\ more[Depth + 1].next = 1
  <1>1. calls \in Seq(Call) /\ DOMAIN calls = 1 .. Depth /\ Len(calls) = Depth
    BY DEF Advanced
  <1> DEFINE call == [node |-> n, next |-> 1]
  <1>2. call \in Call /\ call.node = n /\ call.next = 1
    BY DEF Call
  <1> HIDE DEF call
  <1> DEFINE more == Append(calls, call)
  <1>3. /\ more \in Seq(Call) /\ Len(more) = Depth + 1 /\ DOMAIN more = 1 .. Depth + 1
        /\ \A i \in 1 .. Depth : more[i] = calls[i]
        /\ more[Depth + 1] = call
    BY <1>1, <1>2, OpenType
  <1> QED
    BY <1>1, <1>2, <1>3 DEF call

LEMMA CallMade ==
  ASSUME WalkInv, CyclesReal, graph' = graph,
         NEW starts \in Nat, starts <= Len(NodeOrder),
         NEW calls, Advanced(calls), NEW n \in Nodes, Over(calls, n),
         walk' = Walked(starts, calls, n),
         \A i \in 1 .. starts : NodeOrder[i] \in walk.left \union Visiting \union {n}
  PROVE  WalkInv' /\ CyclesReal'
  <1> DEFINE more == Append(calls, [node |-> n, next |-> 1])
             deeper == n \notin Visiting \union walk.left
  <1>0. WalkTypeOK /\ Stacked /\ StartsSeen /\ (walk.cycles = {} => EdgesSettle /\ LeftEnds)
    BY DEF WalkInv
  <1>1. /\ walk' = [starts |-> walk'.starts, open |-> walk'.open, left |-> walk'.left, cycles |-> walk'.cycles]
        /\ walk'.starts = starts /\ walk'.left = walk.left
        /\ ~deeper => walk'.open = calls
        /\ deeper => walk'.open = more
        /\ n \notin Visiting => walk'.cycles = walk.cycles
        /\ n \in Visiting => walk'.cycles = walk.cycles \union ({n} \ LoopNodes)
    BY <1>0, WalkedIs
  <1>2. /\ calls \in Seq(Call) /\ DOMAIN calls = 1 .. Depth /\ Len(calls) = Depth
        /\ more \in Seq(Call) /\ Len(more) = Depth + 1 /\ DOMAIN more = 1 .. Depth + 1
        /\ \A i \in 1 .. Depth : more[i] = calls[i]
        /\ more[Depth + 1].node = n /\ more[Depth + 1].next = 1
    BY <1>0, CallsType DEF Advanced
  <1>3. Depth \in Nat /\ DOMAIN walk.open = 1 .. Depth
    BY <1>0, OpenType
  <1>4. \A i \in 1 .. Depth : calls[i].node = walk.open[i].node
    BY <1>3 DEF Advanced
  <1> HIDE DEF more
  <1> DEFINE height == IF deeper THEN Depth + 1 ELSE Depth
  <1>5. /\ Depth' = height /\ DOMAIN walk'.open = 1 .. height
        /\ \A i \in 1 .. Depth : walk'.open[i] = calls[i] /\ walk'.open[i].node = walk.open[i].node
        /\ deeper => walk'.open[Depth + 1].node = n /\ walk'.open[Depth + 1].next = 1
    BY <1>1, <1>2, <1>3, <1>4 DEF Depth
  <1>6. Visiting' = IF deeper THEN Visiting \union {n} ELSE Visiting
    <2>1. Visiting' = {walk'.open[i].node : i \in 1 .. height}
      BY <1>5 DEF Visiting
    <2>2. Visiting = {walk'.open[i].node : i \in 1 .. Depth}
      <3>1. Visiting = {walk.open[i].node : i \in 1 .. Depth}
        BY <1>3, Zenon DEF Visiting
      <3> QED
        BY <1>5, <3>1
    <2>3. deeper => 1 .. height = (1 .. Depth) \union {Depth + 1}
      BY <1>3
    <2> HIDE DEF deeper
    <2>4. CASE deeper
      BY <1>5, <2>1, <2>2, <2>3, <2>4
    <2>5. CASE ~deeper
      BY <2>1, <2>2, <2>5
    <2> QED
      BY <2>4, <2>5
  <1>7. WalkTypeOK'
    <2>1. walk'.open \in Seq(Call)
      BY <1>1, <1>2
    <2>2. walk'.cycles \in SUBSET Nodes /\ walk'.left \in SUBSET Nodes
      BY <1>0, <1>1, OpenType
    <2>3. walk' \in Walk
      BY <1>1, <2>1, <2>2 DEF Walk
    <2> QED
      BY <1>0, <1>1, <2>3 DEF WalkTypeOK
  <1>8. Stacked'
    <2>1. \A i, j \in DOMAIN walk'.open : walk'.open[i].node = walk'.open[j].node => i = j
      <3>1. \A i, j \in 1 .. Depth : walk'.open[i].node = walk'.open[j].node => i = j
        BY <1>0, <1>3, <1>5 DEF Stacked
      <3>2. deeper => \A i \in 1 .. Depth : walk'.open[i].node # n
        <4>1. \A i \in 1 .. Depth : walk.open[i].node \in Visiting
          BY <1>3, Zenon DEF Visiting
        <4> QED
          BY <1>5, <4>1
      <3> QED
        BY <1>3, <1>5, <3>1, <3>2
    <2>2. Visiting' \intersect walk'.left = {}
      BY <1>0, <1>1, <1>6 DEF Stacked
    <2>3. \A i \in DOMAIN walk'.open : i < Depth' =>
            \E e \in From(graph, walk'.open[i].node) : e.target = walk'.open[i + 1].node
      <3> SUFFICES ASSUME NEW i \in DOMAIN walk'.open, i < Depth'
                   PROVE  \E e \in From(graph, walk'.open[i].node) : e.target = walk'.open[i + 1].node
        OBVIOUS
      <3>1. i \in 1 .. Depth /\ (i < Depth \/ (i = Depth /\ deeper))
        BY <1>3, <1>5
      <3>2. CASE i < Depth
        <4>1. i + 1 \in 1 .. Depth
          BY <1>3, <3>1, <3>2
        <4>2. \E e \in From(graph, walk.open[i].node) : e.target = walk.open[i + 1].node
          BY <1>0, <1>3, <3>1, <3>2 DEF Stacked
        <4> QED
          BY <1>5, <3>1, <4>1, <4>2
      <3>3. CASE i = Depth /\ deeper
        <4>1. Depth > 0 /\ walk'.open[i].node = Top.node
          BY <1>3, <1>5, <3>1, <3>3 DEF Top
        <4>2. walk'.open[i + 1].node = n
          BY <1>5, <3>3
        <4> QED
          BY <4>1, <4>2 DEF Over
      <3> QED
        BY <3>1, <3>2, <3>3
    <2> QED
      BY <2>1, <2>2, <2>3 DEF Stacked, From, EdgeSet
  <1>9. StartsSeen'
    BY <1>1, <1>6 DEF StartsSeen
  <1>10. ASSUME walk'.cycles = {}
         PROVE  EdgesSettle' /\ LeftEnds'
    <2>1. walk.cycles = {} /\ (n \in Visiting => n \in LoopNodes)
      BY <1>1, <1>10
    <2>2. EdgesSettle /\ LeftEnds
      BY <1>0, <2>1
    <2>3. Settled' = Settled
      BY <1>1 DEF Settled
    <2>4. ~deeper => n \in Settled
      BY <2>1 DEF Settled
    <2>5. LeftEnds'
      BY <1>1, <2>2 DEF LeftEnds, Round
    <2>6. \A m \in walk'.left : \A e \in From(graph, m) : e.target \in Settled'
      BY <1>1, <2>2, <2>3 DEF EdgesSettle
    <2>7. \A i \in DOMAIN walk'.open : \A j \in DOMAIN graph :
            j < walk'.open[i].next /\ graph[j].source = walk'.open[i].node =>
              \/ graph[j].target \in Settled'
              \/ i < Depth' /\ graph[j].target = walk'.open[i + 1].node
      <3> SUFFICES ASSUME NEW i \in DOMAIN walk'.open, NEW j \in DOMAIN graph,
                          j < walk'.open[i].next, graph[j].source = walk'.open[i].node
                   PROVE  \/ graph[j].target \in Settled'
                          \/ i < Depth' /\ graph[j].target = walk'.open[i + 1].node
        OBVIOUS
      <3>1. j \in Nat /\ j >= 1
        BY <1>0, EdgeType DEF WalkTypeOK
      <3>2. i \in 1 .. Depth
        BY <1>3, <1>5, <3>1
      <3>3. j < calls[i].next /\ graph[j].source = calls[i].node
        BY <1>5, <3>2
      <3>4. \/ graph[j].target \in Settled
            \/ i < Depth /\ graph[j].target = walk.open[i + 1].node
            \/ i = Depth /\ graph[j].target = n
        BY <1>3, <2>1, <3>2, <3>3 DEF Over
      <3>5. CASE i < Depth /\ graph[j].target = walk.open[i + 1].node
        <4>1. i + 1 \in 1 .. Depth /\ i < Depth'
          BY <1>3, <1>5, <3>2, <3>5
        <4> QED
          BY <1>5, <3>5, <4>1
      <3>6. CASE i = Depth /\ graph[j].target = n
        <4>1. deeper => i < Depth' /\ walk'.open[i + 1].node = n
          BY <1>3, <1>5, <3>6
        <4> QED
          BY <2>3, <2>4, <3>6, <4>1
      <3> QED
        BY <2>3, <3>4, <3>5, <3>6
    <2> QED
      BY <2>5, <2>6, <2>7 DEF EdgesSettle, From, EdgeSet
  <1>11. CyclesReal'
    <2>1. ASSUME n \in Visiting
          PROVE  \E S \in SUBSET Nodes : n \in S /\ Round(S)
      <3>1. PICK k \in 1 .. Depth : walk.open[k].node = n
        BY <1>3, <2>1 DEF Visiting
      <3> DEFINE S == {walk.open[i].node : i \in k .. Depth}
      <3>2. S \subseteq Nodes /\ n \in S
        BY <1>0, <3>1, OpenType
      <3>3. ASSUME NEW i \in k .. Depth
            PROVE  \E e \in From(graph, walk.open[i].node) : e.target \in S
        <4>1. CASE i < Depth
          <5>1. \E e \in From(graph, walk.open[i].node) : e.target = walk.open[i + 1].node
            <6>1. i \in 1 .. Depth
              BY <1>3, <3>1
            <6> QED
              BY <1>0, <1>3, <4>1, <6>1 DEF Stacked
          <5>2. i + 1 \in k .. Depth
            BY <1>3, <3>1, <4>1
          <5> QED
            BY <5>1, <5>2
        <4>2. CASE i = Depth
          <5>1. Depth > 0 /\ walk.open[i] = Top
            BY <1>3, <3>1, <4>2 DEF Top
          <5>2. \E e \in From(graph, Top.node) : e.target = n
            BY <5>1 DEF Over
          <5> QED
            BY <3>2, <5>1, <5>2
        <4> QED
          BY <1>3, <3>1, <4>1, <4>2
      <3>4. Round(S)
        BY <3>2, <3>3 DEF Round
      <3> QED
        BY <3>2, <3>4
    <2>2. ASSUME NEW m \in walk'.cycles
          PROVE  \E S \in SUBSET Nodes : m \in S /\ Round(S)
      BY <1>1, <2>1 DEF CyclesReal
    <2> QED
      BY <2>2 DEF CyclesReal, Round
  <1> QED
    BY <1>7, <1>8, <1>9, <1>10, <1>11 DEF WalkInv

LEMMA WalkInitInv == WalkInit => WalkInv /\ CyclesReal
  <1> SUFFICES ASSUME WalkInit
               PROVE  WalkInv /\ CyclesReal
    OBVIOUS
  <1>1. /\ walk.starts = 0 /\ walk.open = <<>> /\ walk.left = {} /\ walk.cycles = {}
        /\ graph \in Graphs /\ walk = [starts |-> 0, open |-> <<>>, left |-> {}, cycles |-> {}]
    BY DEF WalkInit
  <1>2. <<>> \in Seq(Call) /\ DOMAIN walk.open = {}
    BY <1>1
  <1>3. WalkTypeOK
    BY <1>1, <1>2, OrderType DEF WalkTypeOK, Walk
  <1>4. Visiting = {}
    BY <1>2 DEF Visiting
  <1>5. Stacked /\ StartsSeen
    BY <1>1, <1>2, <1>4 DEF Stacked, StartsSeen
  <1>6. EdgesSettle /\ LeftEnds
    BY <1>1, <1>2 DEF EdgesSettle, LeftEnds, Round
  <1> QED
    BY <1>1, <1>3, <1>5, <1>6 DEF WalkInv, CyclesReal

LEMMA StartFromInv ==
  ASSUME WalkInv, CyclesReal, StartFrom
  PROVE  WalkInv' /\ CyclesReal'
  <1> DEFINE starts == walk.starts + 1
             n == NodeOrder[starts]
  <1>1. WalkTypeOK /\ StartsSeen
    BY DEF WalkInv
  <1>2. /\ walk.starts \in Nat /\ starts \in Nat /\ starts <= Len(NodeOrder)
        /\ walk' = Walked(starts, walk.open, n) /\ graph' = graph /\ walk.open = <<>>
    BY <1>1, OpenType, OrderType DEF StartFrom
  <1>3. n \in Nodes
    BY <1>2, OrderType DEF Nodes
  <1>4. Depth = 0 /\ DOMAIN walk.open = {}
    BY <1>2 DEF Depth
  <1>5. Advanced(walk.open)
    BY <1>1, OpenType DEF Advanced, Depth
  <1>6. Over(walk.open, n)
    BY <1>4 DEF Over
  <1>7. \A i \in 1 .. starts : NodeOrder[i] \in walk.left \union Visiting \union {n}
    <2>1. \A i \in 1 .. starts : i \in 1 .. walk.starts \/ i = starts
      BY <1>2
    <2> QED
      BY <1>1, <2>1 DEF StartsSeen
  <1> HIDE DEF n, starts
  <1> QED
    BY <1>2, <1>3, <1>5, <1>6, <1>7, CallMade

LEMMA FollowInv ==
  ASSUME WalkInv, CyclesReal, Follow
  PROVE  WalkInv' /\ CyclesReal'
  <1>1. WalkTypeOK /\ StartsSeen /\ (walk.cycles = {} => EdgesSettle)
    BY DEF WalkInv
  <1>2. PICK j \in Ahead :
          /\ \A i \in Ahead : j <= i
          /\ walk' = Walked(walk.starts, [walk.open EXCEPT ![Depth].next = j + 1], graph[j].target)
    BY DEF Follow
  <1>3. graph' = graph /\ walk.open # <<>>
    BY DEF Follow
  <1>4. /\ j \in DOMAIN graph /\ j \in Nat /\ graph[j].source = Top.node
        /\ DOMAIN graph \subseteq Nat
    BY <1>1, EdgeType DEF Ahead, WalkTypeOK
  <1>5. /\ walk.open \in Seq(Call) /\ Depth \in 1 .. Depth /\ Depth \in Nat /\ DOMAIN walk.open = 1 .. Depth
        /\ walk.starts \in Nat /\ walk.starts <= Len(NodeOrder)
        /\ Top = walk.open[Depth] /\ Top \in Call /\ Top.next \in Nat
    <2>1. /\ walk.open \in Seq(Call) /\ Depth > 0 /\ Depth \in Nat /\ DOMAIN walk.open = 1 .. Depth
          /\ walk.starts \in Nat
      BY <1>1, <1>3, OpenType
    <2>2. Top = walk.open[Depth] /\ Top \in Call
      BY <2>1 DEF Top
    <2> QED
      BY <1>1, <2>1, <2>2 DEF Call, WalkTypeOK
  <1> DEFINE call == [Top EXCEPT !.next = j + 1]
             calls == [walk.open EXCEPT ![Depth] = call]
             n == graph[j].target
  <1>6. walk' = Walked(walk.starts, calls, n)
    BY <1>2, <1>5
  <1>7. call \in Call /\ call.node = Top.node /\ call.next = j + 1
    BY <1>4, <1>5 DEF Call
  <1> HIDE DEF call
  <1>8. /\ calls \in Seq(Call) /\ Len(calls) = Depth
        /\ calls[Depth] = call
        /\ \A i \in 1 .. Depth : i # Depth => calls[i] = walk.open[i]
    BY <1>5, <1>7 DEF Depth
  <1>9. Advanced(calls)
    BY <1>5, <1>7, <1>8 DEF Advanced
  <1>10. n \in Nodes
    BY <1>1, <1>4, EdgeType DEF WalkTypeOK
  <1> HIDE DEF calls
  <1>11. Over(calls, n)
    <2>1. \E e \in From(graph, Top.node) : e.target = n
      BY <1>4 DEF From, EdgeSet
    <2>2. ASSUME walk.cycles = {}, NEW i \in DOMAIN walk.open, NEW k \in DOMAIN graph,
                 k < calls[i].next, graph[k].source = calls[i].node
          PROVE  \/ graph[k].target \in Settled
                 \/ i < Depth /\ graph[k].target = walk.open[i + 1].node
                 \/ i = Depth /\ graph[k].target = n
      <3>1. k \in Nat /\ i \in 1 .. Depth
        BY <1>4, <1>5
      <3>2. \A m \in DOMAIN graph :
              m < walk.open[i].next /\ graph[m].source = walk.open[i].node =>
                graph[m].target \in Settled \/ (i < Depth /\ graph[m].target = walk.open[i + 1].node)
        BY <1>1, <2>2 DEF EdgesSettle
      <3>3. CASE i # Depth
        BY <1>8, <2>2, <3>1, <3>2, <3>3
      <3>4. CASE i = Depth
        <4>1. k < j + 1 /\ graph[k].source = Top.node
          BY <1>7, <1>8, <2>2, <3>4
        <4>2. k < Top.next => graph[k].target \in Settled
          BY <1>5, <3>2, <3>4, <4>1
        <4>3. k >= Top.next => k \in Ahead
          BY <4>1 DEF Ahead
        <4>4. k < Top.next \/ k = j
          BY <1>2, <1>4, <1>5, <3>1, <4>1, <4>3
        <4> QED
          BY <3>4, <4>2, <4>4
      <3> QED
        BY <3>3, <3>4
    <2> HIDE DEF n
    <2> QED
      BY <2>1, <2>2 DEF Over
  <1>12. \A i \in 1 .. walk.starts : NodeOrder[i] \in walk.left \union Visiting \union {n}
    BY <1>1 DEF StartsSeen
  <1> HIDE DEF n
  <1> QED
    BY <1>3, <1>5, <1>6, <1>9, <1>10, <1>11, <1>12, CallMade

LEMMA ReturnInv ==
  ASSUME WalkInv, CyclesReal, Return
  PROVE  WalkInv' /\ CyclesReal'
  <1> DEFINE n == Top.node
             height == Depth - 1
  <1>1. /\ WalkTypeOK /\ Stacked /\ StartsSeen /\ (walk.cycles = {} => EdgesSettle /\ LeftEnds)
        /\ walk.open # <<>> /\ Ahead = {} /\ graph' = graph
    BY DEF WalkInv, Return
  <1>2. /\ walk.open \in Seq(Call) /\ Depth \in 1 .. Depth /\ Depth \in Nat /\ DOMAIN walk.open = 1 .. Depth
        /\ walk.starts \in Nat /\ Top = walk.open[Depth] /\ n \in Nodes /\ height \in Nat
        /\ walk.left \subseteq Nodes /\ walk.cycles \subseteq Nodes
    <2>1. Depth > 0 /\ Depth \in Nat /\ DOMAIN walk.open = 1 .. Depth
      BY <1>1, OpenType
    <2> QED
      BY <1>1, <2>1, OpenType DEF Top
  <1>3. /\ walk' = [starts |-> walk.starts, open |-> walk'.open, left |-> walk'.left, cycles |-> walk.cycles]
        /\ walk'.starts = walk.starts /\ walk'.cycles = walk.cycles
        /\ walk'.open = SubSeq(walk.open, 1, height)
        /\ walk'.left = walk.left \union {n}
    BY <1>1, ReturnIs
  <1>4. /\ walk'.open \in Seq(Call) /\ Depth' = height /\ DOMAIN walk'.open = 1 .. height
        /\ \A i \in 1 .. height : walk'.open[i] = walk.open[i]
    BY <1>2, <1>3 DEF Depth
  <1>5. Visiting = Visiting' \union {n}
    <2>1. Visiting = {walk.open[i].node : i \in 1 .. Depth}
      BY <1>2, Zenon DEF Visiting
    <2>2. Visiting' = {walk'.open[i].node : i \in 1 .. height}
      BY <1>4, Zenon DEF Visiting
    <2>3. 1 .. Depth = (1 .. height) \union {Depth}
      BY <1>2
    <2>4. n = walk.open[Depth].node
      BY <1>2
    <2>5. Visiting' = {walk.open[i].node : i \in 1 .. height}
      BY <1>4, <2>2
    <2> HIDE DEF n, height
    <2> QED
      BY <2>1, <2>3, <2>4, <2>5
  <1>6. WalkTypeOK'
    <2>1. walk'.left \in SUBSET Nodes
      BY <1>2, <1>3
    <2>2. walk' \in Walk
      BY <1>2, <1>3, <1>4, <2>1 DEF Walk
    <2> QED
      BY <1>1, <1>3, <2>2 DEF WalkTypeOK
  <1>7. Stacked'
    <2>1. \A i, j \in 1 .. Depth : walk.open[i].node = walk.open[j].node => i = j
      BY <1>1, <1>2 DEF Stacked
    <2>2. \A i \in 1 .. height : i \in 1 .. Depth /\ i # Depth
      BY <1>2
    <2>3. \A i, j \in DOMAIN walk'.open : walk'.open[i].node = walk'.open[j].node => i = j
      BY <1>4, <2>1, <2>2
    <2>4. n \notin Visiting'
      <3>1. \A i \in 1 .. height : walk'.open[i].node # n
        BY <1>2, <1>4, <2>1, <2>2
      <3> QED
        BY <1>4, <3>1 DEF Visiting
    <2>5. Visiting' \intersect walk'.left = {}
      BY <1>1, <1>3, <1>5, <2>4 DEF Stacked
    <2>6. \A i \in DOMAIN walk'.open : i < Depth' =>
            \E e \in From(graph, walk'.open[i].node) : e.target = walk'.open[i + 1].node
      <3> SUFFICES ASSUME NEW i \in 1 .. height, i < height
                   PROVE  \E e \in From(graph, walk'.open[i].node) : e.target = walk'.open[i + 1].node
        BY <1>4
      <3>1. i + 1 \in 1 .. height /\ i \in DOMAIN walk.open /\ i < Depth
        BY <1>2
      <3>2. \E e \in From(graph, walk.open[i].node) : e.target = walk.open[i + 1].node
        BY <1>1, <3>1 DEF Stacked
      <3> QED
        BY <1>4, <3>1, <3>2
    <2> QED
      BY <1>1, <2>3, <2>5, <2>6 DEF Stacked
  <1>8. StartsSeen'
    BY <1>1, <1>3, <1>5 DEF StartsSeen
  <1>9. ASSUME walk.cycles = {}
        PROVE  EdgesSettle' /\ LeftEnds'
    <2>1. EdgesSettle /\ LeftEnds
      BY <1>1, <1>9
    <2>2. Settled' = Settled \union {n}
      BY <1>3 DEF Settled
    <2>3. \A e \in From(graph, n) : e.target \in Settled
      <3> SUFFICES ASSUME NEW j \in DOMAIN graph, graph[j].source = n
                   PROVE  graph[j].target \in Settled
        BY DEF From, EdgeSet
      <3>1. j < Top.next
        <4>1. j \in Nat
          BY <1>1, EdgeType DEF WalkTypeOK
        <4>2. Top.next \in Nat
          BY <1>1, <1>2, OpenType
        <4> QED
          BY <1>1, <4>1, <4>2 DEF Ahead
      <3> QED
        BY <1>2, <2>1, <3>1 DEF EdgesSettle
    <2>4. \A m \in walk'.left : \A e \in From(graph, m) : e.target \in Settled
      BY <1>3, <2>1, <2>3 DEF EdgesSettle
    <2>5. \A i \in DOMAIN walk'.open : \A j \in DOMAIN graph :
            j < walk'.open[i].next /\ graph[j].source = walk'.open[i].node =>
              \/ graph[j].target \in Settled'
              \/ i < Depth' /\ graph[j].target = walk'.open[i + 1].node
      <3> SUFFICES ASSUME NEW i \in 1 .. height, NEW j \in DOMAIN graph,
                          j < walk'.open[i].next, graph[j].source = walk'.open[i].node
                   PROVE  \/ graph[j].target \in Settled'
                          \/ i < height /\ graph[j].target = walk'.open[i + 1].node
        BY <1>4
      <3>1. i \in DOMAIN walk.open /\ walk'.open[i] = walk.open[i]
        BY <1>2, <1>4
      <3>2. \/ graph[j].target \in Settled
            \/ i < Depth /\ graph[j].target = walk.open[i + 1].node
        BY <2>1, <3>1 DEF EdgesSettle
      <3>3. CASE graph[j].target = walk.open[i + 1].node
        <4>1. i = height \/ (i < height /\ i + 1 \in 1 .. height)
          BY <1>2
        <4>2. i = height => i + 1 = Depth
          BY <1>2
        <4> QED
          BY <1>2, <1>4, <2>2, <3>3, <4>1, <4>2
      <3> QED
        BY <2>2, <3>2, <3>3
    <2>6. EdgesSettle'
      BY <1>1, <2>2, <2>4, <2>5 DEF EdgesSettle
    <2>7. ASSUME NEW S \in SUBSET (walk'.left \ LoopNodes)
          PROVE  ~Round(S)
      <3>1. n \notin walk.left
        <4>1. n \in Visiting
          BY <1>5
        <4> QED
          BY <1>1, <4>1 DEF Stacked
      <3>2. CASE n \notin S
        <4>1. S \in SUBSET (walk.left \ LoopNodes)
          BY <1>3, <3>2
        <4> QED
          BY <2>1, <4>1 DEF LeftEnds
      <3>3. CASE n \in S
        <4>1. n \notin Settled
          BY <3>1, <3>3 DEF Settled
        <4>2. \A m \in S : \A e \in From(graph, m) : e.target # n
          BY <2>4, <4>1
        <4> DEFINE T == S \ {n}
        <4>3. T \in SUBSET (walk.left \ LoopNodes)
          BY <1>3
        <4>4. ~Round(T)
          BY <2>1, <4>3 DEF LeftEnds
        <4>5. Round(S) => Round(T)
          BY <3>3, <4>2 DEF Round
        <4> QED
          BY <4>4, <4>5
      <3> QED
        BY <3>2, <3>3
    <2>8. LeftEnds'
      BY <1>1, <2>7 DEF LeftEnds, Round
    <2> QED
      BY <2>6, <2>8
  <1>10. CyclesReal'
    BY <1>1, <1>3 DEF CyclesReal, Round
  <1> QED
    BY <1>3, <1>6, <1>7, <1>8, <1>9, <1>10 DEF WalkInv

LEMMA ValidateInv == WalkInv /\ CyclesReal /\ Validate => WalkInv' /\ CyclesReal'
  BY StartFromInv, FollowInv, ReturnInv DEF Validate

LEMMA WalkStutter == WalkInv /\ CyclesReal /\ UNCHANGED <<graph, walk>> => WalkInv' /\ CyclesReal'
  <1> SUFFICES ASSUME WalkInv, CyclesReal, UNCHANGED <<graph, walk>>
               PROVE  WalkInv' /\ CyclesReal'
    OBVIOUS
  <1>1. Visiting' = Visiting /\ Depth' = Depth /\ Settled' = Settled
    BY DEF Visiting, Depth, Settled
  <1>2. WalkTypeOK' /\ Stacked' /\ StartsSeen'
    BY <1>1 DEF WalkInv, WalkTypeOK, Stacked, StartsSeen
  <1>3. (walk.cycles = {} => EdgesSettle' /\ LeftEnds') /\ CyclesReal'
    BY <1>1 DEF WalkInv, EdgesSettle, LeftEnds, Round, CyclesReal
  <1> QED
    BY <1>2, <1>3 DEF WalkInv

LEMMA AcceptedEnds == WalkInv /\ Accepted => ~Endless
  <1> SUFFICES ASSUME WalkInv, Accepted
               PROVE  ~Endless
    OBVIOUS
  <1>1. walk.starts = Len(NodeOrder) /\ walk.open = <<>> /\ walk.cycles = {}
    BY DEF Accepted
  <1>2. Visiting = {}
    BY <1>1 DEF Visiting
  <1>3. Nodes \subseteq walk.left
    BY <1>1, <1>2, OrderType DEF WalkInv, StartsSeen, Nodes
  <1>4. LeftEnds
    BY <1>1 DEF WalkInv
  <1> QED
    BY <1>3, <1>4 DEF LeftEnds, Endless

\* After the verdict nothing is walked any more.
LEMMA AcceptedStays == Accepted => ~Validate
  BY DEF Accepted, Validate, StartFrom, Follow, Return

-----------------------------------------------------------------------------
(* The run *)

USE GraphAssumption, WorkflowAssumption

Types == TypeOK /\ Equipped

-----------------------------------------------------------------------------
(* Bags of jobs, and the operators of the graph *)

Holds(bag) == IsABag(bag) /\ BagToSet(bag) \subseteq Jobs

LEMMA Added ==
  ASSUME Holds(waiting), NEW job \in Jobs
  PROVE  Holds(Queued(job)) /\ Queued(job) # EmptyBag
  <1>1. DOMAIN Queued(job) = DOMAIN waiting \union {job}
    BY DEF Queued, SetToBag, (+)
  <1>2. IsABag(Queued(job))
    BY DEF Holds, Queued, IsABag, SetToBag, (+)
  <1> QED
    BY <1>1, <1>2 DEF Holds, BagToSet, SetToBag, EmptyBag

LEMMA Removed ==
  ASSUME Holds(waiting), NEW job \in BagToSet(waiting)
  PROVE  Holds(waiting (-) SetToBag({job}))
  BY DEF Holds, IsABag, BagToSet, SetToBag, (-)

LEMMA NewJobType ==
  ASSUME NEW n \in Nodes, NEW attempts \in Nat
  PROVE  NewJob(n, attempts) \in Jobs
  BY DEF NewJob, Jobs

LEMMA StartNodeType ==
  ASSUME NEW type, StartNode(type) # None
  PROVE  StartNode(type) \in Nodes
  <1> DEFINE earlier(i, kind) == {j \in 1 .. i - 1 : Kind[NodeOrder[j]] = kind}
             first(kind) == {NodeOrder[i] : i \in {j \in DOMAIN NodeOrder :
                                                     Kind[NodeOrder[j]] = kind /\ earlier(j, kind) = {}}}
             start == IF first(type) # {} THEN first(type) ELSE first("manual")
  <1>1. start \subseteq Nodes
    BY DEF Nodes
  <1>2. StartNode(type) = IF start # {} THEN CHOOSE n \in start : TRUE ELSE None
    BY DEF StartNode
  <1> QED
    BY <1>1, <1>2

LEMMA FollowingType ==
  ASSUME graph \in Graphs, NEW n, NEW branch
  PROVE  {e.target : e \in Following(graph, n, branch)} \subseteq Nodes
  <1>1. Following(graph, n, branch) \subseteq EdgeSet(graph)
    BY DEF Following, From
  <1>2. \A e \in EdgeSet(graph) : e.target \in Nodes
    BY EdgeType DEF EdgeSet
  <1> QED
    BY <1>1, <1>2

LEMMA BumpType ==
  ASSUME NEW n \in Nodes, NEW mine \in [LoopNodes -> Nat]
  PROVE  Bump(n, mine) \in [LoopNodes -> Nat]
  BY DEF Bump, LoopNodes

-----------------------------------------------------------------------------
(* The types *)

Able == {h \in Hand : h.at # "idle" => h.job \in Jobs}

LEMMA HandType ==
  ASSUME Types, NEW w \in Workers
  PROVE  /\ worker[w] \in Able
         /\ worker[w].at # "idle" => Job(w) \in Jobs /\ Node(w) \in Nodes
         /\ IdleWorker \in Able
  <1>1. worker[w] \in Able
    BY DEF Types, TypeOK, Equipped, Able
  <1>2. Zero \in [LoopNodes -> Nat]
    BY DEF Zero
  <1>3. IdleWorker \in Hand /\ IdleWorker.at = "idle"
    BY <1>2 DEF IdleWorker, Hand, Positions, Working
  <1> QED
    BY <1>1, <1>3 DEF Job, Node, Jobs, Types, Equipped, Able

\* A worker goes on with the job it has.
LEMMA GoesType ==
  ASSUME Types, NEW w \in Workers, worker[w].at # "idle", NEW at \in Positions
  PROVE  [worker[w] EXCEPT !.at = at] \in Able
  BY HandType DEF Able, Hand

\* What a step makes of the workers.
LEMMA HandsChange ==
  ASSUME Types, RunStep
  PROVE  \/ worker' = worker
         \/ \E w \in Workers, h \in Able : worker' = [worker EXCEPT ![w] = h]
  <1> USE HandType DEF Positions, Working
  <1>1. ASSUME NEW w \in Workers, NEW job \in BagToSet(waiting), TakeJob(w, job)
        PROVE  \E h \in Able : worker' = [worker EXCEPT ![w] = h]
    <2> DEFINE h == [IdleWorker EXCEPT !.at = "acquire", !.job = job]
    <2>1. job \in Jobs
      BY DEF Types, TypeOK
    <2>2. h \in Able
      BY <2>1 DEF Able, Hand
    <2> QED
      BY <1>1, <2>2 DEF TakeJob
  <1>2. ASSUME NEW w \in Workers, Acquire(w)
        PROVE  \E h \in Able : worker' = [worker EXCEPT ![w] = h]
    <2>1. PICK at \in {"refused", "read"} : Goes(w, at)
      BY <1>2 DEF Acquire
    <2>2. [worker[w] EXCEPT !.at = at] \in Able
      BY <1>2, <2>1, GoesType DEF Acquire
    <2> QED
      BY <2>1, <2>2 DEF Goes
  <1>3. ASSUME NEW w \in Workers, ReadRun(w)
        PROVE  \E h \in Able : worker' = [worker EXCEPT ![w] = h]
    <2> DEFINE at == IF run \in Skipped THEN "leave" ELSE "mark"
               h == [worker[w] EXCEPT !.at = at, !.counters = counters]
    <2>1. counters \in [LoopNodes -> Nat] /\ worker[w].at # "idle"
      BY <1>3 DEF Types, TypeOK, ReadRun
    <2>2. h \in Able
      BY <2>1 DEF Able, Hand
    <2>3. worker' = [worker EXCEPT ![w] = h]
      BY <1>3 DEF ReadRun
    <2> QED
      BY <2>2, <2>3
  <1>4. ASSUME NEW w \in Workers, MarkRunning(w) \/ CreateStep(w) \/ CompleteRun(w)
        PROVE  \E h \in Able : worker' = [worker EXCEPT ![w] = h]
    <2>1. PICK at \in {"step", "execute", "leave"} : Goes(w, at)
      BY <1>4 DEF MarkRunning, CreateStep, CompleteRun
    <2>2. [worker[w] EXCEPT !.at = at] \in Able
      BY <1>4, <2>1, GoesType DEF MarkRunning, CreateStep, CompleteRun
    <2> QED
      BY <2>1, <2>2 DEF Goes
  <1>5. ASSUME NEW w \in Workers, Execute(w)
        PROVE  \E h \in Able : worker' = [worker EXCEPT ![w] = h]
    <2> DEFINE n == Node(w)
               todo == {e.target : e \in Following(graph, n, Answer(n, worker[w].counters))}
               rest == IF Kind[n] = "terminate" THEN {} ELSE todo
               at == IF EndsRun(n, todo) THEN "complete" ELSE "enqueue"
               h == [worker[w] EXCEPT !.todo = rest, !.at = at]
    <2>1. todo \subseteq Nodes
      BY FollowingType DEF Types, TypeOK
    <2>2. worker' = [worker EXCEPT ![w] = h]
      BY <1>5 DEF Execute
    <2>3. rest \in SUBSET Nodes /\ at \in {"complete", "enqueue"} /\ worker[w].at # "idle"
      BY <1>5, <2>1 DEF Execute
    <2> HIDE DEF rest, at, todo, n
    <2>4. h \in Able
      BY <2>3 DEF Able, Hand
    <2> QED
      BY <2>2, <2>4
  <1>6. ASSUME NEW w \in Workers, NEW n \in Nodes, EnqueueNext(w, n)
        PROVE  \E h \in Able : worker' = [worker EXCEPT ![w] = h]
    <2> DEFINE h == [worker[w] EXCEPT !.todo = @ \ {n}]
    <2>1. h \in Able
      BY DEF Able, Hand
    <2>2. worker' = [worker EXCEPT ![w] = h]
      BY <1>6 DEF EnqueueNext
    <2> QED
      BY <2>1, <2>2
  <1>7. ASSUME NEW w \in Workers, Refuse(w) \/ Leave(w) \/ Throw(w) \/ Crash(w)
        PROVE  \E h \in Able : worker' = [worker EXCEPT ![w] = h]
    <2>1. Ends(w)
      BY <1>7 DEF Refuse, Leave, Throw, Crash, JobThrew
    <2> QED
      BY <2>1 DEF Ends
  <1>8. ASSUME \/ \E type \in {"event", "manual"} : Trigger(type)
               \/ EnqueueNode \/ ApiDies \/ SlotsExpire
               \/ \E status \in {"paused", "cancelled"} : Halt(status)
               \/ Resume
               \/ \E n \in Recoverable : Recover(n)
               \/ \E job \in BagToSet(waiting) : OtherWorker(job)
        PROVE  worker' = worker
    BY <1>8 DEF Trigger, EnqueueNode, ApiDies, SlotsExpire, Halt, Resume, Recover, OtherWorker
  <1> QED
    BY <1>1, <1>2, <1>3, <1>4, <1>5, <1>6, <1>7, <1>8 DEF RunStep, WorkerGoes

LEMMA WorkerType == Types /\ RunStep => worker' \in [Workers -> Hand] /\ \A w \in Workers : worker'[w] \in Able
  <1> SUFFICES ASSUME Types, RunStep
               PROVE  worker' \in [Workers -> Hand] /\ \A w \in Workers : worker'[w] \in Able
    OBVIOUS
  <1>1. worker \in [Workers -> Hand] /\ \A w \in Workers : worker[w] \in Able
    BY HandType DEF Types, TypeOK
  <1>2. Able \subseteq Hand
    BY DEF Able
  <1> QED
    BY <1>1, <1>2, HandsChange

\* A thrown job is another attempt, or one that is given up.
LEMMA JobThrewType ==
  ASSUME Types, NEW w \in Workers, worker[w].at # "idle", JobThrew(w)
  PROVE  /\ Holds(waiting') /\ causes' \subseteq Causes
         /\ waiting' # EmptyBag \/ causes' # {}
         /\ causes \subseteq causes'
  <1> DEFINE job == [Job(w) EXCEPT !.made = @ + 1]
  <1>1. job \in Jobs
    <2>1. Job(w) \in Jobs
      BY HandType
    <2>2. ASSUME NEW j \in Jobs
          PROVE  [j EXCEPT !.made = @ + 1] \in Jobs
      <3> DEFINE more == j.made + 1
      <3>1. more \in Nat
        BY DEF Jobs
      <3> HIDE DEF more
      <3>2. [j EXCEPT !.made = more] \in Jobs
        BY <3>1 DEF Jobs
      <3> QED
        BY <3>2 DEF more
    <2> QED
      BY <2>1, <2>2
  <1>2. Holds(waiting) /\ causes \subseteq Causes
    BY DEF Types, TypeOK, Holds
  <1>3. \/ waiting' = Queued(job) /\ causes' = causes
        \/ waiting' = waiting /\ causes' = causes \union {"attempts"}
    BY DEF JobThrew
  <1> QED
    BY <1>1, <1>2, <1>3, Added DEF Causes

LEMMA CrashType ==
  ASSUME Types, NEW w \in Workers, Crash(w)
  PROVE  /\ Holds(waiting') /\ causes' \subseteq Causes
         /\ waiting' # EmptyBag \/ causes' # {}
         /\ causes \subseteq causes'
  <1> DEFINE job == [Job(w) EXCEPT !.stalled = TRUE]
  <1>1. job \in Jobs
    BY HandType DEF Jobs, Crash
  <1>2. Holds(waiting) /\ causes \subseteq Causes
    BY DEF Types, TypeOK, Holds
  <1>3. \/ waiting' = Queued(job) /\ causes' = causes
        \/ waiting' = waiting /\ causes' = causes \union {"attempts"}
    BY DEF Crash
  <1> QED
    BY <1>1, <1>2, <1>3, Added DEF Causes

LEMMA EnqueueType ==
  ASSUME Types, NEW n \in Nodes, NEW attempts \in Nat, Enqueue(n, attempts)
  PROVE  Holds(waiting') /\ waiting' # EmptyBag
  BY Added, NewJobType DEF Enqueue, Types, TypeOK, Holds

LEMMA QueueType ==
  ASSUME Types, RunStep
  PROVE  Holds(waiting') /\ causes' \subseteq Causes
  <1>1. Holds(waiting) /\ causes \subseteq Causes
    BY DEF Types, TypeOK, Holds
  <1>2. ASSUME NEW type, Trigger(type)
        PROVE  Holds(waiting') /\ causes' \subseteq Causes
    BY <1>1, <1>2 DEF Trigger, Causes
  <1>3. CASE ApiDies \/ SlotsExpire \/ Resume \/ (\E n \in Recoverable : Recover(n))
             \/ (\E status \in {"paused", "cancelled"} : Halt(status))
    BY <1>1, <1>3 DEF ApiDies, SlotsExpire, Resume, Recover, Halt, Causes
  <1>4. CASE EnqueueNode
    <2>1. api.node \in Nodes /\ causes' = causes
      BY <1>4 DEF EnqueueNode, Types, Equipped
    <2>2. (IF api.at = "trigger" THEN Retry[api.node] ELSE DefaultAttempts) \in Nat
      BY <2>1
    <2> QED
      BY <1>1, <1>4, <2>1, <2>2, EnqueueType DEF EnqueueNode
  <1>5. ASSUME NEW job \in BagToSet(waiting), OtherWorker(job) \/ \E w \in Workers : TakeJob(w, job)
        PROVE  Holds(waiting') /\ causes' \subseteq Causes
    <2>1. /\ waiting' = waiting (-) SetToBag({job})
          /\ causes' \subseteq causes \union {"other worker"}
      BY <1>5 DEF OtherWorker, TakeJob
    <2> QED
      BY <1>1, <2>1, Removed DEF Causes
  <1>6. ASSUME NEW w \in Workers,
               \/ Acquire(w) \/ ReadRun(w) \/ MarkRunning(w) \/ CreateStep(w)
               \/ Execute(w) \/ CompleteRun(w) \/ Leave(w)
        PROVE  Holds(waiting') /\ causes' \subseteq Causes
    <2>1. waiting' = waiting
      BY <1>6 DEF Acquire, ReadRun, MarkRunning, CreateStep, Execute, CompleteRun, Leave
    <2>2. causes' \subseteq causes \union {"paused", "parked"}
      BY <1>6 DEF Acquire, ReadRun, MarkRunning, CreateStep, Execute, CompleteRun, Leave
    <2> QED
      BY <1>1, <2>1, <2>2 DEF Causes
  <1>7. ASSUME NEW w \in Workers, NEW n \in Nodes, EnqueueNext(w, n)
        PROVE  Holds(waiting') /\ causes' \subseteq Causes
    BY <1>1, <1>7, EnqueueType DEF EnqueueNext
  <1>8. ASSUME NEW w \in Workers, Refuse(w) \/ Throw(w)
        PROVE  Holds(waiting') /\ causes' \subseteq Causes
    BY <1>8, JobThrewType DEF Refuse, Throw, Working
  <1>9. ASSUME NEW w \in Workers, Crash(w)
        PROVE  Holds(waiting') /\ causes' \subseteq Causes
    BY <1>9, CrashType
  <1> QED
    BY <1>2, <1>3, <1>4, <1>5, <1>6, <1>7, <1>8, <1>9 DEF RunStep, WorkerGoes

LEMMA ApiType ==
  ASSUME Types, RunStep
  PROVE  /\ api' \in [at : {"idle", "trigger", "requeue"}, node : Nodes \union {None}]
         /\ api'.at # "idle" => api'.node \in Nodes
  <1>1. /\ api \in [at : {"idle", "trigger", "requeue"}, node : Nodes \union {None}]
        /\ api.at # "idle" => api.node \in Nodes
        /\ last \in Nodes \union {None}
    BY DEF Types, TypeOK, Equipped
  <1> DEFINE Asks(at) == \E n \in Nodes : api' = [at |-> at, node |-> n]
  <1>2. api' = api \/ api' = IdleApi \/ Asks("trigger") \/ Asks("requeue")
    <2>1. ASSUME NEW type, Trigger(type)
          PROVE  api' = api \/ Asks("trigger")
      BY <2>1, StartNodeType DEF Trigger
    <2>2. CASE Resume \/ (\E n \in Recoverable : Recover(n))
      BY <1>1, <2>2 DEF Resume, Recover
    <2>3. CASE \/ EnqueueNode \/ ApiDies \/ SlotsExpire
               \/ (\E status \in {"paused", "cancelled"} : Halt(status))
               \/ (\E job \in BagToSet(waiting) : OtherWorker(job))
      BY <2>3 DEF EnqueueNode, ApiDies, SlotsExpire, Halt, OtherWorker
    <2>4. CASE \E w \in Workers : WorkerGoes(w) \/ Throw(w) \/ Crash(w)
      BY <2>4 DEF WorkerGoes, TakeJob, Acquire, Refuse, ReadRun, MarkRunning, CreateStep, Execute,
         CompleteRun, EnqueueNext, Leave, Throw, Crash
    <2> HIDE DEF Asks
    <2> QED
      BY <2>1, <2>2, <2>3, <2>4 DEF RunStep
  <1> QED
    BY <1>1, <1>2 DEF IdleApi

LEMMA RunType == Types /\ RunStep => run' \in RunStatus /\ graph' \in Graphs /\ last' \in Nodes \union {None}
  <1> SUFFICES ASSUME Types, RunStep
               PROVE  run' \in RunStatus /\ graph' \in Graphs /\ last' \in Nodes \union {None}
    OBVIOUS
  <1>1. run \in RunStatus /\ graph \in Graphs /\ last \in Nodes \union {None}
    BY DEF Types, TypeOK
  <1>2. run' = run \/ (\E status \in RunStatus : run' = status \/ run' = SetRun(status))
    BY DEF RunStep, WorkerGoes, Trigger, EnqueueNode, ApiDies, SlotsExpire, Halt, Resume, Recover,
       OtherWorker, TakeJob, Acquire, Refuse, ReadRun, MarkRunning, CreateStep, Execute, CompleteRun,
       EnqueueNext, Leave, Throw, Crash, runVars, RunStatus
  <1>3. graph' = graph
    BY DEF RunStep, WorkerGoes, Trigger, EnqueueNode, ApiDies, SlotsExpire, Halt, Resume, Recover,
       OtherWorker, TakeJob, Acquire, Refuse, ReadRun, MarkRunning, CreateStep, Execute, CompleteRun,
       EnqueueNext, Leave, Throw, Crash, runVars
  <1>4. last' = last \/ \E w \in Workers : worker[w].at = "step" /\ last' = Node(w)
    BY DEF RunStep, WorkerGoes, Trigger, EnqueueNode, ApiDies, SlotsExpire, Halt, Resume, Recover,
       OtherWorker, TakeJob, Acquire, Refuse, ReadRun, MarkRunning, CreateStep, Execute, CompleteRun,
       EnqueueNext, Leave, Throw, Crash, runVars
  <1> QED
    BY <1>1, <1>2, <1>3, <1>4, HandType DEF SetRun

LEMMA CountsType ==
  ASSUME Types, RunStep
  PROVE  /\ counters' \in [LoopNodes -> Nat] /\ rounds' \in [LoopNodes -> Nat]
         /\ late' \in Nat /\ slots' \in Int
         /\ commands' \in 0 .. MaxCommands /\ faults' \in 0 .. MaxFaults
  <1>1. /\ counters \in [LoopNodes -> Nat] /\ rounds \in [LoopNodes -> Nat]
        /\ late \in Nat /\ slots \in Int
        /\ commands \in 0 .. MaxCommands /\ faults \in 0 .. MaxFaults
    BY DEF Types, TypeOK
  <1>2. \/ counters' = counters /\ rounds' = rounds
        \/ \E w \in Workers : Execute(w)
    BY DEF RunStep, WorkerGoes, Trigger, EnqueueNode, ApiDies, SlotsExpire, Halt, Resume, Recover,
       OtherWorker, TakeJob, Acquire, Refuse, ReadRun, MarkRunning, CreateStep, CompleteRun,
       EnqueueNext, Leave, Throw, Crash, runVars
  <1>3. ASSUME NEW w \in Workers, Execute(w)
        PROVE  counters' \in [LoopNodes -> Nat] /\ rounds' \in [LoopNodes -> Nat]
    <2>1. worker[w].counters \in [LoopNodes -> Nat] /\ Node(w) \in Nodes
      BY <1>3, HandType DEF Able, Hand, Execute
    <2>2. counters' = counters \/ counters' = Bump(Node(w), worker[w].counters)
      BY <1>3 DEF Execute
    <2>3. rounds' = rounds \/ rounds' = [rounds EXCEPT ![Node(w)] = @ + 1]
      BY <1>3 DEF Execute
    <2> QED
      <3>1. counters' \in [LoopNodes -> Nat]
        BY <1>1, <2>1, <2>2, BumpType
      <3>2. rounds' \in [LoopNodes -> Nat]
        BY <1>1, <2>3
      <3> QED
        BY <3>1, <3>2
  <1>4. late' = late \/ late' = late + 1
    BY DEF RunStep, WorkerGoes, Trigger, EnqueueNode, ApiDies, SlotsExpire, Halt, Resume, Recover,
       OtherWorker, TakeJob, Acquire, Refuse, ReadRun, MarkRunning, CreateStep, Execute, CompleteRun,
       EnqueueNext, Leave, Throw, Crash, runVars
  <1>5. slots' \in {slots, slots + 1, slots - 1, 0}
    BY DEF RunStep, WorkerGoes, Trigger, EnqueueNode, ApiDies, SlotsExpire, Halt, Resume, Recover,
       OtherWorker, TakeJob, Acquire, Refuse, ReadRun, MarkRunning, CreateStep, Execute, CompleteRun,
       EnqueueNext, Leave, Throw, Crash, slotVars
  <1>6. commands' = commands \/ (commands < MaxCommands /\ commands' = commands + 1)
    BY DEF RunStep, WorkerGoes, Trigger, EnqueueNode, ApiDies, SlotsExpire, Halt, Resume, Recover,
       OtherWorker, TakeJob, Acquire, Refuse, ReadRun, MarkRunning, CreateStep, Execute, CompleteRun,
       EnqueueNext, Leave, Throw, Crash, Command
  <1>7. faults' = faults \/ (faults < MaxFaults /\ faults' = faults + 1)
    BY DEF RunStep, WorkerGoes, Trigger, EnqueueNode, ApiDies, SlotsExpire, Halt, Resume, Recover,
       OtherWorker, TakeJob, Acquire, Refuse, ReadRun, MarkRunning, CreateStep, Execute, CompleteRun,
       EnqueueNext, Leave, Throw, Crash, Fault
  <1>8. late' \in Nat /\ slots' \in Int
    BY <1>1, <1>4, <1>5
  <1>9. commands' \in 0 .. MaxCommands /\ faults' \in 0 .. MaxFaults
    BY <1>1, <1>6, <1>7
  <1> QED
    BY <1>1, <1>2, <1>3, <1>8, <1>9

LEMMA FlagsType == Types /\ RunStep => overwrote' \in BOOLEAN /\ expired' \in BOOLEAN
  <1> SUFFICES ASSUME Types, RunStep
               PROVE  overwrote' \in BOOLEAN /\ expired' \in BOOLEAN
    OBVIOUS
  <1>1. overwrote \in BOOLEAN /\ expired \in BOOLEAN
    BY DEF Types, TypeOK
  <1>2. expired' = expired \/ expired' = TRUE
    BY DEF RunStep, WorkerGoes, Trigger, EnqueueNode, ApiDies, SlotsExpire, Halt, Resume, Recover,
       OtherWorker, TakeJob, Acquire, Refuse, ReadRun, MarkRunning, CreateStep, Execute, CompleteRun,
       EnqueueNext, Leave, Throw, Crash, slotVars
  <1>3. overwrote' = overwrote \/ \E w \in Workers : Execute(w)
    BY DEF RunStep, WorkerGoes, Trigger, EnqueueNode, ApiDies, SlotsExpire, Halt, Resume, Recover,
       OtherWorker, TakeJob, Acquire, Refuse, ReadRun, MarkRunning, CreateStep, CompleteRun,
       EnqueueNext, Leave, Throw, Crash, runVars
  <1>4. ASSUME NEW w \in Workers, Execute(w)
        PROVE  overwrote' \in BOOLEAN
    BY <1>4, Zenon DEF Execute
  <1> QED
    BY <1>1, <1>2, <1>3, <1>4, Zenon

LEMMA TypesNext == Types /\ RunStep => Types'
  <1> SUFFICES ASSUME Types, RunStep
               PROVE  Types'
    OBVIOUS
  <1>1. Holds(waiting') /\ causes' \subseteq Causes
    BY QueueType
  <1>2. worker' \in [Workers -> Hand] /\ \A w \in Workers : worker'[w] \in Able
    BY WorkerType
  <1>3. TypeOK'
    BY <1>1, <1>2, ApiType, RunType, CountsType, FlagsType DEF TypeOK, Holds
  <1>4. Equipped'
    BY <1>2, ApiType DEF Equipped, Able
  <1> QED
    BY <1>3, <1>4 DEF Types

-----------------------------------------------------------------------------
(* Where the workers are *)

Others(w) == \A v \in Workers \ {w} : worker'[v] = worker[v]
Now(w, at) == worker'[w].at = at /\ Others(w)

LEMMA GoesNow ==
  ASSUME Types, NEW w \in Workers, NEW at, Goes(w, at)
  PROVE  Now(w, at)
  BY DEF Types, TypeOK, Hand, Goes, Now, Others

LEMMA EndsNow ==
  ASSUME Types, NEW w \in Workers, Ends(w)
  PROVE  Now(w, "idle")
  BY DEF Types, TypeOK, Ends, Now, Others, IdleWorker

LEMMA WorkerNow ==
  ASSUME Types, NEW w \in Workers
  PROVE  /\ \A job \in BagToSet(waiting) : TakeJob(w, job) => Now(w, "acquire")
         /\ Acquire(w) => Now(w, IF slots + 1 > SlotLimit THEN "refused" ELSE "read")
         /\ ReadRun(w) => Now(w, IF run \in Skipped THEN "leave" ELSE "mark")
         /\ MarkRunning(w) => Now(w, "step")
         /\ CreateStep(w) => Now(w, "execute")
         /\ Execute(w) => Now(w, "complete") \/ Now(w, "enqueue")
         /\ CompleteRun(w) => Now(w, "leave")
         /\ \A n \in Nodes : EnqueueNext(w, n) => Now(w, "enqueue")
         /\ Refuse(w) \/ Leave(w) \/ Throw(w) \/ Crash(w) => Now(w, "idle")
  <1> USE DEF Now, Others
  <1>0. worker \in [Workers -> Hand] /\ worker[w] \in Hand
    BY DEF Types, TypeOK
  <1>1. \A job \in BagToSet(waiting) : TakeJob(w, job) => Now(w, "acquire")
    BY <1>0 DEF TakeJob, IdleWorker
  <1>2. Acquire(w) => Now(w, IF slots + 1 > SlotLimit THEN "refused" ELSE "read")
    BY GoesNow DEF Acquire
  <1>3. ReadRun(w) => Now(w, IF run \in Skipped THEN "leave" ELSE "mark")
    <2> DEFINE at == IF run \in Skipped THEN "leave" ELSE "mark"
    <2>1. ReadRun(w) => worker' = [worker EXCEPT ![w].at = at, ![w].counters = counters]
      BY DEF ReadRun
    <2> HIDE DEF at
    <2>2. ReadRun(w) => Now(w, at)
      BY <1>0, <2>1 DEF Hand
    <2> QED
      BY <2>2 DEF at
  <1>4. MarkRunning(w) => Now(w, "step")
    BY GoesNow DEF MarkRunning
  <1>5. CreateStep(w) => Now(w, "execute")
    BY GoesNow DEF CreateStep
  <1>6. Execute(w) => Now(w, "complete") \/ Now(w, "enqueue")
    <2>1. SUFFICES ASSUME Execute(w)
                   PROVE  Now(w, "complete") \/ Now(w, "enqueue")
      OBVIOUS
    <2> DEFINE n == Node(w)
               todo == {e.target : e \in Following(graph, n, Answer(n, worker[w].counters))}
               rest == IF Kind[n] = "terminate" THEN {} ELSE todo
               at == IF EndsRun(n, todo) THEN "complete" ELSE "enqueue"
    <2>2. worker' = [worker EXCEPT ![w].todo = rest, ![w].at = at]
      BY <2>1 DEF Execute
    <2>3. at \in {"complete", "enqueue"}
      OBVIOUS
    <2> HIDE DEF rest, at
    <2> QED
      BY <1>0, <2>2, <2>3 DEF Hand
  <1>7. CompleteRun(w) => Now(w, "leave")
    BY GoesNow DEF CompleteRun
  <1>8. \A n \in Nodes : EnqueueNext(w, n) => Now(w, "enqueue")
    BY <1>0 DEF EnqueueNext, Hand
  <1>9. Refuse(w) \/ Leave(w) \/ Throw(w) \/ Crash(w) => Now(w, "idle")
    BY EndsNow DEF Refuse, Leave, Throw, Crash, JobThrew
  <1> QED
    BY <1>1, <1>2, <1>3, <1>4, <1>5, <1>6, <1>7, <1>8, <1>9

-----------------------------------------------------------------------------
(* The slots *)

Live == {w \in Workers : worker[w].at \in Working}

LEMMA Subsets ==
  ASSUME NEW S \in SUBSET Workers
  PROVE  IsFiniteSet(S) /\ Cardinality(S) \in Nat /\ Cardinality(S) <= Cardinality(Workers)
  BY FS_Subset, FS_CardinalityType

LEMMA Smaller ==
  ASSUME NEW S \in SUBSET Workers, NEW T \in SUBSET S
  PROVE  Cardinality(T) <= Cardinality(S)
  BY Subsets, FS_Subset

LEMMA OneLess ==
  ASSUME NEW S \in SUBSET Workers, NEW w \in S
  PROVE  Cardinality(S \ {w}) = Cardinality(S) - 1
  BY Subsets, FS_RemoveElement

LEMMA OneMore ==
  ASSUME NEW S \in SUBSET Workers, NEW w \in Workers \ S
  PROVE  Cardinality(S \union {w}) = Cardinality(S) + 1
  BY Subsets, FS_AddElement

\* A step that leaves the counter alone and lets nobody new be counted.
LEMMA SlotsKept ==
  ASSUME Types, SlotsInv, slots' = slots, expired' = expired, Counted' \subseteq Counted, Live' \subseteq Live
  PROVE  SlotsInv'
  <1>1. Cardinality(Counted') <= Cardinality(Counted) /\ Cardinality(Live') <= Cardinality(Live)
    BY Smaller DEF Counted, Live
  <1>2. /\ {Counted, Counted', Live, Live'} \subseteq SUBSET Workers
        /\ slots \in Int /\ SlotLimit \in Nat
    BY DEF Counted, Live, Types, TypeOK
  <1>3. {Cardinality(Counted), Cardinality(Counted'), Cardinality(Live), Cardinality(Live')} \subseteq Nat
    BY <1>2, Subsets
  <1>4. ~expired => slots >= Cardinality(Counted) /\ Cardinality(Live) <= SlotLimit
    BY DEF SlotsInv, SlotsBounded, Live
  <1>5. ~expired' => slots' >= Cardinality(Counted') /\ Cardinality(Live') <= SlotLimit
    BY <1>1, <1>2, <1>3, <1>4
  <1> QED
    BY <1>5 DEF SlotsInv, SlotsBounded, Live

\* A step by which a counted worker gives its slot back.
LEMMA SlotsReturned ==
  ASSUME Types, SlotsInv, NEW w \in Counted, slots' = slots - 1, expired' = expired, Now(w, "idle")
  PROVE  SlotsInv'
  <1>1. Counted' = Counted \ {w} /\ Live' \subseteq Live /\ w \in Workers
    BY DEF Counted, Live, Now, Others, Working
  <1>2. Cardinality(Counted') = Cardinality(Counted) - 1 /\ Cardinality(Live') <= Cardinality(Live)
    BY <1>1, Smaller, OneLess DEF Counted, Live
  <1>3. /\ {Counted, Counted', Live, Live'} \subseteq SUBSET Workers
        /\ slots \in Int /\ SlotLimit \in Nat
    BY DEF Counted, Live, Types, TypeOK
  <1> QED
    BY <1>2, <1>3, Subsets DEF SlotsInv, SlotsBounded, Live

LEMMA SlotsAcquired ==
  ASSUME Types, SlotsInv, NEW w \in Workers, Acquire(w)
  PROVE  SlotsInv'
  <1>1. /\ slots' = slots + 1 /\ expired' = expired /\ worker[w].at = "acquire"
        /\ Now(w, IF slots + 1 > SlotLimit THEN "refused" ELSE "read")
    BY WorkerNow DEF Acquire
  <1>2. Counted' = Counted \union {w} /\ w \in Workers \ Counted /\ w \in Workers \ Live
    BY <1>1 DEF Counted, Live, Now, Others, Working
  <1>3. Live' = IF slots + 1 > SlotLimit THEN Live ELSE Live \union {w}
    BY <1>1, <1>2 DEF Live, Now, Others, Working
  <1>4. Cardinality(Counted') = Cardinality(Counted) + 1
    BY <1>2, OneMore DEF Counted
  <1>5. Cardinality(Live') = IF slots + 1 > SlotLimit THEN Cardinality(Live) ELSE Cardinality(Live) + 1
    BY <1>2, <1>3, OneMore DEF Live
  <1>6. Cardinality(Live) <= Cardinality(Counted)
    BY Smaller DEF Counted, Live
  <1>7. /\ {Counted, Counted', Live, Live'} \subseteq SUBSET Workers
        /\ slots \in Int /\ SlotLimit \in Nat
    BY DEF Counted, Live, Types, TypeOK
  <1> QED
    BY <1>1, <1>4, <1>5, <1>6, <1>7, Subsets DEF SlotsInv, SlotsBounded, Live

LEMMA SlotsNext ==
  ASSUME Types, SlotsInv, RunStep
  PROVE  SlotsInv'
  <1>1. ASSUME NEW type, Trigger(type)
        PROVE  SlotsInv'
    BY <1>1, SlotsKept DEF Trigger, Counted, Live, slotVars
  <1>2. CASE \/ EnqueueNode \/ ApiDies \/ Resume
             \/ (\E status \in {"paused", "cancelled"} : Halt(status))
             \/ (\E n \in Recoverable : Recover(n))
             \/ (\E job \in BagToSet(waiting) : OtherWorker(job))
    <2>1. UNCHANGED <<slots, expired, worker>>
      BY <1>2 DEF EnqueueNode, ApiDies, Resume, Halt, Recover, OtherWorker, slotVars
    <2> QED
      BY <2>1, SlotsKept DEF Counted, Live
  <1>3. CASE SlotsExpire
    BY <1>3 DEF SlotsExpire, SlotsInv
  <1>4. ASSUME NEW w \in Workers, NEW job \in BagToSet(waiting), TakeJob(w, job)
        PROVE  SlotsInv'
    <2>1. Now(w, "acquire") /\ worker[w].at = "idle" /\ slots' = slots /\ expired' = expired
      BY <1>4, WorkerNow DEF TakeJob, slotVars
    <2>2. Counted' \subseteq Counted /\ Live' \subseteq Live
      BY <2>1 DEF Counted, Live, Now, Others, Working
    <2> QED
      BY <2>1, <2>2, SlotsKept
  <1>5. ASSUME NEW w \in Workers, Acquire(w)
        PROVE  SlotsInv'
    BY <1>5, SlotsAcquired
  <1>6. ASSUME NEW w \in Workers,
               \/ ReadRun(w) \/ MarkRunning(w) \/ CreateStep(w) \/ Execute(w) \/ CompleteRun(w)
               \/ (\E n \in Nodes : EnqueueNext(w, n)) \/ Crash(w)
        PROVE  SlotsInv'
    <2>1. \E at \in Working \union {"idle"} : Now(w, at)
      BY <1>6, WorkerNow DEF Working
    <2>2. /\ worker[w].at \in Working \/ Now(w, "idle")
          /\ slots' = slots /\ expired' = expired
      BY <1>6, WorkerNow DEF ReadRun, MarkRunning, CreateStep, Execute, CompleteRun, EnqueueNext, Crash,
         slotVars, Working
    <2>3. Counted' \subseteq Counted /\ Live' \subseteq Live
      BY <2>1, <2>2 DEF Counted, Live, Now, Others, Working
    <2> QED
      BY <2>2, <2>3, SlotsKept
  <1>7. ASSUME NEW w \in Workers, Refuse(w) \/ Leave(w) \/ Throw(w)
        PROVE  SlotsInv'
    <2>1. Now(w, "idle") /\ slots' \in {slots - 1, slots} /\ expired' = expired
      BY <1>7, WorkerNow DEF Refuse, Leave, Throw, Working
    <2>2. w \in Counted
      BY <1>7 DEF Refuse, Leave, Throw, Counted, Working
    <2>3. CASE slots' = slots - 1
      BY <2>1, <2>2, <2>3, SlotsReturned
    <2>4. CASE slots' = slots
      <3>1. Counted' \subseteq Counted /\ Live' \subseteq Live
        BY <2>1 DEF Counted, Live, Now, Others, Working
      <3> QED
        BY <2>1, <2>4, <3>1, SlotsKept
    <2> QED
      BY <2>1, <2>3, <2>4
  <1> QED
    BY <1>1, <1>2, <1>3, <1>4, <1>5, <1>6, <1>7 DEF RunStep, WorkerGoes

-----------------------------------------------------------------------------
(* Late steps *)

LEMMA CloseKeeps ==
  ASSUME NEW status
  PROVE  run \in Closed => SetRun(status) = run
  BY DEF SetRun

\* A step that begins none, and lets nobody begin one of a closed run.
LEMMA LateKept ==
  ASSUME Types, LateInv, late' = late, run \in Closed => run' = run /\ Begun' \subseteq Begun
  PROVE  LateInv'
  <1>1. {Begun, Begun'} \subseteq SUBSET Workers /\ late \in Nat /\ Cardinality(Workers) \in Nat
    BY FS_CardinalityType DEF Begun, Types, TypeOK
  <1>2. {Cardinality(Begun), Cardinality(Begun')} \subseteq Nat /\ Cardinality(Begun') <= Cardinality(Workers)
    BY <1>1, Subsets
  <1>3. CASE run \in Closed
    <2>1. Cardinality(Begun') <= Cardinality(Begun)
      BY <1>1, <1>3, Smaller
    <2>2. late + Cardinality(Begun) <= Cardinality(Workers)
      BY <1>3 DEF LateInv
    <2>3. late' + Cardinality(Begun') <= Cardinality(Workers)
      BY <1>1, <1>2, <2>1, <2>2
    <2> QED
      BY <1>3, <2>3 DEF LateInv
  <1>4. CASE run \notin Closed
    <2>1. late' = 0
      BY <1>4 DEF LateInv
    <2>2. late' + Cardinality(Begun') <= Cardinality(Workers)
      BY <1>2, <2>1
    <2> QED
      BY <2>1, <2>2 DEF LateInv
  <1> QED
    BY <1>3, <1>4

LEMMA LateBegins ==
  ASSUME Types, LateInv, NEW w \in Workers, CreateStep(w)
  PROVE  LateInv'
  <1>1. /\ worker[w].at = "step" /\ run' = run /\ Now(w, "execute")
        /\ late' = IF run \in Closed THEN late + 1 ELSE late
    BY WorkerNow DEF CreateStep
  <1>2. CASE run \notin Closed
    BY <1>1, <1>2, LateKept
  <1>3. CASE run \in Closed
    <2>1. Begun' = Begun \ {w} /\ w \in Begun
      BY <1>1 DEF Begun, Now, Others
    <2>2. Begun \in SUBSET Workers /\ late \in Nat /\ Cardinality(Workers) \in Nat
      BY FS_CardinalityType DEF Begun, Types, TypeOK
    <2>3. Cardinality(Begun') = Cardinality(Begun) - 1 /\ Cardinality(Begun) \in Nat
      BY <2>1, <2>2, OneLess, Subsets
    <2>4. late + Cardinality(Begun) <= Cardinality(Workers) /\ late' = late + 1
      BY <1>1, <1>3 DEF LateInv
    <2>5. late' + Cardinality(Begun') <= Cardinality(Workers)
      BY <2>2, <2>3, <2>4
    <2> QED
      BY <1>1, <1>3, <2>5 DEF LateInv
  <1> QED
    BY <1>2, <1>3

LEMMA LateNext ==
  ASSUME Types, LateInv, RunStep
  PROVE  LateInv'
  <1>1. ASSUME NEW type, Trigger(type)
        PROVE  LateInv'
    BY <1>1, LateKept DEF Trigger, Closed
  <1>2. CASE \/ EnqueueNode \/ ApiDies \/ SlotsExpire \/ Resume
             \/ (\E status \in {"paused", "cancelled"} : Halt(status))
             \/ (\E n \in Recoverable : Recover(n))
             \/ (\E job \in BagToSet(waiting) : OtherWorker(job))
    <2>1. UNCHANGED <<late, worker>> /\ (run \in Closed => run' = run)
      BY <1>2 DEF EnqueueNode, ApiDies, SlotsExpire, Resume, Halt, Recover, OtherWorker, runVars
    <2> QED
      BY <2>1, LateKept DEF Begun
  <1>3. ASSUME NEW w \in Workers,
               \/ (\E job \in BagToSet(waiting) : TakeJob(w, job)) \/ Acquire(w) \/ Refuse(w)
               \/ Execute(w) \/ CompleteRun(w) \/ (\E n \in Nodes : EnqueueNext(w, n)) \/ Leave(w)
               \/ Throw(w) \/ Crash(w)
        PROVE  LateInv'
    <2>1. \E at \in Positions \ {"mark", "step"} : Now(w, at)
      BY <1>3, WorkerNow DEF Positions, Working
    <2>2. late' = late
      BY <1>3 DEF TakeJob, Acquire, Refuse, Execute, CompleteRun, EnqueueNext, Leave, Throw, Crash, runVars
    <2>3. run' = run \/ \E status \in RunStatus : run' = SetRun(status)
      BY <1>3 DEF TakeJob, Acquire, Refuse, Execute, CompleteRun, EnqueueNext, Leave, Throw, Crash, runVars,
         RunStatus
    <2>4. Begun' \subseteq Begun
      BY <2>1 DEF Begun, Now, Others
    <2> QED
      BY <2>2, <2>3, <2>4, LateKept, CloseKeeps
  <1>4. ASSUME NEW w \in Workers, ReadRun(w)
        PROVE  LateInv'
    <2>1. late' = late /\ run' = run /\ Now(w, IF run \in Skipped THEN "leave" ELSE "mark")
      BY <1>4, WorkerNow DEF ReadRun, runVars
    <2>2. run \in Closed => Begun' \subseteq Begun
      BY <2>1 DEF Begun, Now, Others, Closed, Skipped
    <2> QED
      BY <2>1, <2>2, LateKept
  <1>5. ASSUME NEW w \in Workers, MarkRunning(w)
        PROVE  LateInv'
    <2>1. /\ late' = late /\ run' = SetRun("running")
          /\ worker[w].at = "mark" /\ Now(w, "step")
      BY <1>5, WorkerNow DEF MarkRunning
    <2>2. Begun' \subseteq Begun
      BY <2>1 DEF Begun, Now, Others
    <2> QED
      BY <2>1, <2>2, LateKept, CloseKeeps
  <1>6. ASSUME NEW w \in Workers, CreateStep(w)
        PROVE  LateInv'
    BY <1>6, LateBegins
  <1> QED
    BY <1>1, <1>2, <1>3, <1>4, <1>5, <1>6 DEF RunStep, WorkerGoes

-----------------------------------------------------------------------------
(* Loops *)

LEMMA RoundsNext ==
  ASSUME Types, RoundsInv, RunStep
  PROVE  RoundsInv'
  <1>1. \/ UNCHANGED <<counters, rounds, overwrote>>
        \/ \E w \in Workers : Execute(w)
    BY DEF RunStep, WorkerGoes, Trigger, EnqueueNode, ApiDies, SlotsExpire, Halt, Resume, Recover,
       OtherWorker, TakeJob, Acquire, Refuse, ReadRun, MarkRunning, CreateStep, CompleteRun,
       EnqueueNext, Leave, Throw, Crash, runVars
  <1>2. CASE UNCHANGED <<counters, rounds, overwrote>>
    BY <1>2 DEF RoundsInv
  <1>3. ASSUME NEW w \in Workers, Execute(w), ~overwrote', NEW m \in LoopNodes
        PROVE  rounds'[m] <= counters'[m] /\ rounds'[m] < MaxIterations
    <2> DEFINE n == Node(w)
               mine == worker[w].counters
               open == run \notin Closed
    <2>1. /\ n \in Nodes /\ mine \in [LoopNodes -> Nat] /\ MaxIterations \in Nat
          /\ counters \in [LoopNodes -> Nat] /\ rounds \in [LoopNodes -> Nat]
      <3>1. worker[w].at # "idle" /\ worker[w] \in Hand
        BY <1>3, HandType DEF Execute, Able
      <3>2. n \in Nodes
        BY <3>1, HandType
      <3>3. mine \in [LoopNodes -> Nat]
        BY <3>1 DEF Hand
      <3> QED
        BY <3>2, <3>3 DEF Types, TypeOK
    <2>2. /\ counters' = IF open THEN Bump(n, mine) ELSE counters
          /\ rounds' = IF open /\ Answer(n, mine) = "continue" THEN [rounds EXCEPT ![n] = @ + 1] ELSE rounds
      BY <1>3 DEF Execute
    <2>3. ~overwrote /\ (open => counters = mine)
      <3>1. overwrote' = (overwrote \/ (open /\ counters # mine))
        BY <1>3 DEF Execute
      <3> QED
        BY <1>3, <3>1, Zenon
    <2>4. rounds[m] <= counters[m] /\ rounds[m] < MaxIterations
      BY <2>3 DEF RoundsInv
    <2>5. Answer(n, mine) = "continue" /\ n = m => mine[n] + 1 < MaxIterations
      BY DEF Answer, LoopNodes
    <2> HIDE DEF n, mine, open
    <2>6. CASE ~open
      BY <2>2, <2>4, <2>6
    <2>7. CASE open /\ n # m
      BY <2>1, <2>2, <2>3, <2>4, <2>7 DEF Bump
    <2>8. CASE open /\ n = m
      <3>1. counters'[m] = counters[m] + 1
        BY <2>1, <2>2, <2>3, <2>8 DEF Bump, LoopNodes
      <3>2. rounds'[m] = rounds[m] \/ (rounds'[m] = rounds[m] + 1 /\ counters[m] + 1 < MaxIterations)
        BY <2>1, <2>2, <2>3, <2>5, <2>8
      <3>3. counters[m] \in Nat /\ rounds[m] \in Nat
        BY <2>1
      <3> QED
        BY <2>1, <2>4, <3>1, <3>2, <3>3
    <2> QED
      BY <2>6, <2>7, <2>8
  <1> QED
    BY <1>1, <1>2, <1>3 DEF RoundsInv

-----------------------------------------------------------------------------
(* Runs nothing moves *)

LEMMA AccountedStays == Types /\ RunStep /\ Accounted => Accounted'
  <1> SUFFICES ASSUME Types, RunStep, Accounted
               PROVE  Accounted'
    OBVIOUS
  <1>1. ASSUME NEW type, Trigger(type)
        PROVE  causes \subseteq causes' /\ (run \in Closed => run' = run)
    BY <1>1 DEF Trigger, Closed
  <1>2. CASE \/ EnqueueNode \/ ApiDies \/ SlotsExpire \/ Resume
             \/ (\E status \in {"paused", "cancelled"} : Halt(status))
             \/ (\E n \in Recoverable : Recover(n))
             \/ (\E job \in BagToSet(waiting) : OtherWorker(job))
    <2>1. causes \subseteq causes' /\ (run \in Closed => run' = run)
      BY <1>2 DEF EnqueueNode, ApiDies, SlotsExpire, Resume, Halt, Recover, OtherWorker, runVars
    <2> QED
      BY <2>1 DEF Accounted
  <1>3. ASSUME NEW w \in Workers,
               \/ (\E job \in BagToSet(waiting) : TakeJob(w, job)) \/ Acquire(w) \/ ReadRun(w)
               \/ MarkRunning(w) \/ CreateStep(w) \/ Execute(w) \/ CompleteRun(w)
               \/ (\E n \in Nodes : EnqueueNext(w, n)) \/ Leave(w)
        PROVE  causes \subseteq causes' /\ (run \in Closed => run' = run)
    BY <1>3 DEF TakeJob, Acquire, ReadRun, MarkRunning, CreateStep, Execute, CompleteRun, EnqueueNext, Leave,
       runVars, SetRun
  <1>4. ASSUME NEW w \in Workers, Refuse(w) \/ Throw(w) \/ Crash(w)
        PROVE  causes \subseteq causes' /\ (run \in Closed => run' = run)
    <2>1. causes \subseteq causes'
      BY <1>4, JobThrewType, CrashType DEF Refuse, Throw, Working
    <2>2. run \in Closed => run' = run
      BY <1>4 DEF Refuse, Throw, Crash, runVars, SetRun
    <2> QED
      BY <2>1, <2>2
  <1> QED
    BY <1>1, <1>2, <1>3, <1>4 DEF RunStep, WorkerGoes, Accounted

\* Who is about to leave has found the run closed or paused, or has completed it.
LEMMA LeavesAccounted ==
  ASSUME Types, RunStep, CarriedInv, NEW v \in Workers, worker'[v].at = "leave"
  PROVE  Accounted'
  <1>1. worker[v].at = "leave" => Accounted'
    BY AccountedStays DEF CarriedInv
  <1>2. CASE worker' = worker
    BY <1>1, <1>2
  <1>3. ASSUME NEW w \in Workers, \E at \in Positions \ {"leave"} : Now(w, at)
        PROVE  Accounted'
    BY <1>1, <1>3 DEF Now, Others
  <1>4. ASSUME NEW w \in Workers, ReadRun(w)
        PROVE  Accounted'
    <2>1. /\ run' = run /\ Now(w, IF run \in Skipped THEN "leave" ELSE "mark")
          /\ causes' = IF run = "paused" THEN causes \union {"paused"} ELSE causes
      BY <1>4, WorkerNow DEF ReadRun, runVars
    <2>2. CASE run \in Skipped
      BY <2>1, <2>2 DEF Skipped, Accounted, Closed
    <2>3. CASE run \notin Skipped
      BY <1>1, <2>1, <2>3 DEF Now, Others
    <2> QED
      BY <2>2, <2>3
  <1>5. ASSUME NEW w \in Workers, CompleteRun(w)
        PROVE  Accounted'
    BY <1>5 DEF CompleteRun, SetRun, Accounted, Closed
  <1>6. CASE \/ (\E type \in {"event", "manual"} : Trigger(type))
             \/ EnqueueNode \/ ApiDies \/ SlotsExpire
             \/ (\E status \in {"paused", "cancelled"} : Halt(status))
             \/ Resume
             \/ (\E n \in Recoverable : Recover(n))
             \/ (\E job \in BagToSet(waiting) : OtherWorker(job))
    <2>1. worker' = worker
      BY <1>6 DEF Trigger, EnqueueNode, ApiDies, SlotsExpire, Halt, Resume, Recover, OtherWorker
    <2> QED
      BY <1>2, <2>1
  <1>7. ASSUME NEW w \in Workers,
               \/ (\E job \in BagToSet(waiting) : TakeJob(w, job)) \/ Acquire(w)
               \/ MarkRunning(w) \/ CreateStep(w) \/ Execute(w)
               \/ (\E n \in Nodes : EnqueueNext(w, n))
               \/ Refuse(w) \/ Leave(w) \/ Throw(w) \/ Crash(w)
        PROVE  Accounted'
    <2>1. \E at \in Positions \ {"leave"} : Now(w, at)
      BY <1>7, WorkerNow DEF Positions, Working
    <2> QED
      BY <1>3, <2>1
  <1> QED
    BY <1>4, <1>5, <1>6, <1>7 DEF RunStep, WorkerGoes

LEMMA Carrying ==
  ASSUME Types, NEW w \in Workers, NEW at \in Positions \ {"idle", "leave", "enqueue"}, Now(w, at)
  PROVE  Carried'
  BY DEF Now, Carried, Carries

LEMMA ExecuteCarries ==
  ASSUME Types, NEW w \in Workers, Execute(w)
  PROVE  Carried' \/ causes' # {}
  <1> DEFINE n == Node(w)
             todo == {e.target : e \in Following(graph, n, Answer(n, worker[w].counters))}
             rest == IF Kind[n] = "terminate" THEN {} ELSE todo
             at == IF EndsRun(n, todo) THEN "complete" ELSE "enqueue"
  <1>1. /\ worker' = [worker EXCEPT ![w].todo = rest, ![w].at = at]
        /\ causes' = IF Kind[n] = "delay" /\ todo = {} THEN causes \union {"parked"} ELSE causes
    BY DEF Execute
  <1>2. at = "complete" \/ (at = "enqueue" /\ (rest # {} \/ (Kind[n] = "delay" /\ todo = {})))
    BY DEF EndsRun
  <1> HIDE DEF n, todo, rest, at
  <1>3. worker'[w].at = at /\ worker'[w].todo = rest
    BY <1>1 DEF Types, TypeOK, Hand
  <1>4. at = "complete" \/ (at = "enqueue" /\ rest # {}) => Carried'
    BY <1>3 DEF Carried, Carries
  <1>5. Kind[n] = "delay" /\ todo = {} => causes' # {}
    BY <1>1
  <1> QED
    BY <1>2, <1>4, <1>5

\* A worker that has nothing left to enqueue was not the one that carried the run.
LEMMA LeaveCarries ==
  ASSUME Types, CarriedInv, ~Accounted, NEW w \in Workers, Leave(w)
  PROVE  run' = "absent" \/ Carried'
  <1>1. /\ run' = run /\ api' = api /\ waiting' = waiting /\ Now(w, "idle")
        /\ worker[w].at = "leave" \/ (worker[w].at = "enqueue" /\ worker[w].todo = {})
    BY WorkerNow DEF Leave, runVars
  <1>2. ~Carries(w)
    BY <1>1 DEF Carries
  <1>3. \A v \in Workers : Carries(v) => worker'[v] = worker[v]
    BY <1>1, <1>2 DEF Now, Others
  <1>4. \A v \in Workers : Carries(v) => Carries(v)'
    BY <1>3 DEF Carries
  <1> QED
    BY <1>1, <1>4 DEF CarriedInv, Carried

LEMMA CarriedNext ==
  ASSUME Types, CarriedInv, RunStep
  PROVE  CarriedInv'
  <1>1. \A v \in Workers : worker'[v].at = "leave" => Accounted'
    BY LeavesAccounted
  <1>2. ASSUME ~Accounted
        PROVE  Accounted' \/ run' = "absent" \/ Carried'
    <2>0. run = "absent" \/ Carried
      BY <1>2 DEF CarriedInv
    <2>1. ASSUME NEW type, Trigger(type)
          PROVE  causes' # {} \/ Carried'
      <3>1. causes' = causes \union {"no trigger"} \/ api' = [at |-> "trigger", node |-> StartNode(type)]
        BY <2>1 DEF Trigger
      <3>2. api' = [at |-> "trigger", node |-> StartNode(type)] => api'.at # "idle"
        OBVIOUS
      <3> QED
        BY <3>1, <3>2 DEF Carried
    <2>2. ASSUME NEW status, Halt(status)
          PROVE  Carried'
      BY <2>0, <2>2 DEF Halt, Carried, Carries
    <2>3. CASE Resume \/ SlotsExpire
      BY <2>0, <2>3 DEF Resume, SlotsExpire, runVars, Carried, Carries
    <2>4. ASSUME NEW n \in Recoverable, Recover(n)
          PROVE  Carried'
      BY <2>4 DEF Recover, Carried
    <2>5. ASSUME ApiDies \/ \E job \in BagToSet(waiting) : OtherWorker(job)
          PROVE  Accounted'
      BY <2>5 DEF ApiDies, OtherWorker, Accounted
    <2>6. ASSUME EnqueueNode
          PROVE  Carried'
      <3>1. api.node \in Nodes
        BY <2>6 DEF EnqueueNode, Types, Equipped
      <3>2. (IF api.at = "trigger" THEN Retry[api.node] ELSE DefaultAttempts) \in Nat
        BY <3>1
      <3> QED
        BY <2>6, <3>1, <3>2, EnqueueType DEF EnqueueNode, Carried
    <2>7. ASSUME NEW w \in Workers,
                 \/ (\E job \in BagToSet(waiting) : TakeJob(w, job)) \/ Acquire(w)
                 \/ MarkRunning(w) \/ CreateStep(w)
          PROVE  Carried'
      <3>1. \E at \in Positions \ {"idle", "leave", "enqueue"} : Now(w, at)
        BY <2>7, WorkerNow DEF Positions, Working
      <3> QED
        BY <3>1, Carrying
    <2>8. ASSUME NEW w \in Workers, ReadRun(w)
          PROVE  Accounted' \/ Carried'
      <3>1. Now(w, "leave") \/ Now(w, "mark")
        BY <2>8, WorkerNow
      <3>2. Now(w, "leave") => Accounted'
        BY <1>1 DEF Now
      <3>3. Now(w, "mark") => Carried'
        BY Carrying DEF Positions, Working
      <3> QED
        BY <3>1, <3>2, <3>3
    <2>9. ASSUME NEW w \in Workers, CompleteRun(w)
          PROVE  Accounted'
      <3>1. Now(w, "leave")
        BY <2>9, WorkerNow
      <3> QED
        BY <1>1, <3>1 DEF Now
    <2>10. ASSUME NEW w \in Workers, NEW n \in Nodes, EnqueueNext(w, n)
           PROVE  Carried'
      BY <2>10, EnqueueType DEF EnqueueNext, Carried
    <2>11. ASSUME NEW w \in Workers, Refuse(w) \/ Throw(w) \/ Crash(w)
           PROVE  causes' # {} \/ Carried'
      BY <2>11, JobThrewType, CrashType DEF Refuse, Throw, Working, Carried
    <2>12. \A w \in Workers : Execute(w) => causes' # {} \/ Carried'
      BY ExecuteCarries
    <2>13. \A w \in Workers : Leave(w) => run' = "absent" \/ Carried'
      BY <1>2, LeaveCarries
    <2>14. causes' # {} => Accounted'
      BY DEF Accounted
    <2> QED
      BY <2>1, <2>2, <2>3, <2>4, <2>5, <2>6, <2>7, <2>8, <2>9, <2>10, <2>11, <2>12, <2>13, <2>14
      DEF RunStep, WorkerGoes
  <1>3. Accounted' \/ run' = "absent" \/ Carried'
    BY <1>2, AccountedStays
  <1> QED
    BY <1>1, <1>3 DEF CarriedInv

-----------------------------------------------------------------------------
(* Only what is accepted runs *)

LEMMA AcceptedKept ==
  ASSUME Accepted, graph' = graph, walk' = walk
  PROVE  Accepted'
  BY DEF Accepted, HasTrigger, UniqueIds, Referenced, Connected, BranchTargets

\* Before the trigger no job is there to be moved.
LEMMA PublishedNext ==
  ASSUME PublishedInv, RunStep, walk' = walk
  PROVE  PublishedInv'
  <1>1. graph' = graph
    BY DEF RunStep, WorkerGoes, Trigger, EnqueueNode, ApiDies, SlotsExpire, Halt, Resume, Recover,
       OtherWorker, TakeJob, Acquire, Refuse, ReadRun, MarkRunning, CreateStep, Execute, CompleteRun,
       EnqueueNext, Leave, Throw, Crash, runVars
  <1>2. CASE run = "absent"
    <2>1. Untouched
      BY <1>2 DEF PublishedInv
    <2>2. \A job : ~BagIn(job, waiting)
      BY <2>1 DEF Untouched, EmptyBag, SetToBag, BagIn, BagToSet
    <2>3. (\E type \in {"event", "manual"} : Trigger(type)) \/ SlotsExpire
      <3>1. ~EnqueueNode /\ ~ApiDies
        BY <2>1 DEF Untouched, EnqueueNode, ApiDies
      <3>2. ~Resume /\ (\A status : ~Halt(status)) /\ (\A n : ~Recover(n))
        BY <1>2 DEF Resume, Halt, Recover
      <3>3. \A job : ~OtherWorker(job) /\ \A w : ~TakeJob(w, job)
        BY <2>2 DEF OtherWorker, TakeJob
      <3>4. \A w \in Workers :
              /\ ~Acquire(w) /\ ~Refuse(w) /\ ~ReadRun(w) /\ ~MarkRunning(w) /\ ~CreateStep(w)
              /\ ~Execute(w) /\ ~CompleteRun(w) /\ ~Leave(w) /\ ~Throw(w) /\ ~Crash(w)
              /\ \A n : ~EnqueueNext(w, n)
        BY <2>1 DEF Untouched, Acquire, Refuse, ReadRun, MarkRunning, CreateStep, Execute, CompleteRun,
           EnqueueNext, Leave, Throw, Crash, Working
      <3> QED
        BY <3>1, <3>2, <3>3, <3>4 DEF RunStep, WorkerGoes
    <2>4. ASSUME NEW type, Trigger(type)
          PROVE  PublishedInv'
      <3>1. Accepted /\ run' # "absent"
        BY <2>4 DEF Trigger
      <3> QED
        BY <1>1, <3>1, AcceptedKept DEF PublishedInv
    <2>5. CASE SlotsExpire
      BY <1>2, <2>1, <2>5 DEF SlotsExpire, PublishedInv, Untouched, runVars
    <2> QED
      BY <2>3, <2>4, <2>5
  <1>3. CASE run # "absent"
    <2>1. run' # "absent"
      BY <1>3 DEF RunStep, WorkerGoes, Trigger, EnqueueNode, ApiDies, SlotsExpire, Halt, Resume, Recover,
         OtherWorker, TakeJob, Acquire, Refuse, ReadRun, MarkRunning, CreateStep, Execute, CompleteRun,
         EnqueueNext, Leave, Throw, Crash, runVars, SetRun, Closed
    <2> QED
      BY <1>1, <1>3, <2>1, AcceptedKept DEF PublishedInv
  <1> QED
    BY <1>2, <1>3

-----------------------------------------------------------------------------
(* The theorems *)

LEMMA InitInv == Init => IInv
  <1> SUFFICES ASSUME Init
               PROVE  IInv
    OBVIOUS
  <1>1. Zero \in [LoopNodes -> Nat] /\ \A n \in LoopNodes : Zero[n] = 0
    BY DEF Zero
  <1>2. IdleWorker \in Hand /\ IdleWorker.at = "idle"
    BY <1>1 DEF IdleWorker, Hand, Positions, Working
  <1>3. \A w \in Workers : worker[w].at = "idle"
    BY <1>2 DEF Init
  <1>4. TypeOK
    <2>1. IsABag(waiting) /\ BagToSet(waiting) \subseteq Jobs
      BY DEF Init, EmptyBag, SetToBag, IsABag, BagToSet
    <2>2. worker \in [Workers -> Hand]
      BY <1>2 DEF Init
    <2>3. api \in [at : {"idle", "trigger", "requeue"}, node : Nodes \union {None}]
      BY DEF Init, IdleApi
    <2>4. overwrote \in BOOLEAN /\ expired \in BOOLEAN
      BY DEF Init
    <2> QED
      BY <1>1, <2>1, <2>2, <2>3, <2>4 DEF Init, WalkInit, TypeOK, RunStatus, Causes
  <1>5. Equipped
    BY <1>3 DEF Init, IdleApi, Equipped
  <1>6. SlotsInv
    <2>1. Counted = {} /\ Live = {} /\ slots = 0
      BY <1>3 DEF Init, Counted, Live, Working
    <2> QED
      <3>1. Cardinality(Counted) = 0 /\ Cardinality(Live) = 0 /\ SlotLimit \in Nat
        BY <2>1, FS_EmptySet
      <3> QED
        BY <2>1, <3>1 DEF SlotsInv, SlotsBounded, Live
  <1>7. LateInv
    BY DEF Init, LateInv, Closed
  <1>8. RoundsInv
    <2>1. 0 < MaxIterations
      BY GraphAssumption
    <2>2. counters = Zero /\ rounds = Zero
      BY DEF Init
    <2> QED
      BY <1>1, <2>1, <2>2 DEF RoundsInv
  <1>9. CarriedInv
    BY <1>3 DEF Init, CarriedInv
  <1>10. WalkInv /\ CyclesReal
    BY WalkInitInv DEF Init
  <1>11. PublishedInv
    BY <1>3 DEF Init, IdleApi, PublishedInv, Untouched
  <1> QED
    BY <1>4, <1>5, <1>6, <1>7, <1>8, <1>9, <1>10, <1>11 DEF IInv

\* A step that leaves the run alone keeps what is said of the run.
LEMMA RunKept ==
  ASSUME IInv,
         UNCHANGED <<runVars, waiting, slotVars, worker, api, causes, commands, faults>>
  PROVE  TypeOK' /\ Equipped' /\ SlotsInv' /\ LateInv' /\ RoundsInv' /\ CarriedInv'
  <1> USE DEF runVars, slotVars
  <1>1. TypeOK' /\ Equipped'
    BY DEF IInv, TypeOK, Equipped
  <1>2. SlotsInv' /\ LateInv' /\ RoundsInv'
    BY DEF IInv, SlotsInv, SlotsBounded, Counted, LateInv, Begun, RoundsInv
  <1>3. CarriedInv'
    BY DEF IInv, CarriedInv, Accounted, Carried, Carries
  <1> QED
    BY <1>1, <1>2, <1>3

LEMMA StutterInv == IInv /\ UNCHANGED vars => IInv'
  <1> SUFFICES ASSUME IInv, UNCHANGED vars
               PROVE  IInv'
    OBVIOUS
  <1>1. UNCHANGED <<runVars, waiting, slotVars, worker, api, causes, commands, faults>>
    BY DEF vars
  <1>2. WalkInv' /\ CyclesReal'
    BY WalkStutter DEF IInv, vars, runVars
  <1>3. PublishedInv'
    BY AcceptedKept DEF IInv, PublishedInv, Untouched, vars, runVars
  <1> QED
    BY <1>1, <1>2, <1>3, RunKept DEF IInv

LEMMA RunStepInv == IInv /\ RunStep /\ UNCHANGED walk => IInv'
  <1> SUFFICES ASSUME IInv, RunStep, walk' = walk
               PROVE  IInv'
    OBVIOUS
  <1>1. TypeOK' /\ Equipped' /\ SlotsInv' /\ LateInv' /\ RoundsInv' /\ CarriedInv'
    BY TypesNext, SlotsNext, LateNext, RoundsNext, CarriedNext DEF IInv, Types
  <1>2. graph' = graph
    BY DEF RunStep, WorkerGoes, Trigger, EnqueueNode, ApiDies, SlotsExpire, Halt, Resume, Recover,
       OtherWorker, TakeJob, Acquire, Refuse, ReadRun, MarkRunning, CreateStep, Execute, CompleteRun,
       EnqueueNext, Leave, Throw, Crash, runVars
  <1>3. WalkInv' /\ CyclesReal'
    BY <1>2, WalkStutter DEF IInv
  <1>4. PublishedInv'
    BY PublishedNext DEF IInv
  <1> QED
    BY <1>1, <1>3, <1>4 DEF IInv

LEMMA NextInv == IInv /\ Next => IInv'
  <1> SUFFICES ASSUME IInv, Next
               PROVE  IInv'
    OBVIOUS
  <1>1. CASE RunStep /\ UNCHANGED walk
    BY <1>1, RunStepInv
  <1>2. CASE Validate /\ UNCHANGED <<run, counters, last, late, rounds, overwrote, waiting, slotVars, worker,
                                     api, causes, commands, faults>>
    <2>1. graph' = graph
      BY <1>2 DEF Validate, StartFrom, Follow, Return
    <2>2. TypeOK' /\ Equipped' /\ SlotsInv' /\ LateInv' /\ RoundsInv' /\ CarriedInv'
      BY <1>2, <2>1, RunKept DEF runVars
    <2>3. WalkInv' /\ CyclesReal'
      BY <1>2, ValidateInv DEF IInv
    <2>4. PublishedInv'
      <3>1. run = "absent"
        BY <1>2, AcceptedStays DEF IInv, PublishedInv
      <3> QED
        BY <1>2, <3>1 DEF IInv, PublishedInv, Untouched
    <2> QED
      BY <2>2, <2>3, <2>4 DEF IInv
  <1> QED
    BY <1>1, <1>2 DEF Next

LEMMA SpecInv == Spec => []IInv
  <1>1. IInv /\ [Next]_vars => IInv'
    BY NextInv, StutterInv
  <1> QED
    BY <1>1, InitInv, PTL DEF Spec

(* Every state of the run, the queue and the workers is of its type.               *)
THEOREM TypeCorrect == Spec => []TypeOK
  <1>1. IInv => TypeOK
    BY DEF IInv
  <1> QED
    BY <1>1, SpecInv, PTL

(* Until the counter expires, a workspace never runs more jobs at a time than      *)
(* acquire allows it, whatever crashes (workflow.service, acquire and release).    *)
THEOREM SlotsSuffice == Spec => []SlotsBounded
  <1>1. IInv => SlotsBounded
    <2>1. SUFFICES ASSUME IInv, ~expired
                   PROVE  SlotsBounded
      BY DEF SlotsBounded
    <2> QED
      BY <2>1 DEF IInv, SlotsInv
  <1> QED
    BY <1>1, SpecInv, PTL

(* After a run is cancelled or completed each worker begins at most one more step, *)
(* that of the job it had read the run for (workflow.processor).                   *)
THEOREM ClosedRunWindsDown == Spec => []LateStepsBounded
  <1>1. IInv => LateStepsBounded
    <2>1. SUFFICES ASSUME IInv
                   PROVE  LateStepsBounded
      OBVIOUS
    <2>2. Cardinality(Begun) \in Nat /\ Cardinality(Workers) \in Nat /\ late \in Nat
      BY <2>1, Subsets, FS_CardinalityType DEF IInv, TypeOK, Begun
    <2>3. late = 0 \/ late + Cardinality(Begun) <= Cardinality(Workers)
      BY <2>1 DEF IInv, LateInv
    <2> QED
      BY <2>2, <2>3 DEF LateStepsBounded
  <1> QED
    BY <1>1, SpecInv, PTL

(* A loop node answers "continue" less than maxIterations times, retries included, *)
(* unless a job beside it has written an older counter back (node-handler.         *)
(* registry, workflow.repository's setRun).                                        *)
THEOREM LoopsEnd == Spec => []LoopBounded
  <1>1. IInv => LoopBounded
    BY DEF IInv, RoundsInv, LoopBounded
  <1> QED
    BY <1>1, SpecInv, PTL

(* A run that is queued or running and that nothing moves has lost a job in one of *)
(* the ways the model names (workflow.service and workflow.processor).             *)
THEOREM StrandedHasCause == Spec => []StrandedNeedsCause
  <1>1. IInv => StrandedNeedsCause
    <2>1. SUFFICES ASSUME IInv, run \in {"queued", "running"}, ~Moving
                   PROVE  causes # {}
      BY DEF StrandedNeedsCause
    <2>2. ~Carried
      BY <2>1 DEF Moving, Carried, Carries
    <2>3. Accounted
      BY <2>1, <2>2 DEF IInv, CarriedInv
    <2> QED
      BY <2>1, <2>3 DEF Accounted, Closed
  <1> QED
    BY <1>1, SpecInv, PTL

(* A job goes round only where a loop node counts it: what the cycle check accepts *)
(* holds no round without one, though it looks only at the node an edge closes on  *)
(* and walks each node once (workflow-graph-validator, findCycles).                *)
THEOREM RunsHaveLoops == Spec => []CyclesHaveLoop
  <1>1. IInv => CyclesHaveLoop
    BY AcceptedEnds DEF IInv, PublishedInv, CyclesHaveLoop
  <1> QED
    BY <1>1, SpecInv, PTL

(* A draft is refused for a cycle only over a node that is on one                  *)
(* (workflow-graph-validator, findCycles).                                         *)
THEOREM RefusedRoundsReal == Spec => []CyclesReal
  <1>1. IInv => CyclesReal
    BY DEF IInv
  <1> QED
    BY <1>1, SpecInv, PTL
=============================================================================
