------------------------- MODULE AOStarPolicyProofs -------------------------
(***************************************************************************)
(* The policy that the AO* search extracts is strong, for every set of     *)
(* problems, with cycles or without; extraction, expansion and the walk to *)
(* a tip never panic.                                                      *)
(***************************************************************************)
EXTENDS AOStarProofs, FiniteSetTheorems

(***************************************************************************)
(* The invariant on marks, beside IInv.  A solved node has one mark, whose *)
(* children are solved, or is a goal; the marks of solved nodes close no   *)
(* cycle; and a node without a label has not marked itself.                *)
(***************************************************************************)
SolvedIds == {x \in Id : nodes[x].status = "Solved"}

ChoiceOK(x) ==
  IF nodes[x].connections = <<>>
  THEN nodes[x].config \in problem.goal
  ELSE \E i \in DOMAIN nodes[x].connections : MarkedArcs(x) = {i}

NoMarkedCycle ==
  \A S \in SUBSET SolvedIds : S # {} => \E x \in S : MarkedChildren(x) \cap S = {}

MarksRight ==
  /\ \A x \in SolvedIds : ChoiceOK(x) /\ MarkedChildren(x) \subseteq SolvedIds
  /\ NoMarkedCycle
  /\ \A x \in Id : nodes[x].status = "OnGoing" => x \notin MarkedChildren(x)

(* Connectors are unmarked until the node is revised. *)
BuiltUnmarked == pc = "outcomes" => \A i \in DOMAIN built : ~built[i].marked

(* The policy is made of solved nodes, and closed when nothing is left. *)
PolicyOK ==
  /\ pc \in {"extract", "done"} /\ nodes[root].status = "Solved" =>
       /\ root \in policy \cup work
       /\ policy \cup work \subseteq SolvedIds
       /\ \A x \in policy : MarkedChildren(x) \subseteq policy \cup work
       /\ pc = "done" => work = {}
  /\ pc \notin {"extract", "done", "panic"} => policy = {}

(* A walk that has found no candidate has a node without a label to look   *)
(* at.  Only the root has no parent.                                       *)
WalkGoesOn ==
  pc = "find" /\ tip = 0 => \E x \in work : nodes[x].status = "OnGoing"

OneRoot == \A x \in Id : nodes[x].parent = NoParent => x = root

PInv ==
  /\ MarksRight
  /\ BuiltUnmarked
  /\ PolicyOK
  /\ WalkGoesOn
  /\ OneRoot

----------------------------------------------------------------------------
(* A set of naturals has a least element. *)
LEMMA LeastNatural ==
  ASSUME NEW S \in SUBSET Nat, S # {}
  PROVE  \E m \in S : \A n \in S : m <= n
<1>1. PICK k \in S : TRUE
  OBVIOUS
<1> DEFINE B == 1..k
           R == {n \in S : n <= k}
           T == {1..n : n \in R}
<1>2. IsFiniteSet(B)
  BY FS_Interval
<1>3. IsWellFoundedOn(StrictSubsetOrdering(B), FiniteSubsetsOf(B))
  BY <1>2, FS_StrictSubsetOrderingWellFounded
<1>4. T \subseteq FiniteSubsetsOf(B) /\ T # {}
  <2>1. FiniteSubsetsOf(B) = SUBSET B
    BY <1>2, FS_FiniteSubsetsOfFinite
  <2>2. \A n \in R : 1..n \in SUBSET B
    OBVIOUS
  <2>3. T \subseteq SUBSET B
    BY <2>2, Zenon
  <2>4. k \in R
    BY <1>1
  <2>5. 1..k \in T
    BY <2>4, Zenon
  <2> QED
    BY <2>1, <2>3, <2>5
<1>5. PICK X \in T : \A Y \in T : <<Y, X>> \notin StrictSubsetOrdering(B)
  <2> HIDE DEF T, B
  <2> QED
    BY <1>3, <1>4, WFMin
<1>6. PICK m \in R : X = 1..m
  OBVIOUS
<1>7. ASSUME NEW n \in S, ~(m <= n)
      PROVE  FALSE
  <2>1. n \in R /\ n \in Nat /\ m \in Nat /\ n < m /\ m <= k
    BY <1>1, <1>7
  <2>2. 1..n \subseteq 1..m /\ m \in 1..m /\ m \notin 1..n /\ 1..m \subseteq B
    BY <2>1
  <2>3. 1..n # 1..m
    BY <2>2
  <2>4. <<1..n, X>> \in StrictSubsetOrdering(B)
    BY <1>6, <2>2, <2>3 DEF StrictSubsetOrdering
  <2>5. 1..n \in T
    BY <2>1, Zenon
  <2> QED
    BY <1>5, <2>4, <2>5
<1> QED
  BY <1>6, <1>7

(* Min of FiniteSetsExt is the least element of a set of positions. *)
LEMMA MinIsMember ==
  ASSUME NEW S \in SUBSET Nat, S # {}
  PROVE  Min(S) \in S /\ \A j \in S : Min(S) <= j
BY LeastNatural DEF Min

(* A node that has connections is expanded, with positions from 1 on. *)
LEMMA ExpandedArcs ==
  ASSUME IInv, NEW x \in Id, nodes[x].connections # <<>>
  PROVE  LET arcs == nodes[x].connections IN
         /\ Expanded(nodes, problem, nodes[x].config, arcs)
         /\ Len(problem.expansions[nodes[x].config]) \in Nat
         /\ DOMAIN arcs = 1..Len(problem.expansions[nodes[x].config])
         /\ DOMAIN arcs # {}
         /\ \A i \in DOMAIN arcs : arcs[i].children \subseteq Id
<1>1. IsSearchNode(nodes, problem, nodes[x]) /\ problem \in Problems
  BY DEF IInv, IsSearchGraph, Id
<1>2. Expanded(nodes, problem, nodes[x].config, nodes[x].connections)
  BY <1>1 DEF IsSearchNode
<1>3. nodes[x].config \in Config
  BY <1>1 DEF IsSearchNode
<1> QED
  BY <1>1, <1>2, <1>3, ExpansionFacts DEF Expanded, Covers, Id

(* Marked children are nodes. *)
LEMMA MarkedChildrenAreNodes ==
  ASSUME IInv, NEW x \in Id
  PROVE  MarkedChildren(x) \subseteq Id
<1>1. CASE nodes[x].connections = <<>>
  BY <1>1 DEF MarkedChildren, MarkedArcs
<1>2. CASE nodes[x].connections # <<>>
  BY <1>2, ExpandedArcs DEF MarkedChildren, MarkedArcs
<1> QED
  BY <1>1, <1>2

(* What marking one connector, or none, does. *)
LEMMA MarkFacts ==
  ASSUME NEW arcs, NEW i,
         \A j \in DOMAIN arcs : HasArcFields(arcs[j])
  PROVE  /\ DOMAIN Mark(arcs, i) = DOMAIN arcs
         /\ \A j \in DOMAIN arcs :
              /\ Mark(arcs, i)[j].marked = (j = i)
              /\ Mark(arcs, i)[j].children = arcs[j].children
              /\ Mark(arcs, i)[j].outcomeProbs = arcs[j].outcomeProbs
              /\ HasArcFields(Mark(arcs, i)[j])
BY DEF Mark, HasArcFields

----------------------------------------------------------------------------
(***************************************************************************)
(* Marks stay right when one node x is added or changes: it is solved      *)
(* already and keeps its marks; or it is labelled and marks solved nodes,  *)
(* none of which could have marked it; or it has no label and does not     *)
(* mark itself.                                                            *)
(***************************************************************************)
LEMMA MarksKept ==
  ASSUME IInv, MarksRight, problem' = problem, Id \subseteq Id',
         NEW x \in Id', Id' \subseteq Id \cup {x},
         \A y \in Id : y # x => nodes'[y] = nodes[y],
         x \in SolvedIds => /\ nodes'[x].status = "Solved"
                            /\ nodes'[x].config = nodes[x].config
                            /\ nodes'[x].connections = nodes[x].connections,
         x \notin SolvedIds /\ nodes'[x].status = "Solved" =>
           ChoiceOK(x)' /\ MarkedChildren(x)' \subseteq SolvedIds,
         nodes'[x].status = "OnGoing" => x \notin MarkedChildren(x)'
  PROVE  MarksRight'
<1>1. ASSUME NEW y \in Id, y # x
      PROVE  /\ MarkedChildren(y)' = MarkedChildren(y)
             /\ ChoiceOK(y) => ChoiceOK(y)'
  BY <1>1 DEF MarkedChildren, MarkedArcs, ChoiceOK
<1>2. SolvedIds \subseteq SolvedIds' /\ SolvedIds' \subseteq SolvedIds \cup {x}
  BY DEF SolvedIds
<1>3. ASSUME NEW y \in SolvedIds
      PROVE  ChoiceOK(y)' /\ MarkedChildren(y)' = MarkedChildren(y)
  <2>1. ChoiceOK(y) /\ y \in Id
    BY DEF MarksRight, SolvedIds
  <2>2. CASE y # x
    BY <1>1, <2>1, <2>2
  <2>3. CASE y = x
    BY <2>1, <2>3 DEF MarkedChildren, MarkedArcs, ChoiceOK
  <2> QED
    BY <2>2, <2>3
<1>4. ASSUME NEW y \in SolvedIds'
      PROVE  ChoiceOK(y)' /\ MarkedChildren(y)' \subseteq SolvedIds
  <2>1. CASE y \in SolvedIds
    BY <1>3, <2>1 DEF MarksRight
  <2>2. CASE y \notin SolvedIds
    BY <1>2, <2>2 DEF SolvedIds
  <2> QED
    BY <2>1, <2>2
<1>5. NoMarkedCycle'
  <2> SUFFICES ASSUME NEW S \in SUBSET (SolvedIds'), S # {}
               PROVE  \E y \in S : MarkedChildren(y)' \cap S = {}
    BY DEF NoMarkedCycle
  <2>1. CASE S \subseteq SolvedIds
    <3>1. PICK y \in S : MarkedChildren(y) \cap S = {}
      BY <2>1 DEF MarksRight, NoMarkedCycle
    <3> QED
      BY <1>3, <2>1, <3>1
  <2>2. CASE ~(S \subseteq SolvedIds)
    <3> DEFINE T == S \ {x}
    <3>1. x \in S /\ x \notin SolvedIds /\ T \subseteq SolvedIds
      BY <1>2, <2>2
    <3>2. CASE T = {}
      BY <1>4, <3>1, <3>2
    <3>3. CASE T # {}
      <4>1. PICK y \in T : MarkedChildren(y) \cap T = {}
        BY <3>1, <3>3 DEF MarksRight, NoMarkedCycle
      <4>2. x \notin MarkedChildren(y)
        BY <3>1, <4>1 DEF MarksRight
      <4> QED
        BY <1>3, <3>1, <4>1, <4>2
    <3> QED
      BY <3>2, <3>3
  <2> QED
    BY <2>1, <2>2
<1>6. ASSUME NEW y \in Id', nodes'[y].status = "OnGoing"
      PROVE  y \notin MarkedChildren(y)'
  <2>1. CASE y = x
    BY <1>6, <2>1
  <2>2. CASE y # x
    BY <1>1, <1>6, <2>2 DEF MarksRight
  <2> QED
    BY <2>1, <2>2
<1> QED
  BY <1>2, <1>4, <1>5, <1>6 DEF MarksRight

(* While the nodes do not change. *)
LEMMA MarksUnchanged ==
  ASSUME MarksRight, UNCHANGED <<problem, nodes>>
  PROVE  MarksRight'
<1>1. Id' = Id /\ SolvedIds' = SolvedIds
  BY DEF Id, SolvedIds
<1>2. \A x : MarkedArcs(x)' = MarkedArcs(x)
  BY DEF MarkedArcs
<1>3. \A x : MarkedChildren(x)' = MarkedChildren(x) /\ ChoiceOK(x)' = ChoiceOK(x)
  BY <1>2 DEF MarkedChildren, ChoiceOK
<1>4. NoMarkedCycle' = NoMarkedCycle
  BY <1>1, <1>3 DEF NoMarkedCycle
<1> QED
  BY <1>1, <1>3, <1>4 DEF MarksRight

(* A node without connections has no marked children. *)
LEMMA NoConnections ==
  ASSUME NEW x
  PROVE  /\ nodes[x].connections = <<>> => MarkedChildren(x) = {}
         /\ nodes'[x].connections = <<>> => MarkedChildren(x)' = {}
BY DEF MarkedChildren, MarkedArcs

(* A goal is solved without a mark. *)
LEMMA ExpandTerminalMarks ==
  ASSUME IInv, PInv, ExpandTerminal
  PROVE  MarksRight'
<1> DEFINE n == IF nodes[tip].config \in problem.goal
                THEN [nodes[tip] EXCEPT !.status = "Solved", !.cost = 0, !.prob = One]
                ELSE [nodes[tip] EXCEPT !.status = "Failed", !.cost = Inf, !.prob = 0]
<1>1. /\ pc = "expand" /\ problem' = problem /\ nodes[tip].connections = <<>>
      /\ tip \in Id /\ nodes[tip].status = "OnGoing"
  BY ExpandedNode DEF ExpandTerminal
<1>2. nodes' = [nodes EXCEPT ![tip] = n]
  BY <1>1 DEF ExpandTerminal
<1>3. HasNodeFields(nodes[tip])
  BY <1>1 DEF IInv, IsSearchGraph, IsSearchNode, Id
<1>4. /\ n.config = nodes[tip].config /\ n.connections = <<>>
      /\ n.status = IF n.config \in problem.goal THEN "Solved" ELSE "Failed"
  BY <1>1, <1>3 DEF HasNodeFields
<1> HIDE DEF n
<1>5. PICK x \in Id : x = tip
  BY <1>1
<1>6. Id' = Id /\ nodes'[x] = n /\ \A y \in Id : y # x => nodes'[y] = nodes[y]
  BY <1>2, <1>5 DEF Id
<1>7. MarkedChildren(x)' = {}
  BY <1>4, <1>6, NoConnections
<1>8. nodes'[x].status = "Solved" => ChoiceOK(x)'
  BY <1>1, <1>4, <1>6 DEF ChoiceOK
<1>9. x \notin SolvedIds /\ nodes'[x].status # "OnGoing"
  BY <1>1, <1>4, <1>5, <1>6 DEF SolvedIds
<1> QED
  BY <1>1, <1>6, <1>7, <1>8, <1>9, MarksKept DEF PInv

(* So is a new node. *)
LEMMA OutcomeInsertsMarks ==
  ASSUME IInv, PInv, OutcomeInserts
  PROVE  MarksRight'
<1> DEFINE n == NewNode(Outcome.to)
<1>1. nodes' = Append(nodes, n) /\ problem' = problem
  BY DEF OutcomeInserts
<1>2. /\ n.connections = <<>>
      /\ n.status = "Solved" => n.config \in problem.goal
  BY DEF NewNode
<1> HIDE DEF n
<1>3. IsSeq(nodes) /\ Len(nodes) \in Nat /\ Id = 1..Len(nodes)
  BY SeqFacts DEF IInv, IsSearchGraph, Id
<1>4. PICK x \in Nat : x = Len(nodes) + 1
  BY <1>3
<1>5. Id' = 1..x /\ nodes'[x] = n /\ \A y \in Id : nodes'[y] = nodes[y]
  BY <1>1, <1>3, <1>4, SeqAppended DEF Id
<1>6. Id \subseteq Id' /\ x \in Id' /\ Id' \subseteq Id \cup {x} /\ x \notin Id
  BY <1>3, <1>4, <1>5
<1>7. MarkedChildren(x)' = {}
  BY <1>2, <1>5, NoConnections
<1>8. nodes'[x].status = "Solved" => ChoiceOK(x)'
  BY <1>1, <1>2, <1>5 DEF ChoiceOK
<1>9. x \notin SolvedIds
  BY <1>6 DEF SolvedIds
<1> QED
  BY <1>1, <1>5, <1>6, <1>7, <1>8, <1>9, MarksKept DEF PInv

(* An expanded node has no mark yet. *)
LEMMA ExpandEndsMarks ==
  ASSUME IInv, PInv, ExpandEnds
  PROVE  MarksRight'
<1> DEFINE n == [nodes[tip] EXCEPT !.connections = built]
<1>1. pc = "outcomes" /\ problem' = problem /\ tip \in Id /\ nodes[tip].status = "OnGoing"
  BY ExpandedNode DEF ExpandEnds
<1>2. nodes' = [nodes EXCEPT ![tip] = n]
  BY <1>1 DEF ExpandEnds
<1>3. HasNodeFields(nodes[tip])
  BY <1>1 DEF IInv, IsSearchGraph, IsSearchNode, Id
<1>4. n.connections = built /\ n.status = "OnGoing"
  BY <1>1, <1>3 DEF HasNodeFields
<1> HIDE DEF n
<1>5. PICK x \in Id : x = tip
  BY <1>1
<1>6. Id' = Id /\ nodes'[x] = n /\ \A y \in Id : y # x => nodes'[y] = nodes[y]
  BY <1>2, <1>5 DEF Id
<1>7. MarkedChildren(x)' = {}
  BY <1>1, <1>4, <1>6 DEF MarkedChildren, MarkedArcs, PInv, BuiltUnmarked
<1>8. x \notin SolvedIds /\ nodes'[x].status # "Solved"
  BY <1>1, <1>4, <1>5, <1>6 DEF SolvedIds
<1> QED
  BY <1>1, <1>6, <1>7, <1>8, MarksKept DEF PInv

(* A label that is there stays. *)
LEMMA ReviseTerminalMarks ==
  ASSUME IInv, PInv, NEW x \in work, ReviseTerminal(x), problem' = problem
  PROVE  MarksRight'
<1> DEFINE n == IF nodes[x].status = "Solved"
                THEN [nodes[x] EXCEPT !.cost = 0, !.prob = One]
                ELSE [nodes[x] EXCEPT !.cost = Inf, !.prob = 0]
<1>1. x \in Id /\ HasNodeFields(nodes[x]) /\ nodes[x].status \in {"Solved", "Failed"}
  BY DEF IInv, ControlOK, IsSearchGraph, IsSearchNode, Id, ReviseTerminal, IsTerminal
<1>2. nodes' = [nodes EXCEPT ![x] = n]
  BY <1>1 DEF ReviseTerminal
<1>3. /\ n.config = nodes[x].config /\ n.connections = nodes[x].connections
      /\ n.status = nodes[x].status
  BY <1>1 DEF HasNodeFields
<1> HIDE DEF n
<1>4. Id' = Id /\ nodes'[x] = n /\ \A y \in Id : y # x => nodes'[y] = nodes[y]
  BY <1>1, <1>2 DEF Id
<1>5. /\ x \notin SolvedIds => nodes'[x].status # "Solved"
      /\ nodes'[x].status # "OnGoing"
  BY <1>1, <1>3, <1>4 DEF SolvedIds
<1>6. x \in SolvedIds => nodes'[x].status = "Solved"
  BY <1>3, <1>4 DEF SolvedIds
<1> QED
  BY <1>1, <1>3, <1>4, <1>5, <1>6, MarksKept DEF PInv

(* A node that fails has no mark that matters. *)
LEMMA ReviseFailsMarks ==
  ASSUME IInv, PInv, pc = "revise", NEW x \in work, ReviseFails(x), problem' = problem
  PROVE  MarksRight'
<1> DEFINE arcs == ClearMarks(nodes[x].connections)
           n    == Relabelled(nodes[x], "Failed", Inf, 0, arcs)
<1>1. x \in Id /\ IsSearchNode(nodes, problem, nodes[x]) /\ nodes[x].status = "OnGoing"
  BY RevisedNode DEF ReviseFails
<1>2. nodes' = [nodes EXCEPT ![x] = n]
  BY <1>1 DEF ReviseFails, Relabelled
<1> HIDE DEF arcs
<1>3. n.status = "Failed"
  BY <1>1, LabelRevised DEF IsSearchNode
<1> HIDE DEF n
<1>4. Id' = Id /\ nodes'[x] = n /\ \A y \in Id : y # x => nodes'[y] = nodes[y]
  BY <1>1, <1>2 DEF Id
<1>5. x \notin SolvedIds /\ nodes'[x].status # "Solved" /\ nodes'[x].status # "OnGoing"
  BY <1>1, <1>3, <1>4 DEF SolvedIds
<1> QED
  BY <1>1, <1>4, <1>5, MarksKept DEF PInv

(* The connector of a node that is solved is one that is solved. *)
LEMMA BestIsSolved ==
  ASSUME IInv, pc = "revise", NEW x \in work, ~IsTerminal(x),
         ChildrenStatus(nodes[x].connections) = "Solved"
  PROVE  LET arcs == nodes[x].connections
             best == BestArc(arcs)
         IN  /\ best \in DOMAIN arcs
             /\ arcs[best].children \subseteq SolvedIds
<1> DEFINE arcs   == nodes[x].connections
           solved == {i \in DOMAIN arcs : ArcStatus(arcs[i]) = "Solved"}
<1>1. x \in Id /\ Expanded(nodes, problem, nodes[x].config, arcs)
  BY RevisedNode
<1>2. arcs # <<>>
  BY <1>1 DEF Expanded
<1>3. /\ Len(problem.expansions[nodes[x].config]) \in Nat
      /\ DOMAIN arcs = 1..Len(problem.expansions[nodes[x].config])
      /\ \A i \in DOMAIN arcs : arcs[i].children \subseteq Id
  BY <1>1, <1>2, ExpandedArcs
<1>4. solved # {}
  BY DEF ChildrenStatus
<1>5. BestArc(arcs) = Min(solved)
  BY <1>4 DEF BestArc
<1>6. solved \in SUBSET Nat
  BY <1>3
<1>7. BestArc(arcs) \in solved
  <2> HIDE DEF solved
  <2> QED
    BY <1>4, <1>5, <1>6, MinIsMember
<1>8. ASSUME NEW y \in arcs[BestArc(arcs)].children
      PROVE  y \in SolvedIds
  <2>1. nodes[y].status \notin {"Failed", "OnGoing"}
    BY <1>7 DEF ArcStatus
  <2>2. y \in Id
    BY <1>3, <1>7
  <2>3. nodes[y].status \in Label
    BY <2>2 DEF IInv, IsSearchGraph, IsSearchNode, Id
  <2> QED
    BY <2>1, <2>2, <2>3 DEF Label, SolvedIds
<1> QED
  BY <1>7, <1>8

(* A node that is solved marks solved nodes, of which it was none. *)
LEMMA ReviseSolvesMarks ==
  ASSUME IInv, PInv, pc = "revise", NEW x \in work, ReviseSolves(x), problem' = problem
  PROVE  MarksRight'
<1>1. /\ x \in Id /\ IsSearchNode(nodes, problem, nodes[x]) /\ nodes[x].status = "OnGoing"
      /\ Expanded(nodes, problem, nodes[x].config, nodes[x].connections)
  BY RevisedNode DEF ReviseSolves
<1>2. PICK best : best = BestArc(nodes[x].connections)
  OBVIOUS
<1>3. /\ best \in DOMAIN nodes[x].connections
      /\ nodes[x].connections[best].children \subseteq SolvedIds
  BY <1>2, BestIsSolved DEF ReviseSolves
<1> DEFINE arcs == Mark(nodes[x].connections, best)
           cost == ArcCost(nodes[x].connections[best])
           prob == ArcProbability(nodes[x].connections[best])
           n    == Relabelled(nodes[x], "Solved", cost, prob, arcs)
<1>4. nodes' = [nodes EXCEPT ![x] = n]
  BY <1>1, <1>2 DEF ReviseSolves, Relabelled
<1>5. /\ DOMAIN arcs = DOMAIN nodes[x].connections
      /\ \A j \in DOMAIN arcs : /\ arcs[j].marked = (j = best)
                                /\ arcs[j].children = nodes[x].connections[j].children
  BY <1>1, MarkFacts DEF Expanded, Covers
<1> HIDE DEF arcs, cost, prob
<1>6. n.connections = arcs /\ n.status = "Solved"
  BY <1>1, LabelRevised DEF IsSearchNode
<1> HIDE DEF n
<1>7. Id' = Id /\ nodes'[x] = n /\ \A y \in Id : y # x => nodes'[y] = nodes[y]
  BY <1>1, <1>4 DEF Id
<1>8. MarkedArcs(x)' = {best}
  BY <1>3, <1>5, <1>6, <1>7 DEF MarkedArcs
<1>9. ChoiceOK(x)' /\ MarkedChildren(x)' \subseteq SolvedIds
  <2>1. nodes'[x].connections = arcs /\ arcs # <<>>
    BY <1>3, <1>5, <1>6, <1>7
  <2> QED
    BY <1>3, <1>5, <1>8, <2>1 DEF ChoiceOK, MarkedChildren
<1>10. x \notin SolvedIds /\ nodes'[x].status # "OnGoing"
  BY <1>1, <1>6, <1>7 DEF SolvedIds
<1> QED
  BY <1>1, <1>7, <1>9, <1>10, MarksKept DEF PInv

(* A node that stays without a label is no child of its own: reading its   *)
(* label, while it is borrowed, would have panicked.                       *)
LEMMA ReviseOnGoingMarks ==
  ASSUME IInv, PInv, pc = "revise", NEW x \in work, ReviseOnGoing(x), problem' = problem
  PROVE  MarksRight'
<1>1. /\ x \in Id /\ IsSearchNode(nodes, problem, nodes[x]) /\ nodes[x].status = "OnGoing"
      /\ Expanded(nodes, problem, nodes[x].config, nodes[x].connections)
  BY RevisedNode DEF ReviseOnGoing
<1>2. PICK best : best = BestArc(nodes[x].connections)
  OBVIOUS
<1> DEFINE arcs == Mark(nodes[x].connections, best)
           cost == ArcCost(nodes[x].connections[best])
           prob == ArcProbability(nodes[x].connections[best])
           n    == Recosted(nodes[x], cost, prob, arcs)
<1>3. nodes' = [nodes EXCEPT ![x] = n]
  BY <1>1, <1>2 DEF ReviseOnGoing, Recosted
<1>4. /\ DOMAIN arcs = DOMAIN nodes[x].connections
      /\ \A j \in DOMAIN arcs : arcs[j].children = nodes[x].connections[j].children
  BY <1>1, MarkFacts DEF Expanded, Covers
<1> HIDE DEF arcs, cost, prob
<1>5. n.connections = arcs /\ n.status = "OnGoing"
  BY <1>1, CostRevised DEF IsSearchNode
<1> HIDE DEF n
<1>6. Id' = Id /\ nodes'[x] = n /\ \A y \in Id : y # x => nodes'[y] = nodes[y]
  BY <1>1, <1>3 DEF Id
<1>7. ASSUME NEW i \in DOMAIN nodes[x].connections
      PROVE  x \notin nodes[x].connections[i].children
  <2>1. nodes[x].connections # <<>>
    BY <1>7
  <2>2. /\ Len(problem.expansions[nodes[x].config]) \in Nat
        /\ DOMAIN nodes[x].connections = 1..Len(problem.expansions[nodes[x].config])
    BY <1>1, <2>1, ExpandedArcs
  <2>3. \A j \in DOMAIN nodes[x].connections : ArcStatus(nodes[x].connections[j]) # "Solved"
    BY DEF ReviseOnGoing, ChildrenStatus
  <2>4. \A j \in 1..(i-1) : j \in DOMAIN nodes[x].connections
    BY <2>2
  <2>5. i \notin SelfArcs(x)
    BY DEF ReviseOnGoing
  <2> QED
    BY <2>3, <2>4, <2>5 DEF SelfArcs
<1>8. x \notin MarkedChildren(x)'
  BY <1>4, <1>5, <1>6, <1>7 DEF MarkedChildren, MarkedArcs
<1>9. x \notin SolvedIds /\ nodes'[x].status # "Solved"
  BY <1>1, <1>5, <1>6 DEF SolvedIds
<1> QED
  BY <1>1, <1>6, <1>8, <1>9, MarksKept DEF PInv

----------------------------------------------------------------------------
(* The invariant is kept, part by part. *)
LEMMA InitiallyPInv == Init => PInv
<1> SUFFICES ASSUME Init PROVE PInv
  OBVIOUS
<1>1. /\ Id = {1} /\ nodes[1].connections = <<>> /\ nodes[1].status = "OnGoing"
      /\ pc = "loop" /\ policy = {}
  BY DEF Init, Id
<1>2. SolvedIds = {}
  BY <1>1 DEF SolvedIds
<1>3. MarksRight
  BY <1>1, <1>2, NoConnections DEF MarksRight, NoMarkedCycle
<1>4. OneRoot
  BY <1>1 DEF OneRoot, root
<1> QED
  BY <1>1, <1>3, <1>4 DEF PInv, BuiltUnmarked, PolicyOK, WalkGoesOn

LEMMA MarksStep ==
  ASSUME IInv, PInv, [Next]_vars
  PROVE  MarksRight'
<1>1. CASE UNCHANGED <<problem, nodes>>
  BY <1>1, MarksUnchanged DEF PInv
<1>2. CASE ReviseStep
  <2>1. PICK x \in work : \/ ReviseTerminal(x)
                          \/ ReviseFails(x)
                          \/ ReviseSolves(x)
                          \/ ReviseOnGoing(x)
                          \/ RevisePanics(x)
    BY <1>2 DEF ReviseStep
  <2>2. pc = "revise" /\ problem' = problem
    BY <1>2 DEF ReviseStep
  <2>3. CASE RevisePanics(x)
    BY <1>1, <2>2, <2>3 DEF RevisePanics
  <2> QED
    BY <2>1, <2>2, <2>3, ReviseTerminalMarks, ReviseFailsMarks, ReviseSolvesMarks,
       ReviseOnGoingMarks
<1> QED
  BY <1>1, <1>2, ExpandTerminalMarks, OutcomeInsertsMarks, ExpandEndsMarks
     DEF Next, Find, Expand, Revise, Extract, BeginIteration, FindStep, FindEnds,
         ExpandSkips, ExpandBegins, OutcomeMerges, NextConnector, ReviseEnds, Terminate,
         ExtractStep, ExtractEnds, vars

(* A connector starts unmarked, and adding children leaves it so. *)
LEMMA BuiltStep ==
  ASSUME IInv, PInv, [Next]_vars
  PROVE  BuiltUnmarked'
<1> SUFFICES ASSUME pc' = "outcomes", NEW i \in DOMAIN built'
             PROVE  ~built'[i].marked
  BY DEF BuiltUnmarked
<1>1. ~EmptyConnector.marked
  BY DEF EmptyConnector
<1>2. CASE ExpandBegins
  BY <1>1, <1>2 DEF ExpandBegins
<1>3. ASSUME pc = "outcomes", NEW id, NEW p, AddChild(id, p)
      PROVE  ~built'[i].marked
  <2>1. Len(built) \in DOMAIN built /\ ~built[Len(built)].marked
    BY <1>3, LastConnector DEF PInv, BuiltUnmarked
  <2>2. DOMAIN built' = DOMAIN built
    BY <1>3 DEF AddChild
  <2>3. ~built[i].marked
    BY <1>3, <2>2 DEF PInv, BuiltUnmarked
  <2> QED
    BY <1>3, <2>1, <2>2, <2>3 DEF AddChild
<1>4. CASE OutcomeMerges
  BY <1>3, <1>4 DEF OutcomeMerges
<1>5. CASE OutcomeInserts
  BY <1>3, <1>5 DEF OutcomeInserts
<1>6. CASE NextConnector
  <2>1. pc = "outcomes" /\ built' = Append(built, EmptyConnector)
    BY <1>6 DEF NextConnector
  <2>2. /\ DOMAIN built' = 1..(Len(built) + 1)
        /\ \A j \in DOMAIN built : built'[j] = built[j]
        /\ built'[Len(built) + 1] = EmptyConnector
    BY <2>1, LastConnector, SeqAppended
  <2>3. DOMAIN built = 1..Len(built) /\ Len(built) \in Nat
    BY <2>1, LastConnector
  <2>4. i \in DOMAIN built \/ i = Len(built) + 1
    BY <2>2, <2>3
  <2> QED
    BY <1>1, <2>1, <2>2, <2>4 DEF PInv, BuiltUnmarked
<1>7. CASE UNCHANGED vars
  BY <1>7 DEF PInv, BuiltUnmarked, vars
<1> QED
  BY <1>2, <1>4, <1>5, <1>6, <1>7
     DEF Next, Find, Expand, Revise, Extract, BeginIteration, FindStep, FindSkipsTerminal,
         FindReturns, FindFollowsMark, FindRemembers, FindEnds, ExpandSkips, ExpandTerminal,
         ExpandEnds, BeginRevision, ReviseStep, ReviseTerminal, ReviseFails, ReviseSolves,
         ReviseOnGoing, RevisePanics, ReviseEnds, Terminate, ExtractStep, ExtractSkips,
         ExtractVisits, ExtractEnds

(* Ids are positive. *)
LEMMA IdFacts ==
  ASSUME IInv
  PROVE  root \in Id /\ Id \subseteq Nat \ {0}
<1>1. Len(nodes) \in Nat /\ Id = 1..Len(nodes)
  BY SeqFacts DEF IInv, IsSearchGraph, Id
<1> QED
  BY <1>1 DEF IInv, IsSearchGraph, Id

(* The walk goes on below a connector that is not decided. *)
LEMMA WalkStep ==
  ASSUME IInv, PInv, [Next]_vars
  PROVE  WalkGoesOn'
<1> SUFFICES ASSUME pc' = "find", tip' = 0
             PROVE  \E y \in work' : nodes'[y].status = "OnGoing"
  BY DEF WalkGoesOn
<1>1. CASE BeginIteration
  BY <1>1, IdFacts, NotTerminal DEF BeginIteration
<1>2. CASE FindStep
  <2>1. PICK x \in work : \/ FindSkipsTerminal(x)
                          \/ FindReturns(x)
                          \/ FindFollowsMark(x)
                          \/ FindRemembers(x)
    BY <1>2 DEF FindStep
  <2>2. x \in Id /\ x # 0 /\ pc = "find" /\ nodes' = nodes
    BY <1>2, IdFacts DEF IInv, ControlOK, FindStep
  <2>3. CASE FindSkipsTerminal(x)
    <3>1. PICK y \in work : nodes[y].status = "OnGoing"
      BY <2>2, <2>3 DEF FindSkipsTerminal, PInv, WalkGoesOn
    <3>2. y # x
      BY <2>3, <3>1 DEF FindSkipsTerminal, IsTerminal
    <3> QED
      BY <2>2, <2>3, <3>1, <3>2 DEF FindSkipsTerminal
  <2>4. CASE FindFollowsMark(x)
    <3>1. PICK i \in FirstMarked(x) :
                 /\ ArcStatus(nodes[x].connections[i]) = "OnGoing"
                 /\ work' = (work \ {x}) \cup nodes[x].connections[i].children
      BY <2>4 DEF FindFollowsMark
    <3>2. PICK y \in nodes[x].connections[i].children : nodes[y].status = "OnGoing"
      BY <3>1 DEF ArcStatus
    <3> QED
      BY <2>2, <3>1, <3>2
  <2> QED
    BY <2>1, <2>2, <2>3, <2>4 DEF FindReturns, FindRemembers
<1>3. CASE UNCHANGED vars
  BY <1>3 DEF vars, PInv, WalkGoesOn
<1> QED
  BY <1>1, <1>2, <1>3
     DEF Next, Find, Expand, Revise, Extract, FindEnds, ExpandSkips, ExpandTerminal,
         ExpandBegins, OutcomeMerges, OutcomeInserts, NextConnector, ExpandEnds,
         BeginRevision, ReviseStep, ReviseTerminal, ReviseFails, ReviseSolves,
         ReviseOnGoing, RevisePanics, ReviseEnds, Terminate, ExtractStep, ExtractSkips,
         ExtractVisits, ExtractEnds

(* Only a new node gets a parent, which is the node being expanded. *)
LEMMA ParentStep ==
  ASSUME IInv, PInv, [Next]_vars
  PROVE  OneRoot'
<1>1. ASSUME NEW x \in Id, NEW n, nodes' = [nodes EXCEPT ![x] = n], n.parent = nodes[x].parent
      PROVE  OneRoot'
  BY <1>1 DEF PInv, OneRoot, Id
<1>2. CASE UNCHANGED nodes
  BY <1>2 DEF PInv, OneRoot, Id
<1>3. \A y \in Id : HasNodeFields(nodes[y])
  BY DEF IInv, IsSearchGraph, IsSearchNode, Id
<1>4. CASE OutcomeInserts
  <2>1. /\ nodes' = Append(nodes, NewNode(Outcome.to)) /\ IsSeq(nodes)
        /\ NewNode(Outcome.to).parent = tip /\ tip \in Id
    BY <1>4, ExpandedNode DEF OutcomeInserts, NewNode, IInv, IsSearchGraph
  <2>2. /\ Id = 1..Len(nodes) /\ Id' = 1..(Len(nodes) + 1) /\ Len(nodes) \in Nat
        /\ \A y \in Id : nodes'[y] = nodes[y]
        /\ nodes'[Len(nodes) + 1].parent = tip
    BY <2>1, SeqFacts, SeqAppended DEF Id
  <2>3. \A y \in Id' : y \in Id \/ y = Len(nodes) + 1
    BY <2>2
  <2>4. tip # NoParent
    BY <2>1, IdFacts DEF NoParent
  <2> QED
    BY <2>2, <2>3, <2>4 DEF PInv, OneRoot
<1>5. CASE ExpandTerminal
  <2> DEFINE n == IF nodes[tip].config \in problem.goal
                  THEN [nodes[tip] EXCEPT !.status = "Solved", !.cost = 0, !.prob = One]
                  ELSE [nodes[tip] EXCEPT !.status = "Failed", !.cost = Inf, !.prob = 0]
  <2>1. tip \in Id
    BY <1>5, ExpandedNode DEF ExpandTerminal
  <2>2. nodes' = [nodes EXCEPT ![tip] = n]
    BY <1>5, <2>1 DEF ExpandTerminal
  <2>3. n.parent = nodes[tip].parent
    BY <1>3, <2>1 DEF HasNodeFields
  <2> HIDE DEF n
  <2> QED
    BY <1>1, <2>1, <2>2, <2>3
<1>6. CASE ExpandEnds
  <2>1. tip \in Id
    BY <1>6, ExpandedNode DEF ExpandEnds
  <2>2. nodes' = [nodes EXCEPT ![tip] = [nodes[tip] EXCEPT !.connections = built]]
    BY <1>6, <2>1 DEF ExpandEnds
  <2>3. [nodes[tip] EXCEPT !.connections = built].parent = nodes[tip].parent
    BY <1>3, <2>1 DEF HasNodeFields
  <2> QED
    BY <1>1, <2>1, <2>2, <2>3
<1>7. CASE ReviseStep
  <2>1. PICK x \in work : \/ ReviseTerminal(x)
                          \/ ReviseFails(x)
                          \/ ReviseSolves(x)
                          \/ ReviseOnGoing(x)
                          \/ RevisePanics(x)
    BY <1>7 DEF ReviseStep
  <2>2. x \in Id /\ HasNodeFields(nodes[x])
    BY <1>3 DEF IInv, ControlOK
  <2> DEFINE best == BestArc(nodes[x].connections)
             arcs == Mark(nodes[x].connections, best)
             cost == ArcCost(nodes[x].connections[best])
             prob == ArcProbability(nodes[x].connections[best])
  <2>3. CASE ReviseTerminal(x)
    <3> DEFINE n == IF nodes[x].status = "Solved"
                    THEN [nodes[x] EXCEPT !.cost = 0, !.prob = One]
                    ELSE [nodes[x] EXCEPT !.cost = Inf, !.prob = 0]
    <3>1. nodes' = [nodes EXCEPT ![x] = n]
      BY <2>2, <2>3 DEF ReviseTerminal
    <3>2. n.parent = nodes[x].parent
      BY <2>2 DEF HasNodeFields
    <3> HIDE DEF n
    <3> QED
      BY <1>1, <2>2, <3>1, <3>2
  <2>4. CASE ReviseFails(x)
    <3> DEFINE n == Relabelled(nodes[x], "Failed", Inf, 0, ClearMarks(nodes[x].connections))
    <3>1. nodes' = [nodes EXCEPT ![x] = n]
      BY <2>2, <2>4 DEF ReviseFails, Relabelled
    <3> HIDE DEF best, arcs, cost, prob
    <3>2. n.parent = nodes[x].parent
      BY <2>2, LabelRevised
    <3> HIDE DEF n
    <3> QED
      BY <1>1, <2>2, <3>1, <3>2
  <2>5. CASE ReviseSolves(x)
    <3> DEFINE n == Relabelled(nodes[x], "Solved", cost, prob, arcs)
    <3>1. nodes' = [nodes EXCEPT ![x] = n]
      BY <2>2, <2>5 DEF ReviseSolves, Relabelled
    <3> HIDE DEF best, arcs, cost, prob
    <3>2. n.parent = nodes[x].parent
      BY <2>2, LabelRevised
    <3> HIDE DEF n
    <3> QED
      BY <1>1, <2>2, <3>1, <3>2
  <2>6. CASE ReviseOnGoing(x)
    <3> DEFINE n == Recosted(nodes[x], cost, prob, arcs)
    <3>1. nodes' = [nodes EXCEPT ![x] = n]
      BY <2>2, <2>6 DEF ReviseOnGoing, Recosted
    <3> HIDE DEF best, arcs, cost, prob
    <3>2. n.parent = nodes[x].parent
      BY <2>2, CostRevised
    <3> HIDE DEF n
    <3> QED
      BY <1>1, <2>2, <3>1, <3>2
  <2> QED
    BY <1>2, <2>1, <2>3, <2>4, <2>5, <2>6 DEF RevisePanics
<1> QED
  BY <1>2, <1>4, <1>5, <1>6, <1>7
     DEF Next, Find, Expand, Revise, Extract, BeginIteration, FindStep, FindEnds,
         ExpandSkips, ExpandBegins, OutcomeMerges, NextConnector, ReviseEnds, Terminate,
         ExtractStep, ExtractEnds, vars

(* Visiting a solved node adds the children of its one mark. *)
LEMMA VisitedChildren ==
  ASSUME IInv, MarksRight, NEW x \in SolvedIds
  PROVE  /\ UNION {nodes[x].connections[i].children : i \in FirstMarked(x)} = MarkedChildren(x)
         /\ nodes[x].connections # <<>> => MarkedArcs(x) # {}
<1>1. ChoiceOK(x) /\ x \in Id
  BY DEF MarksRight, SolvedIds
<1>2. CASE nodes[x].connections = <<>>
  BY <1>2 DEF MarkedChildren, FirstMarked, MarkedArcs
<1>3. CASE nodes[x].connections # <<>>
  <2>1. PICK i \in DOMAIN nodes[x].connections : MarkedArcs(x) = {i}
    BY <1>1, <1>3 DEF ChoiceOK
  <2>2. i <= i
    BY <1>1, <1>3, ExpandedArcs
  <2>3. FirstMarked(x) = MarkedArcs(x)
    BY <2>1, <2>2 DEF FirstMarked
  <2> QED
    BY <2>1, <2>3 DEF MarkedChildren
<1> QED
  BY <1>2, <1>3

LEMMA PolicyStep ==
  ASSUME IInv, PInv, [Next]_vars
  PROVE  PolicyOK'
<1>1. CASE UNCHANGED vars
  BY <1>1 DEF vars, PInv, PolicyOK, SolvedIds, Id, MarkedChildren, MarkedArcs
<1>2. CASE Find \/ Expand \/ Revise
  <2>1. pc \notin {"extract", "done", "panic"} /\ pc' \notin {"extract", "done"}
        /\ policy' = policy
    BY <1>2 DEF Find, Expand, Revise, BeginIteration, FindStep, FindSkipsTerminal,
       FindReturns, FindFollowsMark, FindRemembers, FindEnds, ExpandSkips, ExpandTerminal,
       ExpandBegins, OutcomeMerges, OutcomeInserts, NextConnector, ExpandEnds,
       BeginRevision, ReviseStep, ReviseTerminal, ReviseFails, ReviseSolves,
       ReviseOnGoing, RevisePanics, ReviseEnds
  <2> QED
    BY <2>1 DEF PInv, PolicyOK
<1>3. CASE Terminate \/ Extract
  <2>1. UNCHANGED nodes
    BY <1>3 DEF Terminate, Extract, ExtractStep, ExtractEnds
  <2>2. /\ SolvedIds' = SolvedIds
        /\ \A x : MarkedChildren(x)' = MarkedChildren(x)
    BY <2>1 DEF SolvedIds, Id, MarkedChildren, MarkedArcs
  <2>3. CASE Terminate
    BY <2>1, <2>2, <2>3, IdFacts DEF Terminate, PInv, PolicyOK, SolvedIds
  <2>4. CASE Extract
    <3>1. /\ pc = "extract" /\ nodes[root].status = "Solved"
          /\ root \in policy \cup work
          /\ policy \cup work \subseteq SolvedIds
          /\ \A x \in policy : MarkedChildren(x) \subseteq policy \cup work
      BY <2>4 DEF Extract, ExtractStep, ExtractEnds, IInv, ControlOK, PInv, PolicyOK
    <3>2. CASE ExtractStep
      <4>1. PICK x \in work : ExtractSkips(x) \/ ExtractVisits(x)
        BY <3>2 DEF ExtractStep
      <4>2. CASE ExtractSkips(x)
        BY <2>1, <2>2, <3>1, <4>2 DEF ExtractSkips, PolicyOK
      <4>3. CASE ExtractVisits(x)
        <5>1. /\ policy' = policy \cup {x}
              /\ work' = (work \ {x}) \cup MarkedChildren(x)
              /\ pc' = pc
          BY <3>1, <4>3, VisitedChildren DEF ExtractVisits, PInv
        <5>2. MarkedChildren(x) \subseteq SolvedIds
          BY <3>1 DEF PInv, MarksRight
        <5> QED
          BY <2>1, <2>2, <3>1, <5>1, <5>2 DEF PolicyOK
      <4> QED
        BY <4>1, <4>2, <4>3
    <3>3. CASE ExtractEnds
      BY <2>1, <2>2, <3>1, <3>3 DEF ExtractEnds, PolicyOK
    <3> QED
      BY <2>4, <3>2, <3>3 DEF Extract
  <2> QED
    BY <1>3, <2>3, <2>4
<1> QED
  BY <1>1, <1>2, <1>3 DEF Next

(* The invariants hold together, throughout. *)
LEMMA AlwaysPInv == Spec => [](IInv /\ PInv)
<1>1. ASSUME IInv, PInv, [Next]_vars PROVE PInv'
  BY <1>1, MarksStep, BuiltStep, PolicyStep, WalkStep, ParentStep DEF PInv
<1> QED
  BY <1>1, InitiallyPInv, AlwaysInv, PTL DEF Spec

(* No step but one of a revision panics. *)
LEMMA PanickingStep ==
  ASSUME IInv, PInv, [Next]_vars, pc' = "panic"
  PROVE  pc \in {"revise", "panic"}
<1>1. ~FindEnds
  <2>1. CASE pc = "find" /\ work = {}
    BY <2>1 DEF PInv, WalkGoesOn, FindEnds
  <2> QED
    BY <2>1 DEF FindEnds
<1>2. ~OutcomeMerges
  <2> SUFFICES ASSUME OutcomeMerges PROVE FALSE
    OBVIOUS
  <2>1. /\ pc = "outcomes" /\ next \in DOMAIN Expansions[Len(built)]
        /\ nodes[front].config = Outcome.to /\ nodes[front].parent = NoParent
    BY DEF OutcomeMerges, Visited
  <2>2. nodes[front].config = problem.root
    BY <2>1 DEF IInv, ControlOK, IsSearchGraph, PInv, OneRoot
  <2>3. Len(built) \in DOMAIN Expansions /\ nodes[tip].config \in Config /\ problem \in Problems
    BY <2>1, LastConnector, ExpandedNode DEF IInv
  <2> QED
    BY <2>1, <2>2, <2>3, ProblemsAssumption DEF IsProblem, Outcome, Expansions
<1>3. ~ExtractStep
  <2> SUFFICES ASSUME ExtractStep PROVE FALSE
    OBVIOUS
  <2>1. PICK x \in work : ExtractSkips(x) \/ ExtractVisits(x)
    BY DEF ExtractStep
  <2>2. pc = "extract" /\ x \in SolvedIds
    BY DEF ExtractStep, IInv, ControlOK, PInv, PolicyOK
  <2> QED
    BY <2>1, <2>2, VisitedChildren DEF ExtractSkips, ExtractVisits, PInv
<1> QED
  BY <1>1, <1>2, <1>3
     DEF Next, Find, Expand, Revise, Extract, BeginIteration, FindStep,
         FindSkipsTerminal, FindReturns, FindFollowsMark, FindRemembers, ExpandSkips,
         ExpandTerminal, ExpandBegins, OutcomeInserts, NextConnector, ExpandEnds,
         BeginRevision, ReviseStep, ReviseEnds, Terminate, ExtractEnds, vars

----------------------------------------------------------------------------
(***************************************************************************)
(* What follows.                                                           *)
(***************************************************************************)
(* The policy StrongPolicy::new returns is strong, even for problems with  *)
(* recursion: children of a solved connector were solved before its node,  *)
(* and revise_node_cost never moves the mark of a solved node.             *)
THEOREM PolicyAlwaysStrong == Spec => []PolicyIsStrong
<1>1. ASSUME IInv, PInv PROVE PolicyIsStrong
  <2>1. ASSUME pc = "extract", NEW x \in work, nodes[x].connections # <<>>
        PROVE  MarkedArcs(x) # {}
    <3>1. x \in SolvedIds
      BY <1>1, <2>1 DEF IInv, ControlOK, PInv, PolicyOK
    <3> QED
      BY <1>1, <2>1, <3>1, VisitedChildren DEF PInv
  <2>2. ASSUME pc = "done", nodes[root].status = "Solved"
        PROVE  /\ root \in policy
               /\ \A x \in policy :
                    IF nodes[x].connections = <<>>
                    THEN nodes[x].config \in problem.goal
                    ELSE Cardinality(MarkedArcs(x)) = 1 /\ MarkedChildren(x) \subseteq policy
               /\ \A S \in SUBSET policy :
                    S # {} => \E x \in S : MarkedChildren(x) \cap S = {}
    <3>1. /\ root \in policy /\ policy \subseteq SolvedIds
          /\ \A x \in policy : MarkedChildren(x) \subseteq policy
      BY <1>1, <2>2 DEF PInv, PolicyOK
    <3>2. ASSUME NEW x \in policy
          PROVE  IF nodes[x].connections = <<>>
                 THEN nodes[x].config \in problem.goal
                 ELSE Cardinality(MarkedArcs(x)) = 1
      <4>1. ChoiceOK(x)
        BY <1>1, <3>1 DEF PInv, MarksRight
      <4>2. \A i : Cardinality({i}) = 1
        BY FS_Singleton
      <4> QED
        BY <4>1, <4>2 DEF ChoiceOK
    <3>3. ASSUME NEW S \in SUBSET policy, S # {}
          PROVE  \E x \in S : MarkedChildren(x) \cap S = {}
      BY <1>1, <3>1, <3>3 DEF PInv, MarksRight, NoMarkedCycle
    <3> QED
      BY <3>1, <3>2, <3>3
  <2> QED
    BY <2>1, <2>2 DEF PolicyIsStrong
<1> QED
  BY <1>1, AlwaysPInv, PTL

(* find_a_tip_node never reads the label of the node it has borrowed: a    *)
(* node whose marked connector leads to itself panicked when it was        *)
(* revised, and one that is not revised is not marked.                     *)
THEOREM WalkAlwaysBorrowsOnce == Spec => []WalkBorrowsOnce
<1>1. PInv => WalkBorrowsOnce
  BY DEF PInv, MarksRight, WalkBorrowsOnce
<1> QED
  BY <1>1, AlwaysPInv, PTL

(* The search panics in a revision or not at all: find_a_tip_node returns  *)
(* a node, add_parent is never called on the root, and the unreachable!()  *)
(* of StrongPolicy::new is not reached.                                    *)
THEOREM PanicsOnlyInRevision == Spec => OnlyRevisionPanics
<1>1. IInv /\ PInv /\ [Next]_vars => [pc' = "panic" => pc \in {"revise", "panic"}]_vars
  BY PanickingStep
<1> QED
  BY <1>1, AlwaysPInv, PTL DEF Spec, OnlyRevisionPanics

=============================================================================
