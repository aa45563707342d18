---------------------------- MODULE AOStarProofs ----------------------------
(***************************************************************************)
(* The labels of the AO* search are right and final, for every set of      *)
(* problems and whatever node a HashMap iteration yields first; so is its  *)
(* answer.                                                                 *)
(***************************************************************************)
EXTENDS AOStar, SequenceTheorems, TLAPS

(***************************************************************************)
(* Solvability is a fixpoint: a configuration is solvable exactly if it is *)
(* a goal or has an expansion all of whose outcomes are solvable.          *)
(***************************************************************************)
LEMMA SolvableIf ==
  ASSUME NEW prob \in Problems, NEW c \in Config,
         \/ c \in prob.goal
         \/ \E i \in DOMAIN prob.expansions[c] :
              Planning!Targets(prob.expansions[c][i]) \subseteq Planning!Solvable(prob)
  PROVE  c \in Planning!Solvable(prob)
<1> SUFFICES ASSUME NEW S \in SUBSET Config, Planning!ClosedBackwards(prob, S)
             PROVE  c \in S
  BY DEF Planning!Solvable
<1>1. Planning!Solvable(prob) \subseteq S
  BY DEF Planning!Solvable
<1>2. CASE c \in prob.goal
  BY <1>2 DEF Planning!ClosedBackwards
<1>3. ASSUME NEW i \in DOMAIN prob.expansions[c],
             Planning!Targets(prob.expansions[c][i]) \subseteq Planning!Solvable(prob)
      PROVE  c \in S
  BY <1>1, <1>3 DEF Planning!ClosedBackwards
<1> QED
  BY <1>2, <1>3

LEMMA SolvableOnlyIf ==
  ASSUME NEW prob \in Problems, NEW c \in Planning!Solvable(prob), c \notin prob.goal
  PROVE  \E i \in DOMAIN prob.expansions[c] :
           Planning!Targets(prob.expansions[c][i]) \subseteq Planning!Solvable(prob)
<1> SUFFICES ASSUME \A i \in DOMAIN prob.expansions[c] :
                      ~(Planning!Targets(prob.expansions[c][i]) \subseteq Planning!Solvable(prob))
             PROVE  FALSE
  OBVIOUS
<1> DEFINE S == Planning!Solvable(prob) \ {c}
<1>1. S \in SUBSET Config
  BY DEF Planning!Solvable
<1>2. prob.goal \subseteq S
  <2>1. prob.goal \subseteq Config
    BY ProblemsAssumption DEF IsProblem
  <2> QED
    BY <2>1, SolvableIf
<1>3. ASSUME NEW d \in Config, NEW i \in DOMAIN prob.expansions[d],
             Planning!Targets(prob.expansions[d][i]) \subseteq S
      PROVE  d \in S
  <2>1. Planning!Targets(prob.expansions[d][i]) \subseteq Planning!Solvable(prob)
    BY <1>3
  <2>2. d \in Planning!Solvable(prob)
    BY <2>1, SolvableIf
  <2> QED
    BY <2>1, <2>2
<1>4. Planning!ClosedBackwards(prob, S)
  BY <1>2, <1>3 DEF Planning!ClosedBackwards
<1>5. Planning!Solvable(prob) \subseteq S
  <2> HIDE DEF S
  <2> QED
    BY <1>1, <1>4 DEF Planning!Solvable
<1> QED
  BY <1>5

----------------------------------------------------------------------------
(***************************************************************************)
(* The inductive invariant.  A connector covers the first n outcomes of an *)
(* expansion when its children are nodes for exactly their configurations. *)
(***************************************************************************)
IsSeq(s) == s \in Seq({s[i] : i \in DOMAIN s})

Label == {"OnGoing", "Solved", "Failed"}

HasNodeFields(n) ==
  n = [config |-> n.config, parent |-> n.parent, connections |-> n.connections,
       cost |-> n.cost, status |-> n.status, depth |-> n.depth, prob |-> n.prob]

HasArcFields(arc) ==
  arc = [children |-> arc.children, outcomeProbs |-> arc.outcomeProbs,
         marked |-> arc.marked]

Covers(ns, arc, expansion, n) ==
  /\ HasArcFields(arc)
  /\ arc.children \subseteq DOMAIN ns
  /\ \A k \in 1..n : \E y \in arc.children : ns[y].config = expansion[k].to
  /\ \A y \in arc.children : \E k \in 1..n : ns[y].config = expansion[k].to

(* arcs are the connectors of an expanded node of configuration c. *)
Expanded(ns, prob, c, arcs) ==
  /\ DOMAIN arcs = DOMAIN prob.expansions[c]
  /\ DOMAIN arcs # {}
  /\ \A i \in DOMAIN arcs :
       Covers(ns, arcs[i], prob.expansions[c][i], Len(prob.expansions[c][i]))

IsSearchNode(ns, prob, n) ==
  /\ HasNodeFields(n)
  /\ n.config \in Config
  /\ n.status \in Label
  /\ n.parent \in {NoParent} \cup DOMAIN ns
  /\ n.connections = <<>> \/ Expanded(ns, prob, n.config, n.connections)

IsSearchGraph(ns, prob) ==
  /\ IsSeq(ns)
  /\ root \in DOMAIN ns
  /\ ns[root].config = prob.root
  /\ \A x \in DOMAIN ns : IsSearchNode(ns, prob, ns[x])

ControlOK ==
  /\ front \in Id
  /\ work \subseteq Id
  /\ pc = "find" /\ tip # 0 => tip \in Id /\ nodes[tip].status = "OnGoing"
  /\ pc \in {"expand", "outcomes"} => tip \in Id /\ nodes[tip].status = "OnGoing"
  /\ pc = "extract" => nodes[root].status = "Solved"

(* A node that is revised without a label has been expanded, as have all   *)
(* creators but the node that is being expanded.                           *)
RevisesExpanded ==
  /\ pc = "revise" =>
       \A x \in work : nodes[x].status = "OnGoing" => nodes[x].connections # <<>>
  /\ \A x \in Id :
       nodes[x].parent # NoParent =>
         \/ nodes[nodes[x].parent].connections # <<>>
         \/ pc \in {"outcomes", "panic"} /\ nodes[x].parent = tip

(* The connectors built so far: all but the last cover their expansion,    *)
(* the last one the outcomes before next.                                  *)
BuiltOK ==
  pc = "outcomes" =>
    LET n == Len(built) IN
    /\ IsSeq(built)
    /\ n \in DOMAIN Expansions
    /\ next \in 1..(Len(Expansions[n]) + 1)
    /\ \A i \in 1..(n-1) : Covers(nodes, built[i], Expansions[i], Len(Expansions[i]))
    /\ Covers(nodes, built[n], Expansions[n], next - 1)

LabelsRight ==
  /\ \A x \in Id : nodes[x].status = "Solved" => nodes[x].config \in Planning!Solvable(problem)
  /\ SafeHeuristic(problem) =>
       \A x \in Id : nodes[x].status = "Failed" =>
                       nodes[x].config \notin Planning!Solvable(problem)

IInv ==
  /\ problem \in Problems
  /\ IsSearchGraph(nodes, problem)
  /\ ControlOK
  /\ RevisesExpanded
  /\ BuiltOK
  /\ LabelsRight

----------------------------------------------------------------------------
(***************************************************************************)
(* Sequences.                                                              *)
(***************************************************************************)
(* Elements of a sequence are at the positions from 1 on. *)
LEMMA SeqFacts ==
  ASSUME NEW s, IsSeq(s)
  PROVE  Len(s) \in Nat /\ DOMAIN s = 1..Len(s)
BY LenProperties DEF IsSeq

(* Append adds one element after the others. *)
LEMMA SeqAppended ==
  ASSUME NEW s, IsSeq(s), NEW e
  PROVE  /\ IsSeq(Append(s, e))
         /\ Len(Append(s, e)) = Len(s) + 1
         /\ DOMAIN Append(s, e) = 1..(Len(s) + 1)
         /\ \A i \in DOMAIN s : Append(s, e)[i] = s[i]
         /\ Append(s, e)[Len(s) + 1] = e
<1> DEFINE S == {s[i] : i \in DOMAIN s} \cup {e}
           t == Append(s, e)
<1>1. s \in Seq(S)
  <2>1. {s[i] : i \in DOMAIN s} \subseteq S
    OBVIOUS
  <2> QED
    BY <2>1, SeqMonotonic DEF IsSeq
<1>2. e \in S
  OBVIOUS
<1>3. /\ t \in Seq(S)
      /\ Len(t) = Len(s) + 1
      /\ \A i \in 1..Len(s) : t[i] = s[i]
      /\ t[Len(s) + 1] = e
  <2> HIDE DEF S
  <2> QED
    BY <1>1, <1>2, AppendProperties
<1>4. Len(s) \in Nat /\ DOMAIN s = 1..Len(s)
  BY SeqFacts
<1>5. DOMAIN t = 1..(Len(s) + 1)
  BY <1>3, LenProperties
<1>6. t \in Seq({t[i] : i \in DOMAIN t})
  <2>1. t = [i \in 1..(Len(s) + 1) |-> t[i]]
    <3> HIDE DEF S
    <3> QED
      BY <1>3, <1>5, LenProperties
  <2>2. Len(s) + 1 \in Nat
    BY <1>4
  <2> HIDE DEF t
  <2> QED
    BY <1>5, <2>1, <2>2
<1> QED
  BY <1>3, <1>4, <1>5, <1>6 DEF IsSeq

(* Replacing one element leaves the others. *)
LEMMA SeqReplaced ==
  ASSUME NEW s, IsSeq(s), NEW x \in DOMAIN s, NEW e
  PROVE  LET t == [s EXCEPT ![x] = e] IN
         /\ IsSeq(t)
         /\ Len(t) = Len(s)
         /\ DOMAIN t = DOMAIN s
         /\ t[x] = e
         /\ \A y \in DOMAIN s : y # x => t[y] = s[y]
<1> DEFINE t == [s EXCEPT ![x] = e]
           T == {t[i] : i \in DOMAIN t}
<1>1. Len(s) \in Nat /\ DOMAIN s = 1..Len(s)
  BY SeqFacts
<1>2. /\ DOMAIN t = DOMAIN s
      /\ t[x] = e
      /\ \A y \in DOMAIN s : y # x => t[y] = s[y]
  OBVIOUS
<1>3. t = [i \in 1..Len(s) |-> t[i]]
  BY <1>1
<1>4. t \in [1..Len(s) -> T]
  BY <1>1, <1>2
<1>5. t \in Seq(T)
  <2> HIDE DEF t, T
  <2> QED
    BY <1>1, <1>4
<1>6. Len(t) = Len(s)
  <2> DEFINE S == {s[i] : i \in DOMAIN s} \cup {e}
  <2>1. s \in Seq(S)
    <3>1. {s[i] : i \in DOMAIN s} \subseteq S
      OBVIOUS
    <3> QED
      BY <3>1, SeqMonotonic DEF IsSeq
  <2>2. e \in S /\ x \in 1..Len(s)
    BY <1>1
  <2> HIDE DEF S
  <2> QED
    BY <2>1, <2>2, ExceptSeq
<1> QED
  BY <1>2, <1>5, <1>6 DEF IsSeq

----------------------------------------------------------------------------
(***************************************************************************)
(* The graph when one node changes and when one is added.                  *)
(***************************************************************************)
(* Connectors stay right when no node is removed or changes configuration. *)
LEMMA ConfigsKept ==
  ASSUME NEW ns, NEW ms, DOMAIN ns \subseteq DOMAIN ms,
         \A y \in DOMAIN ns : ms[y].config = ns[y].config
  PROVE  /\ \A arc, expansion, n :
              Covers(ns, arc, expansion, n) => Covers(ms, arc, expansion, n)
         /\ \A prob, c, arcs :
              Expanded(ns, prob, c, arcs) => Expanded(ms, prob, c, arcs)
<1>1. ASSUME NEW arc, NEW expansion, NEW n, Covers(ns, arc, expansion, n)
      PROVE  Covers(ms, arc, expansion, n)
  <2>1. \A y \in arc.children : y \in DOMAIN ns /\ y \in DOMAIN ms /\ ms[y].config = ns[y].config
    BY <1>1 DEF Covers
  <2> QED
    BY <1>1, <2>1 DEF Covers
<1> QED
  BY <1>1 DEF Expanded

(* A node may change all but its configuration and parent. *)
LEMMA NodeChanged ==
  ASSUME NEW ns, NEW prob, IsSearchGraph(ns, prob), NEW x \in DOMAIN ns, NEW n,
         IsSearchNode(ns, prob, n), n.config = ns[x].config, n.parent = ns[x].parent
  PROVE  LET ms == [ns EXCEPT ![x] = n] IN
         /\ IsSearchGraph(ms, prob)
         /\ DOMAIN ms = DOMAIN ns
         /\ ms[x] = n
         /\ \A y \in DOMAIN ns : y # x => ms[y] = ns[y]
         /\ \A y \in DOMAIN ns : /\ ms[y].config = ns[y].config
                                 /\ ms[y].parent = ns[y].parent
<1> DEFINE ms == [ns EXCEPT ![x] = n]
<1>1. /\ IsSeq(ms)
      /\ DOMAIN ms = DOMAIN ns
      /\ ms[x] = n
      /\ \A y \in DOMAIN ns : y # x => ms[y] = ns[y]
  BY SeqReplaced DEF IsSearchGraph
<1> HIDE DEF ms
<1>2. \A y \in DOMAIN ns : ms[y].config = ns[y].config /\ ms[y].parent = ns[y].parent
  BY <1>1
<1>3. \A c, arcs : Expanded(ns, prob, c, arcs) => Expanded(ms, prob, c, arcs)
  BY <1>1, <1>2, ConfigsKept
<1>4. ASSUME NEW y \in DOMAIN ms PROVE IsSearchNode(ms, prob, ms[y])
  <2>1. IsSearchNode(ns, prob, ms[y])
    BY <1>1 DEF IsSearchGraph
  <2> QED
    BY <1>1, <1>3, <2>1 DEF IsSearchNode
<1>5. IsSearchGraph(ms, prob)
  BY <1>1, <1>2, <1>4 DEF IsSearchGraph
<1> QED
  BY <1>1, <1>2, <1>5 DEF ms

(* A node may be added at the end. *)
LEMMA NodeAdded ==
  ASSUME NEW ns, NEW prob, IsSearchGraph(ns, prob), NEW n, IsSearchNode(ns, prob, n)
  PROVE  LET ms == Append(ns, n) IN
         /\ IsSearchGraph(ms, prob)
         /\ Len(ns) \in Nat
         /\ DOMAIN ns = 1..Len(ns)
         /\ DOMAIN ms = 1..(Len(ns) + 1)
         /\ ms[Len(ns) + 1] = n
         /\ \A y \in DOMAIN ns : ms[y] = ns[y]
<1> DEFINE ms == Append(ns, n)
<1>1. /\ IsSeq(ms)
      /\ DOMAIN ms = 1..(Len(ns) + 1)
      /\ ms[Len(ns) + 1] = n
      /\ \A y \in DOMAIN ns : ms[y] = ns[y]
  BY SeqAppended DEF IsSearchGraph
<1>2. Len(ns) \in Nat /\ DOMAIN ns = 1..Len(ns)
  BY SeqFacts DEF IsSearchGraph
<1> HIDE DEF ms
<1>3. DOMAIN ns \subseteq DOMAIN ms
  BY <1>1, <1>2
<1>4. \A c, arcs : Expanded(ns, prob, c, arcs) => Expanded(ms, prob, c, arcs)
  BY <1>1, <1>3, ConfigsKept
<1>5. ASSUME NEW y \in DOMAIN ms PROVE IsSearchNode(ms, prob, ms[y])
  <2>1. y \in DOMAIN ns \/ y = Len(ns) + 1
    BY <1>1, <1>2
  <2>2. IsSearchNode(ns, prob, ms[y])
    BY <1>1, <2>1 DEF IsSearchGraph
  <2> QED
    BY <1>3, <1>4, <2>2 DEF IsSearchNode
<1>6. IsSearchGraph(ms, prob)
  BY <1>1, <1>3, <1>5 DEF IsSearchGraph
<1> QED
  BY <1>1, <1>2, <1>6 DEF ms
----------------------------------------------------------------------------
(***************************************************************************)
(* The invariant holds initially and is kept by each phase.                *)
(***************************************************************************)
(* progress() returns sequences of sequences of outcomes. *)
LEMMA ExpansionFacts ==
  ASSUME NEW prob \in Problems, NEW c \in Config
  PROVE  LET expansions == prob.expansions[c] IN
         /\ Len(expansions) \in Nat
         /\ DOMAIN expansions = 1..Len(expansions)
         /\ \A i \in DOMAIN expansions :
              /\ Len(expansions[i]) \in Nat
              /\ DOMAIN expansions[i] = 1..Len(expansions[i])
              /\ \A k \in DOMAIN expansions[i] : /\ expansions[i][k].to \in Config
                                                 /\ expansions[i][k].p \in 1..One
<1> DEFINE Outcomes == [to : Config, p : 1..One]
<1>1. prob.expansions[c] \in Seq(Expansion)
  BY ProblemsAssumption DEF IsProblem
<1>2. \A e \in Expansion : e \in Seq(Outcomes)
  BY DEF Expansion
<1>3. \A o \in Outcomes : o.to \in Config /\ o.p \in 1..One
  OBVIOUS
<1> HIDE DEF Outcomes
<1>4. ASSUME NEW i \in DOMAIN prob.expansions[c]
      PROVE  prob.expansions[c][i] \in Seq(Outcomes)
  BY <1>1, <1>2, ElementOfSeq, LenProperties
<1> QED
  BY <1>1, <1>3, <1>4, ElementOfSeq, LenProperties

(* The first node is the root, not labelled. *)
LEMMA InitiallyInv == Init => IInv
<1> SUFFICES ASSUME Init PROVE IInv
  OBVIOUS
<1>1. problem \in Problems /\ problem.root \in Config
  BY ProblemsAssumption DEF Init, IsProblem
<1> DEFINE first == [config |-> problem.root, parent |-> NoParent, connections |-> <<>>,
                     cost |-> 0, status |-> "OnGoing", depth |-> 0, prob |-> 0]
<1>2. nodes = <<first>>
  BY DEF Init
<1>3. /\ first.config = problem.root /\ first.parent = NoParent /\ first.status = "OnGoing"
      /\ first.connections = <<>> /\ HasNodeFields(first)
  BY DEF HasNodeFields
<1> HIDE DEF first
<1>4. Id = {1} /\ nodes[1] = first
  BY <1>2 DEF Id
<1>5. IsSeq(nodes)
  <2>1. {nodes[i] : i \in DOMAIN nodes} = {first}
    BY <1>4 DEF Id
  <2> QED
    BY <1>2, <2>1 DEF IsSeq
<1>6. IsSearchGraph(nodes, problem)
  BY <1>1, <1>3, <1>4, <1>5 DEF IsSearchGraph, IsSearchNode, Id, root, Label
<1>7. ControlOK
  BY <1>4 DEF ControlOK, Init, root
<1>8. RevisesExpanded
  BY <1>3, <1>4 DEF RevisesExpanded, Init
<1>9. BuiltOK
  BY DEF BuiltOK, Init
<1>10. LabelsRight
  BY <1>3, <1>4 DEF LabelsRight
<1> QED
  BY <1>1, <1>6, <1>7, <1>8, <1>9, <1>10 DEF IInv

(* The parts of the invariant about the nodes hold while they do not change. *)
LEMMA NodesUnchanged ==
  ASSUME IInv, UNCHANGED <<problem, nodes>>
  PROVE  /\ problem' \in Problems
         /\ IsSearchGraph(nodes, problem)'
         /\ LabelsRight'
<1>1. /\ problem \in Problems
      /\ IsSearchGraph(nodes, problem)
      /\ LabelsRight
  BY DEF IInv
<1>2. Planning!Solvable(problem)' = Planning!Solvable(problem)
  OBVIOUS
<1>3. SafeHeuristic(problem)' = SafeHeuristic(problem)
  OBVIOUS
<1> QED
  BY <1>1, <1>2, <1>3 DEF LabelsRight, Id

(* A node without a label is OnGoing. *)
LEMMA NotTerminal ==
  ASSUME IInv, NEW x \in Id, ~IsTerminal(x)
  PROVE  nodes[x].status = "OnGoing"
BY DEF IInv, IsSearchGraph, IsSearchNode, IsTerminal, Label, Id

(* Finding a tip. *)
LEMMA FindKeeps ==
  ASSUME IInv, Find
  PROVE  IInv'
<1>1. UNCHANGED <<problem, nodes, front, built, next>>
  BY DEF Find, BeginIteration, FindStep, FindEnds
<1>2. problem' \in Problems /\ IsSearchGraph(nodes, problem)' /\ LabelsRight'
  BY <1>1, NodesUnchanged
<1>3. root \in Id
  BY DEF IInv, IsSearchGraph, Id
<1>4. pc \in {"loop", "find"} /\ pc' \in {"find", "expand", "panic"}
  BY DEF Find, BeginIteration, FindStep, FindEnds, FindSkipsTerminal, FindReturns,
         FindFollowsMark, FindRemembers
<1>5. BuiltOK'
  BY <1>4 DEF BuiltOK
<1>6. RevisesExpanded'
  BY <1>1, <1>4 DEF IInv, RevisesExpanded, Id
<1>7. ControlOK'
  <2>1. CASE BeginIteration
    BY <1>3, <2>1 DEF BeginIteration, IInv, ControlOK, Id
  <2>2. CASE FindStep
    <3>1. PICK x \in work : \/ FindSkipsTerminal(x)
                            \/ FindReturns(x)
                            \/ FindFollowsMark(x)
                            \/ FindRemembers(x)
      BY <2>2 DEF FindStep
    <3>2. x \in Id
      BY DEF IInv, ControlOK
    <3>3. pc = "find"
      BY <2>2 DEF FindStep
    <3>4. CASE FindSkipsTerminal(x)
      BY <1>1, <3>3, <3>4 DEF FindSkipsTerminal, IInv, ControlOK, Id
    <3>5. CASE FindReturns(x)
      <4>1. nodes[x].status = "OnGoing"
        BY <3>2, <3>5, NotTerminal DEF FindReturns
      <4> QED
        BY <1>1, <3>2, <3>5, <4>1 DEF FindReturns, IInv, ControlOK, Id
    <3>6. CASE FindFollowsMark(x)
      <4>1. PICK i \in DOMAIN nodes[x].connections :
                   work' = (work \ {x}) \cup nodes[x].connections[i].children
        BY <3>6 DEF FindFollowsMark, FirstMarked, MarkedArcs
      <4>2. Expanded(nodes, problem, nodes[x].config, nodes[x].connections)
        BY <3>2 DEF IInv, IsSearchGraph, IsSearchNode, Id
      <4>3. nodes[x].connections[i].children \subseteq Id
        BY <4>2 DEF Expanded, Covers, Id
      <4> QED
        BY <1>1, <3>3, <3>6, <4>1, <4>3 DEF FindFollowsMark, IInv, ControlOK, Id
    <3>7. CASE FindRemembers(x)
      <4>1. nodes[x].status = "OnGoing"
        BY <3>2, <3>7, NotTerminal DEF FindRemembers
      <4> QED
        BY <1>1, <3>2, <3>3, <3>7, <4>1 DEF FindRemembers, IInv, ControlOK, Id
    <3> QED
      BY <3>1, <3>4, <3>5, <3>6, <3>7
  <2>3. CASE FindEnds
    BY <1>1, <2>3 DEF FindEnds, IInv, ControlOK, Id
  <2> QED
    BY <2>1, <2>2, <2>3 DEF Find
<1> QED
  BY <1>2, <1>5, <1>6, <1>7 DEF IInv
----------------------------------------------------------------------------
(* While a node is expanded. *)
LEMMA ExpandedNode ==
  ASSUME IInv, pc \in {"expand", "outcomes"}
  PROVE  /\ tip \in Id /\ nodes[tip].status = "OnGoing" /\ nodes[tip].config \in Config
         /\ Len(Expansions) \in Nat
         /\ DOMAIN Expansions = 1..Len(Expansions)
         /\ \A i \in DOMAIN Expansions :
              /\ Len(Expansions[i]) \in Nat
              /\ DOMAIN Expansions[i] = 1..Len(Expansions[i])
              /\ \A k \in DOMAIN Expansions[i] : /\ Expansions[i][k].to \in Config
                                                 /\ Expansions[i][k].p \in 1..One
<1>1. tip \in Id /\ nodes[tip].status = "OnGoing" /\ nodes[tip].config \in Config
  BY DEF IInv, ControlOK, IsSearchGraph, IsSearchNode, Id
<1> QED
  BY <1>1, ExpansionFacts DEF IInv, Expansions

(* Expanding a node that has connections changes nothing. *)
LEMMA ExpandSkipsKeeps ==
  ASSUME IInv, ExpandSkips
  PROVE  IInv'
<1>1. UNCHANGED <<problem, nodes, front, tip, built, next>> /\ pc' = "revise" /\ work' = {tip}
      /\ pc = "expand" /\ nodes[tip].connections # <<>>
  BY DEF ExpandSkips, BeginRevision
<1>2. problem' \in Problems /\ IsSearchGraph(nodes, problem)' /\ LabelsRight'
  BY <1>1, NodesUnchanged
<1>3. ControlOK'
  BY <1>1, ExpandedNode DEF IInv, ControlOK, Id
<1>4. RevisesExpanded'
  BY <1>1 DEF IInv, RevisesExpanded, Id
<1>5. BuiltOK'
  BY <1>1 DEF BuiltOK
<1> QED
  BY <1>2, <1>3, <1>4, <1>5 DEF IInv

(* A node without expansions is a goal, or no policy exists from it. *)
LEMMA ExpandTerminalKeeps ==
  ASSUME IInv, ExpandTerminal
  PROVE  IInv'
<1>1. UNCHANGED <<problem, front, tip, built, next>> /\ pc' = "revise" /\ work' = {tip}
      /\ pc = "expand" /\ nodes[tip].connections = <<>> /\ Expansions = <<>>
  BY DEF ExpandTerminal, BeginRevision
<1>2. tip \in Id /\ nodes[tip].status = "OnGoing" /\ nodes[tip].config \in Config
  BY <1>1, ExpandedNode
<1> DEFINE n == IF nodes[tip].config \in problem.goal
                THEN [nodes[tip] EXCEPT !.status = "Solved", !.cost = 0, !.prob = One]
                ELSE [nodes[tip] EXCEPT !.status = "Failed", !.cost = Inf, !.prob = 0]
<1>3. nodes' = [nodes EXCEPT ![tip] = n]
  BY <1>2 DEF ExpandTerminal
<1>4. IsSearchNode(nodes, problem, nodes[tip])
  BY <1>2 DEF IInv, IsSearchGraph, Id
<1>5. /\ HasNodeFields(n)
      /\ n.config = nodes[tip].config /\ n.parent = nodes[tip].parent
      /\ n.connections = <<>>
      /\ n.status = IF n.config \in problem.goal THEN "Solved" ELSE "Failed"
  BY <1>1, <1>4 DEF IsSearchNode, HasNodeFields
<1> HIDE DEF n
<1>6. IsSearchNode(nodes, problem, n)
  BY <1>4, <1>5 DEF IsSearchNode, Label
<1>7. /\ IsSearchGraph(nodes', problem)
      /\ Id' = Id
      /\ nodes'[tip] = n
      /\ \A y \in Id : y # tip => nodes'[y] = nodes[y]
      /\ \A y \in Id : nodes'[y].config = nodes[y].config /\ nodes'[y].parent = nodes[y].parent
  BY <1>2, <1>3, <1>5, <1>6, NodeChanged DEF IInv, Id
<1>8. ControlOK'
  BY <1>1, <1>2, <1>7 DEF IInv, ControlOK, Id
<1>9. RevisesExpanded'
  <2>1. nodes'[tip].status # "OnGoing"
    BY <1>5, <1>7
  <2>2. ASSUME NEW x \in Id, nodes[x].parent # NoParent
        PROVE  nodes'[nodes[x].parent].connections # <<>>
    <3>1. nodes[nodes[x].parent].connections # <<>>
      BY <1>1, <2>2 DEF IInv, RevisesExpanded
    <3>2. nodes[x].parent \in Id
      BY <2>2 DEF IInv, IsSearchGraph, IsSearchNode, Id
    <3> QED
      BY <1>1, <1>7, <3>1, <3>2
  <2> QED
    BY <1>1, <1>7, <2>1, <2>2 DEF RevisesExpanded
<1>10. BuiltOK'
  BY <1>1 DEF BuiltOK
<1>11. LabelsRight'
  <2>1. n.config \in problem.goal => n.config \in Planning!Solvable(problem)
    BY <1>2, <1>5, SolvableIf DEF IInv
  <2>2. n.config \notin problem.goal => n.config \notin Planning!Solvable(problem)
    <3>1. DOMAIN problem.expansions[n.config] = {}
      BY <1>1, <1>5 DEF Expansions
    <3> QED
      BY <3>1, SolvableOnlyIf DEF IInv
  <2>3. /\ n.status = "Solved" => n.config \in Planning!Solvable(problem)
        /\ n.status = "Failed" => n.config \notin Planning!Solvable(problem)
    BY <1>5, <2>1, <2>2
  <2> QED
    BY <1>1, <1>7, <2>3 DEF IInv, LabelsRight, SafeHeuristic
<1> QED
  BY <1>1, <1>7, <1>8, <1>9, <1>10, <1>11 DEF IInv

(* The first connector of an expansion has no outcome yet. *)
LEMMA ExpandBeginsKeeps ==
  ASSUME IInv, ExpandBegins
  PROVE  IInv'
<1>1. UNCHANGED <<problem, nodes, front, work, tip>> /\ pc' = "outcomes" /\ pc = "expand"
      /\ Expansions # <<>> /\ built' = <<EmptyConnector>> /\ next' = 1
  BY DEF ExpandBegins
<1>2. problem' \in Problems /\ IsSearchGraph(nodes, problem)' /\ LabelsRight'
  BY <1>1, NodesUnchanged
<1>3. ControlOK'
  BY <1>1, ExpandedNode DEF IInv, ControlOK, Id
<1>4. RevisesExpanded'
  BY <1>1 DEF IInv, RevisesExpanded, Id
<1>5. BuiltOK'
  <2>1. IsSeq(built') /\ Len(built') = 1 /\ built'[1] = EmptyConnector
    <3>1. {built'[i] : i \in DOMAIN built'} = {EmptyConnector}
      BY <1>1
    <3> QED
      BY <1>1, <3>1 DEF IsSeq
  <2>2. Expansions' = Expansions
    BY <1>1 DEF Expansions
  <2>3. 1 \in DOMAIN Expansions /\ Len(Expansions[1]) \in Nat
    <3>1. Len(Expansions) # 0
      <4>1. Expansions \in Seq(Expansion)
        BY <1>1, ExpandedNode, ProblemsAssumption DEF IInv, IsProblem, Expansions
      <4> QED
        BY <1>1, <4>1, EmptySeq
    <3> QED
      BY <1>1, <3>1, ExpandedNode
  <2>4. Covers(nodes, EmptyConnector, Expansions[1], 0)
    BY DEF Covers, HasArcFields, EmptyConnector
  <2> QED
    BY <1>1, <2>1, <2>2, <2>3, <2>4 DEF BuiltOK
<1> QED
  BY <1>2, <1>3, <1>4, <1>5 DEF IInv
(* While outcomes are added, the last connector is that of an expansion. *)
LEMMA LastConnector ==
  ASSUME IInv, pc = "outcomes"
  PROVE  /\ IsSeq(built)
         /\ Len(built) \in DOMAIN Expansions
         /\ Len(built) \in DOMAIN built
         /\ DOMAIN built = 1..Len(built)
         /\ Len(built) \in Nat \ {0}
         /\ next \in 1..(Len(Expansions[Len(built)]) + 1)
         /\ Len(Expansions[Len(built)]) \in Nat
         /\ DOMAIN Expansions[Len(built)] = 1..Len(Expansions[Len(built)])
<1>1. /\ IsSeq(built) /\ Len(built) \in DOMAIN Expansions
      /\ next \in 1..(Len(Expansions[Len(built)]) + 1)
  BY DEF IInv, BuiltOK
<1>2. Len(built) \in Nat /\ DOMAIN built = 1..Len(built)
  BY <1>1, SeqFacts
<1>3. /\ DOMAIN Expansions = 1..Len(Expansions)
      /\ Len(Expansions) \in Nat
      /\ Len(Expansions[Len(built)]) \in Nat
      /\ DOMAIN Expansions[Len(built)] = 1..Len(Expansions[Len(built)])
  BY <1>1, ExpandedNode
<1>4. Len(built) # 0
  BY <1>1, <1>3
<1> QED
  BY <1>1, <1>2, <1>3, <1>4

(* Adding the node of the next outcome covers that outcome. *)
LEMMA ChildAdded ==
  ASSUME IInv, pc = "outcomes", next \in DOMAIN Expansions[Len(built)],
         NEW ms, DOMAIN nodes \subseteq DOMAIN ms,
         \A y \in DOMAIN nodes : ms[y].config = nodes[y].config,
         NEW id \in DOMAIN ms, ms[id].config = Outcome.to,
         NEW p, AddChild(id, p)
  PROVE  /\ IsSeq(built')
         /\ Len(built') = Len(built)
         /\ \A i \in 1..(Len(built) - 1) :
              Covers(ms, built'[i], Expansions[i], Len(Expansions[i]))
         /\ Covers(ms, built'[Len(built)], Expansions[Len(built)], next)
<1> DEFINE n   == Len(built)
           probs == [k \in built[n].children \cup {id} |->
                       IF k = id THEN p ELSE built[n].outcomeProbs[k]]
           arc == [children |-> built[n].children \cup {id}, outcomeProbs |-> probs,
                   marked |-> built[n].marked]
<1>1. /\ IsSeq(built)
      /\ n \in DOMAIN built /\ DOMAIN built = 1..n /\ n \in Nat \ {0}
      /\ next \in Nat \ {0}
  BY LastConnector
<1>2. /\ \A i \in 1..(n-1) : Covers(nodes, built[i], Expansions[i], Len(Expansions[i]))
      /\ Covers(nodes, built[n], Expansions[n], next - 1)
  BY DEF IInv, BuiltOK
<1>3. built' = [built EXCEPT ![n] = arc]
  BY DEF AddChild
<1>4. arc.children = built[n].children \cup {id} /\ HasArcFields(arc)
  BY DEF HasArcFields
<1>5. n = Len(built)
  OBVIOUS
<1> HIDE DEF arc, n
<1>6. /\ IsSeq(built') /\ Len(built') = n /\ built'[n] = arc
      /\ \A i \in DOMAIN built : i # n => built'[i] = built[i]
  BY <1>1, <1>3, <1>5, SeqReplaced
<1>7. ASSUME NEW i \in 1..(n-1)
      PROVE  Covers(ms, built'[i], Expansions[i], Len(Expansions[i]))
  <2>1. i \in DOMAIN built /\ i # n
    BY <1>1
  <2> QED
    BY <1>2, <1>6, <2>1, ConfigsKept
<1>8. Covers(ms, arc, Expansions[n], next)
  <2>1. Covers(ms, built[n], Expansions[n], next - 1)
    BY <1>2, ConfigsKept
  <2>2. \A k \in 1..next : k \in 1..(next-1) \/ k = next
    BY <1>1
  <2>3. 1..(next-1) \subseteq 1..next /\ next \in 1..next
    BY <1>1
  <2>4. ms[id].config = Expansions[n][next].to
    BY DEF Outcome, n
  <2>5. arc.children \subseteq DOMAIN ms
    BY <1>4, <2>1 DEF Covers
  <2>6. ASSUME NEW k \in 1..next
        PROVE  \E y \in arc.children : ms[y].config = Expansions[n][k].to
    BY <1>4, <2>1, <2>2, <2>4 DEF Covers
  <2>7. ASSUME NEW y \in arc.children
        PROVE  \E k \in 1..next : ms[y].config = Expansions[n][k].to
    BY <1>4, <2>1, <2>3, <2>4 DEF Covers
  <2> QED
    BY <1>4, <2>5, <2>6, <2>7 DEF Covers
<1> QED
  BY <1>6, <1>7, <1>8 DEF n

(* An outcome may be the first node. *)
LEMMA OutcomeMergesKeeps ==
  ASSUME IInv, OutcomeMerges
  PROVE  IInv'
<1>1. UNCHANGED <<problem, nodes, front, work, tip>> /\ pc = "outcomes"
      /\ pc' \in {"outcomes", "panic"} /\ next \in DOMAIN Expansions[Len(built)]
      /\ nodes[front].config = Outcome.to
  BY DEF OutcomeMerges, Visited
<1>2. problem' \in Problems /\ IsSearchGraph(nodes, problem)' /\ LabelsRight'
  BY <1>1, NodesUnchanged
<1>3. ControlOK'
  BY <1>1 DEF IInv, ControlOK, Id
<1>4. RevisesExpanded'
  BY <1>1 DEF IInv, RevisesExpanded, Id
<1>5. BuiltOK'
  <2>1. CASE pc' = "panic"
    BY <2>1 DEF BuiltOK
  <2>2. CASE pc' = "outcomes"
    <3>1. AddChild(front, Outcome.p) /\ next' = next + 1
      BY <2>2 DEF OutcomeMerges
    <3>2. front \in DOMAIN nodes
      BY DEF IInv, ControlOK, Id
    <3>3. /\ IsSeq(built')
          /\ Len(built') = Len(built)
          /\ \A i \in 1..(Len(built) - 1) :
               Covers(nodes, built'[i], Expansions[i], Len(Expansions[i]))
          /\ Covers(nodes, built'[Len(built)], Expansions[Len(built)], next)
      BY <1>1, <3>1, <3>2, ChildAdded
    <3>4. Expansions' = Expansions
      BY <1>1 DEF Expansions
    <3>5. /\ next' \in 1..(Len(Expansions[Len(built)]) + 1)
          /\ next' - 1 = next
          /\ Len(built) \in DOMAIN Expansions
      BY <1>1, <3>1, LastConnector
    <3> QED
      BY <1>1, <3>3, <3>4, <3>5 DEF BuiltOK
  <2> QED
    BY <1>1, <2>1, <2>2
<1> QED
  BY <1>2, <1>3, <1>4, <1>5 DEF IInv
(* Or it is a new node. *)
LEMMA OutcomeInsertsKeeps ==
  ASSUME IInv, OutcomeInserts
  PROVE  IInv'
<1> DEFINE id == Len(nodes) + 1
           c  == Outcome.to
           n  == NewNode(c)
<1>1. UNCHANGED <<problem, pc, work, tip>> /\ pc = "outcomes" /\ pc' = "outcomes"
      /\ next \in DOMAIN Expansions[Len(built)] /\ next' = next + 1
      /\ nodes' = Append(nodes, n) /\ AddChild(id, Outcome.p)
  BY DEF OutcomeInserts
<1>2. front' \in 1..id \/ front' = front \/ front' = id
  BY DEF OutcomeInserts
<1>3. c \in Config /\ tip \in Id
  BY <1>1, LastConnector, ExpandedNode DEF Outcome
<1>4. /\ HasNodeFields(n) /\ n.config = c /\ n.parent = tip /\ n.connections = <<>>
      /\ n.status = IF c \in problem.goal THEN "Solved"
                    ELSE IF problem.h[c] = Inf THEN "Failed" ELSE "OnGoing"
  BY DEF NewNode, HasNodeFields
<1> HIDE DEF n
<1>5. IsSearchNode(nodes, problem, n)
  BY <1>3, <1>4 DEF IsSearchNode, Label, Id
<1>6. /\ IsSearchGraph(nodes', problem)
      /\ Len(nodes) \in Nat
      /\ Id = 1..Len(nodes)
      /\ Id' = 1..id
      /\ nodes'[id] = n
      /\ \A y \in Id : nodes'[y] = nodes[y]
  BY <1>1, <1>5, NodeAdded DEF IInv, Id
<1> HIDE DEF id
<1>7. id \in Id' /\ Id \subseteq Id' /\ \A y \in Id' : y \in Id \/ y = id
  BY <1>6 DEF id
<1>8. ControlOK'
  <2>1. front' \in Id'
    BY <1>2, <1>6, <1>7 DEF IInv, ControlOK
  <2> QED
    BY <1>1, <1>6, <1>7, <2>1 DEF IInv, ControlOK
<1>9. RevisesExpanded'
  <2>1. ASSUME NEW x \in Id', nodes'[x].parent # NoParent
        PROVE  \/ nodes'[nodes'[x].parent].connections # <<>>
               \/ pc' \in {"outcomes", "panic"} /\ nodes'[x].parent = tip'
    <3>1. CASE x = id
      BY <1>1, <1>4, <1>6, <3>1
    <3>2. CASE x \in Id
      <4>1. nodes'[x] = nodes[x]
        BY <1>6, <3>2
      <4>2. nodes[x].parent \in Id
        BY <2>1, <3>2, <4>1 DEF IInv, IsSearchGraph, IsSearchNode, Id
      <4>3. nodes'[nodes[x].parent] = nodes[nodes[x].parent]
        BY <1>6, <4>2
      <4>4. nodes[nodes[x].parent].connections # <<>> \/ nodes[x].parent = tip
        BY <2>1, <3>2, <4>1 DEF IInv, RevisesExpanded
      <4> QED
        BY <1>1, <4>1, <4>3, <4>4
    <3> QED
      BY <1>7, <3>1, <3>2
  <2> QED
    BY <1>1, <2>1 DEF RevisesExpanded
<1>10. BuiltOK'
  <2>1. \A y \in DOMAIN nodes : nodes'[y].config = nodes[y].config
    BY <1>6 DEF Id
  <2>2. /\ IsSeq(built')
        /\ Len(built') = Len(built)
        /\ \A i \in 1..(Len(built) - 1) :
             Covers(nodes', built'[i], Expansions[i], Len(Expansions[i]))
        /\ Covers(nodes', built'[Len(built)], Expansions[Len(built)], next)
    <3>1. DOMAIN nodes \subseteq DOMAIN nodes' /\ id \in DOMAIN nodes'
          /\ nodes'[id].config = Outcome.to
      BY <1>4, <1>6, <1>7 DEF Id
    <3> QED
      BY <1>1, <2>1, <3>1, ChildAdded
  <2>3. Expansions' = Expansions
    BY <1>1, <1>3, <1>6 DEF Expansions
  <2>4. /\ next' \in 1..(Len(Expansions[Len(built)]) + 1)
        /\ next' - 1 = next
        /\ Len(built) \in DOMAIN Expansions
    BY <1>1, LastConnector
  <2> QED
    BY <1>1, <2>2, <2>3, <2>4 DEF BuiltOK
<1>11. LabelsRight'
  <2>1. n.status = "Solved" => n.config \in Planning!Solvable(problem)
    BY <1>3, <1>4, SolvableIf DEF IInv
  <2>2. SafeHeuristic(problem) /\ n.status = "Failed" =>
          n.config \notin Planning!Solvable(problem)
    BY <1>3, <1>4 DEF SafeHeuristic
  <2> QED
    BY <1>1, <1>6, <1>7, <2>1, <2>2 DEF IInv, LabelsRight, SafeHeuristic
<1> QED
  BY <1>1, <1>6, <1>8, <1>9, <1>10, <1>11 DEF IInv

(* The last connector covers its expansion: it is the turn of the next. *)
LEMMA LastIsComplete ==
  ASSUME IInv, pc = "outcomes", next \notin DOMAIN Expansions[Len(built)]
  PROVE  \A i \in 1..Len(built) :
           Covers(nodes, built[i], Expansions[i], Len(Expansions[i]))
<1>1. /\ \A i \in 1..(Len(built) - 1) :
           Covers(nodes, built[i], Expansions[i], Len(Expansions[i]))
      /\ Covers(nodes, built[Len(built)], Expansions[Len(built)], next - 1)
  BY DEF IInv, BuiltOK
<1>2. /\ next \in 1..(Len(Expansions[Len(built)]) + 1)
      /\ Len(Expansions[Len(built)]) \in Nat
      /\ DOMAIN Expansions[Len(built)] = 1..Len(Expansions[Len(built)])
      /\ Len(built) \in Nat \ {0}
  BY LastConnector
<1>3. next - 1 = Len(Expansions[Len(built)])
  BY <1>2
<1>4. \A i \in 1..Len(built) : i \in 1..(Len(built) - 1) \/ i = Len(built)
  BY <1>2
<1> QED
  BY <1>1, <1>3, <1>4

(* Then the connector of the next expansion is begun. *)
LEMMA NextConnectorKeeps ==
  ASSUME IInv, NextConnector
  PROVE  IInv'
<1>1. UNCHANGED <<problem, nodes, front, pc, work, tip>> /\ pc = "outcomes"
      /\ next \notin DOMAIN Expansions[Len(built)] /\ Len(built) < Len(Expansions)
      /\ built' = Append(built, EmptyConnector) /\ next' = 1
  BY DEF NextConnector
<1>2. problem' \in Problems /\ IsSearchGraph(nodes, problem)' /\ LabelsRight'
  BY <1>1, NodesUnchanged
<1>3. ControlOK'
  BY <1>1 DEF IInv, ControlOK, Id
<1>4. RevisesExpanded'
  BY <1>1 DEF IInv, RevisesExpanded, Id
<1>5. BuiltOK'
  <2> DEFINE n == Len(built) + 1
  <2>1. /\ IsSeq(built') /\ Len(built') = n /\ built'[n] = EmptyConnector
        /\ \A i \in DOMAIN built : built'[i] = built[i]
    BY <1>1, LastConnector, SeqAppended
  <2>2. Expansions' = Expansions
    BY <1>1 DEF Expansions
  <2>3. n \in DOMAIN Expansions /\ DOMAIN built = 1..(n-1) /\ Len(built) = n - 1
    BY <1>1, LastConnector, ExpandedNode
  <2>4. 1 \in 1..(Len(Expansions[n]) + 1) /\ n \in Nat
    BY <1>1, <2>3, ExpandedNode
  <2>5. \A i \in 1..(n-1) : Covers(nodes, built'[i], Expansions[i], Len(Expansions[i]))
    BY <1>1, <2>1, <2>3, LastIsComplete
  <2>6. Covers(nodes, EmptyConnector, Expansions[n], 0)
    BY DEF Covers, HasArcFields, EmptyConnector
  <2> HIDE DEF n
  <2> QED
    BY <1>1, <2>1, <2>2, <2>3, <2>4, <2>5, <2>6 DEF BuiltOK
<1> QED
  BY <1>2, <1>3, <1>4, <1>5 DEF IInv

(* The connectors cover the expansions: the node is expanded. *)
LEMMA ExpandEndsKeeps ==
  ASSUME IInv, ExpandEnds
  PROVE  IInv'
<1>1. UNCHANGED <<problem, front, tip>> /\ pc' = "revise" /\ work' = {tip}
      /\ pc = "outcomes" /\ next \notin DOMAIN Expansions[Len(built)]
      /\ Len(built) = Len(Expansions)
  BY DEF ExpandEnds, BeginRevision
<1>2. tip \in Id /\ nodes[tip].status = "OnGoing" /\ nodes[tip].config \in Config
  BY <1>1, ExpandedNode
<1> DEFINE n == [nodes[tip] EXCEPT !.connections = built]
<1>3. IsSearchNode(nodes, problem, nodes[tip])
  BY <1>2 DEF IInv, IsSearchGraph, Id
<1>4. nodes' = [nodes EXCEPT ![tip] = n]
  BY <1>2 DEF ExpandEnds
<1>5. /\ HasNodeFields(n)
      /\ n.config = nodes[tip].config /\ n.parent = nodes[tip].parent
      /\ n.connections = built
      /\ n.status = "OnGoing"
  BY <1>2, <1>3 DEF IsSearchNode, HasNodeFields
<1> HIDE DEF n
<1>6. Expanded(nodes, problem, n.config, built)
  <2>1. DOMAIN built = 1..Len(built) /\ Len(built) \in Nat \ {0}
    BY <1>1, LastConnector
  <2>2. DOMAIN built = DOMAIN Expansions
    BY <1>1, <2>1, ExpandedNode
  <2>3. DOMAIN built # {}
    BY <2>1
  <2>4. \A i \in DOMAIN built : Covers(nodes, built[i], Expansions[i], Len(Expansions[i]))
    BY <1>1, <2>1, LastIsComplete
  <2> QED
    BY <1>5, <2>2, <2>3, <2>4 DEF Expanded, Expansions
<1>7. IsSearchNode(nodes, problem, n)
  BY <1>3, <1>5, <1>6 DEF IsSearchNode, Label
<1>8. /\ IsSearchGraph(nodes', problem)
      /\ Id' = Id
      /\ nodes'[tip] = n
      /\ \A y \in Id : y # tip => nodes'[y] = nodes[y]
      /\ \A y \in Id : nodes'[y].config = nodes[y].config /\ nodes'[y].parent = nodes[y].parent
  BY <1>2, <1>4, <1>5, <1>7, NodeChanged DEF IInv, Id
<1>9. built # <<>>
  BY <1>6 DEF Expanded
<1>10. ControlOK'
  BY <1>1, <1>2, <1>8 DEF IInv, ControlOK, Id
<1>11. RevisesExpanded'
  <2>1. nodes'[tip].connections # <<>>
    BY <1>5, <1>8, <1>9
  <2>2. ASSUME NEW x \in Id, nodes[x].parent # NoParent
        PROVE  nodes'[nodes[x].parent].connections # <<>>
    <3>1. nodes[nodes[x].parent].connections # <<>> \/ nodes[x].parent = tip
      BY <2>2 DEF IInv, RevisesExpanded
    <3>2. nodes[x].parent \in Id
      BY <2>2 DEF IInv, IsSearchGraph, IsSearchNode, Id
    <3> QED
      BY <1>8, <2>1, <3>1, <3>2
  <2> QED
    BY <1>1, <1>8, <2>1, <2>2 DEF RevisesExpanded
<1>12. BuiltOK'
  BY <1>1 DEF BuiltOK
<1>13. LabelsRight'
  <2>1. \A y \in Id : nodes'[y].status = nodes[y].status /\ nodes'[y].config = nodes[y].config
    BY <1>2, <1>5, <1>8
  <2> QED
    BY <1>1, <1>8, <2>1 DEF IInv, LabelsRight, SafeHeuristic
<1> QED
  BY <1>1, <1>8, <1>10, <1>11, <1>12, <1>13 DEF IInv
----------------------------------------------------------------------------
(* Marking connectors leaves their children alone. *)
LEMMA Marked ==
  ASSUME NEW ns, NEW prob, NEW c, NEW arcs, NEW i, Expanded(ns, prob, c, arcs)
  PROVE  /\ Expanded(ns, prob, c, Mark(arcs, i))
         /\ Mark(arcs, i) # <<>>
<1> DEFINE marks == Mark(arcs, i)
<1>1. DOMAIN marks = DOMAIN arcs
  BY DEF Mark
<1>2. ASSUME NEW j \in DOMAIN arcs
      PROVE  Covers(ns, marks[j], prob.expansions[c][j], Len(prob.expansions[c][j]))
  <2>1. Covers(ns, arcs[j], prob.expansions[c][j], Len(prob.expansions[c][j]))
    BY DEF Expanded
  <2>2. marks[j].children = arcs[j].children /\ HasArcFields(marks[j])
    BY <2>1 DEF Covers, HasArcFields, Mark
  <2> HIDE DEF marks
  <2> QED
    BY <2>1, <2>2 DEF Covers
<1>3. DOMAIN arcs # {}
  BY DEF Expanded
<1> HIDE DEF marks
<1>4. marks # <<>>
  BY <1>1, <1>3
<1> QED
  BY <1>1, <1>2, <1>4 DEF Expanded, marks
(* Revising a node is right when its label is, and it stays expanded. *)
LEMMA NodeRevised ==
  ASSUME IInv, pc = "revise", NEW x \in work, NEW n,
         UNCHANGED <<problem, front, pc, tip>>,
         work' \subseteq work \cup Parents(x),
         nodes' = [nodes EXCEPT ![x] = n],
         IsSearchNode(nodes, problem, n),
         n.config = nodes[x].config, n.parent = nodes[x].parent,
         nodes[x].connections # <<>> => n.connections # <<>>,
         n.status = "OnGoing" => n.connections # <<>>,
         n.status = "Solved" => n.config \in Planning!Solvable(problem),
         SafeHeuristic(problem) /\ n.status = "Failed" =>
           n.config \notin Planning!Solvable(problem)
  PROVE  IInv'
<1>1. x \in Id
  BY DEF IInv, ControlOK
<1>2. /\ IsSearchGraph(nodes', problem)
      /\ Id' = Id
      /\ nodes'[x] = n
      /\ \A y \in Id : y # x => nodes'[y] = nodes[y]
      /\ \A y \in Id : nodes'[y].config = nodes[y].config /\ nodes'[y].parent = nodes[y].parent
  BY <1>1, NodeChanged DEF IInv, Id
<1>3. ASSUME NEW y \in Id, nodes[y].parent # NoParent
      PROVE  nodes[y].parent \in Id /\ nodes'[nodes[y].parent].connections # <<>>
  <2>1. nodes[y].parent \in Id
    BY <1>3 DEF IInv, IsSearchGraph, IsSearchNode, Id
  <2>2. nodes[nodes[y].parent].connections # <<>>
    BY <1>3 DEF IInv, RevisesExpanded
  <2> QED
    BY <1>2, <2>1, <2>2
<1>4. \A y \in Parents(x) : y \in Id /\ nodes'[y].connections # <<>>
  BY <1>1, <1>3 DEF Parents
<1>5. ControlOK'
  BY <1>2, <1>4 DEF IInv, ControlOK
<1>6. RevisesExpanded'
  <2>1. ASSUME NEW y \in work', nodes'[y].status = "OnGoing"
        PROVE  nodes'[y].connections # <<>>
    <3>1. CASE y = x
      BY <1>2, <2>1, <3>1
    <3>2. CASE y \in Parents(x)
      BY <1>4, <3>2
    <3>3. CASE y \in work /\ y # x
      <4>1. y \in Id /\ nodes'[y] = nodes[y]
        BY <1>2, <3>3 DEF IInv, ControlOK
      <4> QED
        BY <2>1, <3>3, <4>1 DEF IInv, RevisesExpanded
    <3> QED
      BY <3>1, <3>2, <3>3
  <2> QED
    BY <1>2, <1>3, <2>1 DEF RevisesExpanded
<1>7. BuiltOK'
  BY DEF BuiltOK
<1>8. LabelsRight'
  BY <1>1, <1>2 DEF IInv, LabelsRight, SafeHeuristic
<1> QED
  BY <1>2, <1>5, <1>6, <1>7, <1>8 DEF IInv

(* A node without a label that is being revised is expanded. *)
LEMMA RevisedNode ==
  ASSUME IInv, pc = "revise", NEW x \in work, ~IsTerminal(x)
  PROVE  /\ x \in Id /\ IsSearchNode(nodes, problem, nodes[x]) /\ nodes[x].status = "OnGoing"
         /\ Expanded(nodes, problem, nodes[x].config, nodes[x].connections)
<1>1. x \in Id
  BY DEF IInv, ControlOK
<1>2. nodes[x].status = "OnGoing"
  BY <1>1, NotTerminal
<1>3. nodes[x].connections # <<>>
  BY <1>2 DEF IInv, RevisesExpanded
<1> QED
  BY <1>1, <1>2, <1>3 DEF IInv, IsSearchGraph, IsSearchNode, Id

(* A connector that solves all its children makes the node solvable. *)
LEMMA SolvedRight ==
  ASSUME IInv, NEW x \in Id,
         Expanded(nodes, problem, nodes[x].config, nodes[x].connections),
         ChildrenStatus(nodes[x].connections) = "Solved"
  PROVE  nodes[x].config \in Planning!Solvable(problem)
<1> DEFINE c    == nodes[x].config
           arcs == nodes[x].connections
<1>1. PICK i \in DOMAIN arcs : ArcStatus(arcs[i]) = "Solved"
  BY DEF ChildrenStatus
<1>2. \A y \in arcs[i].children : nodes[y].status = "Solved"
  <2>1. \A y \in arcs[i].children : nodes[y].status \notin {"Failed", "OnGoing"}
    BY <1>1 DEF ArcStatus
  <2>2. arcs[i].children \subseteq Id
    BY DEF Expanded, Covers, Id
  <2>3. \A y \in Id : nodes[y].status \in Label
    BY DEF IInv, IsSearchGraph, IsSearchNode, Id
  <2> QED
    BY <2>1, <2>2, <2>3 DEF Label
<1>3. Covers(nodes, arcs[i], problem.expansions[c][i], Len(problem.expansions[c][i]))
      /\ i \in DOMAIN problem.expansions[c]
  BY DEF Expanded
<1>4. c \in Config
  BY DEF IInv, IsSearchGraph, IsSearchNode, Id
<1>5. DOMAIN problem.expansions[c][i] = 1..Len(problem.expansions[c][i])
  BY <1>3, <1>4, ExpansionFacts DEF IInv
<1>6. \A y \in arcs[i].children : nodes[y].config \in Planning!Solvable(problem)
  BY <1>2, <1>3 DEF Covers, IInv, LabelsRight, Id
<1>7. Planning!Targets(problem.expansions[c][i]) \subseteq Planning!Solvable(problem)
  BY <1>3, <1>5, <1>6 DEF Covers, Planning!Targets
<1> QED
  BY <1>3, <1>4, <1>7, SolvableIf DEF IInv

(* A failed child in every connector leaves no policy. *)
LEMMA FailedRight ==
  ASSUME IInv, NEW x \in Id, SafeHeuristic(problem),
         Expanded(nodes, problem, nodes[x].config, nodes[x].connections),
         ChildrenStatus(nodes[x].connections) = "Failed"
  PROVE  nodes[x].config \notin Planning!Solvable(problem)
<1> DEFINE c    == nodes[x].config
           arcs == nodes[x].connections
<1>1. DOMAIN arcs = DOMAIN problem.expansions[c] /\ DOMAIN arcs # {}
  BY DEF Expanded
<1>2. c \notin problem.goal
  <2>1. c \in Config
    BY DEF IInv, IsSearchGraph, IsSearchNode, Id
  <2> QED
    BY <1>1, <2>1, ProblemsAssumption DEF IInv, IsProblem
<1>3. ASSUME NEW i \in DOMAIN problem.expansions[c]
      PROVE  ~(Planning!Targets(problem.expansions[c][i]) \subseteq Planning!Solvable(problem))
  <2>1. ArcStatus(arcs[i]) = "Failed"
    BY <1>1 DEF ChildrenStatus
  <2>2. PICK y \in arcs[i].children : nodes[y].status = "Failed"
    BY <2>1 DEF ArcStatus
  <2>3. Covers(nodes, arcs[i], problem.expansions[c][i], Len(problem.expansions[c][i]))
    BY <1>1 DEF Expanded
  <2>4. DOMAIN problem.expansions[c][i] = 1..Len(problem.expansions[c][i])
    BY ExpansionFacts DEF IInv, IsSearchGraph, IsSearchNode, Id
  <2>5. nodes[y].config \notin Planning!Solvable(problem)
    BY <2>2, <2>3 DEF Covers, IInv, LabelsRight, Id
  <2>6. nodes[y].config \in Planning!Targets(problem.expansions[c][i])
    BY <2>2, <2>3, <2>4 DEF Covers, Planning!Targets
  <2> QED
    BY <2>5, <2>6
<1> QED
  BY <1>2, <1>3, SolvableOnlyIf DEF IInv
(* What revise_node_cost assigns to a node. *)
Recosted(m, cost, prob, arcs) ==
  [m EXCEPT !.cost = cost, !.prob = prob, !.connections = arcs]

Relabelled(m, status, cost, prob, arcs) ==
  [m EXCEPT !.status = status, !.cost = cost, !.prob = prob, !.connections = arcs]

(* Revising a node leaves its other fields alone. *)
LEMMA CostRevised ==
  ASSUME NEW m, HasNodeFields(m), NEW cost, NEW prob, NEW arcs
  PROVE  LET n == Recosted(m, cost, prob, arcs) IN
         /\ HasNodeFields(n)
         /\ n.config = m.config /\ n.parent = m.parent /\ n.status = m.status
         /\ n.cost = cost /\ n.prob = prob /\ n.connections = arcs
<1> DEFINE m1 == [m EXCEPT !.cost = cost]
           m2 == [m1 EXCEPT !.prob = prob]
           m3 == [m2 EXCEPT !.connections = arcs]
<1>1. /\ HasNodeFields(m1) /\ m1.cost = cost
      /\ m1.config = m.config /\ m1.parent = m.parent /\ m1.status = m.status
  BY DEF HasNodeFields
<1>2. Recosted(m, cost, prob, arcs) = m3
  BY DEF Recosted
<1> HIDE DEF m1
<1>3. /\ HasNodeFields(m2) /\ m2.cost = m1.cost /\ m2.prob = prob
      /\ m2.config = m1.config /\ m2.parent = m1.parent /\ m2.status = m1.status
  BY <1>1 DEF HasNodeFields
<1> HIDE DEF m2
<1>4. /\ HasNodeFields(m3) /\ m3.cost = m2.cost /\ m3.prob = m2.prob
      /\ m3.config = m2.config /\ m3.parent = m2.parent /\ m3.status = m2.status
      /\ m3.connections = arcs
  BY <1>3 DEF HasNodeFields
<1> HIDE DEF m3
<1> QED
  BY <1>1, <1>2, <1>3, <1>4

(* So does labelling it. *)
LEMMA LabelRevised ==
  ASSUME NEW m, HasNodeFields(m), NEW status, NEW cost, NEW prob, NEW arcs
  PROVE  LET n == Relabelled(m, status, cost, prob, arcs) IN
         /\ HasNodeFields(n)
         /\ n.config = m.config /\ n.parent = m.parent /\ n.status = status
         /\ n.cost = cost /\ n.prob = prob /\ n.connections = arcs
<1> DEFINE m1 == [m EXCEPT !.status = status]
           m2 == Recosted(m1, cost, prob, arcs)
<1>1. /\ HasNodeFields(m1)
      /\ m1.config = m.config /\ m1.parent = m.parent /\ m1.status = status
  BY DEF HasNodeFields
<1>2. Relabelled(m, status, cost, prob, arcs) = m2
  BY DEF Relabelled, Recosted
<1> HIDE DEF m1
<1>3. /\ HasNodeFields(m2)
      /\ m2.config = m1.config /\ m2.parent = m1.parent /\ m2.status = m1.status
      /\ m2.cost = cost /\ m2.prob = prob /\ m2.connections = arcs
  BY <1>1, CostRevised
<1> HIDE DEF m2
<1> QED
  BY <1>1, <1>2, <1>3

(* A labelled node keeps its label and connectors. *)
LEMMA ReviseTerminalKeeps ==
  ASSUME IInv, pc = "revise", NEW x \in work, ReviseTerminal(x),
         UNCHANGED <<problem, front, tip>>
  PROVE  IInv'
<1> DEFINE n == IF nodes[x].status = "Solved"
                THEN [nodes[x] EXCEPT !.cost = 0, !.prob = One]
                ELSE [nodes[x] EXCEPT !.cost = Inf, !.prob = 0]
<1>1. x \in Id /\ IsSearchNode(nodes, problem, nodes[x])
  BY DEF IInv, ControlOK, IsSearchGraph, Id
<1>2. /\ HasNodeFields(n) /\ n.config = nodes[x].config /\ n.parent = nodes[x].parent
      /\ n.connections = nodes[x].connections /\ n.status = nodes[x].status
  BY <1>1 DEF IsSearchNode, HasNodeFields
<1>3. nodes' = [nodes EXCEPT ![x] = n]
  BY <1>1 DEF ReviseTerminal
<1> HIDE DEF n
<1>4. IsSearchNode(nodes, problem, n)
  BY <1>1, <1>2 DEF IsSearchNode
<1>5. n.status # "OnGoing"
  BY <1>2 DEF ReviseTerminal, IsTerminal
<1>6. /\ n.status = "Solved" => n.config \in Planning!Solvable(problem)
      /\ SafeHeuristic(problem) /\ n.status = "Failed" =>
           n.config \notin Planning!Solvable(problem)
  BY <1>1, <1>2 DEF IInv, LabelsRight
<1>7. work' \subseteq work \cup Parents(x) /\ pc' = pc
  BY DEF ReviseTerminal
<1> QED
  BY <1>2, <1>3, <1>4, <1>5, <1>6, <1>7, NodeRevised

(* A node all of whose connectors have a failed child fails. *)
LEMMA ReviseFailsKeeps ==
  ASSUME IInv, pc = "revise", NEW x \in work, ReviseFails(x),
         UNCHANGED <<problem, front, tip>>
  PROVE  IInv'
<1> DEFINE arcs == ClearMarks(nodes[x].connections)
           n    == Relabelled(nodes[x], "Failed", Inf, 0, arcs)
<1>1. /\ x \in Id /\ IsSearchNode(nodes, problem, nodes[x])
      /\ Expanded(nodes, problem, nodes[x].config, nodes[x].connections)
  BY RevisedNode DEF ReviseFails
<1>2. Expanded(nodes, problem, nodes[x].config, arcs) /\ arcs # <<>>
  BY <1>1, Marked DEF ClearMarks
<1>3. nodes' = [nodes EXCEPT ![x] = n]
  BY <1>1 DEF ReviseFails, Relabelled
<1> HIDE DEF arcs
<1>4. /\ HasNodeFields(n) /\ n.config = nodes[x].config /\ n.parent = nodes[x].parent
      /\ n.connections = arcs /\ n.status = "Failed"
  BY <1>1, LabelRevised DEF IsSearchNode
<1> HIDE DEF n
<1>5. IsSearchNode(nodes, problem, n)
  BY <1>1, <1>2, <1>4 DEF IsSearchNode, Label
<1>6. SafeHeuristic(problem) => n.config \notin Planning!Solvable(problem)
  BY <1>1, <1>4, FailedRight DEF ReviseFails
<1>7. work' \subseteq work \cup Parents(x) /\ pc' = pc
  BY DEF ReviseFails
<1> QED
  BY <1>2, <1>3, <1>4, <1>5, <1>6, <1>7, NodeRevised

(* A node with a connector of solved children is solved. *)
LEMMA ReviseSolvesKeeps ==
  ASSUME IInv, pc = "revise", NEW x \in work, ReviseSolves(x),
         UNCHANGED <<problem, front, tip>>
  PROVE  IInv'
<1> DEFINE best == BestArc(nodes[x].connections)
           arcs == Mark(nodes[x].connections, best)
           cost == ArcCost(nodes[x].connections[best])
           prob == ArcProbability(nodes[x].connections[best])
           n    == Relabelled(nodes[x], "Solved", cost, prob, arcs)
<1>1. /\ x \in Id /\ IsSearchNode(nodes, problem, nodes[x])
      /\ Expanded(nodes, problem, nodes[x].config, nodes[x].connections)
  BY RevisedNode DEF ReviseSolves
<1>2. Expanded(nodes, problem, nodes[x].config, arcs) /\ arcs # <<>>
  BY <1>1, Marked
<1>3. nodes' = [nodes EXCEPT ![x] = n]
  BY <1>1 DEF ReviseSolves, Relabelled
<1> HIDE DEF arcs, cost, prob
<1>4. /\ HasNodeFields(n) /\ n.config = nodes[x].config /\ n.parent = nodes[x].parent
      /\ n.connections = arcs /\ n.status = "Solved"
  BY <1>1, LabelRevised DEF IsSearchNode
<1> HIDE DEF n
<1>5. IsSearchNode(nodes, problem, n)
  BY <1>1, <1>2, <1>4 DEF IsSearchNode, Label
<1>6. n.config \in Planning!Solvable(problem)
  BY <1>1, <1>4, SolvedRight DEF ReviseSolves
<1>7. work' \subseteq work \cup Parents(x) /\ pc' = pc
  BY DEF ReviseSolves
<1> QED
  BY <1>2, <1>3, <1>4, <1>5, <1>6, <1>7, NodeRevised

(* Otherwise a node has its best connector marked. *)
LEMMA ReviseOnGoingKeeps ==
  ASSUME IInv, pc = "revise", NEW x \in work, ReviseOnGoing(x),
         UNCHANGED <<problem, front, tip>>
  PROVE  IInv'
<1> DEFINE best == BestArc(nodes[x].connections)
           arcs == Mark(nodes[x].connections, best)
           cost == ArcCost(nodes[x].connections[best])
           prob == ArcProbability(nodes[x].connections[best])
           n    == Recosted(nodes[x], cost, prob, arcs)
<1>1. /\ x \in Id /\ IsSearchNode(nodes, problem, nodes[x]) /\ nodes[x].status = "OnGoing"
      /\ Expanded(nodes, problem, nodes[x].config, nodes[x].connections)
  BY RevisedNode DEF ReviseOnGoing
<1>2. Expanded(nodes, problem, nodes[x].config, arcs) /\ arcs # <<>>
  BY <1>1, Marked
<1>3. nodes' = [nodes EXCEPT ![x] = n]
  BY <1>1 DEF ReviseOnGoing, Recosted
<1> HIDE DEF arcs, cost, prob
<1>4. /\ HasNodeFields(n) /\ n.config = nodes[x].config /\ n.parent = nodes[x].parent
      /\ n.connections = arcs /\ n.status = "OnGoing"
  BY <1>1, CostRevised DEF IsSearchNode
<1> HIDE DEF n
<1>5. IsSearchNode(nodes, problem, n)
  BY <1>1, <1>2, <1>4 DEF IsSearchNode
<1>6. work' \subseteq work \cup Parents(x) /\ pc' = pc
  BY DEF ReviseOnGoing
<1> QED
  BY <1>2, <1>3, <1>4, <1>5, <1>6, NodeRevised

(* Steps that leave the nodes alone after the expansion. *)
LEMMA NodesLeftKeeps ==
  ASSUME IInv, pc \in {"revise", "loop", "extract"},
         pc' \in {"loop", "extract", "done", "panic"},
         UNCHANGED <<problem, nodes, front, tip, built, next>>,
         work' \subseteq Id,
         pc' = "extract" => nodes[root].status = "Solved"
  PROVE  IInv'
<1>1. problem' \in Problems /\ IsSearchGraph(nodes, problem)' /\ LabelsRight'
  BY NodesUnchanged
<1>2. ControlOK'
  BY DEF IInv, ControlOK, Id
<1>3. RevisesExpanded'
  BY DEF IInv, RevisesExpanded, Id
<1>4. BuiltOK'
  BY DEF BuiltOK
<1> QED
  BY <1>1, <1>2, <1>3, <1>4 DEF IInv

(* Extraction starts from a solved root and stays within the graph. *)
LEMMA ExtractKeeps ==
  ASSUME IInv, Terminate \/ Extract
  PROVE  IInv'
<1>1. UNCHANGED <<problem, nodes, front, tip, built, next>>
  BY DEF Terminate, Extract, ExtractStep, ExtractEnds
<1>2. /\ pc \in {"loop", "extract"} /\ pc' \in {"extract", "done", "panic"}
      /\ pc' = "extract" => nodes[root].status = "Solved"
  BY DEF Terminate, Extract, ExtractStep, ExtractEnds, ExtractSkips, ExtractVisits,
         IInv, ControlOK
<1>3. work' \subseteq Id
  <2>1. CASE Terminate
    BY <2>1 DEF Terminate, IInv, IsSearchGraph, ControlOK, Id
  <2>2. CASE ExtractStep
    <3>1. PICK x \in work : ExtractSkips(x) \/ ExtractVisits(x)
      BY <2>2 DEF ExtractStep
    <3>2. x \in Id /\ work \subseteq Id
      BY DEF IInv, ControlOK
    <3>3. ASSUME NEW i \in FirstMarked(x)
          PROVE  nodes[x].connections[i].children \subseteq Id
      <4>1. i \in DOMAIN nodes[x].connections
        BY DEF FirstMarked, MarkedArcs
      <4>2. nodes[x].connections # <<>>
        BY <4>1
      <4>3. Expanded(nodes, problem, nodes[x].config, nodes[x].connections)
        BY <3>2, <4>2 DEF IInv, IsSearchGraph, IsSearchNode, Id
      <4> QED
        BY <4>1, <4>3 DEF Expanded, Covers, Id
    <3> QED
      BY <3>1, <3>2, <3>3 DEF ExtractSkips, ExtractVisits
  <2>3. CASE ExtractEnds
    BY <2>3 DEF ExtractEnds, IInv, ControlOK
  <2> QED
    BY <2>1, <2>2, <2>3 DEF Extract
<1> QED
  BY <1>1, <1>2, <1>3, NodesLeftKeeps

(* Every step keeps the invariant. *)
LEMMA NextKeeps == IInv /\ [Next]_vars => IInv'
<1> SUFFICES ASSUME IInv, [Next]_vars PROVE IInv'
  OBVIOUS
<1>1. CASE Find
  BY <1>1, FindKeeps
<1>2. CASE Expand
  BY <1>2, ExpandSkipsKeeps, ExpandTerminalKeeps, ExpandBeginsKeeps, OutcomeMergesKeeps,
     OutcomeInsertsKeeps, NextConnectorKeeps, ExpandEndsKeeps DEF Expand
<1>3. CASE ReviseStep
  <2>1. PICK x \in work : \/ ReviseTerminal(x)
                          \/ ReviseFails(x)
                          \/ ReviseSolves(x)
                          \/ ReviseOnGoing(x)
                          \/ RevisePanics(x)
    BY <1>3 DEF ReviseStep
  <2>2. pc = "revise" /\ UNCHANGED <<problem, front, tip, built, next>>
    BY <1>3 DEF ReviseStep
  <2>3. CASE ReviseTerminal(x)
    BY <2>2, <2>3, ReviseTerminalKeeps
  <2>4. CASE ReviseFails(x)
    BY <2>2, <2>4, ReviseFailsKeeps
  <2>5. CASE ReviseSolves(x)
    BY <2>2, <2>5, ReviseSolvesKeeps
  <2>6. CASE ReviseOnGoing(x)
    BY <2>2, <2>6, ReviseOnGoingKeeps
  <2>7. CASE RevisePanics(x)
    BY <2>2, <2>7, NodesLeftKeeps DEF RevisePanics, IInv, ControlOK
  <2> QED
    BY <2>1, <2>3, <2>4, <2>5, <2>6, <2>7
<1>4. CASE ReviseEnds
  BY <1>4, NodesLeftKeeps DEF ReviseEnds, IInv, ControlOK
<1>5. CASE Terminate \/ Extract
  BY <1>5, ExtractKeeps
<1>6. CASE UNCHANGED vars
  <2>1. UNCHANGED <<problem, nodes, front, pc, work, tip, built, next, policy>>
    BY <1>6 DEF vars
  <2>2. problem' \in Problems /\ IsSearchGraph(nodes, problem)' /\ LabelsRight'
    BY <2>1, NodesUnchanged
  <2>3. ControlOK' /\ RevisesExpanded'
    BY <2>1 DEF IInv, ControlOK, RevisesExpanded, Id
  <2>4. BuiltOK'
    <3>1. Expansions' = Expansions
      BY <2>1 DEF Expansions
    <3> QED
      BY <2>1, <3>1 DEF IInv, BuiltOK
  <2> QED
    BY <2>2, <2>3, <2>4 DEF IInv
<1> QED
  BY <1>1, <1>2, <1>3, <1>4, <1>5, <1>6 DEF Next, Revise

(* The invariant holds throughout. *)
THEOREM AlwaysInv == Spec => []IInv
BY InitiallyInv, NextKeeps, PTL DEF Spec

----------------------------------------------------------------------------
(***************************************************************************)
(* What follows.                                                           *)
(***************************************************************************)
(* A node labelled Solved has a strong policy, whatever the heuristic and  *)
(* the order of the nodes in the HashMap: arc_status, children_status and  *)
(* the label new_ongoing gives never solve too much.                       *)
THEOREM SolvedAlwaysSound == Spec => []SolvedSound
<1>1. IInv => SolvedSound
  BY DEF IInv, LabelsRight, SolvedSound, ConfigsLabelled
<1> QED
  BY <1>1, AlwaysInv, PTL

(* A node labelled Failed has no strong policy, if the heuristic is safe:  *)
(* the pruning of arc_status, children_status and mark_as_terminal loses   *)
(* no solution.                                                            *)
THEOREM FailedAlwaysSound == Spec => []FailedSound
<1>1. IInv => FailedSound
  BY DEF IInv, LabelsRight, FailedSound, ConfigsLabelled
<1> QED
  BY <1>1, AlwaysInv, PTL

(* A label is for good, and so are the connectors and marks of a labelled  *)
(* node: expand() and revise_node_cost relabel only ONGOING nodes.         *)
THEOREM LabelsAlwaysFinal == Spec => LabelsAreFinal
<1> DEFINE Final == \A x \in Id : nodes[x].status # "OnGoing" =>
                      /\ nodes'[x].status = nodes[x].status
                      /\ nodes'[x].connections = nodes[x].connections
<1>1. ASSUME IInv, [Next]_vars PROVE [Final]_vars
  <2>1. CASE UNCHANGED nodes
    BY <2>1
  <2>2. ASSUME NEW x \in Id, NEW n, nodes' = [nodes EXCEPT ![x] = n],
               \/ nodes[x].status = "OnGoing"
               \/ n.status = nodes[x].status /\ n.connections = nodes[x].connections
        PROVE  Final
    BY <2>2 DEF Id
  <2>3. CASE ExpandTerminal
    <3>1. tip \in Id /\ nodes[tip].status = "OnGoing"
      BY <1>1, <2>3, ExpandedNode DEF ExpandTerminal
    <3>2. \A y \in Id : y # tip => nodes'[y] = nodes[y]
      BY <2>3 DEF ExpandTerminal, Id
    <3> QED
      BY <3>1, <3>2
  <2>4. CASE ExpandEnds
    <3>1. tip \in Id /\ nodes[tip].status = "OnGoing"
      BY <1>1, <2>4, ExpandedNode DEF ExpandEnds
    <3>2. \A y \in Id : y # tip => nodes'[y] = nodes[y]
      BY <2>4 DEF ExpandEnds, Id
    <3> QED
      BY <3>1, <3>2
  <2>5. CASE OutcomeInserts
    <3>1. nodes' = Append(nodes, NewNode(Outcome.to)) /\ IsSeq(nodes)
      BY <1>1, <2>5 DEF OutcomeInserts, IInv, IsSearchGraph
    <3> QED
      BY <3>1, SeqAppended DEF Id
  <2>6. CASE ReviseStep
    <3>1. PICK x \in work : \/ ReviseTerminal(x)
                            \/ ReviseFails(x)
                            \/ ReviseSolves(x)
                            \/ ReviseOnGoing(x)
                            \/ RevisePanics(x)
      BY <2>6 DEF ReviseStep
    <3>2. x \in Id
      BY <1>1 DEF IInv, ControlOK
    <3>3. CASE ReviseTerminal(x)
      <4> DEFINE n == IF nodes[x].status = "Solved"
                      THEN [nodes[x] EXCEPT !.cost = 0, !.prob = One]
                      ELSE [nodes[x] EXCEPT !.cost = Inf, !.prob = 0]
      <4>1. n.status = nodes[x].status /\ n.connections = nodes[x].connections
        BY <1>1, <3>2 DEF IInv, IsSearchGraph, IsSearchNode, HasNodeFields, Id
      <4>2. nodes' = [nodes EXCEPT ![x] = n]
        BY <3>2, <3>3 DEF ReviseTerminal
      <4> HIDE DEF n
      <4> QED
        BY <2>2, <3>2, <4>1, <4>2
    <3>4. CASE ~IsTerminal(x)
      <4>1. nodes[x].status = "OnGoing"
        BY <1>1, <3>2, <3>4, NotTerminal
      <4>2. \A y \in Id : y # x => nodes'[y] = nodes[y]
        BY <3>1, <3>4 DEF ReviseTerminal, ReviseFails, ReviseSolves, ReviseOnGoing,
                          RevisePanics, Id
      <4> QED
        BY <4>1, <4>2
    <3> QED
      BY <3>1, <3>3, <3>4, <2>1 DEF ReviseFails, ReviseSolves, ReviseOnGoing, RevisePanics
  <2> QED
    BY <1>1, <2>1, <2>3, <2>4, <2>5, <2>6
       DEF Next, Find, Expand, Revise, BeginIteration, FindStep, FindEnds, ExpandSkips,
           ExpandBegins, OutcomeMerges, NextConnector, ReviseEnds, Terminate, Extract,
           ExtractStep, ExtractEnds, vars
<1> QED
  BY <1>1, AlwaysInv, PTL DEF Spec, LabelsAreFinal

(* The answer is right: when no heuristic value is infinite without cause, *)
(* every step of the search is an answer that StrongPlanning allows, or    *)
(* none.  (That an answer comes is checked by TLC only.)                   *)
THEOREM AnswersRightly ==
  ASSUME \A prob \in Problems : SafeHeuristic(prob)
  PROVE  Spec => Planning!Init /\ [][Planning!Answer]_Planning!vars
<1>1. Init => Planning!Init
  BY DEF Init, Planning!Init
<1>2. ASSUME IInv, [Next]_vars PROVE [Planning!Answer]_Planning!vars
  <2>1. CASE Terminate \/ ExtractEnds
    <3>1. pc # "done" /\ UNCHANGED <<problem, nodes>>
      BY <2>1 DEF Terminate, ExtractEnds
    <3>2. root \in Id /\ nodes[root].config = problem.root
      BY <1>2 DEF IInv, IsSearchGraph, Id
    <3>3. SafeHeuristic(problem)
      BY <1>2 DEF IInv
    <3>4. /\ nodes[root].status = "Solved" => problem.root \in Planning!Solvable(problem)
          /\ nodes[root].status = "Failed" => problem.root \notin Planning!Solvable(problem)
      BY <1>2, <3>2, <3>3 DEF IInv, LabelsRight
    <3>5. pc' = "done" => nodes[root].status \in {"Solved", "Failed"}
      BY <1>2, <2>1 DEF Terminate, ExtractEnds, IsTerminal, IInv, ControlOK
    <3> QED
      BY <3>1, <3>4, <3>5 DEF Planning!Answer, Planning!vars
  <2>2. CASE UNCHANGED vars
    BY <2>2 DEF vars, Planning!vars
  <2>3. CASE Next /\ ~Terminate /\ ~ExtractEnds
    <3>1. pc # "done" /\ pc' # "done" /\ problem' = problem
      BY <2>3 DEF Next, Find, Expand, Revise, BeginIteration, FindStep, FindSkipsTerminal,
         FindReturns, FindFollowsMark, FindRemembers, FindEnds, ExpandSkips, ExpandTerminal,
         ExpandBegins, BeginRevision, OutcomeMerges, OutcomeInserts, NextConnector,
         ExpandEnds, ReviseStep, ReviseTerminal, ReviseFails, ReviseSolves, ReviseOnGoing,
         RevisePanics, ReviseEnds, Extract, ExtractStep, ExtractSkips, ExtractVisits
    <3> QED
      BY <3>1 DEF Planning!vars
  <2> QED
    BY <1>2, <2>1, <2>2, <2>3
<1> QED
  BY <1>1, <1>2, AlwaysInv, PTL DEF Spec

=============================================================================
