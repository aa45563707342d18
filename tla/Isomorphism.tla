----------------------------- MODULE Isomorphism -----------------------------
(***************************************************************************)
(* The test by which the searches recognise a task network they have met   *)
(* before: HTN::is_isomorphic (planner/src/task_network/network.rs), which *)
(* compares the tasks, then the layers, and then looks for a matching      *)
(* (planner/src/graph_lib/vf2.rs).                                         *)
(***************************************************************************)
EXTENDS Progression

(* HTN::count_tasks_with_frequency *)
Frequency(net) ==
  [t \in {net.task[n] : n \in net.nodes} |-> Cardinality({n \in net.nodes : net.task[n] = t})]

(* Only the tasks of the first network are looked up in the second.        *)
FrequenciesAgree(tn1, tn2) ==
  \A t \in DOMAIN Frequency(tn1) :
     t \in DOMAIN Frequency(tn2) /\ Frequency(tn2)[t] = Frequency(tn1)[t]

Below(net, N) == UNION {OutgoingEdges(net, n) : n \in N}
Above(net, N) == UNION {IncomingEdges(net, n) : n \in N}
TasksOf(net, N) == {net.task[n] : n \in N}

(***************************************************************************)
(* Graph::to_layers, as sets of tasks (layers_to_tasks), from the first    *)
(* tasks on.  A node is in the layer of every path that leads to it.       *)
(***************************************************************************)
NodeLayers(net) ==
  LET layer[k \in 0..Cardinality(net.nodes)] ==
        IF k = 0 THEN Unconstrained(net) ELSE Below(net, layer[k - 1])
  IN  layer

Layers(net) ==
  LET layer == NodeLayers(net)
  IN  [k \in {j \in DOMAIN layer : j = 0 \/ layer[j] # {}} |-> TasksOf(net, layer[k])]

----------------------------------------------------------------------------
(***************************************************************************)
(* vf2_isomorphism.  A partial matching is a set of pairs; the stack of    *)
(* the code visits the extensions of a matching in some order, until one   *)
(* has as many pairs as there are nodes.                                   *)
(***************************************************************************)
Alike(tn1, tn2, A, B) == {p \in A \X B : tn1.task[p[1]] = tn2.task[p[2]]}

CandidatesUpwardsFirst(tn1, tn2, S) ==   \* seeded fault: predecessors before successors
  LET N1 == {p[1] : p \in S}
      N2 == {p[2] : p \in S}
  IN  IF Above(tn1, N1) # {} /\ Above(tn2, N2) # {} THEN Alike(tn1, tn2, Above(tn1, N1), Above(tn2, N2))
      ELSE IF Below(tn1, N1) # {} /\ Below(tn2, N2) # {}
      THEN Alike(tn1, tn2, Below(tn1, N1), Below(tn2, N2))
      ELSE Alike(tn1, tn2, tn1.nodes \ N1, tn2.nodes \ N2)

Candidates(tn1, tn2, S) ==
  LET N1 == {p[1] : p \in S}
      N2 == {p[2] : p \in S}
  IN  IF Below(tn1, N1) # {} /\ Below(tn2, N2) # {} THEN Alike(tn1, tn2, Below(tn1, N1), Below(tn2, N2))
      ELSE IF Above(tn1, N1) # {} /\ Above(tn2, N2) # {}
      THEN Alike(tn1, tn2, Above(tn1, N1), Above(tn2, N2))
      ELSE Alike(tn1, tn2, tn1.nodes \ N1, tn2.nodes \ N2)

(* The neighbours of the two nodes stand for the same sets of tasks.       *)
Fits(tn1, tn2, p) ==
  /\ TasksOf(tn1, IncomingEdges(tn1, p[1])) = TasksOf(tn2, IncomingEdges(tn2, p[2]))
  /\ TasksOf(tn1, OutgoingEdges(tn1, p[1])) = TasksOf(tn2, OutgoingEdges(tn2, p[2]))

Extensions(tn1, tn2, S) == {p \in Candidates(tn1, tn2, S) \ S : Fits(tn1, tn2, p)}

Completed(tn1, tn2) ==
  LET completed[S \in SUBSET (tn1.nodes \X tn2.nodes)] ==
        \/ Cardinality(S) = Cardinality(tn1.nodes)
        \/ \E p \in Extensions(tn1, tn2, S) : completed[S \cup {p}]
  IN  completed

VF2(tn1, tn2) == Cardinality(tn1.nodes) = Cardinality(tn2.nodes) /\ Completed(tn1, tn2)[{}]

IsIsomorphic(tn1, tn2) ==
  /\ FrequenciesAgree(tn1, tn2)
  /\ Layers(tn1) = Layers(tn2)
  /\ VF2(tn1, tn2)

----------------------------------------------------------------------------
(* The same network with its ids in the opposite order.                    *)
Mirrored(net) ==
  [nodes |-> {MaxId - n : n \in net.nodes},
   edges |-> {<<MaxId - e[1], MaxId - e[2]>> : e \in net.edges},
   task  |-> [k \in {MaxId - n : n \in net.nodes} |-> net.task[MaxId - k]]]

(***************************************************************************)
(* A network in which one task comes before all others is recognised under *)
(* whatever ids it is met again, although the test goes through partial    *)
(* matchings greedily, never both up and down the orderings: below its     *)
(* first task there is always a pair left to add.  (A network with several *)
(* first tasks that are ordered before something may be met as a new one.) *)
(***************************************************************************)
KnownNetworkRecognised ==
  Cardinality(Unconstrained(tn)) = 1 => IsIsomorphic(tn, Mirrored(tn)) /\ IsIsomorphic(Mirrored(tn), tn)

(***************************************************************************)
(* What the searches take for one node is one situation: of the networks   *)
(* that the ready tasks decompose into, only those are identified that are *)
(* the same network up to ids.  "Either finds an isomorphic node or        *)
(* creates a new one" (search/fixed_method/search_space.rs:47); AO* merges *)
(* by the same test (search/search_graph/search_graph.rs:88).              *)
(***************************************************************************)
SameNetwork(tn1, tn2) ==
  \E ren \in [tn1.nodes -> tn2.nodes] :
     /\ {ren[n] : n \in tn1.nodes} = tn2.nodes
     /\ \A n \in tn1.nodes : tn2.task[ren[n]] = tn1.task[n]
     /\ \A m, n \in tn1.nodes : <<m, n>> \in Order(tn1) <=> <<ren[m], ren[n]>> \in Order(tn2)

Decompositions ==
  {DecomposeNode(tn, cm[1], cm[2]) :
     cm \in {x \in ReadyCompound \X UNION {Method[t] : t \in Compound} : x[2] \in Method[tn.task[x[1]]]}}

MergedNetworksAreSame ==
  \A tn1, tn2 \in Decompositions : IsIsomorphic(tn1, tn2) => SameNetwork(tn1, tn2)

=============================================================================
