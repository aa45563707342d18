---------------------------- MODULE TaskNetwork ----------------------------
(***************************************************************************)
(* Task networks and the surgery the planner performs on them: the graph   *)
(* library (planner/src/graph_lib/graph.rs) and the network built on it    *)
(* (planner/src/task_network/network.rs).                                  *)
(*                                                                         *)
(* A network is a record [nodes, edges, task]: a set of node ids, a set of *)
(* ordering pairs over them (the HashMap<u32, BTreeSet<u32>> of the graph, *)
(* flattened as get_edges does), and the task each node stands for (the    *)
(* mappings of the network).  Where a definition uses only nodes and edges *)
(* it models a method of Graph, otherwise one of HTN.                      *)
(***************************************************************************)
EXTENDS Integers, FiniteSets

CONSTANTS
  Task,     \* the tasks of the domain, primitive and compound
  MaxId     \* the largest node id; u32::MAX in the code

ASSUME MaxIdAssumption == MaxId \in Nat

NodeId == 0..MaxId

(* The empty network: what is left when every task has been executed. *)
EmptyNetwork(tn) == tn.nodes = {}

----------------------------------------------------------------------------
(***************************************************************************)
(* Well-formedness: the orderings are over the nodes, every node has a     *)
(* task, and the orderings are acyclic.  Acyclicity is stated the way the  *)
(* planner needs it: every non-empty set of nodes has a member that none   *)
(* of the others must precede.                                             *)
(***************************************************************************)
IsNetwork(tn) ==
  /\ tn = [nodes |-> tn.nodes, edges |-> tn.edges, task |-> tn.task]
  /\ tn.nodes \subseteq NodeId
  /\ tn.edges \subseteq tn.nodes \X tn.nodes
  /\ tn.task \in [tn.nodes -> Task]

Acyclic(tn) ==
  \A S \in SUBSET tn.nodes :
     S # {} => \E n \in S : \A m \in S : <<m, n>> \notin tn.edges

(***************************************************************************)
(* y must come after x: y is in every set of nodes that holds the          *)
(* successors of x and is closed under the orderings.  This is the         *)
(* transitive closure of the orderings.                                    *)
(***************************************************************************)
Precedes(tn, x, y) ==
  \A S \in SUBSET tn.nodes :
     (/\ \A n \in tn.nodes : <<x, n>> \in tn.edges => n \in S
      /\ \A m, n \in tn.nodes : m \in S /\ <<m, n>> \in tn.edges => n \in S)
     => y \in S

Order(tn) == {p \in tn.nodes \X tn.nodes : Precedes(tn, p[1], p[2])}

----------------------------------------------------------------------------
(***************************************************************************)
(* The graph library.                                                      *)
(***************************************************************************)

(* The nodes that no ordering points to. *)
Unconstrained(g) == {n \in g.nodes : \A e \in g.edges : e[2] # n}

(* The nodes that no ordering leaves. *)
Terminal(g) == {n \in g.nodes : \A e \in g.edges : e[1] # n}

IncomingEdges(g, id) == {m \in NodeId : <<m, id>> \in g.edges}

OutgoingEdges(g, id) == {n \in NodeId : <<id, n>> \in g.edges}

RemoveNodeOnlyIncoming(g, id) ==   \* seeded fault: its orderings to others stay
  [nodes |-> g.nodes \ {id}, edges |-> {e \in g.edges : e[2] # id}]

RemoveNode(g, id) ==
  [nodes |-> g.nodes \ {id},
   edges |-> {e \in g.edges : e[1] # id /\ e[2] # id}]

(***************************************************************************)
(* Splicing a graph into another one: what came before the replaced node   *)
(* comes before the sources of the new part, and its sinks come before     *)
(* what came after.  The code panics when the two graphs share an id.      *)
(***************************************************************************)
Disjoint(g, sub) == g.nodes \cap sub.nodes = {}

AddSubgraphBySources(g, sub, incoming, outgoing) ==   \* seeded fault: sources, not sinks
  [nodes |-> g.nodes \cup sub.nodes,
   edges |-> g.edges \cup sub.edges
               \cup (incoming \X Unconstrained(sub))
               \cup (Unconstrained(sub) \X outgoing)]

AddSubgraph(g, sub, incoming, outgoing) ==
  [nodes |-> g.nodes \cup sub.nodes,
   edges |-> g.edges \cup sub.edges
               \cup (incoming \X Unconstrained(sub))
               \cup (Terminal(sub) \X outgoing)]

----------------------------------------------------------------------------
(***************************************************************************)
(* Networks: fresh ids, decomposition, execution.                          *)
(***************************************************************************)

LargestId(S) == CHOOSE n \in S : \A m \in S : m <= n

(***************************************************************************)
(* The first id given to the nodes of a method: one more than any id of    *)
(* the network, which still holds the task to decompose, and of the        *)
(* method.  max() of an empty set of nodes has no value to unwrap, so both *)
(* must be non-empty.                                                      *)
(***************************************************************************)
FirstNewIdTooSmall(tn, sub) == LargestId(tn.nodes \cup sub.nodes)   \* seeded fault

FirstNewIdByCount(tn, sub) == Cardinality(tn.nodes)   \* seeded fault: a count, not a maximum

FirstNewId(tn, sub) == LargestId(tn.nodes \cup sub.nodes) + 1

(* The i-th smallest node of a method gets the i-th id from start on. *)
NewId(sub, start, n) == start + Cardinality({m \in sub.nodes : m < n})

(* Graph::change_ids and the mappings that follow it. *)
RelabelNodes(sub, start) ==
  LET new(n) == NewId(sub, start, n) IN
  [nodes |-> {new(n) : n \in sub.nodes},
   edges |-> {<<new(e[1]), new(e[2])>> : e \in sub.edges},
   task  |-> [k \in {new(n) : n \in sub.nodes} |->
                sub.task[CHOOSE n \in sub.nodes : new(n) = k]]]

(* HTN::decompose: task id of tn is replaced by the network of a method. *)
DecomposeNode(tn, id, method) ==
  LET sub == RelabelNodes(method, FirstNewId(tn, method))
      g   == AddSubgraph(RemoveNode(tn, id), sub,
                         IncomingEdges(tn, id), OutgoingEdges(tn, id))
  IN  [nodes |-> g.nodes,
       edges |-> g.edges,
       task  |-> [n \in g.nodes |->
                    IF n \in sub.nodes THEN sub.task[n] ELSE tn.task[n]]]

(* HTN::apply_action: task id of tn has been executed. *)
ApplyAction(tn, id) ==
  LET g == RemoveNode(tn, id) IN
  [nodes |-> g.nodes,
   edges |-> g.edges,
   task  |-> [n \in g.nodes |-> tn.task[n]]]

(* The bound on ids: no decomposition that needs one above MaxId is made.  *)
(* (The code has no such check; at u32::MAX its sums overflow.)            *)
IdsLeft(tn, method) ==
  FirstNewId(tn, method) + Cardinality(method.nodes) - 1 <= MaxId

=============================================================================
