------------------------- MODULE ProgressionProofs -------------------------
(***************************************************************************)
(* Progression keeps the search nodes well formed, whatever the domain,    *)
(* the problem and the bound on the ids, and implements HTNSemantics.      *)
(***************************************************************************)
EXTENDS Progression, FiniteSetTheorems, TLAPS

----------------------------------------------------------------------------
(* The network operators, for every network, method and bound on the ids. *)

(* Sets of node ids are finite. *)
LEMMA NodeSetFinite ==
  ASSUME NEW S \in SUBSET NodeId
  PROVE  /\ IsFiniteSet(S)
         /\ Cardinality(S) \in Nat
<1>1. IsFiniteSet(NodeId)
  BY MaxIdAssumption, FS_Interval DEF NodeId
<1> QED
  BY <1>1, FS_Subset, FS_CardinalityType

(***************************************************************************)
(* LargestId returns the maximum: among the sets of members above a given  *)
(* member one is minimal for inclusion, and it belongs to the largest one. *)
(***************************************************************************)
LEMMA LargestIdMax ==
  ASSUME NEW S \in SUBSET Nat, IsFiniteSet(S), S # {}
  PROVE  /\ LargestId(S) \in S
         /\ \A m \in S : m <= LargestId(S)
<1> DEFINE Above(n) == {m \in S : n <= m}
           T == {Above(n) : n \in S}
<1>1. IsWellFoundedOn(StrictSubsetOrdering(S), FiniteSubsetsOf(S))
  BY FS_StrictSubsetOrderingWellFounded
<1>2. T \subseteq FiniteSubsetsOf(S) /\ T # {}
  <2>1. FiniteSubsetsOf(S) = SUBSET S
    BY FS_FiniteSubsetsOfFinite
  <2>2. \A n \in S : Above(n) \in SUBSET S
    OBVIOUS
  <2>3. T \subseteq SUBSET S
    BY <2>2, Zenon
  <2>4. PICK n \in S : TRUE
    OBVIOUS
  <2>5. Above(n) \in T
    BY <2>4, Zenon
  <2> QED
    BY <2>1, <2>3, <2>5
<1>3. PICK X \in T : \A Y \in T : <<Y, X>> \notin StrictSubsetOrdering(S)
  <2> HIDE DEF T
  <2> QED
    BY <1>1, <1>2, WFMin
<1>4. PICK n \in S : X = Above(n)
  OBVIOUS
<1>5. \A m \in S : m <= n
  <2> SUFFICES ASSUME NEW m \in S, ~(m <= n)
               PROVE  FALSE
    OBVIOUS
  <2>1. m \in Nat /\ n \in Nat /\ n < m
    OBVIOUS
  <2>2. Above(m) \subseteq Above(n) /\ Above(m) # Above(n)
    <3>1. \A x \in S : m <= x => n <= x
      BY <2>1
    <3>2. n \in Above(n) /\ n \notin Above(m)
      BY <2>1
    <3> QED
      BY <3>1, <3>2
  <2>3. <<Above(m), X>> \in StrictSubsetOrdering(S)
    BY <2>2, <1>4 DEF StrictSubsetOrdering
  <2> QED
    BY <2>3, <1>3
<1> QED
  BY <1>5 DEF LargestId

(***************************************************************************)
(* The rank of a node in a method and the id it gets: ranks keep the order *)
(* of the ids, so that different nodes get different ids, and the ids fill *)
(* the interval that begins at start.                                      *)
(***************************************************************************)
LEMMA NewIdFacts ==
  ASSUME NEW sub, IsNetwork(sub), NEW start \in Nat
  PROVE  /\ \A n \in sub.nodes :
              NewId(sub, start, n) \in start .. (start + Cardinality(sub.nodes) - 1)
         /\ \A m, n \in sub.nodes :
              m < n => NewId(sub, start, m) < NewId(sub, start, n)
         /\ \A m, n \in sub.nodes :
              NewId(sub, start, m) = NewId(sub, start, n) => m = n
<1> DEFINE Below(n) == {m \in sub.nodes : m < n}
<1>1. sub.nodes \in SUBSET NodeId /\ sub.nodes \subseteq Nat
  BY MaxIdAssumption DEF IsNetwork, NodeId
<1>2. IsFiniteSet(sub.nodes) /\ Cardinality(sub.nodes) \in Nat
  BY <1>1, NodeSetFinite
<1>3. \A n : IsFiniteSet(Below(n)) /\ Cardinality(Below(n)) \in Nat
  BY <1>1, NodeSetFinite
<1>4. ASSUME NEW n \in sub.nodes
      PROVE  Cardinality(Below(n)) < Cardinality(sub.nodes)
  <2>1. Below(n) \in SUBSET sub.nodes /\ Below(n) # sub.nodes
    <3>1. n \notin Below(n)
      BY <1>1
    <3> QED
      BY <3>1
  <2>2. /\ Cardinality(Below(n)) <= Cardinality(sub.nodes)
        /\ Cardinality(sub.nodes) = Cardinality(Below(n)) => sub.nodes = Below(n)
    <3> HIDE DEF Below
    <3> QED
      BY <2>1, <1>2, FS_Subset
  <2> QED
    BY <2>1, <2>2, <1>2, <1>3
<1>5. ASSUME NEW m \in sub.nodes, NEW n \in sub.nodes, m < n
      PROVE  Cardinality(Below(m)) < Cardinality(Below(n))
  <2>1. m \in Nat /\ n \in Nat
    BY <1>1
  <2>2. \A x \in sub.nodes : x < m => x < n
    BY <1>1, <1>5, <2>1
  <2>3. m \in Below(n) /\ m \notin Below(m)
    BY <1>5, <2>1
  <2>4. Below(m) \in SUBSET Below(n) /\ Below(m) # Below(n)
    BY <2>2, <2>3
  <2>5. /\ Cardinality(Below(m)) <= Cardinality(Below(n))
        /\ Cardinality(Below(n)) = Cardinality(Below(m)) => Below(n) = Below(m)
    <3>1. IsFiniteSet(Below(n))
      BY <1>3
    <3> HIDE DEF Below
    <3> QED
      BY <2>4, <3>1, FS_Subset
  <2> QED
    BY <2>4, <2>5, <1>3
<1>6. \A n : NewId(sub, start, n) = start + Cardinality(Below(n))
  BY DEF NewId
<1> HIDE DEF Below
<1>7. ASSUME NEW n \in sub.nodes
      PROVE  NewId(sub, start, n) \in start .. (start + Cardinality(sub.nodes) - 1)
  BY <1>2, <1>3, <1>4, <1>6
<1>8. ASSUME NEW m \in sub.nodes, NEW n \in sub.nodes, m < n
      PROVE  NewId(sub, start, m) < NewId(sub, start, n)
  BY <1>3, <1>5, <1>6, <1>8
<1>9. ASSUME NEW m \in sub.nodes, NEW n \in sub.nodes,
             NewId(sub, start, m) = NewId(sub, start, n)
      PROVE  m = n
  <2>1. m \in Nat /\ n \in Nat
    BY <1>1
  <2>2. NewId(sub, start, m) \in Int
    BY <1>7
  <2> QED
    BY <2>1, <2>2, <1>8, <1>9
<1> QED
  BY <1>7, <1>8, <1>9

(***************************************************************************)
(* Relabelling a method gives an isomorphic network over the new ids: it   *)
(* is a network, it has no node below start, and it is acyclic.            *)
(***************************************************************************)
LEMMA RelabelledIsNetwork ==
  ASSUME NEW sub, IsNetwork(sub), NEW start \in Nat,
         start + Cardinality(sub.nodes) - 1 <= MaxId
  PROVE  /\ IsNetwork(RelabelNodes(sub, start))
         /\ \A n \in RelabelNodes(sub, start).nodes : start <= n
         /\ sub.nodes # {} => RelabelNodes(sub, start).nodes # {}
<1> DEFINE new(n) == NewId(sub, start, n)
           R == RelabelNodes(sub, start)
<1>1. Cardinality(sub.nodes) \in Nat
  BY NodeSetFinite DEF IsNetwork
<1>2. \A n \in sub.nodes : new(n) \in NodeId /\ start <= new(n)
  BY <1>1, NewIdFacts, MaxIdAssumption DEF NodeId
<1>3. \A e \in sub.edges : e[1] \in sub.nodes /\ e[2] \in sub.nodes
  BY DEF IsNetwork
<1>4. sub.task \in [sub.nodes -> Task]
  BY DEF IsNetwork
<1> HIDE DEF new
<1>5. R = [nodes |-> {new(n) : n \in sub.nodes},
           edges |-> {<<new(e[1]), new(e[2])>> : e \in sub.edges},
           task  |-> [k \in {new(n) : n \in sub.nodes} |->
                        sub.task[CHOOSE n \in sub.nodes : new(n) = k]]]
  BY DEF RelabelNodes, new
<1> HIDE DEF R
<1>6. R.nodes \subseteq NodeId
  BY <1>2, <1>5
<1>7. R.edges \subseteq R.nodes \X R.nodes
  BY <1>3, <1>5
<1>8. R.task \in [R.nodes -> Task]
  <2>1. ASSUME NEW k \in R.nodes
        PROVE  sub.task[CHOOSE n \in sub.nodes : new(n) = k] \in Task
    <3>1. \E n \in sub.nodes : new(n) = k
      BY <1>5
    <3>2. (CHOOSE n \in sub.nodes : new(n) = k) \in sub.nodes
      BY <3>1
    <3> QED
      BY <3>2, <1>4
  <2> QED
    BY <2>1, <1>5
<1>9. R = [nodes |-> R.nodes, edges |-> R.edges, task |-> R.task]
  BY <1>5
<1>10. IsNetwork(R)
  BY <1>6, <1>7, <1>8, <1>9 DEF IsNetwork
<1>11. \A n \in R.nodes : start <= n
  BY <1>2, <1>5
<1>12. sub.nodes # {} => R.nodes # {}
  BY <1>5
<1> QED
  BY <1>10, <1>11, <1>12 DEF R

LEMMA RelabelledIsAcyclic ==
  ASSUME NEW sub, IsNetwork(sub), Acyclic(sub), NEW start \in Nat
  PROVE  Acyclic(RelabelNodes(sub, start))
<1> DEFINE new(n) == NewId(sub, start, n)
           R == RelabelNodes(sub, start)
<1>1. \A m, n \in sub.nodes : new(m) = new(n) => m = n
  BY NewIdFacts
<1>2. \A e \in sub.edges : e[1] \in sub.nodes /\ e[2] \in sub.nodes /\ e = <<e[1], e[2]>>
  BY DEF IsNetwork
<1> HIDE DEF new
<1>3. /\ R.nodes = {new(n) : n \in sub.nodes}
      /\ R.edges = {<<new(e[1]), new(e[2])>> : e \in sub.edges}
  BY DEF RelabelNodes, new
<1> HIDE DEF R
<1>4. ASSUME NEW S \in SUBSET R.nodes, S # {}
      PROVE  \E n \in S : \A m \in S : <<m, n>> \notin R.edges
  <2> DEFINE Old == {n \in sub.nodes : new(n) \in S}
  <2>1. Old # {}
    BY <1>3, <1>4
  <2>2. PICK n \in Old : \A m \in Old : <<m, n>> \notin sub.edges
    BY <2>1 DEF Acyclic
  <2>3. ASSUME NEW m \in S, <<m, new(n)>> \in R.edges
        PROVE  FALSE
    <3>1. PICK e \in sub.edges : <<m, new(n)>> = <<new(e[1]), new(e[2])>>
      BY <2>3, <1>3
    <3>2. m = new(e[1]) /\ new(n) = new(e[2])
      BY <3>1
    <3>3. e[2] = n /\ e[1] \in Old
      BY <3>2, <1>1, <1>2
    <3> QED
      BY <3>3, <2>2, <1>2
  <2> QED
    BY <2>2, <2>3
<1> QED
  BY <1>4 DEF Acyclic, R

(* Removing a node keeps the rest a graph without cycles. *)
LEMMA ApplyActionFacts ==
  ASSUME NEW net, IsNetwork(net), NEW id
  PROVE  /\ IsNetwork(ApplyAction(net, id))
         /\ Acyclic(net) => Acyclic(ApplyAction(net, id))
<1> DEFINE A == ApplyAction(net, id)
<1>1. A = [nodes |-> net.nodes \ {id},
           edges |-> {e \in net.edges : e[1] # id /\ e[2] # id},
           task  |-> [n \in net.nodes \ {id} |-> net.task[n]]]
  BY DEF ApplyAction, RemoveNode
<1> HIDE DEF A
<1>2. A.nodes \subseteq NodeId
  BY <1>1 DEF IsNetwork
<1>3. A.edges \subseteq A.nodes \X A.nodes
  BY <1>1 DEF IsNetwork
<1>4. A.task \in [A.nodes -> Task]
  BY <1>1 DEF IsNetwork
<1>5. A = [nodes |-> A.nodes, edges |-> A.edges, task |-> A.task]
  BY <1>1
<1>6. IsNetwork(A)
  BY <1>2, <1>3, <1>4, <1>5 DEF IsNetwork
<1>7. A.nodes \subseteq net.nodes /\ A.edges \subseteq net.edges
  BY <1>1
<1>8. Acyclic(net) => Acyclic(A)
  BY <1>7 DEF Acyclic
<1> QED
  BY <1>6, <1>8 DEF A

(***************************************************************************)
(* The new ids start above every id of the network and of the method, so   *)
(* add_subgraph never meets an id twice.                                   *)
(***************************************************************************)
LEMMA FirstNewIdAbove ==
  ASSUME NEW net, net.nodes \in SUBSET Nat, IsFiniteSet(net.nodes),
         NEW sub, IsNetwork(sub), sub.nodes # {}
  PROVE  /\ FirstNewId(net, sub) \in Nat
         /\ \A n \in net.nodes : n < FirstNewId(net, sub)
<1> DEFINE S == net.nodes \cup sub.nodes
<1>1. S \in SUBSET Nat /\ S # {} /\ IsFiniteSet(S)
  <2>1. sub.nodes \in SUBSET NodeId /\ sub.nodes \in SUBSET Nat
    BY MaxIdAssumption DEF IsNetwork, NodeId
  <2>2. IsFiniteSet(S)
    BY <2>1, NodeSetFinite, FS_Union
  <2> QED
    BY <2>1, <2>2
<1>2. LargestId(S) \in S /\ \A m \in S : m <= LargestId(S)
  BY <1>1, LargestIdMax
<1>3. FirstNewId(net, sub) = LargestId(S) + 1
  BY DEF FirstNewId
<1>4. \A n \in net.nodes : n \in Nat /\ n <= LargestId(S)
  BY <1>1, <1>2
<1>5. LargestId(S) \in Nat
  BY <1>1, <1>2
<1> HIDE DEF S
<1> QED
  BY <1>3, <1>4, <1>5

LEMMA FirstNewIdFacts ==
  ASSUME NEW net, IsNetwork(net), NEW sub, IsNetwork(sub), sub.nodes # {}
  PROVE  /\ FirstNewId(net, sub) \in Nat
         /\ \A n \in net.nodes : n < FirstNewId(net, sub)
<1>1. net.nodes \in SUBSET NodeId /\ net.nodes \in SUBSET Nat
  BY MaxIdAssumption DEF IsNetwork, NodeId
<1> QED
  BY <1>1, NodeSetFinite, FirstNewIdAbove

LEMMA NewNodesFacts ==
  ASSUME NEW net, IsNetwork(net), NEW method, IsNetwork(method),
         method.nodes # {}, IdsLeft(net, method)
  PROVE  LET sub == RelabelNodes(method, FirstNewId(net, method)) IN
         /\ IsNetwork(sub)
         /\ sub.nodes # {}
         /\ net.nodes \cap sub.nodes = {}
         /\ Acyclic(method) => Acyclic(sub)
<1> DEFINE start == FirstNewId(net, method)
           sub == RelabelNodes(method, start)
<1>1. start \in Nat /\ \A n \in net.nodes : n < start
  BY FirstNewIdFacts
<1>2. start + Cardinality(method.nodes) - 1 <= MaxId
  BY DEF IdsLeft
<1> HIDE DEF start
<1>3. IsNetwork(sub) /\ (\A n \in sub.nodes : start <= n) /\ sub.nodes # {}
  BY <1>1, <1>2, RelabelledIsNetwork
<1>4. Acyclic(method) => Acyclic(sub)
  BY <1>1, RelabelledIsAcyclic
<1>5. net.nodes \cap sub.nodes = {}
  <2>1. net.nodes \subseteq Nat /\ sub.nodes \subseteq Nat
    BY <1>3, MaxIdAssumption DEF IsNetwork, NodeId
  <2> HIDE DEF sub
  <2> QED
    BY <2>1, <1>1, <1>3
<1> QED
  BY <1>3, <1>4, <1>5 DEF start

(***************************************************************************)
(* The parts of a decomposed network.                                      *)
(***************************************************************************)
LEMMA DecomposeNodeParts ==
  ASSUME NEW net, NEW id, NEW method
  PROVE  LET sub == RelabelNodes(method, FirstNewId(net, method))
             D == DecomposeNode(net, id, method) IN
         /\ D.nodes = (net.nodes \ {id}) \cup sub.nodes
         /\ D.edges = {e \in net.edges : e[1] # id /\ e[2] # id}
                         \cup sub.edges
                         \cup (IncomingEdges(net, id) \X Unconstrained(sub))
                         \cup (Terminal(sub) \X OutgoingEdges(net, id))
         /\ D.task = [n \in D.nodes |->
                        IF n \in sub.nodes THEN sub.task[n] ELSE net.task[n]]
         /\ D = [nodes |-> D.nodes, edges |-> D.edges, task |-> D.task]
BY DEF DecomposeNode, AddSubgraph, RemoveNode

(***************************************************************************)
(* Decomposing a task of a network by a method gives a network.  Without   *)
(* acyclicity it would not: an ordering of a task before itself would      *)
(* leave an edge to the node that is gone.                                 *)
(***************************************************************************)
LEMMA DecomposedIsNetwork ==
  ASSUME NEW net, IsNetwork(net), Acyclic(net), NEW id \in net.nodes,
         NEW method, IsNetwork(method), method.nodes # {}, IdsLeft(net, method)
  PROVE  IsNetwork(DecomposeNode(net, id, method))
<1> DEFINE sub == RelabelNodes(method, FirstNewId(net, method))
           D == DecomposeNode(net, id, method)
           in == IncomingEdges(net, id)
           out == OutgoingEdges(net, id)
<1>1. IsNetwork(sub) /\ net.nodes \cap sub.nodes = {}
  BY NewNodesFacts
<1>2. /\ D.nodes = (net.nodes \ {id}) \cup sub.nodes
      /\ D.edges = {e \in net.edges : e[1] # id /\ e[2] # id}
                      \cup sub.edges
                      \cup (in \X Unconstrained(sub))
                      \cup (Terminal(sub) \X out)
      /\ D.task = [n \in D.nodes |->
                     IF n \in sub.nodes THEN sub.task[n] ELSE net.task[n]]
      /\ D = [nodes |-> D.nodes, edges |-> D.edges, task |-> D.task]
  BY DecomposeNodeParts
<1>3. Unconstrained(sub) \subseteq sub.nodes /\ Terminal(sub) \subseteq sub.nodes
  BY DEF Unconstrained, Terminal
<1>4. in \subseteq net.nodes /\ out \subseteq net.nodes
  BY DEF IncomingEdges, OutgoingEdges, IsNetwork
<1>5. id \notin in /\ id \notin out
  <2>1. {id} \in SUBSET net.nodes /\ {id} # {}
    OBVIOUS
  <2>2. <<id, id>> \notin net.edges
    BY <2>1 DEF Acyclic
  <2> QED
    BY <2>2 DEF IncomingEdges, OutgoingEdges
<1> HIDE DEF sub, D, in, out
<1>6. D.nodes \subseteq NodeId
  BY <1>1, <1>2 DEF IsNetwork
<1>7. D.edges \subseteq D.nodes \X D.nodes
  BY <1>1, <1>2, <1>3, <1>4, <1>5 DEF IsNetwork
<1>8. D.task \in [D.nodes -> Task]
  <2>1. sub.task \in [sub.nodes -> Task] /\ net.task \in [net.nodes -> Task]
    BY <1>1 DEF IsNetwork
  <2>2. \A n \in D.nodes :
           (IF n \in sub.nodes THEN sub.task[n] ELSE net.task[n]) \in Task
    BY <1>2, <2>1
  <2> QED
    BY <1>2, <2>2
<1>9. IsNetwork(D)
  BY <1>2, <1>6, <1>7, <1>8 DEF IsNetwork
<1> QED
  BY <1>9 DEF D

(***************************************************************************)
(* Decomposition keeps the orderings acyclic.  Given a set S of nodes of   *)
(* the new network, put the decomposed task back in the place of the new   *)
(* nodes of S: the old network has a first member of that set.  If it is   *)
(* an old node, it is also first in S; if it is the decomposed task, a     *)
(* first new node of S in the method is first in S.                        *)
(***************************************************************************)
LEMMA DecomposedIsAcyclic ==
  ASSUME NEW net, IsNetwork(net), Acyclic(net), NEW id \in net.nodes,
         NEW method, IsNetwork(method), Acyclic(method), method.nodes # {},
         IdsLeft(net, method)
  PROVE  Acyclic(DecomposeNode(net, id, method))
<1> DEFINE sub == RelabelNodes(method, FirstNewId(net, method))
           D == DecomposeNode(net, id, method)
           in == IncomingEdges(net, id)
           out == OutgoingEdges(net, id)
<1>1. IsNetwork(sub) /\ Acyclic(sub) /\ net.nodes \cap sub.nodes = {}
  BY NewNodesFacts
<1>2. /\ D.nodes = (net.nodes \ {id}) \cup sub.nodes
      /\ D.edges = {e \in net.edges : e[1] # id /\ e[2] # id}
                      \cup sub.edges
                      \cup (in \X Unconstrained(sub))
                      \cup (Terminal(sub) \X out)
  <2>1. /\ D.nodes = (net.nodes \ {id}) \cup sub.nodes
        /\ D.edges = {e \in net.edges : e[1] # id /\ e[2] # id}
                        \cup sub.edges
                        \cup (in \X Unconstrained(sub))
                        \cup (Terminal(sub) \X out)
        /\ D.task = [n \in D.nodes |->
                       IF n \in sub.nodes THEN sub.task[n] ELSE net.task[n]]
        /\ D = [nodes |-> D.nodes, edges |-> D.edges, task |-> D.task]
    BY DecomposeNodeParts
  <2> QED
    BY <2>1
<1>3. Unconstrained(sub) \subseteq sub.nodes /\ Terminal(sub) \subseteq sub.nodes
  BY DEF Unconstrained, Terminal
<1>4. /\ in \subseteq net.nodes /\ out \subseteq net.nodes
      /\ \A m \in in : <<m, id>> \in net.edges
      /\ \A n \in out : <<id, n>> \in net.edges
  BY DEF IncomingEdges, OutgoingEdges, IsNetwork
<1>5. /\ net.edges \subseteq net.nodes \X net.nodes
      /\ sub.edges \subseteq sub.nodes \X sub.nodes
  BY <1>1 DEF IsNetwork
<1> HIDE DEF sub, D, in, out
<1>6. ASSUME NEW S \in SUBSET D.nodes, S # {}
      PROVE  \E n \in S : \A m \in S : <<m, n>> \notin D.edges
  <2> DEFINE New == S \cap sub.nodes
             Old == S \ sub.nodes
  <2>1. Old \subseteq net.nodes \ {id}
    BY <1>2, <1>6
  <2>2. CASE New = {}
    <3>1. S \in SUBSET net.nodes /\ S \cap sub.nodes = {}
      BY <2>1, <2>2
    <3>2. PICK n \in S : \A m \in S : <<m, n>> \notin net.edges
      BY <3>1, <1>6 DEF Acyclic
    <3>3. \A m \in S : <<m, n>> \notin D.edges
      BY <3>1, <3>2, <1>2, <1>3, <1>5
    <3> QED
      BY <3>3
  <2>3. CASE New # {}
    <3>1. Old \cup {id} \in SUBSET net.nodes /\ Old \cup {id} # {}
      BY <2>1
    <3>2. PICK n \in Old \cup {id} : \A m \in Old \cup {id} : <<m, n>> \notin net.edges
      BY <3>1 DEF Acyclic
    <3>3. CASE n \in Old
      <4>1. n \notin out
        BY <3>2, <1>4
      <4>2. n \in S /\ n \notin sub.nodes
        BY <3>3
      <4>3. \A m \in S : <<m, n>> \notin D.edges
        BY <3>2, <4>1, <4>2, <1>1, <1>2, <1>3, <1>5
      <4> QED
        BY <4>2, <4>3
    <3>4. CASE n = id
      <4>1. \A m \in Old : m \notin in
        BY <3>2, <3>4, <1>4
      <4>2. PICK k \in New : \A m \in New : <<m, k>> \notin sub.edges
        BY <2>3, <1>1 DEF Acyclic
      <4>3. k \in sub.nodes /\ k \notin net.nodes /\ k \in S
        BY <1>1, <4>2
      <4>4. \A m \in S : m \notin in
        BY <4>1, <1>1, <1>4
      <4>5. \A m \in S : <<m, k>> \notin D.edges
        BY <4>2, <4>3, <4>4, <1>2, <1>4, <1>5
      <4> QED
        BY <4>3, <4>5
    <3> QED
      BY <3>3, <3>4
  <2> QED
    BY <2>2, <2>3
<1> QED
  BY <1>6 DEF Acyclic, D

(***************************************************************************)
(* A network whose orderings are acyclic and that is not empty has a task  *)
(* that nothing precedes.                                                  *)
(***************************************************************************)
LEMMA AcyclicHasUnconstrained ==
  ASSUME NEW net, IsNetwork(net), Acyclic(net), net.nodes # {}
  PROVE  Unconstrained(net) # {}
<1>1. PICK n \in net.nodes : \A m \in net.nodes : <<m, n>> \notin net.edges
  <2>1. net.nodes \in SUBSET net.nodes
    OBVIOUS
  <2> QED
    BY <2>1 DEF Acyclic
<1>2. \A e \in net.edges : e = <<e[1], e[2]>> /\ e[1] \in net.nodes
  BY DEF IsNetwork
<1>3. n \in Unconstrained(net)
  BY <1>1, <1>2 DEF Unconstrained
<1> QED
  BY <1>3

----------------------------------------------------------------------------
(***************************************************************************)
(* Two decompositions, one after the other.                                *)
(***************************************************************************)
(* Q is R with h added to every id. *)
Moved(R, Q, h) ==
  /\ Q.nodes = {n + h : n \in R.nodes}
  /\ Q.edges = {<<e[1] + h, e[2] + h>> : e \in R.edges}
  /\ Terminal(Q) = {n + h : n \in Terminal(R)}
  /\ \A n \in R.nodes : Q.task[n + h] = R.task[n]

(* B is net with R in the place of c and Q in the place of d. *)
Replaced(B, net, c, R, d, Q) ==
  /\ B.nodes = (net.nodes \ {c, d}) \cup R.nodes \cup Q.nodes
  /\ B.edges = {e \in net.edges : e[1] \notin {c, d}} \cup R.edges \cup Q.edges
                 \cup (Terminal(R) \X OutgoingEdges(net, c))
                 \cup (Terminal(Q) \X OutgoingEdges(net, d))
  /\ \A n \in B.nodes :
       B.task[n] = IF n \in Q.nodes THEN Q.task[n]
                   ELSE IF n \in R.nodes THEN R.task[n] ELSE net.task[n]

(* Moving the first new id moves the ids of a method and nothing else. *)
LEMMA RelabelledMoves ==
  ASSUME NEW sub, IsNetwork(sub), NEW s \in Nat, NEW t \in Nat
  PROVE  LET R == RelabelNodes(sub, s)
             Q == RelabelNodes(sub, t)
         IN  /\ Moved(R, Q, t - s)
             /\ R.nodes \subseteq Nat
             /\ IsFiniteSet(R.nodes)
             /\ R.edges \subseteq R.nodes \X R.nodes
             /\ \A n \in R.nodes : s <= n
             /\ sub.nodes # {} => R.nodes # {}
<1> DEFINE R == RelabelNodes(sub, s)
           Q == RelabelNodes(sub, t)
           h == t - s
           old(x) == NewId(sub, s, x)
           new(x) == NewId(sub, t, x)
<1>1. /\ sub.nodes \in SUBSET NodeId
      /\ \A e \in sub.edges : e[1] \in sub.nodes /\ e[2] \in sub.nodes
  BY DEF IsNetwork
<1>2. \A x \in sub.nodes : old(x) \in Nat /\ s <= old(x) /\ new(x) = old(x) + h
  <2> SUFFICES ASSUME NEW x \in sub.nodes
               PROVE  old(x) \in Nat /\ s <= old(x) /\ new(x) = old(x) + h
    OBVIOUS
  <2> DEFINE rank == Cardinality({m \in sub.nodes : m < x})
  <2>1. rank \in Nat
    BY <1>1, NodeSetFinite
  <2>2. old(x) = s + rank /\ new(x) = t + rank
    BY DEF NewId
  <2> HIDE DEF rank, old, new
  <2> QED
    BY <2>1, <2>2
<1>3. \A x, y \in sub.nodes : old(x) = old(y) => x = y
  BY NewIdFacts
<1>4. \A x, y \in sub.nodes : new(x) = new(y) => x = y
  BY NewIdFacts
<1>5. /\ R.nodes = {old(x) : x \in sub.nodes}
      /\ R.edges = {<<old(e[1]), old(e[2])>> : e \in sub.edges}
      /\ R.task = [n \in {old(x) : x \in sub.nodes} |->
                     sub.task[CHOOSE x \in sub.nodes : old(x) = n]]
  BY DEF RelabelNodes
<1>6. /\ Q.nodes = {new(x) : x \in sub.nodes}
      /\ Q.edges = {<<new(e[1]), new(e[2])>> : e \in sub.edges}
      /\ Q.task = [n \in {new(x) : x \in sub.nodes} |->
                     sub.task[CHOOSE x \in sub.nodes : new(x) = n]]
  BY DEF RelabelNodes
<1> HIDE DEF R, Q, old, new
<1>7. \A x \in sub.nodes : R.task[old(x)] = sub.task[x] /\ Q.task[new(x)] = sub.task[x]
  <2> SUFFICES ASSUME NEW x \in sub.nodes
               PROVE  R.task[old(x)] = sub.task[x] /\ Q.task[new(x)] = sub.task[x]
    OBVIOUS
  <2>1. (CHOOSE y \in sub.nodes : old(y) = old(x)) = x
    BY <1>3
  <2>2. (CHOOSE y \in sub.nodes : new(y) = new(x)) = x
    BY <1>4
  <2>3. R.task[old(x)] = sub.task[CHOOSE y \in sub.nodes : old(y) = old(x)]
    BY <1>5, Zenon
  <2>4. Q.task[new(x)] = sub.task[CHOOSE y \in sub.nodes : new(y) = new(x)]
    BY <1>6, Zenon
  <2> QED
    BY <2>1, <2>2, <2>3, <2>4
<1>8. /\ R.nodes \subseteq Nat /\ \A n \in R.nodes : s <= n
      /\ R.edges \subseteq R.nodes \X R.nodes
      /\ sub.nodes # {} => R.nodes # {}
  BY <1>1, <1>2, <1>5
<1>9. IsFiniteSet(R.nodes)
  <2> DEFINE I == s .. (s + Cardinality(sub.nodes) - 1)
  <2>1. Cardinality(sub.nodes) \in Nat
    BY <1>1, NodeSetFinite
  <2>2. IsFiniteSet(I)
    BY <2>1, FS_Interval
  <2>3. \A x \in sub.nodes : old(x) \in I
    BY NewIdFacts DEF old
  <2> HIDE DEF I
  <2> QED
    BY <1>5, <2>2, <2>3, FS_Subset
<1>10. Q.nodes = {n + h : n \in R.nodes}
  BY <1>2, <1>5, <1>6
<1>11. Q.edges = {<<e[1] + h, e[2] + h>> : e \in R.edges}
  <2>1. \A e \in sub.edges : new(e[1]) = old(e[1]) + h /\ new(e[2]) = old(e[2]) + h
    BY <1>1, <1>2
  <2> HIDE DEF h
  <2>2. ASSUME NEW q \in Q.edges
        PROVE  \E e \in R.edges : q = <<e[1] + h, e[2] + h>>
    <3>1. PICK e \in sub.edges : q = <<new(e[1]), new(e[2])>>
      BY <1>6
    <3>2. <<old(e[1]), old(e[2])>> \in R.edges
      BY <1>5
    <3> QED
      BY <2>1, <3>1, <3>2
  <2>3. ASSUME NEW r \in R.edges
        PROVE  <<r[1] + h, r[2] + h>> \in Q.edges
    <3>1. PICK e \in sub.edges : r = <<old(e[1]), old(e[2])>>
      BY <1>5
    <3>2. <<new(e[1]), new(e[2])>> \in Q.edges
      BY <1>6
    <3> QED
      BY <2>1, <3>1, <3>2
  <2> QED
    BY <2>2, <2>3
<1>12. ASSUME NEW n \in R.nodes
       PROVE  Q.task[n + h] = R.task[n]
  <2>1. PICK x \in sub.nodes : n = old(x)
    BY <1>5
  <2>2. new(x) = n + h
    BY <1>2, <2>1
  <2> HIDE DEF h
  <2> QED
    BY <1>7, <2>1, <2>2
<1>13. Terminal(Q) = {n + h : n \in Terminal(R)}
  <2>1. \A m, n \in R.nodes : m + h = n + h => m = n
    BY <1>8
  <2>2. \A n \in R.nodes : (\A e \in Q.edges : e[1] # n + h) <=> (\A e \in R.edges : e[1] # n)
    <3> SUFFICES ASSUME NEW n \in R.nodes
                 PROVE  (\E e \in Q.edges : e[1] = n + h) <=> (\E e \in R.edges : e[1] = n)
      OBVIOUS
    <3>1. ASSUME NEW e \in Q.edges, e[1] = n + h
          PROVE  \E o \in R.edges : o[1] = n
      <4>1. PICK o \in R.edges : e = <<o[1] + h, o[2] + h>>
        BY <1>11
      <4>2. o[1] \in R.nodes /\ o[1] + h = n + h
        BY <1>8, <3>1, <4>1
      <4> QED
        BY <2>1, <4>2
    <3>2. ASSUME NEW o \in R.edges, o[1] = n
          PROVE  \E e \in Q.edges : e[1] = n + h
      <4> DEFINE e == <<o[1] + h, o[2] + h>>
      <4>1. e \in Q.edges
        BY <1>11
      <4> QED
        BY <3>2, <4>1
    <3> QED
      BY <3>1, <3>2
  <2> HIDE DEF h
  <2> QED
    BY <1>10, <2>2 DEF Terminal
<1> QED
  BY <1>8, <1>9, <1>10, <1>11, <1>12, <1>13 DEF R, Q, Moved

(***************************************************************************)
(* Decomposing two unconstrained tasks replaces each by its method: the    *)
(* first decomposition leaves the orderings of the other task alone.       *)
(***************************************************************************)
LEMMA DecomposedTwice ==
  ASSUME NEW net, IsNetwork(net),
         NEW c \in Unconstrained(net), NEW d \in Unconstrained(net), c # d,
         NEW m, IsNetwork(m), m.nodes # {}, NEW k, IsNetwork(k), k.nodes # {}
  PROVE  LET A == DecomposeNode(net, c, m)
             B == DecomposeNode(A, d, k)
             s == FirstNewId(net, m)
             t == FirstNewId(A, k)
             R == RelabelNodes(m, s)
             Q == RelabelNodes(k, t)
         IN  /\ s \in Nat /\ t \in Nat
             /\ \A n \in net.nodes : n < s /\ n < t
             /\ \A n \in R.nodes : n < t
             /\ A.nodes = (net.nodes \ {c}) \cup R.nodes
             /\ Replaced(B, net, c, R, d, Q)
<1> DEFINE A == DecomposeNode(net, c, m)
           B == DecomposeNode(A, d, k)
           s == FirstNewId(net, m)
           t == FirstNewId(A, k)
           R == RelabelNodes(m, s)
           Q == RelabelNodes(k, t)
<1>1. /\ net.nodes \in SUBSET NodeId /\ net.nodes \in SUBSET Nat
      /\ \A e \in net.edges : e = <<e[1], e[2]>> /\ e[1] \in net.nodes /\ e[2] \in net.nodes
  BY MaxIdAssumption DEF IsNetwork, NodeId
<1>2. /\ c \in net.nodes /\ d \in net.nodes
      /\ \A e \in net.edges : e[2] # c /\ e[2] # d
  BY DEF Unconstrained
<1>3. s \in Nat /\ \A n \in net.nodes : n < s
  BY FirstNewIdFacts
<1>4. /\ A.nodes = (net.nodes \ {c}) \cup R.nodes
      /\ A.edges = {e \in net.edges : e[1] # c /\ e[2] # c} \cup R.edges
                     \cup (IncomingEdges(net, c) \X Unconstrained(R))
                     \cup (Terminal(R) \X OutgoingEdges(net, c))
      /\ A.task = [n \in A.nodes |-> IF n \in R.nodes THEN R.task[n] ELSE net.task[n]]
  BY DecomposeNodeParts
<1>5. /\ B.nodes = (A.nodes \ {d}) \cup Q.nodes
      /\ B.edges = {e \in A.edges : e[1] # d /\ e[2] # d} \cup Q.edges
                     \cup (IncomingEdges(A, d) \X Unconstrained(Q))
                     \cup (Terminal(Q) \X OutgoingEdges(A, d))
      /\ B.task = [n \in B.nodes |-> IF n \in Q.nodes THEN Q.task[n] ELSE A.task[n]]
  BY DecomposeNodeParts
<1> HIDE DEF B
<1>6. /\ R.nodes \in SUBSET Nat /\ IsFiniteSet(R.nodes) /\ R.nodes # {}
      /\ \A n \in R.nodes : s <= n
      /\ \A e \in R.edges : e[1] \in R.nodes /\ e[2] \in R.nodes
  <2> HIDE DEF s
  <2>1. R.edges \subseteq R.nodes \X R.nodes
    BY <1>3, RelabelledMoves
  <2>2. R.nodes \in SUBSET Nat /\ IsFiniteSet(R.nodes)
    BY <1>3, RelabelledMoves
  <2>3. R.nodes # {} /\ \A n \in R.nodes : s <= n
    BY <1>3, RelabelledMoves
  <2> QED
    BY <2>1, <2>2, <2>3
<1> HIDE DEF A, R
<1>7. t \in Nat /\ \A n \in A.nodes : n < t
  <2>1. A.nodes \in SUBSET Nat
    BY <1>1, <1>4, <1>6
  <2>2. IsFiniteSet(net.nodes \ {c})
    BY <1>1, NodeSetFinite, FS_Subset
  <2>3. IsFiniteSet((net.nodes \ {c}) \cup R.nodes)
    BY <1>6, <2>2, FS_Union
  <2> QED
    BY <1>4, <2>1, <2>3, FirstNewIdAbove
<1> HIDE DEF s, t, Q
<1>8. \A n \in net.nodes : n < t
  <2>1. PICK r \in R.nodes : TRUE
    BY <1>6
  <2>2. r \in Nat /\ s <= r /\ r < t
    BY <1>4, <1>6, <1>7
  <2> QED
    BY <1>1, <1>3, <1>7, <2>2
<1>9. d \notin R.nodes /\ c \notin R.nodes
  BY <1>1, <1>2, <1>3, <1>6
<1>10. IncomingEdges(net, c) = {} /\ c \notin OutgoingEdges(net, c) /\ d \notin OutgoingEdges(net, c)
  BY <1>2 DEF IncomingEdges, OutgoingEdges
<1>11. A.edges = {e \in net.edges : e[1] # c} \cup R.edges
                   \cup (Terminal(R) \X OutgoingEdges(net, c))
  BY <1>2, <1>4, <1>10
<1>12. Terminal(R) \subseteq R.nodes
  BY DEF Terminal
<1>13. \A e \in A.edges : e[2] # d /\ (e[1] = d <=> e \in net.edges /\ e[1] = d)
  BY <1>2, <1>6, <1>9, <1>10, <1>11, <1>12
<1>14. IncomingEdges(A, d) = {}
  BY <1>13 DEF IncomingEdges
<1>15. OutgoingEdges(A, d) = OutgoingEdges(net, d)
  <2>1. \A n : <<d, n>> \in A.edges <=> <<d, n>> \in net.edges
    BY <1>11, <1>13
  <2> QED
    BY <2>1 DEF OutgoingEdges
<1>16. {e \in A.edges : e[1] # d /\ e[2] # d} =
         {e \in net.edges : e[1] \notin {c, d}} \cup R.edges
           \cup (Terminal(R) \X OutgoingEdges(net, c))
  BY <1>2, <1>6, <1>9, <1>10, <1>11, <1>12, <1>13
<1>17. B.nodes = (net.nodes \ {c, d}) \cup R.nodes \cup Q.nodes
  BY <1>4, <1>5, <1>9
<1>18. B.edges = {e \in net.edges : e[1] \notin {c, d}} \cup R.edges \cup Q.edges
                   \cup (Terminal(R) \X OutgoingEdges(net, c))
                   \cup (Terminal(Q) \X OutgoingEdges(net, d))
  BY <1>5, <1>14, <1>15, <1>16
<1>19. \A n \in B.nodes :
         B.task[n] = IF n \in Q.nodes THEN Q.task[n]
                     ELSE IF n \in R.nodes THEN R.task[n] ELSE net.task[n]
  BY <1>4, <1>5
<1> QED
  BY <1>3, <1>4, <1>7, <1>8, <1>17, <1>18, <1>19
     DEF A, B, s, t, R, Q, Replaced

----------------------------------------------------------------------------
(* The search nodes. *)

(* The inductive invariant: neither half is inductive without the other,   *)
(* see DecomposedIsNetwork and DecomposedIsAcyclic.                        *)
IInv == TypeOK /\ OrderingsAcyclic

(* A method taken from the domain is a non-empty acyclic network. *)
LEMMA MethodFacts ==
  ASSUME NEW m \in UNION {Method[t] : t \in Compound}
  PROVE  IsNetwork(m) /\ Acyclic(m) /\ m.nodes # {}
<1>1. PICK c \in Compound : m \in Method[c]
  OBVIOUS
<1>2. IsMethod(m)
  BY <1>1, MethodAssumption
<1> QED
  BY <1>2 DEF IsMethod

(* The initial network is one, and acyclic: the problem says so. *)
LEMMA InitIInv == Init => IInv
BY InitAssumption DEF Init, IInv, TypeOK, OrderingsAcyclic

(* An element of a sequence is one of the set it is over. *)
LEMMA SeqElement ==
  ASSUME NEW R, NEW es \in Seq(R), NEW k \in DOMAIN es
  PROVE  es[k] \in R
OBVIOUS

(* Every outcome of an action of the domain is a set of facts. *)
LEMMA TransitionType ==
  ASSUME NEW p \in Primitive, NEW s \in SUBSET Fact,
         NEW k \in DOMAIN Transition(Action[p], s)
  PROVE  Transition(Action[p], s)[k] \subseteq Fact
<1> DEFINE a == Action[p]
<1>1. a.effects \in Seq([add : SUBSET Fact, del : SUBSET Fact])
  BY ActionAssumption DEF IsAction
<1>2. CASE a.effects = <<>>
  <2>1. Transition(a, s) = <<s>>
    BY <1>2 DEF Transition
  <2>2. k = 1
    BY <2>1
  <2> QED
    BY <2>1, <2>2
<1>3. CASE a.effects # <<>>
  <2>1. Transition(a, s) =
          [i \in DOMAIN a.effects |-> (s \ a.effects[i].del) \cup a.effects[i].add]
    BY <1>3 DEF Transition
  <2>2. k \in DOMAIN a.effects
    BY <2>1
  <2>3. a.effects[k].add \in SUBSET Fact
    <3> DEFINE R == [add : SUBSET Fact, del : SUBSET Fact]
    <3>1. a.effects \in Seq(R)
      BY <1>1
    <3> HIDE DEF R
    <3>2. a.effects[k] \in R
      BY <2>2, <3>1, SeqElement
    <3> QED
      BY <3>2 DEF R
  <2> QED
    BY <2>1, <2>2, <2>3
<1> QED
  BY <1>2, <1>3

(* Executions and decompositions preserve the invariant. *)
LEMMA NextIInv == IInv /\ [Next]_vars => IInv'
<1> SUFFICES ASSUME IInv, [Next]_vars
             PROVE  IInv'
  OBVIOUS
<1>1. IsNetwork(tn) /\ Acyclic(tn) /\ state \in SUBSET Fact
  BY DEF IInv, TypeOK, OrderingsAcyclic
<1>2. ASSUME NEW p \in tn.nodes, Execute(p)
      PROVE  IInv'
  <2>1. tn' = ApplyAction(tn, p)
    BY <1>2 DEF Execute
  <2>2. IsNetwork(tn') /\ Acyclic(tn')
    BY <1>1, <2>1, ApplyActionFacts
  <2>3. state' \subseteq Fact
    <3>1. tn.task[p] \in Primitive
      BY <1>2 DEF Execute, ReadyPrimitive
    <3>2. PICK k \in DOMAIN Transition(Action[tn.task[p]], state) :
             state' = Transition(Action[tn.task[p]], state)[k]
      BY <1>2 DEF Execute
    <3> QED
      BY <1>1, <3>1, <3>2, TransitionType
  <2> QED
    BY <2>2, <2>3 DEF IInv, TypeOK, OrderingsAcyclic
<1>3. ASSUME NEW c \in tn.nodes, NEW m \in UNION {Method[t] : t \in Compound},
             Decompose(c, m)
      PROVE  IInv'
  <2>1. tn' = DecomposeNode(tn, c, m) /\ IdsLeft(tn, m) /\ state' = state
    BY <1>3 DEF Decompose
  <2>2. IsNetwork(m) /\ Acyclic(m) /\ m.nodes # {}
    BY MethodFacts
  <2>3. IsNetwork(tn')
    BY <1>1, <2>1, <2>2, DecomposedIsNetwork
  <2>4. Acyclic(tn')
    BY <1>1, <2>1, <2>2, DecomposedIsAcyclic
  <2> QED
    BY <1>1, <2>1, <2>3, <2>4 DEF IInv, TypeOK, OrderingsAcyclic
<1>4. CASE UNCHANGED vars
  BY <1>1, <1>4 DEF vars, IInv, TypeOK, OrderingsAcyclic
<1> QED
  BY <1>2, <1>3, <1>4 DEF Next

(* Hence every search node satisfies it. *)
LEMMA SpecIInv == Spec => []IInv
BY InitIInv, NextIInv, PTL DEF Spec

(***************************************************************************)
(* Type correctness of progression: decompose and apply_action never leave *)
(* an ordering to a node that is gone or a node without a task.            *)
(***************************************************************************)
THEOREM TypeCorrect == Spec => []TypeOK
BY SpecIInv, PTL DEF IInv

(***************************************************************************)
(* No sequence of decompositions and executions makes the orderings of a   *)
(* network cyclic.                                                         *)
(***************************************************************************)
THEOREM AlwaysAcyclic == Spec => []OrderingsAcyclic
BY SpecIInv, PTL DEF IInv

(***************************************************************************)
(* progress() finds an unconstrained task in every network that is not a   *)
(* goal.                                                                   *)
(***************************************************************************)
THEOREM AlwaysSomeTaskReady == Spec => []SomeTaskReady
<1>1. IInv => SomeTaskReady
  BY AcyclicHasUnconstrained
     DEF IInv, TypeOK, OrderingsAcyclic, SomeTaskReady, EmptyNetwork
<1> QED
  BY <1>1, SpecIInv, PTL

(***************************************************************************)
(* The panic of add_subgraph on colliding ids is unreachable, although     *)
(* decompose uses ids again after their task is gone.                      *)
(***************************************************************************)
THEOREM IdsNeverCollide == Spec => []NewIdsDisjoint
<1>1. IInv => NewIdsDisjoint
  <2> SUFFICES ASSUME IInv, NEW c \in ReadyCompound, NEW m \in Method[tn.task[c]]
               PROVE  Disjoint(RemoveNode(tn, c), RelabelNodes(m, FirstNewId(tn, m)))
    BY DEF NewIdsDisjoint
  <2> DEFINE start == FirstNewId(tn, m)
  <2>1. IsNetwork(tn)
    BY DEF IInv, TypeOK
  <2>2. IsNetwork(m) /\ m.nodes # {}
    BY MethodAssumption DEF ReadyCompound, IsMethod
  <2>3. start \in Nat /\ \A n \in tn.nodes : n < start
    BY <2>1, <2>2, FirstNewIdFacts
  <2>4. tn.nodes \subseteq Nat
    BY <2>1, MaxIdAssumption DEF IsNetwork, NodeId
  <2> HIDE DEF start
  <2>5. \A n \in m.nodes : NewId(m, start, n) \notin tn.nodes
    <3> SUFFICES ASSUME NEW n \in m.nodes, NewId(m, start, n) \in tn.nodes
                 PROVE  FALSE
      OBVIOUS
    <3>1. Cardinality(m.nodes) \in Nat
      BY <2>2, NodeSetFinite DEF IsNetwork
    <3>2. start <= NewId(m, start, n)
      BY <2>2, <2>3, <3>1, NewIdFacts
    <3> QED
      BY <2>3, <2>4, <3>2
  <2> QED
    BY <2>5 DEF Disjoint, RemoveNode, RelabelNodes, start
<1> QED
  BY <1>1, SpecIInv, PTL

----------------------------------------------------------------------------
(***************************************************************************)
(* What is left of the network and the nodes of each method are apart, and *)
(* ren moves each of the three in one piece.                               *)
(***************************************************************************)
Apart(Old, R, Q, v, w) ==
  /\ \A n \in Old : n \in Nat /\ n < v /\ n < w
  /\ \A n \in R.nodes : n \in Nat /\ v <= n /\ n < w
  /\ \A n \in Q.nodes : n \in Nat /\ w <= n

Moves(ren, Old, R, h, Q, g) ==
  /\ \A n \in Old : ren[n] = n
  /\ \A n \in R.nodes : ren[n] = n + h
  /\ \A n \in Q.nodes : ren[n] = n + g

(* An id is in one of the parts, and so is what it is renamed to. *)
LEMMA PartsApart ==
  ASSUME NEW Old, NEW R, NEW Q, NEW v \in Nat, NEW w \in Nat, Apart(Old, R, Q, v, w)
  PROVE  \A n : /\ n \in Old => n \notin R.nodes /\ n \notin Q.nodes
                /\ n \in R.nodes => n \notin Q.nodes
BY DEF Apart

LEMMA PartsMove ==
  ASSUME NEW ren, NEW Old, NEW R, NEW h, NEW Q, NEW g, NEW R2, NEW Q2,
         Moves(ren, Old, R, h, Q, g), Moved(R, R2, h), Moved(Q, Q2, g)
  PROVE  /\ \A n \in Old : ren[n] \in Old
         /\ \A n \in R.nodes : ren[n] \in R2.nodes
         /\ \A n \in Q.nodes : ren[n] \in Q2.nodes
         /\ \A n \in Old : \E o \in Old : n = ren[o]
         /\ \A n \in R2.nodes : \E o \in R.nodes : n = ren[o]
         /\ \A n \in Q2.nodes : \E o \in Q.nodes : n = ren[o]
BY DEF Moves, Moved

(* Each part of the orderings is renamed to one. *)
LEMMA EdgesMove ==
  ASSUME NEW ren, NEW R, NEW h, NEW R2, \A n \in R.nodes : ren[n] = n + h, Moved(R, R2, h),
         R.edges \subseteq R.nodes \X R.nodes
  PROVE  R2.edges = {<<ren[e[1]], ren[e[2]]>> : e \in R.edges}
<1>1. \A e \in R.edges : ren[e[1]] = e[1] + h /\ ren[e[2]] = e[2] + h
  OBVIOUS
<1>2. R2.edges = {<<e[1] + h, e[2] + h>> : e \in R.edges}
  BY DEF Moved
<1> QED
  BY <1>1, <1>2

LEMMA LastEdgesMove ==
  ASSUME NEW ren, NEW R, NEW h, NEW R2, \A n \in R.nodes : ren[n] = n + h, Moved(R, R2, h),
         NEW out, \A n \in out : ren[n] = n
  PROVE  Terminal(R2) \X out = {<<ren[e[1]], ren[e[2]]>> : e \in Terminal(R) \X out}
<1>1. \A n \in Terminal(R) : ren[n] = n + h
  BY DEF Terminal
<1>2. Terminal(R2) = {n + h : n \in Terminal(R)}
  BY DEF Moved
<1>3. ASSUME NEW f \in Terminal(R2) \X out
      PROVE  \E e \in Terminal(R) \X out : f = <<ren[e[1]], ren[e[2]]>>
  <2>1. PICK x \in Terminal(R2), y \in out : f = <<x, y>>
    OBVIOUS
  <2>2. PICK n \in Terminal(R) : x = n + h
    BY <1>2
  <2>3. <<n, y>> \in Terminal(R) \X out /\ f = <<ren[n], ren[y]>>
    BY <1>1, <2>1, <2>2
  <2> QED
    BY <2>3
<1>4. ASSUME NEW e \in Terminal(R) \X out
      PROVE  <<ren[e[1]], ren[e[2]]>> \in Terminal(R2) \X out
  BY <1>1, <1>2
<1> QED
  BY <1>3, <1>4

LEMMA RenamedParts ==
  ASSUME NEW cd, NEW dc, NEW ren, NEW net, NEW c, NEW d, NEW Old, NEW R, NEW Q, NEW R2, NEW Q2,
         NEW h \in Int, NEW g \in Int, NEW s \in Nat, NEW t \in Nat, NEW v \in Nat, NEW w \in Nat,
         IsNetwork(net), c \in Unconstrained(net), d \in Unconstrained(net),
         Old = net.nodes \ {c, d},
         Replaced(cd, net, c, R, d, Q), Replaced(dc, net, d, Q2, c, R2),
         Moved(R, R2, h), R.edges \subseteq R.nodes \X R.nodes,
         Moved(Q, Q2, g), Q.edges \subseteq Q.nodes \X Q.nodes,
         Apart(Old, R, Q, s, t), Apart(Old, Q2, R2, v, w), Moves(ren, Old, R, h, Q, g)
  PROVE  RenamedTo(cd, dc, ren)
<1> DEFINE moved(e) == <<ren[e[1]], ren[e[2]]>>
           edges == {e \in net.edges : e[1] \notin {c, d}}
           outC  == OutgoingEdges(net, c)
           outD  == OutgoingEdges(net, d)
<1>1. cd.nodes = Old \cup R.nodes \cup Q.nodes /\ dc.nodes = Old \cup Q2.nodes \cup R2.nodes
  BY DEF Replaced
<1>2. /\ cd.edges = edges \cup R.edges \cup Q.edges
                      \cup (Terminal(R) \X outC) \cup (Terminal(Q) \X outD)
      /\ dc.edges = edges \cup Q2.edges \cup R2.edges
                      \cup (Terminal(Q2) \X outD) \cup (Terminal(R2) \X outC)
  <2>1. {e \in net.edges : e[1] \notin {d, c}} = edges
    OBVIOUS
  <2> QED
    BY <2>1 DEF Replaced
<1>3. /\ outC \subseteq Old /\ outD \subseteq Old
      /\ \A e \in edges : e = <<e[1], e[2]>> /\ e[1] \in Old /\ e[2] \in Old
  BY DEF IsNetwork, Unconstrained, OutgoingEdges
<1> HIDE DEF edges, outC, outD
<1>4. dc.nodes = {ren[n] : n \in cd.nodes}
  <2>1. \A n \in cd.nodes : ren[n] \in dc.nodes
    BY <1>1, PartsMove
  <2>2. ASSUME NEW n \in dc.nodes
        PROVE  \E o \in cd.nodes : n = ren[o]
    <3>1. CASE n \in Old
      BY <1>1, <3>1, PartsMove
    <3>2. CASE n \in Q2.nodes
      <4>1. \E o \in Q.nodes : n = ren[o]
        BY <3>2, PartsMove
      <4> QED
        BY <1>1, <4>1
    <3>3. CASE n \in R2.nodes
      <4>1. \E o \in R.nodes : n = ren[o]
        BY <3>3, PartsMove
      <4> QED
        BY <1>1, <4>1
    <3> QED
      BY <1>1, <3>1, <3>2, <3>3
  <2> QED
    BY <2>1, <2>2
<1>5. ASSUME NEW n1 \in cd.nodes, NEW n2 \in cd.nodes, ren[n1] = ren[n2]
      PROVE  n1 = n2
  <2>1. \/ n1 \in Old /\ n2 \in Old
        \/ n1 \in R.nodes /\ n2 \in R.nodes
        \/ n1 \in Q.nodes /\ n2 \in Q.nodes
    BY <1>1, <1>5, PartsMove, PartsApart
  <2>2. \/ n1 = n2
        \/ n1 \in Nat /\ n2 \in Nat /\ (n1 + h = n2 + h \/ n1 + g = n2 + g)
    BY <1>5, <2>1 DEF Moves, Apart
  <2> QED
    BY <2>2
<1>6. dc.edges = {moved(e) : e \in cd.edges}
  <2>1. edges = {moved(e) : e \in edges}
    <3>1. \A e \in edges : moved(e) = e
      BY <1>3 DEF Moves
    <3> HIDE DEF moved
    <3> QED
      BY <3>1
  <2>2. /\ \A n \in R.nodes : ren[n] = n + h
        /\ \A n \in Q.nodes : ren[n] = n + g
        /\ \A n \in outC \cup outD : ren[n] = n
    BY <1>3 DEF Moves
  <2>3. R2.edges = {moved(e) : e \in R.edges} /\ Q2.edges = {moved(e) : e \in Q.edges}
    BY <2>2, EdgesMove
  <2>4. /\ Terminal(R2) \X outC = {moved(e) : e \in Terminal(R) \X outC}
        /\ Terminal(Q2) \X outD = {moved(e) : e \in Terminal(Q) \X outD}
    BY <2>2, LastEdgesMove
  <2> HIDE DEF moved
  <2> QED
    BY <1>2, <2>1, <2>3, <2>4
<1>7. ASSUME NEW n \in cd.nodes
      PROVE  dc.task[ren[n]] = cd.task[n]
  <2>1. CASE n \in Old
    <3>1. ren[n] = n /\ n \in dc.nodes
      BY <1>1, <2>1 DEF Moves
    <3>2. n \notin R.nodes /\ n \notin Q.nodes /\ n \notin R2.nodes /\ n \notin Q2.nodes
      BY <2>1, PartsApart
    <3> QED
      BY <3>1, <3>2 DEF Replaced
  <2>2. CASE n \in R.nodes
    <3>1. ren[n] \in R2.nodes /\ ren[n] = n + h /\ ren[n] \in dc.nodes
      BY <1>1, <2>2, PartsMove DEF Moves
    <3>2. n \notin Q.nodes
      BY <2>2, PartsApart
    <3>3. R2.task[n + h] = R.task[n]
      BY <2>2 DEF Moved
    <3> QED
      BY <2>2, <3>1, <3>2, <3>3 DEF Replaced
  <2>3. CASE n \in Q.nodes
    <3>1. ren[n] \in Q2.nodes /\ ren[n] = n + g /\ ren[n] \in dc.nodes
      <4>1. ren[n] \in Q2.nodes
        BY <2>3, PartsMove
      <4>2. ren[n] = n + g
        BY <2>3 DEF Moves
      <4> QED
        BY <1>1, <4>1, <4>2
    <3>2. ren[n] \notin R2.nodes
      BY <3>1, PartsApart
    <3>3. Q2.task[n + g] = Q.task[n]
      BY <2>3 DEF Moved
    <3> QED
      BY <2>3, <3>1, <3>2, <3>3 DEF Replaced
  <2> QED
    BY <1>1, <2>1, <2>2, <2>3
<1> QED
  BY <1>4, <1>5, <1>6, <1>7 DEF RenamedTo

(***************************************************************************)
(* Ready compound tasks can be decomposed in either order, for every       *)
(* domain and however close to the largest id the network is: a search     *)
(* that decomposes in one order only misses no network but for its ids.    *)
(***************************************************************************)
THEOREM EitherOrder == Spec => []DecompositionsCommute
<1>1. IInv => DecompositionsCommute
  <2> SUFFICES ASSUME IInv, NEW c \in ReadyCompound, NEW d \in ReadyCompound,
                      NEW m \in Method[tn.task[c]], NEW k \in Method[tn.task[d]], c # d
               PROVE  LET afterC == DecomposeNode(tn, c, m)
                          afterD == DecomposeNode(tn, d, k)
                          cd == DecomposeNode(afterC, d, k)
                          dc == DecomposeNode(afterD, c, m)
                          shiftM == FirstNewId(afterD, m) - FirstNewId(tn, m)
                          shiftK == FirstNewId(tn, k) - FirstNewId(afterC, k)
                          ren == [n \in cd.nodes |->
                                    IF n \in tn.nodes THEN n
                                    ELSE IF n \in afterC.nodes THEN n + shiftM
                                    ELSE n + shiftK]
                      IN  RenamedTo(cd, dc, ren)
    BY DEF DecompositionsCommute
  <2> DEFINE afterC == DecomposeNode(tn, c, m)
             afterD == DecomposeNode(tn, d, k)
             cd == DecomposeNode(afterC, d, k)
             dc == DecomposeNode(afterD, c, m)
             s  == FirstNewId(tn, m)
             t  == FirstNewId(afterC, k)
             v  == FirstNewId(tn, k)
             w  == FirstNewId(afterD, m)
             R  == RelabelNodes(m, s)
             Q  == RelabelNodes(k, t)
             Q2 == RelabelNodes(k, v)
             R2 == RelabelNodes(m, w)
             Old == tn.nodes \ {c, d}
             ren == [n \in cd.nodes |->
                       IF n \in tn.nodes THEN n
                       ELSE IF n \in afterC.nodes THEN n + (w - s) ELSE n + (v - t)]
  <2>1. /\ IsNetwork(tn) /\ tn.nodes \subseteq Nat
        /\ c \in Unconstrained(tn) /\ d \in Unconstrained(tn)
        /\ IsNetwork(m) /\ m.nodes # {} /\ IsNetwork(k) /\ k.nodes # {}
    BY MethodAssumption, MaxIdAssumption
       DEF IInv, TypeOK, ReadyCompound, IsMethod, IsNetwork, NodeId
  <2>2. /\ s \in Nat /\ t \in Nat
        /\ \A n \in tn.nodes : n < s /\ n < t
        /\ \A n \in R.nodes : n < t
        /\ afterC.nodes = (tn.nodes \ {c}) \cup R.nodes
        /\ Replaced(cd, tn, c, R, d, Q)
    BY <2>1, DecomposedTwice
  <2>3. /\ v \in Nat /\ w \in Nat
        /\ \A n \in tn.nodes : n < v /\ n < w
        /\ \A n \in Q2.nodes : n < w
        /\ Replaced(dc, tn, d, Q2, c, R2)
    BY <2>1, DecomposedTwice
  <2> HIDE DEF afterC, afterD, s, t, v, w
  <2>4. /\ Moved(R, R2, w - s) /\ R.edges \subseteq R.nodes \X R.nodes
        /\ R.nodes \subseteq Nat /\ \A n \in R.nodes : s <= n
    BY <2>1, <2>2, <2>3, RelabelledMoves
  <2>5. /\ Moved(Q, Q2, v - t) /\ Q.edges \subseteq Q.nodes \X Q.nodes
        /\ Q.nodes \subseteq Nat /\ \A n \in Q.nodes : t <= n
    BY <2>1, <2>2, <2>3, RelabelledMoves
  <2>6. /\ Q2.nodes \subseteq Nat /\ \A n \in Q2.nodes : v <= n
        /\ R2.nodes \subseteq Nat /\ \A n \in R2.nodes : w <= n
    BY <2>1, <2>3, RelabelledMoves
  <2>7. /\ cd.nodes = Old \cup R.nodes \cup Q.nodes
        /\ ren = [n \in cd.nodes |->
                    IF n \in tn.nodes THEN n
                    ELSE IF n \in afterC.nodes THEN n + (w - s) ELSE n + (v - t)]
    BY <2>2 DEF Replaced
  <2> HIDE DEF cd, dc, R, Q, R2, Q2, ren
  <2>8. Apart(Old, R, Q, s, t) /\ Apart(Old, Q2, R2, v, w)
    BY <2>1, <2>2, <2>3, <2>4, <2>5, <2>6 DEF Apart
  <2>9. Moves(ren, Old, R, w - s, Q, v - t)
    <3>1. \A n \in R.nodes : n \notin tn.nodes /\ n \in afterC.nodes
      BY <2>1, <2>2, <2>4
    <3>2. \A n \in Q.nodes : n \notin tn.nodes /\ n \notin afterC.nodes
      BY <2>1, <2>2, <2>4, <2>5
    <3> QED
      BY <2>7, <3>1, <3>2 DEF Moves
  <2>10. w - s \in Int /\ v - t \in Int
    BY <2>2, <2>3
  <2> HIDE DEF Old
  <2>11. Old = tn.nodes \ {c, d}
    BY DEF Old
  <2>12. RenamedTo(cd, dc, ren)
    BY <2>1, <2>2, <2>3, <2>4, <2>5, <2>8, <2>9, <2>10, <2>11, RenamedParts
  <2> QED
    BY <2>12 DEF afterC, afterD, cd, dc, ren, s, t, v, w
<1> QED
  BY <1>1, SpecIInv, PTL

----------------------------------------------------------------------------
(***************************************************************************)
(* Progression implements HTNSemantics, for every domain and problem: the  *)
(* edge surgery of decompose and apply_action does on the orderings what   *)
(* the semantics says of their transitive closure.                         *)
(*                                                                         *)
(* Precedes is defined by closed sets, so every fact about it is shown by  *)
(* exhibiting one, and none needs induction on paths.                      *)
(***************************************************************************)
(* What must come after x, and the sets that hold it by definition. *)
After(g, x) == {y \in g.nodes : Precedes(g, x, y)}

HoldsSuccessors(g, x, S) == \A n \in g.nodes : <<x, n>> \in g.edges => n \in S

ClosedUnder(g, S) == \A m, n \in g.nodes : m \in S /\ <<m, n>> \in g.edges => n \in S

----------------------------------------------------------------------------
(* The closure of the orderings of a network. *)

LEMMA AfterLeast ==
  ASSUME NEW g, NEW x, NEW S, HoldsSuccessors(g, x, S), ClosedUnder(g, S)
  PROVE  After(g, x) \subseteq S
<1>1. S \cap g.nodes \in SUBSET g.nodes
  OBVIOUS
<1>2. /\ \A n \in g.nodes : <<x, n>> \in g.edges => n \in S \cap g.nodes
      /\ \A m, n \in g.nodes : m \in S \cap g.nodes /\ <<m, n>> \in g.edges => n \in S \cap g.nodes
  BY DEF HoldsSuccessors, ClosedUnder
<1> QED
  BY <1>1, <1>2 DEF After, Precedes

LEMMA AfterClosed ==
  ASSUME NEW g, NEW x
  PROVE  /\ HoldsSuccessors(g, x, After(g, x))
         /\ ClosedUnder(g, After(g, x))
<1>1. HoldsSuccessors(g, x, After(g, x))
  BY DEF HoldsSuccessors, After, Precedes
<1>2. ASSUME NEW m \in g.nodes, NEW n \in g.nodes, Precedes(g, x, m), <<m, n>> \in g.edges
      PROVE  Precedes(g, x, n)
  BY <1>2 DEF Precedes
<1> QED
  BY <1>1, <1>2 DEF ClosedUnder, After

(* What comes after something that comes after x comes after x. *)
LEMMA AfterTransitive ==
  ASSUME NEW g, NEW x, NEW y \in After(g, x)
  PROVE  After(g, y) \subseteq After(g, x)
<1>1. HoldsSuccessors(g, y, After(g, x))
  BY AfterClosed DEF HoldsSuccessors, ClosedUnder, After
<1>2. ClosedUnder(g, After(g, x))
  BY AfterClosed
<1> QED
  BY <1>1, <1>2, AfterLeast

(* Whatever comes after x has an ordering from x, or from what does. *)
LEMMA AfterLastStep ==
  ASSUME NEW g, NEW x, NEW y \in After(g, x)
  PROVE  <<x, y>> \in g.edges \/ \E z \in After(g, x) : <<z, y>> \in g.edges
<1> DEFINE S == {n \in g.nodes : <<x, n>> \in g.edges \/ \E z \in After(g, x) : <<z, n>> \in g.edges}
<1>1. HoldsSuccessors(g, x, S)
  BY DEF HoldsSuccessors
<1>2. S \subseteq After(g, x)
  BY AfterClosed DEF HoldsSuccessors, ClosedUnder, After
<1>3. ClosedUnder(g, S)
  BY <1>2 DEF ClosedUnder
<1> HIDE DEF S
<1>4. y \in S
  BY <1>1, <1>3, AfterLeast
<1> QED
  BY <1>4 DEF S

(* Nothing comes before an unconstrained node. *)
LEMMA NothingBeforeUnconstrained ==
  ASSUME NEW g, NEW x, NEW y \in Unconstrained(g)
  PROVE  y \notin After(g, x)
<1>1. \A e \in g.edges : e[2] # y
  BY DEF Unconstrained
<1>2. \A z : <<z, y>> \notin g.edges
  BY <1>1
<1> QED
  BY <1>2, AfterLastStep

(* Nothing comes after itself when the orderings are acyclic: otherwise    *)
(* the nodes on the way round would have no first one.                     *)
LEMMA AfterIrreflexive ==
  ASSUME NEW g, Acyclic(g), NEW x \in g.nodes
  PROVE  x \notin After(g, x)
<1> SUFFICES ASSUME x \in After(g, x)
             PROVE  FALSE
  OBVIOUS
<1> DEFINE S == {y \in After(g, x) : x \in After(g, y)}
<1>1. S \in SUBSET g.nodes /\ x \in S
  BY DEF After
<1>2. PICK n \in S : \A m \in S : <<m, n>> \notin g.edges
  BY <1>1 DEF Acyclic
<1>3. PICK z \in After(g, x) : <<z, n>> \in g.edges
  BY <1>1, <1>2, AfterLastStep
<1>4. z \in g.nodes /\ n \in g.nodes
  BY DEF After
<1>5. n \in After(g, z)
  BY <1>3, <1>4, AfterClosed DEF HoldsSuccessors
<1>6. x \in After(g, z)
  BY <1>2, <1>5, AfterTransitive
<1> QED
  BY <1>2, <1>3, <1>6

(***************************************************************************)
(* From every node of a finite acyclic network some terminal node can be   *)
(* reached: the one, of those reachable, after which least comes.          *)
(***************************************************************************)
LEMMA TerminalReachable ==
  ASSUME NEW g, IsNetwork(g), Acyclic(g), NEW x \in g.nodes
  PROVE  \E t \in Terminal(g) : t = x \/ t \in After(g, x)
<1> DEFINE R == {x} \cup After(g, x)
           T == {After(g, y) : y \in R}
<1>1. R \subseteq g.nodes
  BY DEF After
<1>2. IsFiniteSet(g.nodes)
  BY NodeSetFinite DEF IsNetwork
<1>3. IsWellFoundedOn(StrictSubsetOrdering(g.nodes), FiniteSubsetsOf(g.nodes))
  BY <1>2, FS_StrictSubsetOrderingWellFounded
<1>4. T \subseteq FiniteSubsetsOf(g.nodes) /\ T # {}
  <2>1. FiniteSubsetsOf(g.nodes) = SUBSET g.nodes
    BY <1>2, FS_FiniteSubsetsOfFinite
  <2>2. \A y \in R : After(g, y) \in SUBSET g.nodes
    BY DEF After
  <2>3. T \subseteq SUBSET g.nodes
    BY <2>2, Zenon
  <2>4. x \in R
    OBVIOUS
  <2>5. After(g, x) \in T
    BY <2>4, Zenon
  <2> QED
    BY <2>1, <2>3, <2>5
<1>5. PICK X \in T : \A Y \in T : <<Y, X>> \notin StrictSubsetOrdering(g.nodes)
  <2> HIDE DEF T
  <2> QED
    BY <1>3, <1>4, WFMin
<1>6. PICK t \in R : X = After(g, t)
  OBVIOUS
<1>7. t \in g.nodes
  BY <1>1
<1>8. ASSUME NEW e \in g.edges, e[1] = t
      PROVE  FALSE
  <2>1. e[2] \in g.nodes /\ <<t, e[2]>> \in g.edges
    BY <1>8 DEF IsNetwork
  <2>2. e[2] \in After(g, t)
    BY <2>1, AfterClosed DEF HoldsSuccessors
  <2>3. e[2] \in R
    BY <2>2, AfterTransitive
  <2>4. After(g, e[2]) \subseteq After(g, t)
    BY <2>2, AfterTransitive
  <2>5. e[2] \notin After(g, e[2])
    BY <2>1, AfterIrreflexive
  <2>6. After(g, e[2]) \in SUBSET g.nodes /\ After(g, t) \in SUBSET g.nodes
    BY DEF After
  <2>7. <<After(g, e[2]), X>> \in StrictSubsetOrdering(g.nodes)
    BY <1>6, <2>2, <2>4, <2>5, <2>6 DEF StrictSubsetOrdering
  <2>8. After(g, e[2]) \in T
    BY <2>3, Zenon
  <2> QED
    BY <1>5, <2>7, <2>8
<1>9. t \in Terminal(g)
  BY <1>7, <1>8 DEF Terminal
<1> QED
  BY <1>6, <1>9

----------------------------------------------------------------------------
(* Comparing networks. *)

(***************************************************************************)
(* Where the orderings of two networks agree on a set of nodes that none   *)
(* of them leaves, the same comes after each of these nodes.               *)
(***************************************************************************)
LEMMA SameAfter ==
  ASSUME NEW g, NEW h, NEW N, N \subseteq g.nodes, N \subseteq h.nodes,
         \A m \in N : \A n : <<m, n>> \in g.edges => n \in N,
         \A m \in N : \A n : <<m, n>> \in h.edges <=> <<m, n>> \in g.edges,
         NEW x \in N
  PROVE  After(h, x) = After(g, x)
<1>1. HoldsSuccessors(g, x, N) /\ ClosedUnder(g, N)
  BY DEF HoldsSuccessors, ClosedUnder
<1>2. HoldsSuccessors(h, x, N) /\ ClosedUnder(h, N)
  BY DEF HoldsSuccessors, ClosedUnder
<1>3. After(g, x) \subseteq N /\ After(h, x) \subseteq N
  BY <1>1, <1>2, AfterLeast
<1>4. HoldsSuccessors(h, x, After(g, x)) /\ ClosedUnder(h, After(g, x))
  BY <1>3, AfterClosed DEF HoldsSuccessors, ClosedUnder
<1>5. HoldsSuccessors(g, x, After(h, x)) /\ ClosedUnder(g, After(h, x))
  BY <1>3, AfterClosed DEF HoldsSuccessors, ClosedUnder
<1> QED
  BY <1>4, <1>5, AfterLeast

(***************************************************************************)
(* Renaming the nodes of a network renames what comes after them.          *)
(***************************************************************************)
LEMMA RenamedAfter ==
  ASSUME NEW g, NEW h, NEW f,
         \A n \in g.nodes : f[n] \in h.nodes,
         \A k \in h.nodes : \E n \in g.nodes : k = f[n],
         \A m, n \in g.nodes : f[m] = f[n] => m = n,
         \A m, n \in g.nodes : <<f[m], f[n]>> \in h.edges <=> <<m, n>> \in g.edges,
         NEW x \in g.nodes
  PROVE  \A y \in g.nodes : f[y] \in After(h, f[x]) <=> y \in After(g, x)
<1> DEFINE S == {k \in h.nodes : \E y \in After(g, x) : k = f[y]}
           B == {y \in g.nodes : f[y] \in After(h, f[x])}
<1>1. After(g, x) \subseteq g.nodes
  BY DEF After
<1>2. HoldsSuccessors(h, f[x], S) /\ ClosedUnder(h, S)
  <2>1. ASSUME NEW k \in h.nodes, <<f[x], k>> \in h.edges
        PROVE  k \in S
    <3>1. PICK n \in g.nodes : k = f[n]
      OBVIOUS
    <3>2. n \in After(g, x)
      BY <2>1, <3>1, AfterClosed DEF HoldsSuccessors
    <3> QED
      BY <3>1, <3>2
  <2>2. ASSUME NEW m \in After(g, x), NEW k \in h.nodes, <<f[m], k>> \in h.edges
        PROVE  k \in S
    <3>1. PICK n \in g.nodes : k = f[n]
      OBVIOUS
    <3>2. n \in After(g, x)
      BY <1>1, <2>2, <3>1, AfterClosed DEF ClosedUnder
    <3> QED
      BY <3>1, <3>2
  <2> QED
    BY <2>1, <2>2 DEF HoldsSuccessors, ClosedUnder
<1>3. HoldsSuccessors(g, x, B) /\ ClosedUnder(g, B)
  <2>1. HoldsSuccessors(h, f[x], After(h, f[x])) /\ ClosedUnder(h, After(h, f[x]))
    BY AfterClosed
  <2> QED
    BY <2>1 DEF HoldsSuccessors, ClosedUnder
<1>4. After(h, f[x]) \subseteq S
  <2> HIDE DEF S
  <2> QED
    BY <1>2, AfterLeast
<1>5. After(g, x) \subseteq B
  <2> HIDE DEF B
  <2> QED
    BY <1>3, AfterLeast
<1> QED
  BY <1>1, <1>4, <1>5

(***************************************************************************)
(* In a decomposed network, what comes after an old node is what came      *)
(* after it before, and what comes after a new node is what comes after it *)
(* in the method or came after the decomposed task: a terminal node of the *)
(* method is reachable from it.  The decomposed task is unconstrained, as  *)
(* in every expansion of progress().                                       *)
(***************************************************************************)
LEMMA DecomposedAfter ==
  ASSUME NEW g, IsNetwork(g), NEW c \in Unconstrained(g),
         NEW sub, IsNetwork(sub), Acyclic(sub), g.nodes \cap sub.nodes = {},
         NEW D, D.nodes = (g.nodes \ {c}) \cup sub.nodes,
         D.edges = {e \in g.edges : e[1] # c /\ e[2] # c}
                      \cup sub.edges
                      \cup (IncomingEdges(g, c) \X Unconstrained(sub))
                      \cup (Terminal(sub) \X OutgoingEdges(g, c))
  PROVE  /\ \A x \in g.nodes \ {c} : After(D, x) = After(g, x)
         /\ \A x \in sub.nodes : After(D, x) = After(sub, x) \cup After(g, c)
<1>1. /\ g.edges \subseteq g.nodes \X g.nodes
      /\ sub.edges \subseteq sub.nodes \X sub.nodes
      /\ c \in g.nodes
  BY DEF IsNetwork, Unconstrained
<1>2. \A n : <<n, c>> \notin g.edges
  BY DEF Unconstrained
<1>3. IncomingEdges(g, c) = {}
  BY <1>2 DEF IncomingEdges
<1>4. \A n : n \in OutgoingEdges(g, c) <=> <<c, n>> \in g.edges
  BY <1>1 DEF OutgoingEdges, IsNetwork
<1>5. \A m, n : <<m, n>> \in D.edges <=>
         \/ <<m, n>> \in g.edges /\ m # c
         \/ <<m, n>> \in sub.edges
         \/ m \in Terminal(sub) /\ <<c, n>> \in g.edges
  BY <1>2, <1>3, <1>4
<1>6. Terminal(sub) \subseteq sub.nodes
  BY DEF Terminal
<1>0. \A m \in g.nodes : m \notin sub.nodes /\ \A n : <<m, n>> \notin sub.edges
  BY <1>1
<1>7. ASSUME NEW x \in g.nodes \ {c}
      PROVE  After(D, x) = After(g, x)
  <2> DEFINE N == g.nodes \ {c}
  <2>1. N \subseteq g.nodes /\ N \subseteq D.nodes
    OBVIOUS
  <2>2. \A m \in N : \A n : <<m, n>> \in g.edges => n \in N
    BY <1>1, <1>2
  <2>3. \A m \in N : \A n : <<m, n>> \in D.edges <=> <<m, n>> \in g.edges
    <3> SUFFICES ASSUME NEW m \in g.nodes \ {c}, NEW n
                 PROVE  <<m, n>> \in D.edges <=> <<m, n>> \in g.edges
      OBVIOUS
    <3> QED
      BY <1>0, <1>5, <1>6
  <2> HIDE DEF N
  <2>4. x \in N
    BY DEF N
  <2> QED
    BY <2>1, <2>2, <2>3, <2>4, SameAfter
<1>8. ASSUME NEW x \in sub.nodes
      PROVE  After(D, x) = After(sub, x) \cup After(g, c)
  <2> DEFINE S == After(sub, x) \cup After(g, c)
  <2>1. After(sub, x) \subseteq sub.nodes /\ After(g, c) \subseteq g.nodes \ {c}
    BY <1>2, NothingBeforeUnconstrained DEF After
  <2>2. HoldsSuccessors(D, x, S)
    <3> SUFFICES ASSUME NEW n \in D.nodes, <<x, n>> \in D.edges
                 PROVE  n \in S
      BY DEF HoldsSuccessors
    <3>1. CASE <<x, n>> \in sub.edges
      BY <1>1, <3>1, AfterClosed DEF HoldsSuccessors
    <3>2. CASE <<c, n>> \in g.edges
      BY <1>1, <3>2, AfterClosed DEF HoldsSuccessors
    <3> QED
      BY <1>1, <1>5, <3>1, <3>2
  <2>3. ClosedUnder(D, S)
    <3> SUFFICES ASSUME NEW m \in S, NEW n \in D.nodes, <<m, n>> \in D.edges
                 PROVE  n \in S
      BY DEF ClosedUnder
    <3>1. CASE m \in After(sub, x)
      <4>1. CASE <<m, n>> \in sub.edges
        BY <1>1, <3>1, <4>1, AfterClosed DEF ClosedUnder
      <4>2. CASE <<c, n>> \in g.edges
        BY <1>1, <4>2, AfterClosed DEF HoldsSuccessors
      <4>3. <<m, n>> \notin g.edges
        BY <1>1, <2>1, <3>1
      <4> QED
        BY <1>5, <4>1, <4>2, <4>3
    <3>2. CASE m \in After(g, c)
      <4>1. <<m, n>> \in g.edges
        BY <1>0, <1>5, <1>6, <2>1, <3>2
      <4> QED
        BY <1>1, <3>2, <4>1, AfterClosed DEF ClosedUnder
    <3> QED
      BY <3>1, <3>2
  <2>4. After(D, x) \subseteq S
    <3> HIDE DEF S
    <3> QED
      BY <2>2, <2>3, AfterLeast
  <2>5. /\ HoldsSuccessors(D, x, After(D, x))
        /\ ClosedUnder(D, After(D, x))
    BY AfterClosed
  <2>6. After(sub, x) \subseteq After(D, x)
    <3>1. HoldsSuccessors(sub, x, After(D, x)) /\ ClosedUnder(sub, After(D, x))
      BY <1>5, <2>5 DEF HoldsSuccessors, ClosedUnder
    <3> QED
      BY <3>1, AfterLeast
  <2>7. PICK t \in Terminal(sub) : t = x \/ t \in After(sub, x)
    BY TerminalReachable
  <2>8. \A n \in D.nodes : <<t, n>> \in D.edges => n \in After(D, x)
    <3>1. t \in D.nodes
      BY <1>6
    <3> QED
      BY <2>5, <2>6, <2>7, <3>1 DEF HoldsSuccessors, ClosedUnder
  <2>9. After(g, c) \subseteq After(D, x)
    <3>1. HoldsSuccessors(g, c, After(D, x))
      BY <1>1, <1>2, <1>5, <2>8 DEF HoldsSuccessors
    <3>2. ClosedUnder(g, After(D, x) \cap (g.nodes \ {c}))
      BY <1>2, <1>5, <2>5 DEF ClosedUnder
    <3>3. HoldsSuccessors(g, c, After(D, x) \cap (g.nodes \ {c}))
      BY <1>2, <3>1 DEF HoldsSuccessors
    <3> QED
      BY <3>2, <3>3, AfterLeast
  <2> QED
    BY <2>4, <2>6, <2>9
<1> QED
  BY <1>7, <1>8

----------------------------------------------------------------------------
(* The refinement. *)

LEMMA OrderPairs ==
  ASSUME NEW g
  PROVE  /\ Order(g) = {q \in g.nodes \X g.nodes : q[2] \in After(g, q[1])}
         /\ \A x, y : <<x, y>> \in Order(g) <=> x \in g.nodes /\ y \in After(g, x)
<1>1. Order(g) = {q \in g.nodes \X g.nodes : q[2] \in After(g, q[1])}
  BY DEF Order, After
<1>2. \A x : After(g, x) \subseteq g.nodes
  BY DEF After
<1> QED
  BY <1>1, <1>2

(* The closure of the semantics is the order of a network. *)
LEMMA ClosureIsOrder ==
  ASSUME NEW g, IsNetwork(g)
  PROVE  HTN!Closure(g.edges, g.nodes) = Order(g)
<1>1. \A e \in g.edges : e = <<e[1], e[2]>> /\ e[1] \in g.nodes /\ e[2] \in g.nodes
  BY DEF IsNetwork
<1>2. ASSUME NEW x \in g.nodes, NEW S \in SUBSET g.nodes
      PROVE  /\ HoldsSuccessors(g, x, S) <=> \A e \in g.edges : e[1] = x => e[2] \in S
             /\ ClosedUnder(g, S) <=> \A e \in g.edges : e[1] \in S => e[2] \in S
  BY <1>1 DEF HoldsSuccessors, ClosedUnder
<1>3. ASSUME NEW q \in g.nodes \X g.nodes
      PROVE  Precedes(g, q[1], q[2]) <=>
               \A C \in SUBSET g.nodes :
                  (/\ \A e \in g.edges : e[1] = q[1] => e[2] \in C
                   /\ \A e \in g.edges : e[1] \in C => e[2] \in C) => q[2] \in C
  <2>1. q[1] \in g.nodes
    OBVIOUS
  <2>2. Precedes(g, q[1], q[2]) <=>
          \A C \in SUBSET g.nodes :
             HoldsSuccessors(g, q[1], C) /\ ClosedUnder(g, C) => q[2] \in C
    BY DEF Precedes, HoldsSuccessors, ClosedUnder
  <2> QED
    BY <1>2, <2>1, <2>2
<1> QED
  BY <1>3 DEF HTN!Closure, Order

(* Executing a ready task takes it out of the order and leaves the rest. *)
LEMMA ExecutedOrder ==
  ASSUME NEW g, IsNetwork(g), NEW i \in Unconstrained(g)
  PROVE  Order(ApplyAction(g, i)) = {q \in Order(g) : q[1] # i /\ q[2] # i}
<1> DEFINE N == g.nodes \ {i}
           A == ApplyAction(g, i)
<1>1. A.nodes = N /\ A.edges = {e \in g.edges : e[1] # i /\ e[2] # i}
  BY DEF ApplyAction, RemoveNode
<1>2. g.edges \subseteq g.nodes \X g.nodes /\ \A n : <<n, i>> \notin g.edges
  BY DEF IsNetwork, Unconstrained
<1>3. \A m \in N : \A n : <<m, n>> \in g.edges => n \in N
  BY <1>2
<1>4. \A m \in N : \A n : <<m, n>> \in A.edges <=> <<m, n>> \in g.edges
  BY <1>1, <1>2
<1>5. N \subseteq g.nodes /\ N \subseteq A.nodes
  BY <1>1
<1> HIDE DEF A
<1>6. \A x \in N : After(A, x) = After(g, x)
  <2> HIDE DEF N
  <2> QED
    BY <1>3, <1>4, <1>5, SameAfter
<1>7. \A x, y : <<x, y>> \in Order(A) <=> x \in N /\ y \in After(g, x)
  BY <1>1, <1>6, OrderPairs
<1>8. \A x, y : <<x, y>> \in Order(g) <=> x \in g.nodes /\ y \in After(g, x)
  BY OrderPairs
<1>9. \A x : i \notin After(g, x)
  BY NothingBeforeUnconstrained
<1>10. \A q \in Order(A) \cup Order(g) : q = <<q[1], q[2]>>
  BY DEF Order
<1>11. Order(A) \subseteq {q \in Order(g) : q[1] # i /\ q[2] # i}
  BY <1>7, <1>8, <1>9, <1>10
<1>12. {q \in Order(g) : q[1] # i /\ q[2] # i} \subseteq Order(A)
  BY <1>7, <1>8, <1>10
<1> QED
  BY <1>11, <1>12 DEF A

LEMMA ExecuteImplements ==
  ASSUME IInv, NEW i \in tn.nodes, Execute(i)
  PROVE  HTN!Execute(i)
<1>1. /\ IsNetwork(tn) /\ i \in Unconstrained(tn) /\ tn.task[i] \in Primitive
      /\ Action[tn.task[i]].pre \subseteq state
      /\ tn' = ApplyAction(tn, i)
  BY DEF IInv, TypeOK, Execute, ReadyPrimitive, IsApplicable
<1>2. tn.task[i] \in DOMAIN Action
  BY <1>1, ActionAssumption
<1>3. \A j \in tn.nodes : <<j, i>> \notin Order(tn)
  BY <1>1, OrderPairs, NothingBeforeUnconstrained
<1>4. IF Action[tn.task[i]].effects = <<>>
      THEN state' = state
      ELSE \E k \in DOMAIN Action[tn.task[i]].effects :
             state' = (state \ Action[tn.task[i]].effects[k].del)
                        \cup Action[tn.task[i]].effects[k].add
  <2> DEFINE a == Action[tn.task[i]]
  <2>1. PICK k \in DOMAIN Transition(a, state) : state' = Transition(a, state)[k]
    BY DEF Execute
  <2>2. CASE a.effects = <<>>
    <3>1. Transition(a, state) = <<state>>
      BY <2>2 DEF Transition
    <3>2. k = 1
      BY <3>1
    <3>3. state' = state
      BY <2>1, <3>1, <3>2
    <3> QED
      BY <2>2, <3>3
  <2>3. CASE a.effects # <<>>
    <3>1. Transition(a, state) =
            [j \in DOMAIN a.effects |-> (state \ a.effects[j].del) \cup a.effects[j].add]
      BY <2>3 DEF Transition
    <3>2. k \in DOMAIN a.effects
      BY <3>1
    <3>3. state' = (state \ a.effects[k].del) \cup a.effects[k].add
      BY <2>1, <3>1, <3>2
    <3> QED
      BY <2>3, <3>2, <3>3
  <2> QED
    BY <2>2, <2>3
<1>5. /\ tn'.nodes = tn.nodes \ {i}
      /\ tn'.task = [j \in tn.nodes \ {i} |-> tn.task[j]]
  BY <1>1 DEF ApplyAction, RemoveNode
<1>6. Order(tn') = {q \in Order(tn) : q[1] # i /\ q[2] # i}
  BY <1>1, ExecutedOrder
<1> QED
  BY <1>1, <1>2, <1>3, <1>4, <1>5, <1>6 DEF HTN!Execute

(* The instance names that a decomposition of g by method m gives. *)
Names(g, m) == [n \in m.nodes |-> NewId(m, FirstNewId(g, m), n)]

LEMMA NamesFacts ==
  ASSUME NEW g, IsNetwork(g), NEW m, IsNetwork(m), m.nodes # {}, IdsLeft(g, m),
         NEW sub, sub = RelabelNodes(m, FirstNewId(g, m))
  PROVE  /\ \A n1, n2 \in m.nodes : Names(g, m)[n1] = Names(g, m)[n2] => n1 = n2
         /\ sub.nodes = {Names(g, m)[n] : n \in m.nodes}
         /\ sub.edges = {<<Names(g, m)[e[1]], Names(g, m)[e[2]]>> : e \in m.edges}
         /\ \A n \in m.nodes : sub.task[Names(g, m)[n]] = m.task[n]
         /\ Names(g, m) \in [m.nodes -> NodeId \ g.nodes]
<1> DEFINE start == FirstNewId(g, m)
           name == Names(g, m)
<1>1. start \in Nat
  BY FirstNewIdFacts
<1>2. \A n1, n2 \in m.nodes : NewId(m, start, n1) = NewId(m, start, n2) => n1 = n2
  BY <1>1, NewIdFacts
<1>3. IsNetwork(sub) /\ g.nodes \cap sub.nodes = {}
  BY NewNodesFacts
<1>4. m.edges \subseteq m.nodes \X m.nodes
  BY DEF IsNetwork
<1>5. \A n \in m.nodes : name[n] = NewId(m, start, n)
  BY DEF Names
<1>6. /\ sub.nodes = {NewId(m, start, n) : n \in m.nodes}
      /\ sub.edges = {<<NewId(m, start, e[1]), NewId(m, start, e[2])>> : e \in m.edges}
      /\ sub.task = [k \in {NewId(m, start, n) : n \in m.nodes} |->
                       m.task[CHOOSE n \in m.nodes : NewId(m, start, n) = k]]
  BY DEF RelabelNodes
<1>7. name = [n \in m.nodes |-> name[n]]
  BY DEF Names
<1> HIDE DEF start, name
<1>8. sub.nodes = {name[n] : n \in m.nodes}
  BY <1>5, <1>6
<1>9. sub.edges = {<<name[e[1]], name[e[2]]>> : e \in m.edges}
  <2>1. \A e \in m.edges : name[e[1]] = NewId(m, start, e[1]) /\ name[e[2]] = NewId(m, start, e[2])
    BY <1>4, <1>5
  <2> QED
    BY <1>6, <2>1
<1>10. \A n1, n2 \in m.nodes : name[n1] = name[n2] => n1 = n2
  BY <1>2, <1>5
<1>11. \A n \in m.nodes : sub.task[name[n]] = m.task[n]
  <2> SUFFICES ASSUME NEW n \in m.nodes
               PROVE  sub.task[name[n]] = m.task[n]
    OBVIOUS
  <2>1. (CHOOSE k \in m.nodes : NewId(m, start, k) = name[n]) = n
    BY <1>2, <1>5
  <2> QED
    BY <1>5, <1>6, <2>1
<1>12. name \in [m.nodes -> NodeId \ g.nodes]
  <2>1. \A n \in m.nodes : name[n] \in NodeId \ g.nodes
    BY <1>3, <1>8 DEF IsNetwork
  <2> QED
    BY <1>7, <2>1
<1> QED
  BY <1>8, <1>9, <1>10, <1>11, <1>12 DEF name

(***************************************************************************)
(* Decomposing an unconstrained task changes the order as the semantics    *)
(* says: the method's own order, under the new names, and every new task   *)
(* where the decomposed one stood.                                         *)
(***************************************************************************)
LEMMA DecomposedOrder ==
  ASSUME NEW g, IsNetwork(g), NEW c \in Unconstrained(g),
         NEW m, IsNetwork(m), Acyclic(m), m.nodes # {}, IdsLeft(g, m)
  PROVE  LET name == Names(g, m)
             new == {name[n] : n \in m.nodes}
         IN  Order(DecomposeNode(g, c, m)) =
               {q \in Order(g) : q[1] # c /\ q[2] # c}
                 \cup {<<name[q[1]], name[q[2]]>> : q \in Order(m)}
                 \cup {q \in g.nodes \X new : <<q[1], c>> \in Order(g)}
                 \cup {q \in new \X g.nodes : <<c, q[2]>> \in Order(g)}
<1> DEFINE name == Names(g, m)
           new == {name[n] : n \in m.nodes}
           D == DecomposeNode(g, c, m)
           sub == RelabelNodes(m, FirstNewId(g, m))
           Old == {q \in Order(g) : q[1] # c /\ q[2] # c}
           Inner == {<<name[q[1]], name[q[2]]>> : q \in Order(m)}
           Into == {q \in g.nodes \X new : <<q[1], c>> \in Order(g)}
           From == {q \in new \X g.nodes : <<c, q[2]>> \in Order(g)}
<1>1. IsNetwork(sub) /\ Acyclic(sub) /\ g.nodes \cap sub.nodes = {} /\ c \in g.nodes
  BY NewNodesFacts DEF Unconstrained
<1>2. /\ D.nodes = (g.nodes \ {c}) \cup sub.nodes
      /\ D.edges = {e \in g.edges : e[1] # c /\ e[2] # c}
                      \cup sub.edges
                      \cup (IncomingEdges(g, c) \X Unconstrained(sub))
                      \cup (Terminal(sub) \X OutgoingEdges(g, c))
      /\ D.task = [n \in D.nodes |-> IF n \in sub.nodes THEN sub.task[n] ELSE g.task[n]]
      /\ D = [nodes |-> D.nodes, edges |-> D.edges, task |-> D.task]
  <2>1. c \in g.nodes
    BY <1>1
  <2> QED
    BY <2>1, DecomposeNodeParts
<1>3. /\ \A n1, n2 \in m.nodes : name[n1] = name[n2] => n1 = n2
      /\ sub.nodes = new
      /\ sub.edges = {<<name[e[1]], name[e[2]]>> : e \in m.edges}
  BY NamesFacts
<1> HIDE DEF D, sub, name
<1>4. /\ \A x \in g.nodes \ {c} : After(D, x) = After(g, x)
      /\ \A x \in sub.nodes : After(D, x) = After(sub, x) \cup After(g, c)
  BY <1>1, <1>2, DecomposedAfter
<1>5. \A n, k \in m.nodes : name[k] \in After(sub, name[n]) <=> k \in After(m, n)
  <2>1. m.edges \subseteq m.nodes \X m.nodes
    BY DEF IsNetwork
  <2>2. /\ \A n \in m.nodes : name[n] \in sub.nodes
        /\ \A k \in sub.nodes : \E n \in m.nodes : k = name[n]
    BY <1>3
  <2>3. ASSUME NEW n1 \in m.nodes, NEW n2 \in m.nodes
        PROVE  <<name[n1], name[n2]>> \in sub.edges <=> <<n1, n2>> \in m.edges
    <3>1. \A e \in m.edges : e = <<e[1], e[2]>> /\ e[1] \in m.nodes /\ e[2] \in m.nodes
      BY <2>1
    <3> QED
      BY <1>3, <3>1
  <2>4. \A n1, n2 \in m.nodes : name[n1] = name[n2] => n1 = n2
    BY <1>3
  <2> QED
    <3> SUFFICES ASSUME NEW x \in m.nodes
                 PROVE  \A k \in m.nodes : name[k] \in After(sub, name[x]) <=> k \in After(m, x)
      OBVIOUS
    <3>1. \A n1, n2 \in m.nodes : <<name[n1], name[n2]>> \in sub.edges <=> <<n1, n2>> \in m.edges
      BY <2>3
    <3> QED
      BY ONLY <2>2, <3>1, <2>4, x \in m.nodes, RenamedAfter
<1>6. /\ \A x, y : <<x, y>> \in Order(D) <=> x \in D.nodes /\ y \in After(D, x)
      /\ \A x, y : <<x, y>> \in Order(g) <=> x \in g.nodes /\ y \in After(g, x)
      /\ \A x, y : <<x, y>> \in Order(m) <=> x \in m.nodes /\ y \in After(m, x)
  BY OrderPairs
<1>7. \A q \in Order(D) \cup Order(g) \cup Order(m) : q = <<q[1], q[2]>>
  BY DEF Order
<1>8. \A x : c \notin After(g, x)
  BY NothingBeforeUnconstrained
<1>9. Into = {}
  BY <1>6, <1>8
<1>10. After(g, c) \subseteq g.nodes /\ \A n : After(m, n) \subseteq m.nodes
  BY DEF After
<1>11. ASSUME NEW x, NEW y, <<x, y>> \in Order(D)
       PROVE  <<x, y>> \in Old \cup Inner \cup From
  <2>1. CASE x \in g.nodes \ {c}
    BY <1>4, <1>6, <1>8, <1>11, <2>1
  <2>2. CASE x \in sub.nodes
    <3>1. CASE y \in After(sub, x)
      <4>1. PICK n \in m.nodes : x = name[n]
        BY <1>3, <2>2
      <4>2. PICK k \in m.nodes : y = name[k] /\ k \in After(m, n)
        <5>1. y \in sub.nodes
          BY <3>1 DEF After
        <5> QED
          BY <1>3, <1>5, <3>1, <4>1, <5>1
      <4>3. <<n, k>> \in Order(m)
        BY <1>6, <4>2
      <4>4. <<name[n], name[k]>> \in Inner
        BY <4>3
      <4> QED
        BY <4>1, <4>2, <4>4
    <3>2. CASE y \in After(g, c)
      BY <1>1, <1>3, <1>6, <1>10, <2>2, <3>2
    <3> QED
      BY <1>4, <1>6, <1>11, <2>2, <3>1, <3>2
  <2> QED
    BY <1>2, <1>6, <1>11, <2>1, <2>2
<1>12. Old \subseteq Order(D)
  <2>1. ASSUME NEW x, NEW y, <<x, y>> \in Order(g), x # c
        PROVE  <<x, y>> \in Order(D)
    BY <1>2, <1>4, <1>6, <2>1
  <2> QED
    BY <1>7, <2>1
<1>13. Inner \subseteq Order(D)
  <2> SUFFICES ASSUME NEW q \in Order(m)
               PROVE  <<name[q[1]], name[q[2]]>> \in Order(D)
    OBVIOUS
  <2>1. q[1] \in m.nodes /\ q[2] \in After(m, q[1]) /\ q[2] \in m.nodes
    BY <1>6, <1>7, <1>10
  <2>2. name[q[1]] \in sub.nodes /\ name[q[2]] \in After(sub, name[q[1]])
    BY <1>3, <1>5, <2>1
  <2> QED
    BY <1>2, <1>4, <1>6, <2>2
<1>14. From \subseteq Order(D)
  <2> SUFFICES ASSUME NEW x \in new, NEW y, <<c, y>> \in Order(g)
               PROVE  <<x, y>> \in Order(D)
    OBVIOUS
  <2> QED
    BY <1>2, <1>3, <1>4, <1>6
<1>15. Order(D) \subseteq Old \cup Inner \cup From
  BY <1>7, <1>11
<1> HIDE DEF Old, Inner, Into, From
<1>16. Order(D) = Old \cup Inner \cup Into \cup From
  BY <1>9, <1>12, <1>13, <1>14, <1>15
<1> QED
  BY <1>16 DEF D, name, Old, Inner, Into, From

LEMMA DecomposeImplements ==
  ASSUME IInv, NEW c \in tn.nodes, NEW m \in UNION {Method[t] : t \in Compound},
         Decompose(c, m)
  PROVE  /\ Names(tn, m) \in [m.nodes -> NodeId \ tn.nodes]
         /\ HTN!Refine(c, m, Names(tn, m))
<1> DEFINE name == Names(tn, m)
           sub == RelabelNodes(m, FirstNewId(tn, m))
           new == {name[n] : n \in m.nodes}
<1>1. /\ IsNetwork(tn) /\ c \in Unconstrained(tn) /\ tn.task[c] \in Compound
      /\ m \in Method[tn.task[c]] /\ IdsLeft(tn, m)
      /\ tn' = DecomposeNode(tn, c, m) /\ state' = state
  BY DEF IInv, TypeOK, Decompose, ReadyCompound
<1>2. IsNetwork(m) /\ Acyclic(m) /\ m.nodes # {}
  BY MethodFacts
<1>3. /\ \A n1, n2 \in m.nodes : name[n1] = name[n2] => n1 = n2
      /\ sub.nodes = new
      /\ \A n \in m.nodes : sub.task[name[n]] = m.task[n]
      /\ name \in [m.nodes -> NodeId \ tn.nodes]
  BY <1>1, <1>2, NamesFacts
<1>4. Order(tn') =
        {q \in Order(tn) : q[1] # c /\ q[2] # c}
          \cup {<<name[q[1]], name[q[2]]>> : q \in Order(m)}
          \cup {q \in tn.nodes \X new : <<q[1], c>> \in Order(tn)}
          \cup {q \in new \X tn.nodes : <<c, q[2]>> \in Order(tn)}
  <2>1. IsNetwork(tn) /\ c \in Unconstrained(tn) /\ IdsLeft(tn, m)
    BY <1>1
  <2>2. Order(DecomposeNode(tn, c, m)) =
          {q \in Order(tn) : q[1] # c /\ q[2] # c}
            \cup {<<name[q[1]], name[q[2]]>> : q \in Order(m)}
            \cup {q \in tn.nodes \X new : <<q[1], c>> \in Order(tn)}
            \cup {q \in new \X tn.nodes : <<c, q[2]>> \in Order(tn)}
    BY <1>2, <2>1, DecomposedOrder
  <2> QED
    BY <1>1, <2>2
<1>5. HTN!Closure(m.edges, m.nodes) = Order(m)
  BY <1>2, ClosureIsOrder
<1>6. /\ tn'.nodes = (tn.nodes \ {c}) \cup sub.nodes
      /\ tn'.task = [n \in tn'.nodes |-> IF n \in sub.nodes THEN sub.task[n] ELSE tn.task[n]]
  BY <1>1 DEF DecomposeNode, AddSubgraph, RemoveNode
<1> HIDE DEF sub
<1>7. tn.nodes \cap sub.nodes = {}
  <2>1. \A n \in m.nodes : name[n] \notin tn.nodes
    BY <1>3
  <2> QED
    BY <1>3, <2>1
<1>8. \A j \in tn.nodes \ {c} : tn'.task[j] = tn.task[j]
  BY <1>6, <1>7
<1>9. \A n \in m.nodes : tn'.task[name[n]] = m.task[n]
  <2>1. \A n \in m.nodes : name[n] \in sub.nodes
    BY <1>3
  <2> HIDE DEF name
  <2> QED
    BY <1>3, <1>6, <2>1
<1>10. DOMAIN tn'.task = tn'.nodes
  BY <1>6
<1> QED
  <2> HIDE DEF name
  <2>1. tn'.nodes = (tn.nodes \ {c}) \cup new
    BY <1>3, <1>6
  <2>2. HTN!Refine(c, m, name)
    BY <1>1, <1>3, <1>4, <1>5, <1>8, <1>9, <1>10, <2>1 DEF HTN!Refine, new
  <2> QED
    BY <1>3, <2>2 DEF name

(* The initial network stands for the initial instances of the semantics. *)
LEMMA InitImplements == Init => HTN!Init
BY InitAssumption, ClosureIsOrder DEF Init, HTN!Init

LEMMA NextImplements == IInv /\ [Next]_vars => [HTN!Next]_HTN!vars
<1> SUFFICES ASSUME IInv, [Next]_vars
             PROVE  [HTN!Next]_HTN!vars
  OBVIOUS
<1>1. ASSUME NEW i \in tn.nodes, Execute(i)
      PROVE  HTN!Next
  BY <1>1, ExecuteImplements DEF HTN!Next
<1>2. ASSUME NEW c \in tn.nodes, NEW m \in UNION {Method[t] : t \in Compound},
             Decompose(c, m)
      PROVE  HTN!Next
  BY <1>2, DecomposeImplements DEF HTN!Next
<1>3. CASE UNCHANGED vars
  BY <1>3 DEF vars, HTN!vars
<1> QED
  BY <1>1, <1>2, <1>3 DEF Next

(***************************************************************************)
(* Progression implements HTN decomposition: whatever the domain and the   *)
(* problem, each expansion of progress() is a step of the semantics on the *)
(* closure of the orderings; no ordering is lost and none is invented,     *)
(* although the surgery works on single edges.                             *)
(***************************************************************************)
THEOREM ProgressionImplements == Spec => ImplementsSemantics
<1>1. Init => HTN!Init
  BY InitImplements
<1>2. IInv /\ [Next]_vars => [HTN!Next]_HTN!vars
  BY NextImplements
<1> QED
  BY <1>1, <1>2, SpecIInv, PTL DEF Spec, ImplementsSemantics, HTN!Spec

=============================================================================
