-------------------------- MODULE IsomorphismProofs --------------------------
(***************************************************************************)
(* The isomorphism test recognises every network with a single first task, *)
(* whatever ids it is met with again.                                      *)
(***************************************************************************)
EXTENDS Isomorphism, ProgressionProofs

(* The network b is the network a with the ids that r gives. *)
Renaming(a, b, r) == IsNetwork(a) /\ IsNetwork(b) /\ RenamedTo(a, b, r)

Image(r, N) == {r[n] : n \in N}

----------------------------------------------------------------------------
(* What a renaming does to neighbours. *)

LEMMA RenamedEdge ==
  ASSUME NEW a, NEW b, NEW r, Renaming(a, b, r), NEW m \in a.nodes, NEW n \in a.nodes
  PROVE  <<r[m], r[n]>> \in b.edges <=> <<m, n>> \in a.edges
<1>1. /\ b.edges = {<<r[e[1]], r[e[2]]>> : e \in a.edges}
      /\ \A x, y \in a.nodes : r[x] = r[y] => x = y
      /\ \A e \in a.edges : e = <<e[1], e[2]>> /\ e[1] \in a.nodes /\ e[2] \in a.nodes
  BY DEF Renaming, RenamedTo, IsNetwork
<1>2. ASSUME <<m, n>> \in a.edges
      PROVE  <<r[m], r[n]>> \in b.edges
  <2> DEFINE e == <<m, n>>
  <2>1. e \in a.edges /\ e[1] = m /\ e[2] = n
    BY <1>2
  <2> HIDE DEF e
  <2>2. <<r[e[1]], r[e[2]]>> \in b.edges
    BY <1>1, <2>1
  <2> QED
    BY <2>1, <2>2
<1>3. ASSUME <<r[m], r[n]>> \in b.edges
      PROVE  <<m, n>> \in a.edges
  <2>1. PICK e \in a.edges : <<r[m], r[n]>> = <<r[e[1]], r[e[2]]>>
    BY <1>1, <1>3
  <2>2. e = <<e[1], e[2]>> /\ e[1] \in a.nodes /\ e[2] \in a.nodes
    BY <1>1
  <2>3. r[m] = r[e[1]] /\ r[n] = r[e[2]]
    BY <2>1
  <2>4. m = e[1] /\ n = e[2]
    BY <1>1, <2>2, <2>3
  <2> QED
    BY <2>2, <2>4
<1> QED
  BY <1>2, <1>3

LEMMA EdgesWithin ==
  ASSUME NEW g, IsNetwork(g), NEW x, NEW y, <<x, y>> \in g.edges
  PROVE  x \in g.nodes /\ y \in g.nodes
BY DEF IsNetwork

LEMMA RenamedNodes ==
  ASSUME NEW a, NEW b, NEW r, Renaming(a, b, r)
  PROVE  /\ \A n \in a.nodes : r[n] \in b.nodes /\ b.task[r[n]] = a.task[n]
         /\ \A y \in b.nodes : \E n \in a.nodes : y = r[n]
         /\ \A x, y \in a.nodes : r[x] = r[y] => x = y
         /\ a.nodes \subseteq NodeId /\ b.nodes \subseteq NodeId
BY DEF Renaming, RenamedTo, IsNetwork

LEMMA RenamedNeighbours ==
  ASSUME NEW a, NEW b, NEW r, Renaming(a, b, r), NEW n \in a.nodes
  PROVE  /\ OutgoingEdges(a, n) \subseteq a.nodes
         /\ OutgoingEdges(b, r[n]) = Image(r, OutgoingEdges(a, n))
         /\ IncomingEdges(a, n) \subseteq a.nodes
         /\ IncomingEdges(b, r[n]) = Image(r, IncomingEdges(a, n))
<1>1. IsNetwork(a) /\ IsNetwork(b)
  BY DEF Renaming
<1>2. \A x : <<n, x>> \in a.edges \/ <<x, n>> \in a.edges => x \in a.nodes
  BY <1>1, EdgesWithin
<1>3. ASSUME NEW y, <<r[n], y>> \in b.edges \/ <<y, r[n]>> \in b.edges
      PROVE  \E x \in a.nodes : y = r[x]
  BY <1>1, <1>3, EdgesWithin, RenamedNodes
<1>4. \A x \in a.nodes : /\ <<r[n], r[x]>> \in b.edges <=> <<n, x>> \in a.edges
                         /\ <<r[x], r[n]>> \in b.edges <=> <<x, n>> \in a.edges
  BY RenamedEdge
<1>5. a.nodes \subseteq NodeId /\ b.nodes \subseteq NodeId /\ \A x \in a.nodes : r[x] \in b.nodes
  BY RenamedNodes
<1>6. OutgoingEdges(b, r[n]) \subseteq Image(r, OutgoingEdges(a, n))
  <2> SUFFICES ASSUME NEW y, <<r[n], y>> \in b.edges
               PROVE  \E x \in OutgoingEdges(a, n) : y = r[x]
    BY DEF OutgoingEdges, Image
  <2>1. PICK x \in a.nodes : y = r[x]
    BY <1>3
  <2> QED
    BY <2>1, <1>4, <1>5 DEF OutgoingEdges
<1>7. IncomingEdges(b, r[n]) \subseteq Image(r, IncomingEdges(a, n))
  <2> SUFFICES ASSUME NEW y, <<y, r[n]>> \in b.edges
               PROVE  \E x \in IncomingEdges(a, n) : y = r[x]
    BY DEF IncomingEdges, Image
  <2>1. PICK x \in a.nodes : y = r[x]
    BY <1>3
  <2> QED
    BY <2>1, <1>4, <1>5 DEF IncomingEdges
<1>8. Image(r, OutgoingEdges(a, n)) \subseteq OutgoingEdges(b, r[n])
  <2> SUFFICES ASSUME NEW x, <<n, x>> \in a.edges
               PROVE  r[x] \in OutgoingEdges(b, r[n])
    BY DEF OutgoingEdges, Image
  <2> QED
    BY <1>2, <1>4, <1>5 DEF OutgoingEdges
<1>9. Image(r, IncomingEdges(a, n)) \subseteq IncomingEdges(b, r[n])
  <2> SUFFICES ASSUME NEW x, <<x, n>> \in a.edges
               PROVE  r[x] \in IncomingEdges(b, r[n])
    BY DEF IncomingEdges, Image
  <2> QED
    BY <1>2, <1>4, <1>5 DEF IncomingEdges
<1>10. OutgoingEdges(a, n) \subseteq a.nodes /\ IncomingEdges(a, n) \subseteq a.nodes
  BY <1>2 DEF OutgoingEdges, IncomingEdges
<1> QED
  BY <1>6, <1>7, <1>8, <1>9, <1>10

LEMMA RenamedUnconstrained ==
  ASSUME NEW a, NEW b, NEW r, Renaming(a, b, r)
  PROVE  Unconstrained(b) = Image(r, Unconstrained(a)) /\ Unconstrained(a) \subseteq a.nodes
<1>1. ASSUME NEW g, IsNetwork(g), NEW n \in g.nodes
      PROVE  n \in Unconstrained(g) <=> \A m \in g.nodes : <<m, n>> \notin g.edges
  <2>1. \A e \in g.edges : e = <<e[1], e[2]>> /\ e[1] \in g.nodes
    BY <1>1 DEF IsNetwork
  <2> QED
    BY <2>1 DEF Unconstrained
<1>2. IsNetwork(a) /\ IsNetwork(b)
  BY DEF Renaming
<1>3. ASSUME NEW n \in a.nodes
      PROVE  n \in Unconstrained(a) <=> r[n] \in Unconstrained(b)
  <2>1. r[n] \in b.nodes
    BY RenamedNodes
  <2>2. \A m \in a.nodes : r[m] \in b.nodes /\ (<<r[m], r[n]>> \in b.edges <=> <<m, n>> \in a.edges)
    BY RenamedNodes, RenamedEdge
  <2>3. (\A m \in a.nodes : <<m, n>> \notin a.edges) <=> (\A y \in b.nodes : <<y, r[n]>> \notin b.edges)
    <3>1. ASSUME \A m \in a.nodes : <<m, n>> \notin a.edges, NEW y \in b.nodes
          PROVE  <<y, r[n]>> \notin b.edges
      <4>1. PICK m \in a.nodes : y = r[m]
        BY RenamedNodes
      <4> QED
        BY <2>2, <3>1, <4>1
    <3>2. ASSUME \A y \in b.nodes : <<y, r[n]>> \notin b.edges, NEW m \in a.nodes
          PROVE  <<m, n>> \notin a.edges
      BY <2>2, <3>2
    <3> QED
      BY <3>1, <3>2
  <2> QED
    BY <1>1, <1>2, <2>1, <2>3
<1> QED
  BY <1>3, RenamedNodes DEF Image, Unconstrained

LEMMA RenamedTasks ==
  ASSUME NEW a, NEW b, NEW r, Renaming(a, b, r), NEW N, N \subseteq a.nodes
  PROVE  TasksOf(b, Image(r, N)) = TasksOf(a, N)
BY RenamedNodes DEF TasksOf, Image

LEMMA RenamedBelow ==
  ASSUME NEW a, NEW b, NEW r, Renaming(a, b, r), NEW N, N \subseteq a.nodes
  PROVE  /\ Below(a, N) \subseteq a.nodes
         /\ Below(b, Image(r, N)) = Image(r, Below(a, N))
<1>1. \A n \in N : /\ OutgoingEdges(a, n) \subseteq a.nodes
                   /\ OutgoingEdges(b, r[n]) = Image(r, OutgoingEdges(a, n))
  BY RenamedNeighbours
<1>2. Below(a, N) \subseteq a.nodes
  BY <1>1 DEF Below
<1>3. ASSUME NEW y \in Below(b, Image(r, N))
      PROVE  y \in Image(r, Below(a, N))
  <2>1. PICK n \in N : y \in OutgoingEdges(b, r[n])
    BY <1>3 DEF Below, Image
  <2>2. PICK x \in OutgoingEdges(a, n) : y = r[x]
    BY <1>1, <2>1 DEF Image
  <2> QED
    BY <2>2 DEF Below, Image
<1>4. ASSUME NEW y \in Image(r, Below(a, N))
      PROVE  y \in Below(b, Image(r, N))
  <2>1. PICK n \in N : \E x \in OutgoingEdges(a, n) : y = r[x]
    BY <1>4 DEF Below, Image
  <2>2. y \in OutgoingEdges(b, r[n])
    BY <1>1, <2>1 DEF Image
  <2> QED
    BY <2>2 DEF Below, Image
<1> QED
  BY <1>2, <1>3, <1>4

(* A renaming keeps the number of members of every set of nodes. *)
LEMMA ImageCardinality ==
  ASSUME NEW a, NEW b, NEW r, Renaming(a, b, r), NEW N \in SUBSET a.nodes
  PROVE  IsFiniteSet(N) /\ Cardinality(N) \in Nat /\ Cardinality(Image(r, N)) = Cardinality(N)
<1> DEFINE f == [n \in N |-> r[n]]
<1>1. IsFiniteSet(N) /\ Cardinality(N) \in Nat
  BY RenamedNodes, NodeSetFinite
<1>2. \A x, y \in N : f[x] = f[y] => x = y
  BY RenamedNodes
<1>3. f \in [N -> Image(r, N)] /\ \A y \in Image(r, N) : \E n \in N : f[n] = y
  BY DEF Image
<1> HIDE DEF f
<1>4. f \in Surjection(N, Image(r, N)) /\ f \in Injection(N, Image(r, N))
  BY <1>2, <1>3 DEF Injection, IsInjective, Surjection
<1> QED
  BY <1>1, <1>4, FS_Surjection

(* The way back. *)
LEMMA RenamingBack ==
  ASSUME NEW a, NEW b, NEW r, Renaming(a, b, r)
  PROVE  \E q : Renaming(b, a, q)
<1> DEFINE q == [y \in b.nodes |-> CHOOSE n \in a.nodes : y = r[n]]
<1>1. \A n \in a.nodes : r[n] \in b.nodes /\ q[r[n]] = n
  BY RenamedNodes
<1>2. \A y \in b.nodes : q[y] \in a.nodes /\ r[q[y]] = y
  BY RenamedNodes
<1> HIDE DEF q
<1>3. a.nodes = {q[y] : y \in b.nodes}
  BY <1>1, <1>2
<1>4. \A x, y \in b.nodes : q[x] = q[y] => x = y
  BY <1>2
<1>5. \A y \in b.nodes : a.task[q[y]] = b.task[y]
  BY <1>2, RenamedNodes
<1>6. /\ \A e \in a.edges : e = <<e[1], e[2]>> /\ e[1] \in a.nodes /\ e[2] \in a.nodes
      /\ \A d \in b.edges : d = <<d[1], d[2]>> /\ d[1] \in b.nodes /\ d[2] \in b.nodes
  BY DEF Renaming, IsNetwork
<1>7. ASSUME NEW e \in a.edges
      PROVE  e \in {<<q[d[1]], q[d[2]]>> : d \in b.edges}
  <2> DEFINE d == <<r[e[1]], r[e[2]]>>
  <2>1. d \in b.edges
    BY <1>6, RenamedEdge
  <2>2. q[d[1]] = e[1] /\ q[d[2]] = e[2]
    BY <1>1, <1>6
  <2> QED
    BY <1>6, <2>1, <2>2
<1>8. ASSUME NEW d \in b.edges
      PROVE  <<q[d[1]], q[d[2]]>> \in a.edges
  <2>1. PICK m \in a.nodes : d[1] = r[m]
    BY <1>6, RenamedNodes
  <2>2. PICK n \in a.nodes : d[2] = r[n]
    BY <1>6, RenamedNodes
  <2>3. <<r[m], r[n]>> \in b.edges
    BY <1>6, <2>1, <2>2
  <2>4. <<m, n>> \in a.edges
    BY <2>3, RenamedEdge
  <2> QED
    BY <1>1, <2>1, <2>2, <2>4
<1>9. a.edges = {<<q[d[1]], q[d[2]]>> : d \in b.edges}
  BY <1>7, <1>8
<1>10. RenamedTo(b, a, q)
  BY <1>3, <1>4, <1>5, <1>9 DEF RenamedTo
<1> QED
  BY <1>10 DEF Renaming

LEMMA RenamedAcyclic ==
  ASSUME NEW a, NEW b, NEW r, Renaming(a, b, r), Acyclic(a)
  PROVE  Acyclic(b)
<1> SUFFICES ASSUME NEW S \in SUBSET b.nodes, S # {}
             PROVE  \E y \in S : \A z \in S : <<z, y>> \notin b.edges
  BY DEF Acyclic
<1> DEFINE T == {n \in a.nodes : r[n] \in S}
<1>1. \A y \in S : \E n \in T : y = r[n]
  BY RenamedNodes
<1>2. PICK n \in T : \A m \in T : <<m, n>> \notin a.edges
  <2>1. T \in SUBSET a.nodes /\ T # {}
    BY <1>1
  <2> QED
    BY <2>1 DEF Acyclic
<1>3. \A m \in T : <<r[m], r[n]>> \notin b.edges
  BY <1>2, RenamedEdge
<1> QED
  BY <1>1, <1>3

----------------------------------------------------------------------------
(* The first comparison: how many nodes stand for each task. *)

LEMMA RenamedFrequencies ==
  ASSUME NEW a, NEW b, NEW r, Renaming(a, b, r)
  PROVE  FrequenciesAgree(a, b)
<1> SUFFICES ASSUME NEW t \in DOMAIN Frequency(a)
             PROVE  t \in DOMAIN Frequency(b) /\ Frequency(b)[t] = Frequency(a)[t]
  BY DEF FrequenciesAgree
<1> DEFINE A == {n \in a.nodes : a.task[n] = t}
           B == {y \in b.nodes : b.task[y] = t}
<1>1. PICK n \in a.nodes : t = a.task[n]
  BY DEF Frequency
<1>2. t \in {b.task[y] : y \in b.nodes}
  BY <1>1, RenamedNodes
<1>3. B = Image(r, A)
  <2>1. B \subseteq Image(r, A)
    BY RenamedNodes DEF Image
  <2>2. Image(r, A) \subseteq B
    BY RenamedNodes DEF Image
  <2> QED
    BY <2>1, <2>2
<1>4. Cardinality(B) = Cardinality(A)
  BY <1>3, ImageCardinality
<1>5. Frequency(a)[t] = Cardinality(A)
  BY <1>1 DEF Frequency
<1>6. t \in DOMAIN Frequency(b) /\ Frequency(b)[t] = Cardinality(B)
  BY <1>2 DEF Frequency
<1> QED
  BY <1>4, <1>5, <1>6

----------------------------------------------------------------------------
(***************************************************************************)
(* The second comparison.  The layers are a recursive function, of which   *)
(* it has to be shown that it exists: it does up to 0, and up to the next  *)
(* layer whenever it does up to one.                                       *)
(***************************************************************************)
LayersUpTo(g, m, f) ==
  f = [k \in 0..m |-> IF k = 0 THEN Unconstrained(g) ELSE Below(g, f[k - 1])]

LEMMA OneMoreLayer ==
  ASSUME NEW g, NEW m \in Nat, NEW f, LayersUpTo(g, m, f)
  PROVE  \E h : LayersUpTo(g, m + 1, h)
<1> DEFINE h == [k \in 0..(m + 1) |-> IF k = m + 1 THEN Below(g, f[m]) ELSE f[k]]
<1>1. \A k \in 0..m : f[k] = IF k = 0 THEN Unconstrained(g) ELSE Below(g, f[k - 1])
  BY DEF LayersUpTo
<1>2. \A k \in 0..(m + 1) : h[k] = IF k = 0 THEN Unconstrained(g) ELSE Below(g, h[k - 1])
  <2> SUFFICES ASSUME NEW k \in 0..(m + 1)
               PROVE  h[k] = IF k = 0 THEN Unconstrained(g) ELSE Below(g, h[k - 1])
    OBVIOUS
  <2>1. CASE k = 0
    BY <1>1, <2>1
  <2>2. CASE k \in 1..m
    <3>1. k \in 0..m /\ k # 0 /\ k # m + 1 /\ k - 1 \in 0..(m + 1) /\ k - 1 # m + 1
      BY <2>2
    <3>2. h[k] = f[k] /\ h[k - 1] = f[k - 1]
      BY <3>1
    <3> HIDE DEF h
    <3> QED
      BY <1>1, <3>1, <3>2
  <2>3. CASE k = m + 1
    <3>1. k # 0 /\ k - 1 = m /\ m \in 0..(m + 1) /\ m # m + 1
      BY <2>3
    <3>2. h[k] = Below(g, f[m]) /\ h[m] = f[m]
      BY <2>3, <3>1
    <3> HIDE DEF h
    <3> QED
      BY <3>1, <3>2
  <2>4. k = 0 \/ k \in 1..m \/ k = m + 1
    OBVIOUS
  <2> QED
    BY <2>1, <2>2, <2>3, <2>4
<1>3. h = [k \in 0..(m + 1) |-> h[k]]
  OBVIOUS
<1> HIDE DEF h
<1>4. h = [k \in 0..(m + 1) |-> IF k = 0 THEN Unconstrained(g) ELSE Below(g, h[k - 1])]
  BY <1>2, <1>3, Zenon
<1> QED
  BY <1>4 DEF LayersUpTo

LEMMA LayersExist ==
  ASSUME NEW g, NEW m \in Nat
  PROVE  \E f : LayersUpTo(g, m, f)
<1> DEFINE T == {k \in 0..m : \E f : LayersUpTo(g, k, f)}
<1>1. 0 \in T
  <2> DEFINE f == [k \in 0..0 |-> Unconstrained(g)]
  <2>1. f = [k \in 0..0 |-> IF k = 0 THEN Unconstrained(g) ELSE Below(g, f[k - 1])]
    OBVIOUS
  <2>2. LayersUpTo(g, 0, f)
    BY <2>1 DEF LayersUpTo
  <2> HIDE DEF f
  <2> QED
    BY <2>2
<1>2. T \in SUBSET Nat /\ IsFiniteSet(T) /\ T # {}
  <2>1. T \in SUBSET (0..m) /\ IsFiniteSet(0..m)
    BY FS_Interval
  <2> QED
    BY <1>1, <2>1, FS_Subset
<1> DEFINE top == LargestId(T)
<1>3. top \in T /\ \A k \in T : k <= top
  BY <1>2, LargestIdMax
<1> HIDE DEF top
<1>4. CASE top = m
  BY <1>3, <1>4
<1>5. CASE top # m
  <2>1. top \in Nat /\ top + 1 \in 0..m /\ ~(top + 1 <= top)
    BY <1>3, <1>5
  <2>2. \E f : LayersUpTo(g, top + 1, f)
    BY <1>3, <2>1, OneMoreLayer
  <2>3. top + 1 \in T
    BY <2>1, <2>2
  <2> QED
    BY <1>3, <2>1, <2>3
<1> QED
  BY <1>4, <1>5

LEMMA NodeLayersFacts ==
  ASSUME NEW g, Cardinality(g.nodes) \in Nat
  PROVE  /\ DOMAIN NodeLayers(g) = 0..Cardinality(g.nodes)
         /\ NodeLayers(g)[0] = Unconstrained(g)
         /\ \A k \in 1..Cardinality(g.nodes) : NodeLayers(g)[k] = Below(g, NodeLayers(g)[k - 1])
<1> DEFINE m == Cardinality(g.nodes)
           F == NodeLayers(g)
<1>1. F = CHOOSE f : LayersUpTo(g, m, f)
  BY DEF NodeLayers, LayersUpTo
<1>2. LayersUpTo(g, m, F)
  BY <1>1, LayersExist
<1> HIDE DEF m, F
<1>3. F = [k \in 0..m |-> IF k = 0 THEN Unconstrained(g) ELSE Below(g, F[k - 1])]
  BY <1>2 DEF LayersUpTo
<1>4. m \in Nat
  BY DEF m
<1>5. DOMAIN F = 0..m /\ \A k \in 0..m : F[k] = IF k = 0 THEN Unconstrained(g) ELSE Below(g, F[k - 1])
  BY <1>3
<1>6. F[0] = Unconstrained(g) /\ \A k \in 1..m : F[k] = Below(g, F[k - 1])
  BY <1>4, <1>5
<1> QED
  BY <1>5, <1>6 DEF m, F

LEMMA RenamedLayers ==
  ASSUME NEW a, NEW b, NEW r, Renaming(a, b, r)
  PROVE  Layers(a) = Layers(b)
<1> DEFINE LA == NodeLayers(a)
           LB == NodeLayers(b)
<1>1. PICK m \in Nat : m = Cardinality(a.nodes)
  BY ImageCardinality
<1>2. Cardinality(b.nodes) = m
  <2>1. b.nodes = Image(r, a.nodes)
    BY DEF Image, Renaming, RenamedTo
  <2> QED
    BY <1>1, <2>1, ImageCardinality
<1>3. /\ DOMAIN LA = 0..m /\ LA[0] = Unconstrained(a)
      /\ \A k \in 1..m : LA[k] = Below(a, LA[k - 1])
  BY <1>1, NodeLayersFacts
<1>4. /\ DOMAIN LB = 0..m /\ LB[0] = Unconstrained(b)
      /\ \A k \in 1..m : LB[k] = Below(b, LB[k - 1])
  BY <1>2, NodeLayersFacts
<1> HIDE DEF LA, LB
<1> DEFINE Same(k) == LA[k] \subseteq a.nodes /\ LB[k] = Image(r, LA[k])
<1>5. Same(0)
  BY <1>3, <1>4, RenamedUnconstrained
<1>6. ASSUME NEW k \in 0..m, k + 1 \in 0..m, Same(k)
      PROVE  Same(k + 1)
  <2>1. k + 1 \in 1..m /\ (k + 1) - 1 = k
    BY <1>6
  <2>2. LA[k + 1] = Below(a, LA[k]) /\ LB[k + 1] = Below(b, LB[k])
    BY <1>3, <1>4, <2>1
  <2> QED
    BY <1>6, <2>2, RenamedBelow
<1>7. \A k \in 0..m : Same(k)
  \* the first layer that differs would follow one that does not
  <2> SUFFICES ASSUME NEW j \in 0..m, ~Same(j)
               PROVE  FALSE
    OBVIOUS
  <2> DEFINE U == {k \in 0..j : \A i \in 0..k : Same(i)}
  <2> HIDE DEF Same
  <2>1. U \in SUBSET Nat /\ IsFiniteSet(U) /\ 0 \in U
    <3>1. U \in SUBSET (0..j) /\ IsFiniteSet(0..j)
      BY FS_Interval
    <3>2. \A i \in 0..0 : i = 0
      OBVIOUS
    <3>3. 0 \in U
      BY <1>5, <3>2
    <3> QED
      BY <3>1, <3>3, FS_Subset
  <2> DEFINE top == LargestId(U)
  <2>2. top \in U /\ \A k \in U : k <= top
    BY <2>1, LargestIdMax
  <2> HIDE DEF top
  <2>3. top \in 0..j /\ (\A i \in 0..top : Same(i)) /\ Same(top)
    BY <2>2
  <2>4. top # j
    BY <2>3
  <2>5. top \in 0..m /\ top + 1 \in 0..m /\ top + 1 \in 0..j
    BY <2>3, <2>4
  <2>6. Same(top + 1)
    BY <1>6, <2>3, <2>5
  <2>7. \A i \in 0..(top + 1) : i \in 0..top \/ i = top + 1
    BY <2>5
  <2>8. top + 1 \in U
    BY <2>3, <2>5, <2>6, <2>7
  <2>9. top + 1 <= top
    BY <2>2, <2>8
  <2> QED
    BY <2>5, <2>9
<1>8. \A k \in 0..m : (LA[k] = {} <=> LB[k] = {}) /\ TasksOf(a, LA[k]) = TasksOf(b, LB[k])
  <2> SUFFICES ASSUME NEW k \in 0..m
               PROVE  (LA[k] = {} <=> LB[k] = {}) /\ TasksOf(a, LA[k]) = TasksOf(b, LB[k])
    OBVIOUS
  <2>1. LA[k] \subseteq a.nodes /\ LB[k] = Image(r, LA[k])
    BY <1>7
  <2>2. LA[k] = {} <=> LB[k] = {}
    BY <2>1 DEF Image
  <2> QED
    BY <2>1, <2>2, RenamedTasks
<1>9. {j \in 0..m : j = 0 \/ LA[j] # {}} = {j \in 0..m : j = 0 \/ LB[j] # {}}
  BY <1>8
<1> DEFINE D == {j \in 0..m : j = 0 \/ LA[j] # {}}
<1>10. Layers(a) = [k \in D |-> TasksOf(a, LA[k])]
  BY <1>3 DEF Layers, LA
<1>11. Layers(b) = [k \in D |-> TasksOf(b, LB[k])]
  BY <1>4, <1>9 DEF Layers, LB
<1>12. \A k \in D : TasksOf(a, LA[k]) = TasksOf(b, LB[k])
  BY <1>8
<1> HIDE DEF D
<1> QED
  BY <1>10, <1>11, <1>12

----------------------------------------------------------------------------
(***************************************************************************)
(* The third comparison.  Completed is a recursive function on the partial *)
(* matchings; it exists because the matchings that can be completed are    *)
(* the least set that holds the complete ones and every one that has an    *)
(* extension in the set.                                                   *)
(***************************************************************************)
Matchings(a, b) == SUBSET (a.nodes \X b.nodes)

Complete(a, S) == Cardinality(S) = Cardinality(a.nodes)

Step(a, b, S, C) == Complete(a, S) \/ \E p \in Extensions(a, b, S) : S \cup {p} \in C

Closed(a, b, C) == \A S \in Matchings(a, b) : Step(a, b, S, C) => S \in C

Completable(a, b) ==
  {S \in Matchings(a, b) : \A C \in SUBSET Matchings(a, b) : Closed(a, b, C) => S \in C}

LEMMA StepMonotone ==
  ASSUME NEW a, NEW b, NEW S, NEW C, NEW D, C \subseteq D, Step(a, b, S, C)
  PROVE  Step(a, b, S, D)
BY DEF Step

LEMMA CompletableUnfolds ==
  ASSUME NEW a, NEW b, NEW S \in Matchings(a, b)
  PROVE  S \in Completable(a, b) <=> Step(a, b, S, Completable(a, b))
<1> DEFINE W == Completable(a, b)
           V == {R \in Matchings(a, b) : Step(a, b, R, W)}
<1>1. \A C \in SUBSET Matchings(a, b) : Closed(a, b, C) => W \subseteq C
  BY DEF Completable
<1>2. W \in SUBSET Matchings(a, b)
  BY DEF Completable
<1>3. ASSUME NEW R \in Matchings(a, b), Step(a, b, R, W)
      PROVE  R \in W
  <2>1. ASSUME NEW C \in SUBSET Matchings(a, b), Closed(a, b, C)
        PROVE  R \in C
    <3>1. Step(a, b, R, C)
      BY <1>1, <1>3, <2>1, StepMonotone
    <3> QED
      BY <2>1, <3>1 DEF Closed
  <2> QED
    BY <2>1 DEF Completable
<1> HIDE DEF W
<1>4. V \subseteq W
  BY <1>3
<1>5. Closed(a, b, V)
  <2> SUFFICES ASSUME NEW R \in Matchings(a, b), Step(a, b, R, V)
               PROVE  R \in V
    BY DEF Closed
  <2> QED
    BY <1>4, StepMonotone
<1>6. W \subseteq V
  BY <1>1, <1>5
<1> QED
  BY <1>3, <1>6 DEF W

(* An extension of a matching is a matching. *)
LEMMA ExtensionsArePairs ==
  ASSUME NEW a, NEW b, IsNetwork(a), IsNetwork(b), NEW S \in Matchings(a, b)
  PROVE  \A p \in Extensions(a, b, S) : S \cup {p} \in Matchings(a, b)
<1>1. \A N : Below(a, N) \subseteq a.nodes /\ Above(a, N) \subseteq a.nodes
  BY EdgesWithin DEF Below, Above, OutgoingEdges, IncomingEdges
<1>2. \A N : Below(b, N) \subseteq b.nodes /\ Above(b, N) \subseteq b.nodes
  BY EdgesWithin DEF Below, Above, OutgoingEdges, IncomingEdges
<1>3. \A A, B : A \subseteq a.nodes /\ B \subseteq b.nodes
                 => Alike(a, b, A, B) \subseteq a.nodes \X b.nodes
  BY DEF Alike
<1>4. Candidates(a, b, S) \subseteq a.nodes \X b.nodes
  <2> DEFINE N1 == {p[1] : p \in S}
             N2 == {p[2] : p \in S}
  <2>1. \/ Candidates(a, b, S) = Alike(a, b, Below(a, N1), Below(b, N2))
        \/ Candidates(a, b, S) = Alike(a, b, Above(a, N1), Above(b, N2))
        \/ Candidates(a, b, S) = Alike(a, b, a.nodes \ N1, b.nodes \ N2)
    BY DEF Candidates
  <2> HIDE DEF N1, N2
  <2>2. a.nodes \ N1 \subseteq a.nodes /\ b.nodes \ N2 \subseteq b.nodes
    OBVIOUS
  <2> QED
    BY <1>1, <1>2, <1>3, <2>1, <2>2
<1> QED
  BY <1>4 DEF Extensions, Matchings

LEMMA CompletedUnfolds ==
  ASSUME NEW a, NEW b, IsNetwork(a), IsNetwork(b), NEW S \in Matchings(a, b)
  PROVE  (Complete(a, S) \/ \E p \in Extensions(a, b, S) : Completed(a, b)[S \cup {p}])
         => Completed(a, b)[S]
<1> DEFINE M == Matchings(a, b)
           Ext(R) == Extensions(a, b, R)
           Fixed(f) == f = [R \in M |-> Complete(a, R) \/ \E p \in Ext(R) : f[R \cup {p}]]
           w == [R \in M |-> R \in Completable(a, b)]
           F == Completed(a, b)
<1>1. F = CHOOSE f : Fixed(f)
  BY DEF Completed, Complete, Matchings
<1>2. \A R \in M : \A p \in Ext(R) : R \cup {p} \in M
  BY ExtensionsArePairs
<1>3. \A R \in M : R \in Completable(a, b)
                    <=> Complete(a, R) \/ \E p \in Ext(R) : R \cup {p} \in Completable(a, b)
  BY CompletableUnfolds DEF Step
<1> HIDE DEF M, Ext
<1>4. \A R \in M : (R \in Completable(a, b)) = (Complete(a, R) \/ \E p \in Ext(R) : w[R \cup {p}])
  <2> SUFFICES ASSUME NEW R \in M
               PROVE  (R \in Completable(a, b)) <=> (Complete(a, R) \/ \E p \in Ext(R) : w[R \cup {p}])
    OBVIOUS
  <2>1. \A p \in Ext(R) : w[R \cup {p}] <=> R \cup {p} \in Completable(a, b)
    BY <1>2
  <2> HIDE DEF w
  <2> QED
    BY <1>3, <2>1
<1>5. Fixed(w)
  BY <1>4
<1> HIDE DEF w
<1>6. Fixed(F)
  <2> HIDE DEF Fixed
  <2> QED
    BY <1>1, <1>5
<1> HIDE DEF F
<1>7. S \in M
  BY DEF M
<1>8. F[S] = (Complete(a, S) \/ \E p \in Ext(S) : F[S \cup {p}])
  BY <1>6, <1>7
<1> QED
  BY <1>8 DEF F, Ext

(* The pairs that a renaming makes. *)
Pairs(a, r) == {<<n, r[n]>> : n \in a.nodes}

LEMMA PairsFacts ==
  ASSUME NEW a, NEW b, NEW r, Renaming(a, b, r)
  PROVE  /\ Pairs(a, r) \in Matchings(a, b)
         /\ IsFiniteSet(Pairs(a, r))
         /\ Cardinality(Pairs(a, r)) = Cardinality(a.nodes)
<1> DEFINE f == [n \in a.nodes |-> <<n, r[n]>>]
<1>1. f \in [a.nodes -> Pairs(a, r)] /\ \A p \in Pairs(a, r) : \E n \in a.nodes : f[n] = p
  BY DEF Pairs
<1>2. \A m, n \in a.nodes : f[m] = f[n] => m = n
  OBVIOUS
<1> HIDE DEF f
<1>3. f \in Surjection(a.nodes, Pairs(a, r)) /\ f \in Injection(a.nodes, Pairs(a, r))
  BY <1>1, <1>2 DEF Injection, IsInjective, Surjection
<1>4. IsFiniteSet(a.nodes)
  BY ImageCardinality
<1>5. Pairs(a, r) \in Matchings(a, b)
  BY RenamedNodes DEF Pairs, Matchings
<1> QED
  BY <1>3, <1>4, <1>5, FS_Surjection

(***************************************************************************)
(* Some ordering leaves every set of nodes that holds the only first task  *)
(* and not all tasks: of the tasks outside, the orderings being acyclic,   *)
(* one comes after none of them, and it is not a first task.               *)
(***************************************************************************)
LEMMA SomeOrderingLeaves ==
  ASSUME NEW g, IsNetwork(g), Acyclic(g), NEW root, Unconstrained(g) = {root},
         NEW N \in SUBSET g.nodes, root \in N, N # g.nodes
  PROVE  \E m \in N : \E n \in g.nodes \ N : <<m, n>> \in g.edges
<1>1. g.nodes \ N \in SUBSET g.nodes /\ g.nodes \ N # {}
  OBVIOUS
<1>2. PICK n \in g.nodes \ N : \A m \in g.nodes \ N : <<m, n>> \notin g.edges
  BY <1>1 DEF Acyclic
<1>3. n \notin Unconstrained(g)
  BY <1>2
<1>4. PICK e \in g.edges : e[2] = n
  BY <1>2, <1>3 DEF Unconstrained
<1>5. e = <<e[1], n>> /\ e[1] \in g.nodes
  BY <1>4 DEF IsNetwork
<1> QED
  BY <1>2, <1>5

(***************************************************************************)
(* A matching with the pair of first tasks and only pairs of the renaming  *)
(* is complete or has an extension by another pair of the renaming.        *)
(***************************************************************************)
LEMMA SomePairFits ==
  ASSUME NEW a, NEW b, NEW r, Renaming(a, b, r), Acyclic(a),
         NEW root, Unconstrained(a) = {root},
         NEW S \in SUBSET Pairs(a, r), <<root, r[root]>> \in S, ~Complete(a, S)
  PROVE  \E n \in a.nodes : /\ <<n, r[n]>> \notin S
                            /\ <<n, r[n]>> \in Extensions(a, b, S)
<1> DEFINE N1 == {p[1] : p \in S}
           N2 == {p[2] : p \in S}
<1>1. \A p \in S : p = <<p[1], r[p[1]]>> /\ p[1] \in a.nodes /\ p[2] = r[p[1]]
  BY DEF Pairs
<1>2. N1 \in SUBSET a.nodes /\ N2 = Image(r, N1) /\ root \in N1
  <2>1. N2 = Image(r, N1)
    BY <1>1 DEF Image
  <2>2. root \in N1
    OBVIOUS
  <2> QED
    BY <1>1, <2>1, <2>2
<1>3. \A n \in a.nodes : <<n, r[n]>> \in S <=> n \in N1
  BY <1>1
<1>4. N1 # a.nodes
  <2> SUFFICES ASSUME N1 = a.nodes
               PROVE  FALSE
    OBVIOUS
  <2>1. S = Pairs(a, r)
    BY <1>3 DEF Pairs
  <2> QED
    BY <2>1, PairsFacts DEF Complete
<1> HIDE DEF N1, N2
<1>5. IsNetwork(a)
  BY DEF Renaming
<1>6. PICK m \in N1 : \E n \in a.nodes \ N1 : <<m, n>> \in a.edges
  BY <1>2, <1>4, <1>5, SomeOrderingLeaves
<1>7. PICK n \in a.nodes \ N1 : <<m, n>> \in a.edges
  BY <1>6
<1>8. n \in Below(a, N1) /\ r[n] \in Below(b, N2)
  <2>1. n \in OutgoingEdges(a, m)
    BY <1>7, RenamedNodes DEF OutgoingEdges
  <2>2. n \in Below(a, N1)
    BY <2>1 DEF Below
  <2> QED
    BY <1>2, <2>2, RenamedBelow DEF Image
<1>9. b.task[r[n]] = a.task[n]
  BY RenamedNodes
<1>10. <<n, r[n]>> \in Candidates(a, b, S)
  <2>1. Candidates(a, b, S) = Alike(a, b, Below(a, N1), Below(b, N2))
    BY <1>8 DEF Candidates, N1, N2
  <2> QED
    BY <1>8, <1>9, <2>1 DEF Alike
<1>11. Fits(a, b, <<n, r[n]>>)
  BY RenamedNeighbours, RenamedTasks DEF Fits
<1> QED
  BY <1>3, <1>10, <1>11 DEF Extensions

(***************************************************************************)
(* Hence each of these matchings can be completed: a largest one that      *)
(* could not would have an extension that can.                             *)
(***************************************************************************)
LEMMA MatchingCompleted ==
  ASSUME NEW a, NEW b, NEW r, Renaming(a, b, r), Acyclic(a),
         NEW root, Unconstrained(a) = {root},
         NEW S \in SUBSET Pairs(a, r), <<root, r[root]>> \in S
  PROVE  Completed(a, b)[S]
<1> DEFINE Stuck == {R \in SUBSET Pairs(a, r) : <<root, r[root]>> \in R /\ ~Completed(a, b)[R]}
           Sizes == {Cardinality(R) : R \in Stuck}
           D == Cardinality(Pairs(a, r))
<1>1. IsNetwork(a) /\ IsNetwork(b)
  BY DEF Renaming
<1>2. /\ Pairs(a, r) \in Matchings(a, b)
      /\ IsFiniteSet(Pairs(a, r))
  BY PairsFacts
<1>3. \A R \in SUBSET Pairs(a, r) : R \in Matchings(a, b)
  BY <1>2 DEF Matchings
<1>4. \A R \in SUBSET Pairs(a, r) :
        IsFiniteSet(R) /\ Cardinality(R) \in Nat /\ Cardinality(R) <= D
  BY <1>2, FS_Subset, FS_CardinalityType
<1>5. D \in Nat
  BY <1>2, FS_CardinalityType
<1> HIDE DEF D
<1> SUFFICES ASSUME S \in Stuck
             PROVE  FALSE
  OBVIOUS
<1>6. Sizes \in SUBSET Nat /\ IsFiniteSet(Sizes) /\ Sizes # {}
  <2>1. \A R \in Stuck : Cardinality(R) \in 0..D
    BY <1>4, <1>5
  <2>2. Cardinality(S) \in Sizes
    OBVIOUS
  <2> HIDE DEF Stuck
  <2>3. Sizes \in SUBSET (0..D)
    BY <2>1, Zenon
  <2> HIDE DEF Sizes
  <2>4. IsFiniteSet(0..D) /\ 0..D \in SUBSET Nat
    BY <1>5, FS_Interval
  <2> QED
    BY <2>2, <2>3, <2>4, FS_Subset
<1>7. LargestId(Sizes) \in Sizes /\ \A k \in Sizes : k <= LargestId(Sizes)
  BY <1>6, LargestIdMax
<1>8. PICK R \in Stuck : Cardinality(R) = LargestId(Sizes)
  BY <1>7
<1>9. R \in SUBSET Pairs(a, r) /\ <<root, r[root]>> \in R /\ ~Completed(a, b)[R]
  BY <1>8
<1>10. ~Complete(a, R)
  BY <1>1, <1>3, <1>9, CompletedUnfolds
<1>11. PICK n \in a.nodes : <<n, r[n]>> \notin R /\ <<n, r[n]>> \in Extensions(a, b, R)
  BY <1>9, <1>10, SomePairFits
<1> DEFINE Q == R \cup {<<n, r[n]>>}
<1>12. Q \in SUBSET Pairs(a, r) /\ <<root, r[root]>> \in Q
  BY <1>9 DEF Pairs
<1>13. Cardinality(Q) = Cardinality(R) + 1
  BY <1>4, <1>9, <1>11, FS_AddElement
<1>14. ~Completed(a, b)[Q]
  BY <1>1, <1>3, <1>9, <1>11, CompletedUnfolds
<1> HIDE DEF Q
<1>15. Cardinality(Q) \in Sizes
  BY <1>12, <1>14
<1>16. Cardinality(R) \in Nat /\ Cardinality(Q) <= Cardinality(R)
  BY <1>4, <1>7, <1>8, <1>9, <1>15
<1> QED
  BY <1>13, <1>16

----------------------------------------------------------------------------
(***************************************************************************)
(* A network with a single first task is recognised under other ids: all   *)
(* three comparisons succeed.                                              *)
(***************************************************************************)
LEMMA RenamingRecognised ==
  ASSUME NEW a, NEW b, NEW r, Renaming(a, b, r), Acyclic(a),
         NEW root, Unconstrained(a) = {root}
  PROVE  IsIsomorphic(a, b)
<1> DEFINE p == <<root, r[root]>>
<1>1. IsNetwork(a) /\ IsNetwork(b) /\ root \in a.nodes
  BY DEF Renaming, Unconstrained
<1>2. Completed(a, b)[{p}]
  <2>1. {p} \in SUBSET Pairs(a, r) /\ p \in {p}
    BY <1>1 DEF Pairs
  <2> QED
    BY <2>1, MatchingCompleted
<1>3. p \in Extensions(a, b, {})
  <2>1. r[root] \in b.nodes /\ b.task[r[root]] = a.task[root]
    BY <1>1, RenamedNodes
  <2>2. Below(a, {}) = {} /\ Above(a, {}) = {}
    BY DEF Below, Above
  <2>3. Candidates(a, b, {}) = Alike(a, b, a.nodes, b.nodes)
    <3>1. {q[1] : q \in {}} = {} /\ {q[2] : q \in {}} = {}
      OBVIOUS
    <3>2. a.nodes \ {} = a.nodes /\ b.nodes \ {} = b.nodes
      OBVIOUS
    <3> QED
      BY <2>2, <3>1, <3>2 DEF Candidates
  <2>4. p \in Candidates(a, b, {})
    BY <1>1, <2>1, <2>3 DEF Alike
  <2>5. Fits(a, b, p)
    BY <1>1, RenamedNeighbours, RenamedTasks DEF Fits
  <2> QED
    BY <2>4, <2>5 DEF Extensions
<1>4. Completed(a, b)[{}]
  <2>1. {} \in Matchings(a, b) /\ {} \cup {p} = {p}
    BY DEF Matchings
  <2> HIDE DEF p
  <2> QED
    BY <1>1, <1>2, <1>3, <2>1, CompletedUnfolds
<1>5. Cardinality(a.nodes) = Cardinality(b.nodes)
  <2>1. b.nodes = Image(r, a.nodes)
    BY DEF Image, Renaming, RenamedTo
  <2> QED
    BY <2>1, ImageCardinality
<1> QED
  BY <1>4, <1>5, RenamedFrequencies, RenamedLayers DEF IsIsomorphic, VF2

(* The mirrored network is a renaming. *)
LEMMA MirroredIsRenaming ==
  ASSUME NEW net, IsNetwork(net)
  PROVE  Renaming(net, Mirrored(net), [n \in net.nodes |-> MaxId - n])
<1> DEFINE M == Mirrored(net)
           r == [n \in net.nodes |-> MaxId - n]
<1>1. /\ net.nodes \subseteq NodeId
      /\ \A e \in net.edges : e = <<e[1], e[2]>> /\ e[1] \in net.nodes /\ e[2] \in net.nodes
      /\ net.task \in [net.nodes -> Task]
  BY DEF IsNetwork
<1>2. /\ M.nodes = {MaxId - n : n \in net.nodes}
      /\ M.edges = {<<MaxId - e[1], MaxId - e[2]>> : e \in net.edges}
      /\ M.task = [k \in {MaxId - n : n \in net.nodes} |-> net.task[MaxId - k]]
      /\ M = [nodes |-> M.nodes, edges |-> M.edges, task |-> M.task]
  BY DEF Mirrored
<1> HIDE DEF M
<1>3. \A n \in net.nodes : MaxId - n \in NodeId /\ MaxId - (MaxId - n) = n
  BY <1>1, MaxIdAssumption DEF NodeId
<1>4. IsNetwork(M)
  <2>1. M.nodes \subseteq NodeId
    BY <1>2, <1>3
  <2>2. M.edges \subseteq M.nodes \X M.nodes
    BY <1>1, <1>2
  <2>3. M.task \in [M.nodes -> Task]
    <3>1. \A k \in M.nodes : net.task[MaxId - k] \in Task
      BY <1>1, <1>2, <1>3
    <3> QED
      BY <1>2, <3>1
  <2> QED
    BY <1>2, <2>1, <2>2, <2>3 DEF IsNetwork
<1>5. RenamedTo(net, M, r)
  <2>1. M.nodes = {r[n] : n \in net.nodes}
    BY <1>2
  <2>2. \A m, n \in net.nodes : r[m] = r[n] => m = n
    BY <1>3
  <2>3. \A e \in net.edges : r[e[1]] = MaxId - e[1] /\ r[e[2]] = MaxId - e[2]
    BY <1>1
  <2>4. \A n \in net.nodes : M.task[r[n]] = net.task[n]
    BY <1>2, <1>3
  <2> HIDE DEF r
  <2>5. M.edges = {<<r[e[1]], r[e[2]]>> : e \in net.edges}
    BY <1>2, <2>3
  <2> QED
    BY <2>1, <2>2, <2>4, <2>5 DEF RenamedTo
<1> QED
  BY <1>4, <1>5 DEF Renaming, M

(***************************************************************************)
(* is_isomorphic (network.rs) recognises every reachable network that has  *)
(* a single first task when it meets it again under other ids, in either   *)
(* argument: neither the layers nor the greedy matching of vf2.rs turn it  *)
(* away.                                                                   *)
(***************************************************************************)
THEOREM KnownAlwaysRecognised == Spec => []KnownNetworkRecognised
<1>1. IInv => KnownNetworkRecognised
  <2> SUFFICES ASSUME IInv, Cardinality(Unconstrained(tn)) = 1
               PROVE  IsIsomorphic(tn, Mirrored(tn)) /\ IsIsomorphic(Mirrored(tn), tn)
    BY DEF KnownNetworkRecognised
  <2>1. PICK net : net = tn
    OBVIOUS
  <2>2. IsNetwork(net) /\ Acyclic(net) /\ Cardinality(Unconstrained(net)) = 1
    BY <2>1 DEF IInv, TypeOK, OrderingsAcyclic
  <2>3. PICK root : Unconstrained(net) = {root}
    <3>1. Unconstrained(net) \in SUBSET NodeId
      BY <2>2 DEF IsNetwork, Unconstrained
    <3> QED
      BY <2>2, <3>1, NodeSetFinite, FS_Singleton
  <2>4. PICK r : Renaming(net, Mirrored(net), r)
    BY <2>2, MirroredIsRenaming
  <2>5. PICK q : Renaming(Mirrored(net), net, q)
    BY <2>4, RenamingBack
  <2>6. Unconstrained(Mirrored(net)) = {r[root]}
    BY <2>3, <2>4, RenamedUnconstrained DEF Image
  <2>7. Acyclic(Mirrored(net))
    BY <2>2, <2>4, RenamedAcyclic
  <2>8. IsIsomorphic(net, Mirrored(net))
    BY <2>2, <2>3, <2>4, RenamingRecognised
  <2>9. IsIsomorphic(Mirrored(net), net)
    BY <2>5, <2>6, <2>7, RenamingRecognised
  <2> QED
    BY <2>1, <2>8, <2>9
<1> QED
  BY <1>1, SpecIInv, PTL
=============================================================================
