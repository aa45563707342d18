-------------------------- MODULE AOStarValueProofs --------------------------
(***************************************************************************)
(* The costs and success probabilities that the AO* search revises: both   *)
(* keep their range, a solved node succeeds surely, and no revision panics *)
(* for want of a connector of finite cost.                                 *)
(***************************************************************************)
EXTENDS AOStarPolicyProofs

(***************************************************************************)
(* Sums of naturals over finite sets.  A sum is the number of units there  *)
(* are in all its terms: this makes it a cardinality, of which the facts   *)
(* about finite sets say what a recursion would say by induction.          *)
(***************************************************************************)
(* The units of the terms f[k], for k in S. *)
UnitsOf(f, k) == {<<k, u>> : u \in 1..f[k]}

Units(f, S) == UNION {UnitsOf(f, k) : k \in S}

SumOf(f, S) == Cardinality(Units(f, S))

(* The recursion by which MapThenSumSet adds up the terms f[k]. *)
First(S) == CHOOSE k \in S : TRUE

Adds(g, f, S) ==
  g = [s \in SUBSET S |-> IF s = {} THEN 0 ELSE f[First(s)] + g[s \ {First(s)}]]

----------------------------------------------------------------------------
(* One term. *)
LEMMA UnitsOfOne ==
  ASSUME NEW f, NEW k, f[k] \in Nat
  PROVE  IsFiniteSet(UnitsOf(f, k)) /\ Cardinality(UnitsOf(f, k)) = f[k]
<1>1. IsFiniteSet(1..f[k]) /\ Cardinality(1..f[k]) = f[k]
  BY FS_Interval
<1> DEFINE b == [u \in 1..f[k] |-> <<k, u>>]
<1>2. b \in Bijection(1..f[k], UnitsOf(f, k))
  BY DEF UnitsOf, Bijection, Injection, Surjection, IsInjective
<1> HIDE DEF b
<1>3. ExistsBijection(1..f[k], UnitsOf(f, k))
  BY <1>2 DEF ExistsBijection
<1> QED
  BY <1>1, <1>3, FS_Bijection

(* No terms. *)
LEMMA SumOfNone ==
  ASSUME NEW f
  PROVE  Units(f, {}) = {} /\ SumOf(f, {}) = 0
BY FS_EmptySet DEF Units, SumOf

(* One term more, or another value for it. *)
LEMMA SumOfOneMore ==
  ASSUME NEW f, NEW S, NEW k, k \notin S, f[k] \in Nat, IsFiniteSet(Units(f, S))
  PROVE  /\ IsFiniteSet(Units(f, S \cup {k}))
         /\ SumOf(f, S) \in Nat
         /\ SumOf(f, S \cup {k}) = SumOf(f, S) + f[k]
<1>1. Units(f, S \cup {k}) = Units(f, S) \cup UnitsOf(f, k)
  BY DEF Units
<1>2. Units(f, S) \cap UnitsOf(f, k) = {}
  BY DEF Units, UnitsOf
<1>3. IsFiniteSet(UnitsOf(f, k)) /\ Cardinality(UnitsOf(f, k)) = f[k]
  BY UnitsOfOne
<1>4. Cardinality(Units(f, S)) \in Nat
  BY FS_CardinalityType
<1>5. Cardinality({}) = 0
  BY FS_EmptySet
<1>6. /\ IsFiniteSet(Units(f, S) \cup UnitsOf(f, k))
      /\ Cardinality(Units(f, S) \cup UnitsOf(f, k)) =
           Cardinality(Units(f, S)) + Cardinality(UnitsOf(f, k))
             - Cardinality(Units(f, S) \cap UnitsOf(f, k))
  BY <1>3, FS_Union
<1>7. SumOf(f, S \cup {k}) = SumOf(f, S) + f[k] - 0
  BY <1>1, <1>2, <1>3, <1>5, <1>6 DEF SumOf
<1>8. SumOf(f, S) \in Nat
  BY <1>4 DEF SumOf
<1>9. SumOf(f, S) + f[k] - 0 = SumOf(f, S) + f[k]
  BY <1>8
<1> QED
  BY <1>1, <1>6, <1>7, <1>8, <1>9

(* Finitely many terms. *)
LEMMA SumOfFinite ==
  ASSUME NEW S, IsFiniteSet(S), NEW f, \A k \in S : f[k] \in Nat
  PROVE  IsFiniteSet(Units(f, S)) /\ SumOf(f, S) \in Nat
<1> DEFINE T == {UnitsOf(f, k) : k \in S}
           g == [k \in S |-> UnitsOf(f, k)]
<1>1. IsFiniteSet(T)
  <2>1. g \in Surjection(S, T)
    BY DEF Surjection
  <2> HIDE DEF g, T
  <2> QED
    BY <2>1, FS_Surjection
<1> QED
  BY <1>1, FS_UNION, UnitsOfOne, FS_CardinalityType DEF Units, SumOf

(* The same terms have the same sum. *)
LEMMA SumOfSame ==
  ASSUME NEW S, NEW f, NEW g, \A k \in S : f[k] = g[k]
  PROVE  Units(f, S) = Units(g, S) /\ SumOf(f, S) = SumOf(g, S)
BY DEF Units, UnitsOf, SumOf

(* Smaller terms have a smaller sum. *)
LEMMA SumOfSmaller ==
  ASSUME NEW S, IsFiniteSet(S), NEW f, NEW g,
         \A k \in S : f[k] \in Nat /\ g[k] \in Nat /\ f[k] <= g[k]
  PROVE  SumOf(f, S) <= SumOf(g, S)
<1>1. Units(f, S) \subseteq Units(g, S)
  <2>1. \A k \in S : \A u \in 1..f[k] : u \in 1..g[k]
    OBVIOUS
  <2> QED
    BY <2>1 DEF Units, UnitsOf
<1>2. IsFiniteSet(Units(g, S))
  BY SumOfFinite
<1> QED
  BY <1>1, <1>2, FS_Subset DEF SumOf

----------------------------------------------------------------------------
(***************************************************************************)
(* The recursion computes the sum: the sum satisfies it, and nothing else  *)
(* does, because a least set on which they differ cannot exist.            *)
(***************************************************************************)
LEMMA SumAdds ==
  ASSUME NEW S, IsFiniteSet(S), NEW f, \A k \in S : f[k] \in Nat
  PROVE  Adds([s \in SUBSET S |-> SumOf(f, s)], f, S)
<1> SUFFICES ASSUME NEW s \in SUBSET S
             PROVE  SumOf(f, s) = IF s = {} THEN 0
                                  ELSE f[First(s)] + SumOf(f, s \ {First(s)})
  BY DEF Adds
<1>1. CASE s = {}
  BY <1>1, SumOfNone
<1>2. CASE s # {}
  <2>1. First(s) \in s
    BY <1>2 DEF First
  <2>2. IsFiniteSet(s \ {First(s)}) /\ \A k \in s \ {First(s)} : f[k] \in Nat
    BY FS_Subset
  <2>3. IsFiniteSet(Units(f, s \ {First(s)}))
    BY <2>2, SumOfFinite
  <2>4. (s \ {First(s)}) \cup {First(s)} = s
    BY <2>1
  <2>5. /\ SumOf(f, s \ {First(s)}) \in Nat
        /\ SumOf(f, s) = SumOf(f, s \ {First(s)}) + f[First(s)]
    BY <2>1, <2>3, <2>4, SumOfOneMore
  <2> QED
    BY <1>2, <2>1, <2>5
<1> QED
  BY <1>1, <1>2

LEMMA OnlySumAdds ==
  ASSUME NEW S, IsFiniteSet(S), NEW f, \A k \in S : f[k] \in Nat, NEW g, Adds(g, f, S)
  PROVE  g[S] = SumOf(f, S)
<1> DEFINE sum == [s \in SUBSET S |-> SumOf(f, s)]
           T   == {s \in SUBSET S : g[s] # sum[s]}
<1>1. Adds(sum, f, S)
  BY SumAdds
<1>2. T = {}
  <2> SUFFICES ASSUME T # {} PROVE FALSE
    OBVIOUS
  <2>1. T \subseteq FiniteSubsetsOf(S)
    BY FS_FiniteSubsetsOfFinite
  <2>2. PICK s \in T : \A t \in T : <<t, s>> \notin StrictSubsetOrdering(S)
    <3> HIDE DEF T
    <3> QED
      BY <2>1, FS_StrictSubsetOrderingWellFounded, WFMin
  <2>3. CASE s = {}
    BY <1>1, <2>2, <2>3 DEF Adds
  <2>4. CASE s # {}
    <3> DEFINE t == s \ {First(s)}
    <3>1. First(s) \in s
      BY <2>4 DEF First
    <3>2. t \in SUBSET S /\ s \in SUBSET S /\ t # s /\ t \subseteq s
      BY <2>2, <3>1
    <3>3. <<t, s>> \in StrictSubsetOrdering(S)
      BY <3>2 DEF StrictSubsetOrdering
    <3>4. g[t] = sum[t]
      BY <2>2, <3>2, <3>3
    <3>5. g[s] = f[First(s)] + g[t] /\ sum[s] = f[First(s)] + sum[t]
      <4> HIDE DEF sum
      <4> QED
        BY <1>1, <2>4, <3>2 DEF Adds
    <3> QED
      BY <2>2, <3>4, <3>5
  <2> QED
    BY <2>3, <2>4
<1> QED
  BY <1>2


(* SumFunction of Functions is the sum. *)
LEMMA SumFunctionSums ==
  ASSUME NEW f, IsFiniteSet(DOMAIN f), \A k \in DOMAIN f : f[k] \in Nat
  PROVE  SumFunction(f) = SumOf(f, DOMAIN f) /\ SumFunction(f) \in Nat
<1> DEFINE S       == DOMAIN f
           body(g) == [s \in SUBSET S |-> IF s = {} THEN 0 ELSE f[First(s)] + g[s \ {First(s)}]]
           iter    == CHOOSE g : g = body(g)
<1>1. SumFunction(f) = iter[S]
  BY DEF SumFunction, SumFunctionOnSet, FoldFunctionOnSet, MapThenFoldSet, First
<1>2. \A g : g = body(g) <=> Adds(g, f, S)
  BY DEF Adds
<1>3. Adds([s \in SUBSET S |-> SumOf(f, s)], f, S)
  BY SumAdds
<1>4. \E g : g = body(g)
  <2> HIDE DEF body
  <2> QED
    BY <1>2, <1>3
<1>5. iter = body(iter)
  <2> HIDE DEF body
  <2> QED
    BY <1>4
<1>6. Adds(iter, f, S)
  <2> HIDE DEF body, iter
  <2> QED
    BY <1>2, <1>5
<1>7. iter[S] = SumOf(f, S)
  <2> HIDE DEF iter
  <2> QED
    BY <1>6, OnlySumAdds
<1> QED
  BY <1>1, <1>7, SumOfFinite

----------------------------------------------------------------------------
(***************************************************************************)
(* Sums that are compared.                                                 *)
(***************************************************************************)
(* Fewer terms have a smaller sum. *)
LEMMA SumOfFewer ==
  ASSUME NEW S, IsFiniteSet(S), NEW f, \A k \in S : f[k] \in Nat, NEW T \in SUBSET S
  PROVE  SumOf(f, T) \in Nat /\ SumOf(f, T) <= SumOf(f, S)
<1>1. IsFiniteSet(T) /\ \A k \in T : f[k] \in Nat
  BY FS_Subset
<1>2. Units(f, T) \subseteq Units(f, S)
  BY DEF Units
<1>3. IsFiniteSet(Units(f, S))
  BY SumOfFinite
<1> QED
  BY <1>1, <1>2, <1>3, FS_Subset, SumOfFinite DEF SumOf

(* The last of n terms. *)
LEMMA SumOfLast ==
  ASSUME NEW n \in Nat \ {0}, NEW f, \A k \in 1..n : f[k] \in Nat
  PROVE  /\ SumOf(f, 1..(n-1)) \in Nat
         /\ SumOf(f, 1..n) = SumOf(f, 1..(n-1)) + f[n]
<1>1. 1..n = 1..(n-1) \cup {n} /\ n \notin 1..(n-1) /\ n \in 1..n
  OBVIOUS
<1>2. IsFiniteSet(1..(n-1)) /\ \A k \in 1..(n-1) : f[k] \in Nat
  BY <1>1, FS_Interval
<1>3. IsFiniteSet(Units(f, 1..(n-1)))
  BY <1>2, SumOfFinite
<1> QED
  BY <1>1, <1>3, SumOfOneMore

(* A term that is set, be it there or not. *)
LEMMA SumOfSet ==
  ASSUME NEW S, IsFiniteSet(S), NEW f, \A k \in S : f[k] \in Nat, NEW k, NEW v \in Nat,
         NEW g, \A j \in S \ {k} : g[j] = f[j], g[k] = v
  PROVE  /\ SumOf(g, S \cup {k}) <= SumOf(f, S) + v
         /\ k \notin S => SumOf(g, S \cup {k}) = SumOf(f, S) + v
<1> DEFINE T == S \ {k}
<1>1. T \subseteq S /\ k \notin T /\ T \cup {k} = S \cup {k} /\ (k \notin S => T = S)
  OBVIOUS
<1>2. IsFiniteSet(T) /\ \A j \in T : g[j] \in Nat
  BY <1>1, FS_Subset
<1>3. SumOf(g, T) = SumOf(f, T)
  BY SumOfSame
<1>4. SumOf(f, T) \in Nat /\ SumOf(f, T) <= SumOf(f, S) /\ SumOf(f, S) \in Nat
  BY <1>1, SumOfFewer, SumOfFinite
<1>5. IsFiniteSet(Units(g, T))
  BY <1>2, SumOfFinite
<1> HIDE DEF T
<1>6. SumOf(g, T \cup {k}) = SumOf(g, T) + v
  BY <1>1, <1>5, SumOfOneMore
<1> QED
  BY <1>1, <1>3, <1>4, <1>6

(* Terms that are all multiplied by one number. *)
LEMMA SumOfMultiples ==
  ASSUME NEW S, IsFiniteSet(S), NEW f, \A k \in S : f[k] \in Nat, NEW c \in Nat,
         NEW g, \A k \in S : g[k] = f[k] * c
  PROVE  SumOf(g, S) = SumOf(f, S) * c
<1> DEFINE sum == [s \in SUBSET S |-> SumOf(f, s) * c]
<1>1. \A k \in S : g[k] \in Nat
  OBVIOUS
<1>2. ASSUME NEW s \in SUBSET S
      PROVE  SumOf(f, s) * c = IF s = {} THEN 0
                               ELSE g[First(s)] + SumOf(f, s \ {First(s)}) * c
  <2>1. SumOf(f, s) = IF s = {} THEN 0 ELSE f[First(s)] + SumOf(f, s \ {First(s)})
    <3> DEFINE h == [t \in SUBSET S |-> SumOf(f, t)]
    <3>1. Adds(h, f, S)
      BY SumAdds
    <3>2. h[s] = IF s = {} THEN 0 ELSE f[First(s)] + h[s \ {First(s)}]
      <4> HIDE DEF h
      <4> QED
        BY <3>1 DEF Adds
    <3>3. s \ {First(s)} \in SUBSET S
      OBVIOUS
    <3> QED
      BY <3>2, <3>3
  <2>2. CASE s = {}
    BY <2>1, <2>2
  <2>3. CASE s # {}
    <3>1. First(s) \in S
      BY <2>3 DEF First
    <3>2. PICK a \in Nat : a = f[First(s)]
      BY <3>1
    <3>3. PICK b \in Nat : b = SumOf(f, s \ {First(s)})
      <4>1. s \ {First(s)} \in SUBSET S
        OBVIOUS
      <4> QED
        BY <4>1, SumOfFewer
    <3>4. (a + b) * c = a * c + b * c
      OBVIOUS
    <3> QED
      BY <2>1, <2>3, <3>1, <3>2, <3>3, <3>4
  <2> QED
    BY <2>2, <2>3
<1>3. Adds(sum, g, S)
  <2>1. \A s \in SUBSET S : s \ {First(s)} \in SUBSET S
    OBVIOUS
  <2> QED
    BY <1>2, <2>1 DEF Adds
<1>4. sum[S] = SumOf(g, S)
  <2> HIDE DEF sum
  <2> QED
    BY <1>1, <1>3, OnlySumAdds
<1> QED
  BY <1>4

----------------------------------------------------------------------------
(***************************************************************************)
(* What has to be known of a problem.  The code takes the probabilities of *)
(* an action as they are in its input, and adds costs that are floats.     *)
(***************************************************************************)
OddsOf(e) == [k \in DOMAIN e |-> e[k].p]

(* No expansion has probabilities of more than 1 in total. *)
AtMostSure(prob) ==
  \A c \in Config : \A i \in DOMAIN prob.expansions[c] :
    SumFunction(OddsOf(prob.expansions[c][i])) <= One

(* They are 1 in total, of outcomes that all differ. *)
OutcomesDiffer(e) == \A k, l \in DOMAIN e : e[k].to = e[l].to => k = l

Exhaustive(prob) ==
  \A c \in Config : \A i \in DOMAIN prob.expansions[c] :
    LET e == prob.expansions[c][i] IN SumFunction(OddsOf(e)) = One /\ OutcomesDiffer(e)

(* Costs from a configuration stay below a finite bound, whatever way is   *)
(* taken: there is such a bound only if no configuration leads to itself,  *)
(* and then there is one unless costs overflow.                            *)
BoundsOf(e, bound) == [k \in DOMAIN e |-> bound[e[k].to]]

IsBound(prob, bound) ==
  /\ bound \in [Config -> 0..(Inf-1)]
  /\ \A c \in Config :
       /\ prob.h[c] # Inf => prob.h[c] <= bound[c]
       /\ \A i \in DOMAIN prob.expansions[c] :
            1 + SumFunction(BoundsOf(prob.expansions[c][i], bound)) <= bound[c]

Bounded(prob) == \E bound \in [Config -> 0..(Inf-1)] : IsBound(prob, bound)

----------------------------------------------------------------------------
(***************************************************************************)
(* The invariant on values, beside IInv and PInv.  A connector made of the *)
(* first n outcomes of an expansion has their probabilities, or less when  *)
(* one was overwritten, and its children have no greater bounds.           *)
(***************************************************************************)
IsArc(ns, arc) ==
  /\ HasArcFields(arc)
  /\ arc.children \subseteq DOMAIN ns
  /\ arc.outcomeProbs \in [arc.children -> 1..One]
  /\ arc.marked \in BOOLEAN

ChildBounds(ns, children, bound) == [y \in children |-> bound[ns[y].config]]

Measured(ns, arc, e, n) ==
  LET odds == SumOf(arc.outcomeProbs, arc.children) IN
  /\ IsArc(ns, arc)
  /\ odds <= SumOf(OddsOf(e), 1..n)
  /\ OutcomesDiffer(e) => odds = SumOf(OddsOf(e), 1..n)
  /\ \A bound \in [Config -> 0..(Inf-1)] :
       SumOf(ChildBounds(ns, arc.children, bound), arc.children)
         <= SumOf(BoundsOf(e, bound), 1..n)

Valued(ns, prob, n) ==
  /\ n.cost \in 0..Inf
  /\ n.prob \in Nat
  /\ AtMostSure(prob) => n.prob <= One
  /\ Exhaustive(prob) /\ n.status = "Solved" => n.prob = One
  /\ n.status # "Failed" =>
       \A bound \in [Config -> 0..(Inf-1)] : IsBound(prob, bound) => n.cost <= bound[n.config]
  /\ \A i \in DOMAIN n.connections :
       Measured(ns, n.connections[i], prob.expansions[n.config][i],
                Len(prob.expansions[n.config][i]))

NodesValued == \A x \in Id : Valued(nodes, problem, nodes[x])

BuiltValued ==
  /\ \A i \in DOMAIN built : IsArc(nodes, built[i])
  /\ pc = "outcomes" =>
       LET n == Len(built) IN
       /\ \A i \in 1..(n-1) : Measured(nodes, built[i], Expansions[i], Len(Expansions[i]))
       /\ Measured(nodes, built[n], Expansions[n], next - 1)

ControlTyped ==
  /\ pc \in {"loop", "find", "expand", "outcomes", "revise", "extract", "done", "panic"}
  /\ tip \in {0} \cup Id
  /\ policy \subseteq Id

VInv == NodesValued /\ BuiltValued /\ ControlTyped

----------------------------------------------------------------------------
(***************************************************************************)
(* Connectors.                                                             *)
(***************************************************************************)
(* The nodes can be counted. *)
LEMMA ChildrenAreFinite ==
  ASSUME NEW ns, IsSeq(ns), NEW S \in SUBSET DOMAIN ns
  PROVE  IsFiniteSet(S)
BY SeqFacts, FS_Interval, FS_Subset

(* An outcome has a probability and a bound. *)
LEMMA OutcomeTerms ==
  ASSUME NEW prob \in Problems, NEW c \in Config, NEW i \in DOMAIN prob.expansions[c],
         NEW bound \in [Config -> 0..(Inf-1)]
  PROVE  LET e == prob.expansions[c][i] IN
         /\ Len(e) \in Nat /\ DOMAIN e = 1..Len(e)
         /\ \A k \in 1..Len(e) : OddsOf(e)[k] \in Nat /\ OddsOf(e)[k] = e[k].p
         /\ \A k \in 1..Len(e) : BoundsOf(e, bound)[k] \in Nat
                                 /\ BoundsOf(e, bound)[k] = bound[e[k].to]
         /\ SumFunction(OddsOf(e)) = SumOf(OddsOf(e), 1..Len(e))
         /\ SumFunction(BoundsOf(e, bound)) = SumOf(BoundsOf(e, bound), 1..Len(e))
         /\ SumOf(OddsOf(e), 1..Len(e)) \in Nat
         /\ SumOf(BoundsOf(e, bound), 1..Len(e)) \in Nat
<1> DEFINE e == prob.expansions[c][i]
<1>1. /\ Len(e) \in Nat /\ DOMAIN e = 1..Len(e)
      /\ \A k \in DOMAIN e : e[k].to \in Config /\ e[k].p \in 1..One
  BY ExpansionFacts
<1>2. One \in Nat /\ Inf \in Nat
  BY BoundsAssumption
<1> HIDE DEF e
<1>3. DOMAIN OddsOf(e) = 1..Len(e) /\ DOMAIN BoundsOf(e, bound) = 1..Len(e)
  BY <1>1 DEF OddsOf, BoundsOf
<1>4. /\ \A k \in 1..Len(e) : OddsOf(e)[k] \in Nat /\ OddsOf(e)[k] = e[k].p
      /\ \A k \in 1..Len(e) : BoundsOf(e, bound)[k] \in Nat
                              /\ BoundsOf(e, bound)[k] = bound[e[k].to]
  BY <1>1, <1>2 DEF OddsOf, BoundsOf
<1>5. IsFiniteSet(1..Len(e))
  BY <1>1, FS_Interval
<1>6. /\ SumFunction(OddsOf(e)) = SumOf(OddsOf(e), 1..Len(e))
      /\ SumFunction(BoundsOf(e, bound)) = SumOf(BoundsOf(e, bound), 1..Len(e))
      /\ SumOf(OddsOf(e), 1..Len(e)) \in Nat
      /\ SumOf(BoundsOf(e, bound), 1..Len(e)) \in Nat
  BY <1>3, <1>4, <1>5, SumFunctionSums
<1> QED
  BY <1>1, <1>4, <1>6 DEF e

(* What is known of a connector is not about costs, labels and marks. *)
LEMMA MeasuresKept ==
  ASSUME NEW ns, NEW ms, DOMAIN ns \subseteq DOMAIN ms,
         \A y \in DOMAIN ns : ms[y].config = ns[y].config,
         NEW arc, NEW e, NEW n, Measured(ns, arc, e, n),
         NEW marked, HasArcFields(marked), marked.children = arc.children,
         marked.outcomeProbs = arc.outcomeProbs, marked.marked \in BOOLEAN
  PROVE  Measured(ms, marked, e, n)
<1>1. \A bound : ChildBounds(ms, arc.children, bound) = ChildBounds(ns, arc.children, bound)
  BY DEF Measured, IsArc, ChildBounds
<1>2. IsArc(ms, marked)
  BY DEF Measured, IsArc
<1> QED
  BY <1>1, <1>2 DEF Measured

(* A connector without children has nothing to add. *)
LEMMA EmptyMeasured ==
  ASSUME NEW ns, NEW e
  PROVE  Measured(ns, EmptyConnector, e, 0)
<1>1. IsArc(ns, EmptyConnector)
  BY DEF IsArc, HasArcFields, EmptyConnector
<1>2. EmptyConnector.children = {} /\ 1..0 = {}
  BY DEF EmptyConnector
<1>3. \A f : SumOf(f, {}) = 0
  BY SumOfNone
<1> QED
  BY <1>1, <1>2, <1>3 DEF Measured

(* Adding the node of the next outcome adds its probability. *)
LEMMA ChildMeasured ==
  ASSUME NEW prob \in Problems, NEW c \in Config, NEW i \in DOMAIN prob.expansions[c],
         NEW n \in DOMAIN prob.expansions[c][i], NEW ns, IsSeq(ns),
         \A y \in DOMAIN ns : ns[y].config \in Config,
         NEW last, Measured(ns, last, prob.expansions[c][i], n - 1),
         Covers(ns, last, prob.expansions[c][i], n - 1),
         NEW id \in DOMAIN ns, ns[id].config = prob.expansions[c][i][n].to,
         NEW arc, HasArcFields(arc),
         arc.children = last.children \cup {id}, arc.marked = last.marked,
         arc.outcomeProbs = [k \in last.children \cup {id} |->
                               IF k = id THEN prob.expansions[c][i][n].p
                               ELSE last.outcomeProbs[k]]
  PROVE  Measured(ns, arc, prob.expansions[c][i], n)
<1> DEFINE e == prob.expansions[c][i]
           p == e[n].p
<1>1. /\ Len(e) \in Nat /\ n \in 1..Len(e) /\ n \in Nat \ {0}
      /\ \A k \in DOMAIN e : e[k].to \in Config /\ e[k].p \in 1..One
  BY ExpansionFacts
<1>2. DOMAIN e = 1..Len(e) /\ One \in Nat /\ Inf \in Nat
  BY ExpansionFacts, BoundsAssumption
<1>3. p \in 1..One /\ p \in Nat
  BY <1>1, <1>2
<1>4. \A k \in 1..n : k \in DOMAIN e
  BY <1>1, <1>2
<1>5. /\ IsArc(ns, last)
      /\ \A k \in last.children : last.outcomeProbs[k] \in Nat
  BY <1>2 DEF Measured, IsArc
<1>6. IsFiniteSet(last.children)
  BY <1>5, ChildrenAreFinite DEF IsArc
<1>7. IsArc(ns, arc)
  BY <1>3, <1>5 DEF IsArc
<1>8. /\ SumOf(arc.outcomeProbs, arc.children) <= SumOf(last.outcomeProbs, last.children) + p
      /\ id \notin last.children =>
           SumOf(arc.outcomeProbs, arc.children) = SumOf(last.outcomeProbs, last.children) + p
  <2>1. \A j \in last.children \ {id} : arc.outcomeProbs[j] = last.outcomeProbs[j]
    OBVIOUS
  <2>2. arc.outcomeProbs[id] = p
    OBVIOUS
  <2> DEFINE f == last.outcomeProbs
             g == arc.outcomeProbs
             S == last.children
  <2>3. \A j \in S \ {id} : g[j] = f[j]
    BY <2>1
  <2>4. \A k \in S : f[k] \in Nat
    BY <1>5
  <2>5. g[id] = p /\ IsFiniteSet(S)
    BY <1>6, <2>2
  <2> HIDE DEF p, f, g, S
  <2>6. /\ SumOf(g, S \cup {id}) <= SumOf(f, S) + p
        /\ id \notin S => SumOf(g, S \cup {id}) = SumOf(f, S) + p
    BY <1>3, <2>3, <2>4, <2>5, SumOfSet
  <2> QED
    BY <2>6 DEF f, g, S
<1>9. /\ SumOf(OddsOf(e), 1..(n-1)) \in Nat
      /\ SumOf(OddsOf(e), 1..n) = SumOf(OddsOf(e), 1..(n-1)) + p
  <2>1. \A k \in 1..n : OddsOf(e)[k] \in Nat
    BY <1>1, <1>2, <1>4 DEF OddsOf
  <2>2. OddsOf(e)[n] = p
    BY <1>1, <1>2 DEF OddsOf
  <2> HIDE DEF e, p
  <2> QED
    BY <1>1, <2>1, <2>2, SumOfLast
<1>10. SumOf(last.outcomeProbs, last.children) \in Nat
  BY <1>5, <1>6, SumOfFinite
<1>11. SumOf(arc.outcomeProbs, arc.children) \in Nat
  <2>1. IsFiniteSet(arc.children)
    BY <1>7, ChildrenAreFinite DEF IsArc
  <2>2. \A k \in arc.children : arc.outcomeProbs[k] \in Nat
    BY <1>2, <1>7 DEF IsArc
  <2> QED
    BY <2>1, <2>2, SumOfFinite
<1>12. SumOf(arc.outcomeProbs, arc.children) <= SumOf(OddsOf(e), 1..n)
  <2>1. SumOf(last.outcomeProbs, last.children) <= SumOf(OddsOf(e), 1..(n-1))
    BY DEF Measured
  <2> HIDE DEF e, p
  <2> QED
    BY <1>3, <1>8, <1>9, <1>10, <1>11, <2>1
<1>13. ASSUME OutcomesDiffer(e)
       PROVE  SumOf(arc.outcomeProbs, arc.children) = SumOf(OddsOf(e), 1..n)
  <2>1. ASSUME id \in last.children PROVE FALSE
    <3>1. PICK k \in 1..(n-1) : ns[id].config = e[k].to
      BY <2>1 DEF Covers
    <3>2. k \in DOMAIN e /\ n \in DOMAIN e /\ k # n
      BY <1>1, <1>2
    <3> QED
      BY <1>13, <3>1, <3>2 DEF OutcomesDiffer
  <2>2. SumOf(last.outcomeProbs, last.children) = SumOf(OddsOf(e), 1..(n-1))
    BY <1>13 DEF Measured
  <2> QED
    BY <1>8, <1>9, <2>1, <2>2
<1>14. ASSUME NEW bound \in [Config -> 0..(Inf-1)]
       PROVE  SumOf(ChildBounds(ns, arc.children, bound), arc.children)
                <= SumOf(BoundsOf(e, bound), 1..n)
  <2> DEFINE f == ChildBounds(ns, last.children, bound)
             g == ChildBounds(ns, arc.children, bound)
             b == bound[e[n].to]
  <2>1. b \in Nat
    BY <1>1, <1>2
  <2>2. \A k \in arc.children : g[k] \in Nat
    BY <1>2, <1>7 DEF ChildBounds, IsArc
  <2>3. \A k \in last.children : f[k] \in Nat /\ g[k] = f[k]
    BY <1>2, <1>5 DEF ChildBounds, IsArc
  <2>4. g[id] = b
    BY DEF ChildBounds
  <2>5. SumOf(BoundsOf(e, bound), 1..(n-1)) \in Nat
        /\ SumOf(BoundsOf(e, bound), 1..n) = SumOf(BoundsOf(e, bound), 1..(n-1)) + b
    <3>1. \A k \in 1..n : BoundsOf(e, bound)[k] \in Nat
      BY <1>1, <1>2, <1>4 DEF BoundsOf
    <3>2. BoundsOf(e, bound)[n] = b
      BY <1>1, <1>2 DEF BoundsOf
    <3> HIDE DEF e, b
    <3> QED
      BY <1>1, <3>1, <3>2, SumOfLast
  <2>6. SumOf(f, last.children) <= SumOf(BoundsOf(e, bound), 1..(n-1))
    BY DEF Measured
  <2> HIDE DEF f, g, b, e
  <2>7. SumOf(g, arc.children) <= SumOf(f, last.children) + b
    BY <1>6, <2>1, <2>3, <2>4, SumOfSet
  <2>8. SumOf(f, last.children) \in Nat /\ SumOf(g, arc.children) \in Nat
    <3>1. IsFiniteSet(arc.children)
      BY <1>7, ChildrenAreFinite DEF IsArc
    <3> QED
      BY <1>6, <2>2, <2>3, <3>1, SumOfFinite
  <2> QED
    BY <2>1, <2>5, <2>6, <2>7, <2>8 DEF g
<1> QED
  BY <1>7, <1>12, <1>13, <1>14 DEF Measured

----------------------------------------------------------------------------
(***************************************************************************)
(* What compute_min_cost and arc_success_probability return.               *)
(***************************************************************************)
(* Division by One. *)
LEMMA Quotient ==
  ASSUME NEW a \in Nat, NEW b \in Nat \ {0}
  PROVE  /\ a \div b \in Nat
         /\ a <= b * b => a \div b <= b
         /\ a = b * b => a \div b = b
OBVIOUS

(* A product of naturals, in order. *)
LEMMA SmallerProduct ==
  ASSUME NEW p \in Nat, NEW q \in Nat, NEW b \in Nat
  PROVE  p * q \in Nat /\ p * b \in Nat /\ (q <= b => p * q <= p * b)
OBVIOUS

(* The cost of a connector is in range, and within the bounds of its       *)
(* configuration if no child has failed.                                   *)
LEMMA ArcCosts ==
  ASSUME IInv, VInv, NEW c \in Config, NEW i \in DOMAIN problem.expansions[c], NEW arc,
         LET e == problem.expansions[c][i] IN Measured(nodes, arc, e, Len(e))
  PROVE  /\ ArcCost(arc) \in 0..Inf
         /\ (\A y \in arc.children : nodes[y].status # "Failed") =>
              \A bound \in [Config -> 0..(Inf-1)] :
                IsBound(problem, bound) => ArcCost(arc) <= bound[c]
<1> DEFINE S == arc.children
           e == problem.expansions[c][i]
           f == [k \in S |-> nodes[k].cost]
<1>1. Inf \in Nat \ {0} /\ problem \in Problems
  BY BoundsAssumption DEF IInv
<1>2. S \subseteq Id /\ IsFiniteSet(S)
  BY ChildrenAreFinite DEF Measured, IsArc, IInv, IsSearchGraph, Id
<1>3. \A k \in S : nodes[k].cost \in Nat /\ Valued(nodes, problem, nodes[k])
  BY <1>1, <1>2 DEF VInv, NodesValued, Valued
<1>4. DOMAIN f = S /\ \A k \in S : f[k] \in Nat /\ f[k] = nodes[k].cost
  BY <1>3
<1>5. ArcCost(arc) = IF 1 + SumFunction(f) < Inf THEN 1 + SumFunction(f) ELSE Inf
  BY DEF ArcCost
<1> HIDE DEF f
<1>6. SumFunction(f) \in Nat /\ SumFunction(f) = SumOf(f, S)
  BY <1>2, <1>4, SumFunctionSums
<1>7. ASSUME \A y \in S : nodes[y].status # "Failed",
             NEW bound \in [Config -> 0..(Inf-1)], IsBound(problem, bound)
      PROVE  ArcCost(arc) <= bound[c]
  <2> DEFINE g == ChildBounds(nodes, S, bound)
  <2>1. \A k \in S : nodes[k].config \in Config
    BY <1>2 DEF IInv, IsSearchGraph, IsSearchNode, Id
  <2>2. \A k \in S : g[k] \in Nat /\ f[k] <= g[k]
    BY <1>1, <1>3, <1>4, <1>7, <2>1 DEF ChildBounds, Valued
  <2>3. SumOf(g, S) <= SumOf(BoundsOf(e, bound), 1..Len(e))
    BY DEF Measured
  <2>4. SumFunction(BoundsOf(e, bound)) = SumOf(BoundsOf(e, bound), 1..Len(e))
    BY <1>1, OutcomeTerms
  <2>5. 1 + SumFunction(BoundsOf(e, bound)) <= bound[c]
    BY <1>7 DEF IsBound
  <2>6. SumOf(BoundsOf(e, bound), 1..Len(e)) \in Nat
    BY <1>1, OutcomeTerms
  <2>7. bound[c] \in Nat /\ bound[c] < Inf
    BY <1>1
  <2> HIDE DEF g, S, e
  <2>8. SumOf(f, S) <= SumOf(g, S) /\ SumOf(g, S) \in Nat
    BY <1>2, <1>4, <2>2, SumOfSmaller, SumOfFinite
  <2>9. 1 + SumFunction(f) <= bound[c]
    BY <1>6, <2>3, <2>4, <2>5, <2>6, <2>7, <2>8
  <2> QED
    BY <1>1, <1>5, <1>6, <2>7, <2>9
<1>8. ArcCost(arc) \in 0..Inf
  BY <1>1, <1>5, <1>6
<1> QED
  BY <1>7, <1>8

(* Its probability is in range, and One if all its children are solved.    *)
LEMMA ArcProbabilities ==
  ASSUME IInv, VInv, NEW c \in Config, NEW i \in DOMAIN problem.expansions[c], NEW arc,
         LET e == problem.expansions[c][i] IN Measured(nodes, arc, e, Len(e))
  PROVE  /\ ArcProbability(arc) \in Nat
         /\ AtMostSure(problem) => ArcProbability(arc) <= One
         /\ Exhaustive(problem) /\ (\A y \in arc.children : nodes[y].status = "Solved") =>
              ArcProbability(arc) = One
<1> DEFINE S == arc.children
           e == problem.expansions[c][i]
           p == arc.outcomeProbs
           f == [k \in S |-> p[k] * nodes[k].prob]
           g == [k \in S |-> p[k] * One]
<1>1. One \in Nat \ {0} /\ problem \in Problems
  BY BoundsAssumption DEF IInv
<1>2. S \subseteq Id /\ IsFiniteSet(S) /\ \A k \in S : p[k] \in Nat
  BY <1>1, ChildrenAreFinite DEF Measured, IsArc, IInv, IsSearchGraph, Id
<1>3. \A k \in S : nodes[k].prob \in Nat /\ Valued(nodes, problem, nodes[k])
  BY <1>2 DEF VInv, NodesValued, Valued
<1>4. /\ DOMAIN f = S
      /\ \A k \in S : f[k] \in Nat /\ g[k] \in Nat /\ g[k] = p[k] * One
  BY <1>1, <1>2, <1>3, SmallerProduct
<1>5. ArcProbability(arc) = SumFunction(f) \div One
  BY DEF ArcProbability
<1>6. SumOf(p, S) <= SumOf(OddsOf(e), 1..Len(e))
  BY DEF Measured
<1>7. SumFunction(OddsOf(e)) = SumOf(OddsOf(e), 1..Len(e))
      /\ SumOf(OddsOf(e), 1..Len(e)) \in Nat
  <2>1. PICK bound : bound \in [Config -> 0..(Inf-1)]
    <3>1. [x \in Config |-> 0] \in [Config -> 0..(Inf-1)]
      BY BoundsAssumption
    <3> QED
      BY <3>1
  <2> QED
    BY <1>1, <2>1, OutcomeTerms
<1>8. AtMostSure(problem) => \A k \in S : f[k] <= g[k]
  <2> SUFFICES ASSUME AtMostSure(problem), NEW k \in S
               PROVE  f[k] <= g[k]
    OBVIOUS
  <2>1. nodes[k].prob <= One
    BY <1>3 DEF Valued
  <2> QED
    BY <1>1, <1>2, <1>3, <2>1, SmallerProduct
<1>9. AtMostSure(problem) => SumFunction(OddsOf(e)) <= One
  BY DEF AtMostSure
<1>10. Exhaustive(problem) => /\ SumFunction(OddsOf(e)) = One
                              /\ SumOf(p, S) = SumOf(OddsOf(e), 1..Len(e))
  BY DEF Exhaustive, Measured
<1>11. Exhaustive(problem) /\ (\A y \in S : nodes[y].status = "Solved") =>
         \A k \in S : f[k] = p[k] * One
  BY <1>3 DEF Valued
<1> HIDE DEF f, g, e, p, S
<1>12. SumFunction(f) \in Nat /\ SumFunction(f) = SumOf(f, S)
  BY <1>2, <1>4, SumFunctionSums
<1>13. SumOf(g, S) = SumOf(p, S) * One /\ SumOf(p, S) \in Nat
  BY <1>1, <1>2, <1>4, SumOfMultiples, SumOfFinite
<1>14. ASSUME AtMostSure(problem) PROVE ArcProbability(arc) <= One
  <2>1. SumOf(f, S) <= SumOf(p, S) * One
    BY <1>2, <1>4, <1>8, <1>13, <1>14, SumOfSmaller
  <2>2. SumOf(p, S) <= One
    BY <1>1, <1>6, <1>7, <1>9, <1>13, <1>14
  <2>3. SumOf(p, S) * One <= One * One
    <3>1. PICK s \in Nat : s = SumOf(p, S)
      BY <1>13
    <3>2. One * s <= One * One /\ s * One = One * s
      BY <1>1, <2>2, <3>1, SmallerProduct
    <3> QED
      BY <3>1, <3>2
  <2>4. SumFunction(f) <= One * One
    <3>1. SumOf(p, S) * One \in Nat /\ One * One \in Nat
      BY <1>1, <1>13, SmallerProduct
    <3> QED
      BY <1>12, <2>1, <2>3, <3>1
  <2> QED
    BY <1>1, <1>5, <1>12, <2>4, Quotient
<1>15. ASSUME Exhaustive(problem), \A y \in S : nodes[y].status = "Solved"
       PROVE  ArcProbability(arc) = One
  <2>1. SumOf(f, S) = SumOf(p, S) * One
    BY <1>1, <1>2, <1>11, <1>15, SumOfMultiples
  <2>2. SumOf(p, S) = One
    BY <1>7, <1>10, <1>15
  <2>3. SumFunction(f) = One * One
    BY <1>12, <2>1, <2>2
  <2> QED
    BY <1>1, <1>5, <1>12, <2>3, Quotient
<1>16. ArcProbability(arc) \in Nat
  BY <1>1, <1>5, <1>12, Quotient
<1> QED
  BY <1>14, <1>15, <1>16 DEF S

(* The best connector is one of them, and when none is solved it is one of *)
(* the cheapest.                                                           *)
LEMMA BestFacts ==
  ASSUME IInv, VInv, NEW x \in Id, nodes[x].connections # <<>>
  PROVE  LET arcs == nodes[x].connections
             best == BestArc(arcs)
         IN  /\ best \in DOMAIN arcs
             /\ (\A j \in DOMAIN arcs : ArcStatus(arcs[j]) # "Solved") =>
                  \A j \in DOMAIN arcs : ArcCost(arcs[best]) <= ArcCost(arcs[j])
<1> DEFINE arcs     == nodes[x].connections
           solved   == {i \in DOMAIN arcs : ArcStatus(arcs[i]) = "Solved"}
           cheapest == {i \in DOMAIN arcs :
                          \A j \in DOMAIN arcs : ArcCost(arcs[i]) <= ArcCost(arcs[j])}
           costs    == {ArcCost(arcs[i]) : i \in DOMAIN arcs}
<1>1. /\ Expanded(nodes, problem, nodes[x].config, arcs)
      /\ Len(problem.expansions[nodes[x].config]) \in Nat
      /\ DOMAIN arcs = 1..Len(problem.expansions[nodes[x].config])
      /\ DOMAIN arcs # {}
  BY ExpandedArcs
<1>2. nodes[x].config \in Config /\ DOMAIN arcs = DOMAIN problem.expansions[nodes[x].config]
  BY <1>1 DEF IInv, IsSearchGraph, IsSearchNode, Id, Expanded
<1>3. \A i \in DOMAIN arcs : ArcCost(arcs[i]) \in Nat
  <2> SUFFICES ASSUME NEW i \in DOMAIN arcs PROVE ArcCost(arcs[i]) \in Nat
    OBVIOUS
  <2>1. Measured(nodes, arcs[i], problem.expansions[nodes[x].config][i],
                 Len(problem.expansions[nodes[x].config][i]))
    BY DEF VInv, NodesValued, Valued
  <2>2. ArcCost(arcs[i]) \in 0..Inf
    BY <1>2, <2>1, ArcCosts
  <2> QED
    BY <2>2, BoundsAssumption
<1>4. solved \in SUBSET Nat /\ cheapest \in SUBSET Nat
  BY <1>1
<1>5. cheapest # {}
  <2>1. costs \in SUBSET Nat /\ costs # {}
    BY <1>1, <1>3
  <2>2. PICK m \in costs : \A n \in costs : m <= n
    <3> HIDE DEF costs
    <3> QED
      BY <2>1, LeastNatural
  <2>3. PICK i \in DOMAIN arcs : m = ArcCost(arcs[i])
    BY <2>2
  <2> QED
    BY <2>2, <2>3
<1>6. BestArc(arcs) = IF solved # {} THEN Min(solved) ELSE Min(cheapest)
  BY DEF BestArc
<1>7. solved \subseteq DOMAIN arcs /\ cheapest \subseteq DOMAIN arcs
  OBVIOUS
<1>8. /\ solved # {} => Min(solved) \in solved
      /\ Min(cheapest) \in cheapest
  <2> HIDE DEF solved, cheapest
  <2> QED
    BY <1>4, <1>5, MinIsMember
<1>9. BestArc(arcs) \in DOMAIN arcs
  <2> HIDE DEF solved, cheapest
  <2> QED
    BY <1>6, <1>7, <1>8
<1>10. ASSUME \A j \in DOMAIN arcs : ArcStatus(arcs[j]) # "Solved"
       PROVE  BestArc(arcs) \in cheapest
  <2>1. solved = {}
    BY <1>10
  <2> HIDE DEF solved, cheapest
  <2> QED
    BY <1>6, <1>8, <2>1
<1> QED
  BY <1>9, <1>10

----------------------------------------------------------------------------
(***************************************************************************)
(* Values stay right when one node x is added or changes.                  *)
(***************************************************************************)
ConfigsStay == Id \subseteq Id' /\ \A y \in Id : nodes'[y].config = nodes[y].config

LEMMA ValuesKept ==
  ASSUME NodesValued, problem' = problem, Id \subseteq Id',
         NEW x \in Id', Id' \subseteq Id \cup {x},
         \A y \in Id : nodes'[y].config = nodes[y].config,
         \A y \in Id : y # x => nodes'[y] = nodes[y],
         Valued(nodes, problem, nodes'[x])
  PROVE  NodesValued'
<1> SUFFICES ASSUME NEW y \in Id' PROVE Valued(nodes', problem, nodes'[y])
  BY DEF NodesValued
<1>1. Valued(nodes, problem, nodes'[y])
  BY DEF NodesValued
<1>2. ASSUME NEW arc, NEW e, NEW n, Measured(nodes, arc, e, n)
      PROVE  Measured(nodes', arc, e, n)
  <2>1. HasArcFields(arc) /\ arc.marked \in BOOLEAN
    BY <1>2 DEF Measured, IsArc
  <2> QED
    BY <1>2, <2>1, MeasuresKept DEF Id
<1> QED
  BY <1>1, <1>2 DEF Valued

(* Connectors of a node keep their measure when they are marked. *)
LEMMA MarkedMeasured ==
  ASSUME IInv, VInv, NEW x \in Id, nodes[x].connections # <<>>, NEW i
  PROVE  LET arcs == nodes[x].connections
             es   == problem.expansions[nodes[x].config]
         IN  /\ nodes[x].config \in Config
             /\ DOMAIN arcs = DOMAIN es
             /\ \A j \in DOMAIN arcs : Measured(nodes, arcs[j], es[j], Len(es[j]))
             /\ DOMAIN Mark(arcs, i) = DOMAIN arcs
             /\ \A j \in DOMAIN arcs : Measured(nodes, Mark(arcs, i)[j], es[j], Len(es[j]))
<1> DEFINE arcs == nodes[x].connections
           es   == problem.expansions[nodes[x].config]
<1>1. Expanded(nodes, problem, nodes[x].config, arcs) /\ nodes[x].config \in Config
  BY ExpandedArcs DEF IInv, IsSearchGraph, IsSearchNode, Id
<1>2. DOMAIN arcs = DOMAIN es /\ \A j \in DOMAIN arcs : HasArcFields(arcs[j])
  BY <1>1 DEF Expanded, Covers
<1>3. \A j \in DOMAIN arcs : Measured(nodes, arcs[j], es[j], Len(es[j]))
  BY DEF VInv, NodesValued, Valued
<1>4. /\ DOMAIN Mark(arcs, i) = DOMAIN arcs
      /\ \A j \in DOMAIN arcs :
           /\ Mark(arcs, i)[j].marked = (j = i)
           /\ Mark(arcs, i)[j].children = arcs[j].children
           /\ Mark(arcs, i)[j].outcomeProbs = arcs[j].outcomeProbs
           /\ HasArcFields(Mark(arcs, i)[j])
  BY <1>2, MarkFacts
<1> HIDE DEF arcs, es
<1>5. ASSUME NEW j \in DOMAIN arcs
      PROVE  Measured(nodes, Mark(arcs, i)[j], es[j], Len(es[j]))
  BY <1>3, <1>4, MeasuresKept
<1> QED
  BY <1>1, <1>2, <1>3, <1>4, <1>5 DEF arcs, es

(* A node without expansions: a goal costs nothing, a dead end everything. *)
LEMMA ExpandTerminalValues ==
  ASSUME IInv, VInv, ExpandTerminal
  PROVE  NodesValued' /\ ConfigsStay
<1> DEFINE n == IF nodes[tip].config \in problem.goal
                THEN [nodes[tip] EXCEPT !.status = "Solved", !.cost = 0, !.prob = One]
                ELSE [nodes[tip] EXCEPT !.status = "Failed", !.cost = Inf, !.prob = 0]
<1>1. /\ pc = "expand" /\ problem' = problem /\ nodes[tip].connections = <<>>
      /\ tip \in Id /\ nodes[tip].config \in Config
  BY ExpandedNode DEF ExpandTerminal
<1>2. nodes' = [nodes EXCEPT ![tip] = n]
  BY <1>1 DEF ExpandTerminal
<1>3. HasNodeFields(nodes[tip])
  BY <1>1 DEF IInv, IsSearchGraph, IsSearchNode, Id
<1>4. /\ n.config = nodes[tip].config /\ n.connections = <<>>
      /\ \/ n.status = "Solved" /\ n.cost = 0 /\ n.prob = One
         \/ n.status = "Failed" /\ n.cost = Inf /\ n.prob = 0
  BY <1>1, <1>3 DEF HasNodeFields
<1> HIDE DEF n
<1>5. PICK x \in Id : x = tip
  BY <1>1
<1>6. /\ Id' = Id /\ nodes'[x] = n /\ \A y \in Id : y # x => nodes'[y] = nodes[y]
      /\ \A y \in Id : nodes'[y].config = nodes[y].config
  BY <1>2, <1>4, <1>5 DEF Id
<1>7. Valued(nodes, problem, n)
  <2>1. n.config \in Config
    BY <1>1, <1>4
  <2> QED
    BY <1>4, <2>1, BoundsAssumption DEF Valued
<1> QED
  BY <1>1, <1>6, <1>7, ValuesKept DEF VInv, ConfigsStay

(* A new node has its heuristic value, which is infinite only if it failed. *)
LEMMA OutcomeInsertsValues ==
  ASSUME IInv, VInv, OutcomeInserts
  PROVE  NodesValued' /\ ConfigsStay
<1> DEFINE c == Outcome.to
           n == NewNode(c)
<1>1. /\ nodes' = Append(nodes, n) /\ problem' = problem /\ problem \in Problems
      /\ pc = "outcomes" /\ next \in DOMAIN Expansions[Len(built)]
  BY DEF OutcomeInserts, IInv
<1>2. c \in Config
  BY <1>1, LastConnector, ExpandedNode DEF Outcome
<1>3. problem.h[c] \in 0..Inf
  BY <1>1, <1>2, ProblemsAssumption DEF IsProblem
<1>4. /\ n.config = c /\ n.connections = <<>>
      /\ \/ n.status = "Solved" /\ n.cost = 0 /\ n.prob = One
         \/ n.status = "Failed" /\ n.cost = problem.h[c] /\ n.prob = 0
         \/ n.status = "OnGoing" /\ n.cost = problem.h[c] /\ n.prob = 0
            /\ problem.h[c] # Inf
  BY DEF NewNode
<1> HIDE DEF n, c
<1>5. IsSeq(nodes) /\ Len(nodes) \in Nat /\ Id = 1..Len(nodes)
  BY SeqFacts DEF IInv, IsSearchGraph, Id
<1>6. PICK x \in Nat : x = Len(nodes) + 1
  BY <1>5
<1>7. Id' = 1..x /\ nodes'[x] = n /\ \A y \in Id : nodes'[y] = nodes[y]
  BY <1>1, <1>5, <1>6, SeqAppended DEF Id
<1>8. Id \subseteq Id' /\ x \in Id' /\ Id' \subseteq Id \cup {x}
  BY <1>5, <1>6, <1>7
<1>9. Valued(nodes, problem, n)
  <2>1. ASSUME NEW bound \in [Config -> 0..(Inf-1)], IsBound(problem, bound),
               n.status # "Failed"
        PROVE  n.cost <= bound[n.config]
    BY <1>2, <1>4, <2>1, BoundsAssumption DEF IsBound
  <2> QED
    BY <1>3, <1>4, <2>1, BoundsAssumption DEF Valued
<1> QED
  BY <1>1, <1>7, <1>8, <1>9, ValuesKept DEF VInv, ConfigsStay

(* An expanded node keeps its values and gets measured connectors. *)
LEMMA ExpandEndsValues ==
  ASSUME IInv, VInv, ExpandEnds
  PROVE  NodesValued' /\ ConfigsStay
<1> DEFINE n == [nodes[tip] EXCEPT !.connections = built]
<1>1. /\ pc = "outcomes" /\ problem' = problem /\ tip \in Id
      /\ next \notin DOMAIN Expansions[Len(built)]
  BY ExpandedNode DEF ExpandEnds
<1>2. nodes' = [nodes EXCEPT ![tip] = n]
  BY <1>1 DEF ExpandEnds
<1>3. HasNodeFields(nodes[tip])
  BY <1>1 DEF IInv, IsSearchGraph, IsSearchNode, Id
<1>4. /\ n.config = nodes[tip].config /\ n.connections = built /\ n.status = nodes[tip].status
      /\ n.cost = nodes[tip].cost /\ n.prob = nodes[tip].prob
  BY <1>3 DEF HasNodeFields
<1> HIDE DEF n
<1>5. PICK x \in Id : x = tip
  BY <1>1
<1>6. /\ Id' = Id /\ nodes'[x] = n /\ \A y \in Id : y # x => nodes'[y] = nodes[y]
      /\ \A y \in Id : nodes'[y].config = nodes[y].config
  BY <1>2, <1>4, <1>5 DEF Id
<1>7. \A i \in DOMAIN built : Measured(nodes, built[i], Expansions[i], Len(Expansions[i]))
  <2>1. /\ next \in 1..(Len(Expansions[Len(built)]) + 1)
        /\ Len(Expansions[Len(built)]) \in Nat
        /\ DOMAIN Expansions[Len(built)] = 1..Len(Expansions[Len(built)])
        /\ Len(built) \in Nat \ {0} /\ DOMAIN built = 1..Len(built)
    BY <1>1, LastConnector
  <2>2. next - 1 = Len(Expansions[Len(built)])
    BY <1>1, <2>1
  <2>3. \A i \in DOMAIN built : i \in 1..(Len(built) - 1) \/ i = Len(built)
    BY <2>1
  <2> QED
    BY <1>1, <2>2, <2>3 DEF VInv, BuiltValued
<1>8. Valued(nodes, problem, n)
  <2>1. Valued(nodes, problem, nodes[tip])
    BY <1>1 DEF VInv, NodesValued
  <2> QED
    BY <1>4, <1>7, <2>1 DEF Valued, Expansions
<1> QED
  BY <1>1, <1>6, <1>8, ValuesKept DEF VInv, ConfigsStay

(* The values of a label. *)
LEMMA ReviseTerminalValues ==
  ASSUME IInv, VInv, NEW x \in work, ReviseTerminal(x), problem' = problem
  PROVE  NodesValued' /\ ConfigsStay
<1> DEFINE n == IF nodes[x].status = "Solved"
                THEN [nodes[x] EXCEPT !.cost = 0, !.prob = One]
                ELSE [nodes[x] EXCEPT !.cost = Inf, !.prob = 0]
<1>1. /\ x \in Id /\ HasNodeFields(nodes[x]) /\ nodes[x].status \in {"Solved", "Failed"}
      /\ nodes[x].config \in Config
  BY DEF IInv, ControlOK, IsSearchGraph, IsSearchNode, Id, ReviseTerminal, IsTerminal
<1>2. nodes' = [nodes EXCEPT ![x] = n]
  BY <1>1 DEF ReviseTerminal
<1>3. /\ n.config = nodes[x].config /\ n.connections = nodes[x].connections
      /\ \/ n.status = "Solved" /\ n.cost = 0 /\ n.prob = One
         \/ n.status = "Failed" /\ n.cost = Inf /\ n.prob = 0
  BY <1>1 DEF HasNodeFields
<1> HIDE DEF n
<1>4. /\ Id' = Id /\ nodes'[x] = n /\ \A y \in Id : y # x => nodes'[y] = nodes[y]
      /\ \A y \in Id : nodes'[y].config = nodes[y].config
  BY <1>1, <1>2, <1>3 DEF Id
<1>5. Valued(nodes, problem, n)
  <2>1. Valued(nodes, problem, nodes[x])
    BY <1>1 DEF VInv, NodesValued
  <2>2. \A i \in DOMAIN n.connections :
          Measured(nodes, n.connections[i], problem.expansions[n.config][i],
                   Len(problem.expansions[n.config][i]))
    BY <1>3, <2>1 DEF Valued
  <2> QED
    BY <1>1, <1>3, <2>2, BoundsAssumption DEF Valued
<1> QED
  BY <1>1, <1>4, <1>5, ValuesKept DEF VInv, ConfigsStay

LEMMA ReviseFailsValues ==
  ASSUME IInv, VInv, pc = "revise", NEW x \in work, ReviseFails(x), problem' = problem
  PROVE  NodesValued' /\ ConfigsStay
<1> DEFINE arcs == ClearMarks(nodes[x].connections)
           n    == Relabelled(nodes[x], "Failed", Inf, 0, arcs)
<1>1. /\ x \in Id /\ IsSearchNode(nodes, problem, nodes[x])
      /\ Expanded(nodes, problem, nodes[x].config, nodes[x].connections)
  BY RevisedNode DEF ReviseFails
<1>2. nodes[x].connections # <<>>
  BY <1>1 DEF Expanded
<1>3. nodes' = [nodes EXCEPT ![x] = n]
  BY <1>1 DEF ReviseFails, Relabelled
<1>4. \A j \in DOMAIN arcs :
        Measured(nodes, arcs[j], problem.expansions[nodes[x].config][j],
                 Len(problem.expansions[nodes[x].config][j]))
  BY <1>1, <1>2, MarkedMeasured DEF ClearMarks
<1> HIDE DEF arcs
<1>5. /\ n.config = nodes[x].config /\ n.connections = arcs
      /\ n.status = "Failed" /\ n.cost = Inf /\ n.prob = 0
  BY <1>1, LabelRevised DEF IsSearchNode
<1> HIDE DEF n
<1>6. /\ Id' = Id /\ nodes'[x] = n /\ \A y \in Id : y # x => nodes'[y] = nodes[y]
      /\ \A y \in Id : nodes'[y].config = nodes[y].config
  BY <1>1, <1>3, <1>5 DEF Id
<1>7. Valued(nodes, problem, n)
  BY <1>4, <1>5, BoundsAssumption DEF Valued
<1> QED
  BY <1>1, <1>6, <1>7, ValuesKept DEF VInv, ConfigsStay

(* A solved node has the values of a connector whose children are solved. *)
LEMMA ReviseSolvesValues ==
  ASSUME IInv, VInv, pc = "revise", NEW x \in work, ReviseSolves(x), problem' = problem
  PROVE  NodesValued' /\ ConfigsStay
<1>1. /\ x \in Id /\ IsSearchNode(nodes, problem, nodes[x])
      /\ Expanded(nodes, problem, nodes[x].config, nodes[x].connections)
  BY RevisedNode DEF ReviseSolves
<1>2. nodes[x].connections # <<>>
  BY <1>1 DEF Expanded
<1>3. PICK best : best = BestArc(nodes[x].connections)
  OBVIOUS
<1>4. /\ best \in DOMAIN nodes[x].connections
      /\ nodes[x].connections[best].children \subseteq SolvedIds
  BY <1>3, BestIsSolved DEF ReviseSolves
<1> DEFINE arcs == Mark(nodes[x].connections, best)
           arc  == nodes[x].connections[best]
           cost == ArcCost(arc)
           prob == ArcProbability(arc)
           n    == Relabelled(nodes[x], "Solved", cost, prob, arcs)
<1>5. nodes' = [nodes EXCEPT ![x] = n]
  BY <1>1, <1>3 DEF ReviseSolves, Relabelled
<1>6. /\ nodes[x].config \in Config
      /\ best \in DOMAIN problem.expansions[nodes[x].config]
      /\ Measured(nodes, arc, problem.expansions[nodes[x].config][best],
                  Len(problem.expansions[nodes[x].config][best]))
      /\ \A j \in DOMAIN arcs :
           Measured(nodes, arcs[j], problem.expansions[nodes[x].config][j],
                    Len(problem.expansions[nodes[x].config][j]))
  BY <1>1, <1>2, <1>4, MarkedMeasured
<1>7. \A y \in arc.children : nodes[y].status = "Solved"
  BY <1>4 DEF SolvedIds
<1> HIDE DEF arc
<1>8. /\ cost \in 0..Inf /\ prob \in Nat
      /\ AtMostSure(problem) => prob <= One
      /\ Exhaustive(problem) => prob = One
      /\ \A bound \in [Config -> 0..(Inf-1)] :
           IsBound(problem, bound) => cost <= bound[nodes[x].config]
  BY <1>6, <1>7, ArcCosts, ArcProbabilities
<1> HIDE DEF arcs, cost, prob
<1>9. /\ n.config = nodes[x].config /\ n.connections = arcs
      /\ n.status = "Solved" /\ n.cost = cost /\ n.prob = prob
  BY <1>1, LabelRevised DEF IsSearchNode
<1> HIDE DEF n
<1>10. /\ Id' = Id /\ nodes'[x] = n /\ \A y \in Id : y # x => nodes'[y] = nodes[y]
       /\ \A y \in Id : nodes'[y].config = nodes[y].config
  BY <1>1, <1>5, <1>9 DEF Id
<1>11. Valued(nodes, problem, n)
  BY <1>6, <1>8, <1>9 DEF Valued
<1> QED
  BY <1>1, <1>10, <1>11, ValuesKept DEF VInv, ConfigsStay

(* A connector that could still be solved bounds the cheapest. *)
LEMMA OnGoingCosts ==
  ASSUME IInv, VInv, NEW x \in Id, nodes[x].connections # <<>>,
         ChildrenStatus(nodes[x].connections) = "OnGoing"
  PROVE  LET arcs == nodes[x].connections
             best == BestArc(arcs)
         IN  /\ best \in DOMAIN arcs
             /\ \A bound \in [Config -> 0..(Inf-1)] :
                  IsBound(problem, bound) => ArcCost(arcs[best]) <= bound[nodes[x].config]
<1> DEFINE arcs == nodes[x].connections
           best == BestArc(arcs)
           c    == nodes[x].config
<1>1. /\ c \in Config /\ DOMAIN arcs = DOMAIN problem.expansions[c]
      /\ \A j \in DOMAIN arcs :
           Measured(nodes, arcs[j], problem.expansions[c][j], Len(problem.expansions[c][j]))
  BY MarkedMeasured
<1>2. \A j \in DOMAIN arcs : ArcStatus(arcs[j]) # "Solved"
  BY DEF ChildrenStatus
<1>3. PICK i \in DOMAIN arcs : ArcStatus(arcs[i]) # "Failed"
  BY DEF ChildrenStatus
<1>4. \A y \in arcs[i].children : nodes[y].status # "Failed"
  BY <1>3 DEF ArcStatus
<1>5. best \in DOMAIN arcs /\ ArcCost(arcs[best]) <= ArcCost(arcs[i])
  BY <1>2, <1>3, BestFacts
<1> HIDE DEF arcs, best, c
<1>6. ArcCost(arcs[best]) \in 0..Inf /\ ArcCost(arcs[i]) \in 0..Inf
  BY <1>1, <1>3, <1>5, ArcCosts
<1>7. ASSUME NEW bound \in [Config -> 0..(Inf-1)], IsBound(problem, bound)
      PROVE  ArcCost(arcs[best]) <= bound[c]
  <2>1. ArcCost(arcs[i]) <= bound[c]
    BY <1>1, <1>3, <1>4, <1>7, ArcCosts
  <2>2. bound[c] \in Nat /\ Inf \in Nat
    BY <1>1, BoundsAssumption
  <2> QED
    BY <1>5, <1>6, <2>1, <2>2
<1> QED
  BY <1>5, <1>7 DEF arcs, best, c

(* A node that stays without a label has the values of its best connector. *)
LEMMA ReviseOnGoingValues ==
  ASSUME IInv, VInv, pc = "revise", NEW x \in work, ReviseOnGoing(x), problem' = problem
  PROVE  NodesValued' /\ ConfigsStay
<1>1. /\ x \in Id /\ IsSearchNode(nodes, problem, nodes[x]) /\ nodes[x].status = "OnGoing"
      /\ Expanded(nodes, problem, nodes[x].config, nodes[x].connections)
  BY RevisedNode DEF ReviseOnGoing
<1>2. nodes[x].connections # <<>>
  BY <1>1 DEF Expanded
<1>3. PICK best : best = BestArc(nodes[x].connections)
  OBVIOUS
<1> DEFINE arcs == Mark(nodes[x].connections, best)
           arc  == nodes[x].connections[best]
           cost == ArcCost(arc)
           prob == ArcProbability(arc)
           n    == Recosted(nodes[x], cost, prob, arcs)
<1>4. nodes' = [nodes EXCEPT ![x] = n]
  BY <1>1, <1>3 DEF ReviseOnGoing, Recosted
<1>5. /\ best \in DOMAIN nodes[x].connections
      /\ \A bound \in [Config -> 0..(Inf-1)] :
           IsBound(problem, bound) => cost <= bound[nodes[x].config]
  BY <1>1, <1>2, <1>3, OnGoingCosts DEF ReviseOnGoing
<1>6. /\ nodes[x].config \in Config
      /\ best \in DOMAIN problem.expansions[nodes[x].config]
      /\ Measured(nodes, arc, problem.expansions[nodes[x].config][best],
                  Len(problem.expansions[nodes[x].config][best]))
      /\ \A j \in DOMAIN arcs :
           Measured(nodes, arcs[j], problem.expansions[nodes[x].config][j],
                    Len(problem.expansions[nodes[x].config][j]))
  BY <1>1, <1>2, <1>5, MarkedMeasured
<1> HIDE DEF arc
<1>7. cost \in 0..Inf /\ prob \in Nat /\ (AtMostSure(problem) => prob <= One)
  BY <1>6, ArcCosts, ArcProbabilities
<1> HIDE DEF arcs, cost, prob
<1>8. /\ n.config = nodes[x].config /\ n.connections = arcs
      /\ n.status = "OnGoing" /\ n.cost = cost /\ n.prob = prob
  BY <1>1, CostRevised DEF IsSearchNode
<1> HIDE DEF n
<1>9. /\ Id' = Id /\ nodes'[x] = n /\ \A y \in Id : y # x => nodes'[y] = nodes[y]
      /\ \A y \in Id : nodes'[y].config = nodes[y].config
  BY <1>1, <1>4, <1>8 DEF Id
<1>10. Valued(nodes, problem, n)
  BY <1>5, <1>6, <1>7, <1>8 DEF Valued
<1> QED
  BY <1>1, <1>9, <1>10, ValuesKept DEF VInv, ConfigsStay

----------------------------------------------------------------------------
(***************************************************************************)
(* The connectors under construction.                                      *)
(***************************************************************************)
(* They stay right while nodes are added and keep their configurations. *)
LEMMA ArcsKept ==
  ASSUME NEW ns, NEW ms, DOMAIN ns \subseteq DOMAIN ms,
         \A y \in DOMAIN ns : ms[y].config = ns[y].config
  PROVE  /\ \A arc : IsArc(ns, arc) => IsArc(ms, arc)
         /\ \A arc, e, n : Measured(ns, arc, e, n) => Measured(ms, arc, e, n)
<1>1. ASSUME NEW arc, NEW e, NEW n, Measured(ns, arc, e, n)
      PROVE  Measured(ms, arc, e, n)
  <2>1. HasArcFields(arc) /\ arc.marked \in BOOLEAN
    BY <1>1 DEF Measured, IsArc
  <2> QED
    BY <1>1, <2>1, MeasuresKept
<1> QED
  BY <1>1 DEF IsArc

LEMMA BuiltUnchanged ==
  ASSUME BuiltValued, UNCHANGED <<problem, built>>, ConfigsStay, pc' # "outcomes"
  PROVE  BuiltValued'
<1>1. \A i \in DOMAIN built : IsArc(nodes', built[i])
  BY ArcsKept DEF BuiltValued, ConfigsStay, Id
<1> QED
  BY <1>1 DEF BuiltValued

(* Each outcome adds to the last connector. *)
LEMMA ChildBuilt ==
  ASSUME IInv, VInv, pc = "outcomes", pc' = "outcomes", problem' = problem, tip' = tip,
         next \in DOMAIN Expansions[Len(built)], next' = next + 1,
         IsSearchGraph(nodes', problem), ConfigsStay,
         NEW id \in Id', nodes'[id].config = Outcome.to, AddChild(id, Outcome.p)
  PROVE  BuiltValued'
<1> DEFINE n    == Len(built)
           last == built[n]
           e    == Expansions[n]
           probs == [k \in last.children \cup {id} |->
                       IF k = id THEN e[next].p ELSE last.outcomeProbs[k]]
           arc  == [children |-> last.children \cup {id}, outcomeProbs |-> probs,
                    marked |-> last.marked]
<1>1. /\ IsSeq(built) /\ n \in DOMAIN built /\ DOMAIN built = 1..n /\ n \in Nat \ {0}
      /\ n \in DOMAIN Expansions /\ next \in Nat
  BY LastConnector
<1>2. tip \in Id /\ nodes[tip].config \in Config /\ problem \in Problems
  BY ExpandedNode DEF IInv
<1>3. Expansions' = Expansions
  BY <1>2 DEF Expansions, ConfigsStay
<1>4. built' = [built EXCEPT ![n] = arc]
  BY DEF AddChild, Outcome
<1>5. /\ arc.children = last.children \cup {id} /\ HasArcFields(arc)
      /\ arc.marked = last.marked /\ arc.outcomeProbs = probs
  BY DEF HasArcFields
<1>6. /\ Measured(nodes, last, e, next - 1) /\ Covers(nodes, last, e, next - 1)
      /\ \A i \in 1..(n-1) : Measured(nodes, built[i], Expansions[i], Len(Expansions[i]))
      /\ \A i \in DOMAIN built : IsArc(nodes, built[i])
  BY DEF VInv, BuiltValued, IInv, BuiltOK
<1>7. n = Len(built)
  OBVIOUS
<1> HIDE DEF arc, n, last
<1>8. /\ Len(built') = n /\ built'[n] = arc /\ DOMAIN built' = DOMAIN built
      /\ \A i \in DOMAIN built : i # n => built'[i] = built[i]
  BY <1>1, <1>4, <1>7, SeqReplaced
<1>9. Measured(nodes', last, e, next - 1) /\ Covers(nodes', last, e, next - 1)
  BY <1>6, ArcsKept, ConfigsKept DEF ConfigsStay, Id
<1>10. Measured(nodes', arc, e, next)
  <2>1. /\ IsSeq(nodes') /\ id \in DOMAIN nodes'
        /\ \A y \in DOMAIN nodes' : nodes'[y].config \in Config
    BY DEF IsSearchGraph, IsSearchNode, Id
  <2>2. nodes'[id].config = e[next].to
    BY DEF Outcome, n
  <2>3. next \in DOMAIN e
    BY DEF n
  <2> QED
    BY <1>1, <1>2, <1>5, <1>9, <2>1, <2>2, <2>3, ChildMeasured DEF Expansions
<1>11. ASSUME NEW i \in 1..(n-1)
       PROVE  Measured(nodes', built'[i], Expansions[i], Len(Expansions[i]))
  <2>1. i \in DOMAIN built /\ i # n
    BY <1>1
  <2>2. built'[i] = built[i]
    BY <1>8, <2>1
  <2> QED
    BY <1>6, <2>2, ArcsKept DEF ConfigsStay, Id
<1>12. \A i \in DOMAIN built' : IsArc(nodes', built'[i])
  <2>1. IsArc(nodes', arc)
    BY <1>10 DEF Measured
  <2>2. \A i \in DOMAIN built : IsArc(nodes', built[i])
    BY <1>6, ArcsKept DEF ConfigsStay, Id
  <2> QED
    BY <1>8, <2>1, <2>2
<1>13. next' - 1 = next
  BY <1>1
<1> QED
  BY <1>3, <1>8, <1>10, <1>11, <1>12, <1>13 DEF BuiltValued

LEMMA BuiltValuedStep ==
  ASSUME IInv, VInv, IInv', [Next]_vars
  PROVE  BuiltValued'
<1>1. /\ IsSearchGraph(nodes, problem) /\ IsSearchGraph(nodes', problem')
      /\ BuiltValued /\ BuiltOK'
  BY DEF IInv, VInv
<1>2. CASE UNCHANGED <<problem, nodes, built>> /\ pc' # "outcomes"
  BY <1>1, <1>2, BuiltUnchanged DEF ConfigsStay, Id
<1>3. CASE UNCHANGED vars
  <2>1. Expansions' = Expansions
    BY <1>3 DEF vars, Expansions
  <2> QED
    BY <1>1, <1>3, <2>1 DEF vars, BuiltValued
<1>4. CASE ExpandTerminal
  <2>1. UNCHANGED <<problem, built>> /\ pc' # "outcomes"
    BY <1>4 DEF ExpandTerminal, BeginRevision
  <2> QED
    BY <1>1, <1>4, <2>1, ExpandTerminalValues, BuiltUnchanged
<1>5. CASE ExpandBegins
  <2>1. /\ UNCHANGED <<problem, nodes, tip>> /\ built' = <<EmptyConnector>> /\ next' = 1
        /\ DOMAIN built' = {1} /\ Len(built') = 1 /\ built'[1] = EmptyConnector
    BY <1>5 DEF ExpandBegins
  <2>2. \A e : Measured(nodes', EmptyConnector, e, 0)
    BY EmptyMeasured
  <2>3. next' - 1 = 0 /\ 1..(Len(built') - 1) = {}
    BY <2>1
  <2>4. IsArc(nodes', EmptyConnector)
    BY <2>2 DEF Measured
  <2> QED
    BY <2>1, <2>2, <2>3, <2>4 DEF BuiltValued
<1>6. CASE OutcomeMerges
  <2>1. /\ UNCHANGED <<problem, nodes, tip>> /\ pc = "outcomes"
        /\ next \in DOMAIN Expansions[Len(built)] /\ nodes[front].config = Outcome.to
        /\ \/ pc' = "panic" /\ built' = built
           \/ pc' = "outcomes" /\ AddChild(front, Outcome.p) /\ next' = next + 1
    BY <1>6 DEF OutcomeMerges, Visited
  <2>2. CASE pc' = "panic"
    BY <1>2, <2>1, <2>2
  <2>3. CASE pc' = "outcomes"
    <3>1. PICK id : id = front
      OBVIOUS
    <3>2. id \in Id' /\ nodes'[id].config = Outcome.to /\ AddChild(id, Outcome.p)
          /\ next' = next + 1
      BY <2>1, <2>3, <3>1 DEF IInv, ControlOK, Id
    <3>3. ConfigsStay
      BY <2>1 DEF ConfigsStay, Id
    <3> QED
      BY <1>1, <2>1, <2>3, <3>2, <3>3, ChildBuilt
  <2> QED
    BY <2>1, <2>2, <2>3
<1>7. CASE OutcomeInserts
  <2>1. /\ UNCHANGED <<problem, tip, pc>> /\ pc = "outcomes"
        /\ next \in DOMAIN Expansions[Len(built)] /\ next' = next + 1
        /\ nodes' = Append(nodes, NewNode(Outcome.to))
        /\ AddChild(Len(nodes) + 1, Outcome.p)
    BY <1>7 DEF OutcomeInserts
  <2>2. IsSeq(nodes) /\ Len(nodes) \in Nat /\ Id = 1..Len(nodes)
    BY <1>1, SeqFacts DEF IsSearchGraph, Id
  <2>3. PICK id \in Nat : id = Len(nodes) + 1
    BY <2>2
  <2>4. /\ Id' = 1..id /\ nodes'[id] = NewNode(Outcome.to)
        /\ \A y \in Id : nodes'[y] = nodes[y]
    BY <2>1, <2>2, <2>3, SeqAppended DEF Id
  <2>5. NewNode(Outcome.to).config = Outcome.to
    BY DEF NewNode
  <2>6. id \in Id' /\ nodes'[id].config = Outcome.to /\ AddChild(id, Outcome.p)
    BY <2>1, <2>2, <2>3, <2>4, <2>5
  <2>7. ConfigsStay
    BY <1>7, OutcomeInsertsValues
  <2> QED
    BY <1>1, <2>1, <2>6, <2>7, ChildBuilt
<1>8. CASE NextConnector
  <2> DEFINE n == Len(built) + 1
  <2>1. /\ UNCHANGED <<problem, nodes, pc, tip>> /\ pc = "outcomes"
        /\ next \notin DOMAIN Expansions[Len(built)]
        /\ built' = Append(built, EmptyConnector) /\ next' = 1
    BY <1>8 DEF NextConnector
  <2>2. /\ Len(built') = n /\ DOMAIN built' = 1..n /\ built'[n] = EmptyConnector
        /\ \A i \in DOMAIN built : built'[i] = built[i]
    BY <2>1, LastConnector, SeqAppended
  <2>3. /\ DOMAIN built = 1..(n-1) /\ Len(built) = n - 1 /\ n \in Nat \ {0}
        /\ next \in 1..(Len(Expansions[n-1]) + 1) /\ Len(Expansions[n-1]) \in Nat
        /\ DOMAIN Expansions[n-1] = 1..Len(Expansions[n-1])
    BY <2>1, LastConnector
  <2>4. Expansions' = Expansions
    BY <2>1 DEF Expansions
  <2>5. /\ \A i \in 1..(Len(built)-1) : Measured(nodes, built[i], Expansions[i], Len(Expansions[i]))
        /\ Measured(nodes, built[Len(built)], Expansions[Len(built)], next - 1)
        /\ \A i \in DOMAIN built : IsArc(nodes, built[i])
    BY <1>1, <2>1 DEF BuiltValued
  <2> HIDE DEF n
  <2>6. next - 1 = Len(Expansions[n-1])
    BY <2>1, <2>3
  <2>7. ASSUME NEW i \in 1..(n-1)
        PROVE  Measured(nodes, built'[i], Expansions[i], Len(Expansions[i]))
    <3>1. i \in 1..(Len(built)-1) \/ i = Len(built)
      BY <2>3
    <3>2. Measured(nodes, built[i], Expansions[i], Len(Expansions[i]))
      BY <2>3, <2>5, <2>6, <3>1
    <3> QED
      BY <2>2, <2>3, <3>2
  <2>8. Measured(nodes, EmptyConnector, Expansions[n], 0)
    BY EmptyMeasured
  <2>9. ASSUME NEW i \in DOMAIN built' PROVE IsArc(nodes, built'[i])
    <3>1. i \in DOMAIN built \/ i = n
      BY <2>2, <2>3
    <3> QED
      BY <2>2, <2>5, <2>8, <3>1 DEF Measured
  <2> QED
    BY <2>1, <2>2, <2>4, <2>7, <2>8, <2>9 DEF BuiltValued
<1>9. CASE ExpandEnds
  <2>1. built' = <<>> /\ pc' # "outcomes"
    BY <1>9 DEF ExpandEnds, BeginRevision
  <2> QED
    BY <2>1 DEF BuiltValued
<1>10. CASE ReviseStep
  <2>1. PICK x \in work : \/ ReviseTerminal(x)
                          \/ ReviseFails(x)
                          \/ ReviseSolves(x)
                          \/ ReviseOnGoing(x)
                          \/ RevisePanics(x)
    BY <1>10 DEF ReviseStep
  <2>2. UNCHANGED <<problem, built>> /\ pc' # "outcomes"
    BY <1>10, <2>1 DEF ReviseStep, ReviseTerminal, ReviseFails, ReviseSolves, ReviseOnGoing,
                       RevisePanics
  <2>3. pc = "revise"
    BY <1>10 DEF ReviseStep
  <2>4. ConfigsStay
    <3>1. CASE RevisePanics(x)
      BY <3>1 DEF RevisePanics, ConfigsStay, Id
    <3> QED
      BY <2>1, <2>2, <2>3, <3>1, ReviseTerminalValues, ReviseFailsValues,
         ReviseSolvesValues, ReviseOnGoingValues
  <2> QED
    BY <1>1, <2>2, <2>4, BuiltUnchanged
<1> QED
  BY <1>2, <1>3, <1>4, <1>5, <1>6, <1>7, <1>8, <1>9, <1>10
     DEF Next, Find, Expand, Revise, Extract, BeginIteration, FindStep, FindSkipsTerminal,
         FindReturns, FindFollowsMark, FindRemembers, FindEnds, ExpandSkips, BeginRevision,
         ReviseEnds, Terminate, ExtractStep, ExtractSkips, ExtractVisits, ExtractEnds, vars

----------------------------------------------------------------------------
(* The invariant is kept, part by part. *)
LEMMA InitiallyVInv == Init => VInv
<1> SUFFICES ASSUME Init PROVE VInv
  OBVIOUS
<1>1. /\ Id = {1} /\ nodes[1].connections = <<>> /\ nodes[1].status = "OnGoing"
      /\ nodes[1].cost = 0 /\ nodes[1].prob = 0 /\ nodes[1].config = problem.root
      /\ pc = "loop" /\ policy = {} /\ tip = 0 /\ built = <<>>
  BY DEF Init, Id
<1>2. problem.root \in Config
  BY ProblemsAssumption DEF Init, IsProblem
<1>3. Valued(nodes, problem, nodes[1])
  BY <1>1, <1>2, BoundsAssumption DEF Valued
<1> QED
  BY <1>1, <1>3 DEF VInv, NodesValued, BuiltValued, ControlTyped

LEMMA ValuesStep ==
  ASSUME IInv, VInv, [Next]_vars
  PROVE  NodesValued' /\ ConfigsStay
<1>1. CASE UNCHANGED <<problem, nodes>>
  BY <1>1 DEF VInv, NodesValued, ConfigsStay, Id
<1>2. CASE ReviseStep
  <2>1. PICK x \in work : \/ ReviseTerminal(x)
                          \/ ReviseFails(x)
                          \/ ReviseSolves(x)
                          \/ ReviseOnGoing(x)
                          \/ RevisePanics(x)
    BY <1>2 DEF ReviseStep
  <2>2. pc = "revise" /\ problem' = problem
    BY <1>2 DEF ReviseStep
  <2>3. CASE RevisePanics(x)
    BY <1>1, <2>2, <2>3 DEF RevisePanics
  <2> QED
    BY <2>1, <2>2, <2>3, ReviseTerminalValues, ReviseFailsValues, ReviseSolvesValues,
       ReviseOnGoingValues
<1> QED
  BY <1>1, <1>2, ExpandTerminalValues, OutcomeInsertsValues, ExpandEndsValues
     DEF Next, Find, Expand, Revise, Extract, BeginIteration, FindStep, FindEnds,
         ExpandSkips, ExpandBegins, OutcomeMerges, NextConnector, ReviseEnds, Terminate,
         ExtractStep, ExtractEnds, vars

LEMMA ControlTypedStep ==
  ASSUME IInv, VInv, [Next]_vars
  PROVE  ControlTyped'
<1>1. Id \subseteq Id'
  BY ValuesStep DEF ConfigsStay
<1>2. tip' = tip \/ tip' = 0 \/ tip' \in work
  BY DEF Next, Find, Expand, Revise, Extract, BeginIteration, FindStep, FindSkipsTerminal,
         FindReturns, FindFollowsMark, FindRemembers, FindEnds, ExpandSkips, ExpandTerminal,
         ExpandBegins, OutcomeMerges, OutcomeInserts, NextConnector, ExpandEnds, ReviseStep,
         ReviseEnds, Terminate, ExtractStep, ExtractEnds, vars
<1>3. policy' \subseteq policy \cup work
  BY DEF Next, Find, Expand, Revise, Extract, BeginIteration, FindStep, FindEnds,
         ExpandSkips, ExpandTerminal, ExpandBegins, OutcomeMerges, OutcomeInserts,
         NextConnector, ExpandEnds, ReviseStep, ReviseEnds, Terminate, ExtractStep,
         ExtractSkips, ExtractVisits, ExtractEnds, vars
<1>4. pc' = pc \/ pc' \in {"loop", "find", "expand", "outcomes", "revise", "extract",
                           "done", "panic"}
  BY DEF Next, Find, Expand, Revise, Extract, BeginIteration, FindStep, FindSkipsTerminal,
         FindReturns, FindFollowsMark, FindRemembers, FindEnds, ExpandSkips, ExpandTerminal,
         ExpandBegins, OutcomeMerges, OutcomeInserts, NextConnector, ExpandEnds,
         BeginRevision, ReviseStep, ReviseTerminal, ReviseFails, ReviseSolves, ReviseOnGoing,
         RevisePanics, ReviseEnds, Terminate, ExtractStep, ExtractSkips, ExtractVisits,
         ExtractEnds, vars
<1>5. work \subseteq Id /\ ControlTyped
  BY DEF IInv, ControlOK, VInv
<1> QED
  BY <1>1, <1>2, <1>3, <1>4, <1>5 DEF ControlTyped

(* The invariants hold together, throughout. *)
LEMMA AlwaysVInv == Spec => [](IInv /\ VInv)
<1>1. ASSUME IInv, VInv, IInv', [Next]_vars PROVE VInv'
  BY <1>1, ValuesStep, BuiltValuedStep, ControlTypedStep DEF VInv
<1> QED
  BY <1>1, InitiallyVInv, AlwaysInv, PTL DEF Spec

----------------------------------------------------------------------------
(***************************************************************************)
(* What follows.                                                           *)
(***************************************************************************)
(* Every part of the search keeps its type; in particular success          *)
(* probabilities stay probabilities, as arc_success_probability needs no   *)
(* clamping, if those of no action exceed 1 in total.                      *)
THEOREM TypeCorrect ==
  ASSUME \A prob \in Problems : AtMostSure(prob)
  PROVE  Spec => []TypeOK
<1>1. ASSUME IInv, VInv PROVE TypeOK
  <2>1. AtMostSure(problem) /\ IsProblem(problem)
    BY <1>1, ProblemsAssumption DEF IInv
  <2>2. ASSUME NEW x \in Id
        PROVE  /\ nodes[x].config \in Config
               /\ nodes[x].parent \in {NoParent} \cup Id
               /\ nodes[x].status \in {"OnGoing", "Solved", "Failed"}
               /\ nodes[x].cost \in 0..Inf
               /\ nodes[x].prob \in 0..One
               /\ \A i \in DOMAIN nodes[x].connections : IsConnector(nodes[x].connections[i])
    <3>1. IsSearchNode(nodes, problem, nodes[x]) /\ Valued(nodes, problem, nodes[x])
      BY <1>1 DEF IInv, IsSearchGraph, VInv, NodesValued, Id
    <3>2. \A i \in DOMAIN nodes[x].connections : IsArc(nodes, nodes[x].connections[i])
      BY <3>1 DEF Valued, Measured
    <3> QED
      BY <2>1, <3>1, <3>2, BoundsAssumption
         DEF IsSearchNode, Valued, IsArc, IsConnector, HasArcFields, Label, Id
  <2>3. \A i \in DOMAIN built : IsConnector(built[i])
    BY <1>1 DEF VInv, BuiltValued, IsArc, IsConnector, HasArcFields, Id
  <2> QED
    BY <1>1, <2>1, <2>2, <2>3 DEF IInv, ControlOK, VInv, ControlTyped, TypeOK
<1> QED
  BY <1>1, AlwaysVInv, PTL

(* A solved node succeeds surely, if the probabilities of an action are 1  *)
(* in total and its outcomes differ: then no entry of outcome_probs is     *)
(* overwritten, the case of the run aostar_duplicate_outcomes.             *)
THEOREM SolvedAlwaysSucceeds ==
  ASSUME \A prob \in Problems : Exhaustive(prob)
  PROVE  Spec => []SolvedSucceedsSurely
<1>1. ASSUME IInv, VInv PROVE SolvedSucceedsSurely
  BY <1>1 DEF IInv, VInv, NodesValued, Valued, SolvedSucceedsSurely
<1> QED
  BY <1>1, AlwaysVInv, PTL

(* A node whose configuration has a bound is not its own child. *)
LEMMA NotItsOwnChild ==
  ASSUME IInv, NEW bound \in [Config -> 0..(Inf-1)], IsBound(problem, bound),
         NEW x \in Id, NEW i \in DOMAIN nodes[x].connections
  PROVE  x \notin nodes[x].connections[i].children
<1> SUFFICES ASSUME x \in nodes[x].connections[i].children PROVE FALSE
  OBVIOUS
<1> DEFINE c == nodes[x].config
           e == problem.expansions[c][i]
           f == BoundsOf(e, bound)
<1>1. nodes[x].connections # <<>>
  OBVIOUS
<1>2. /\ c \in Config /\ problem \in Problems /\ i \in DOMAIN problem.expansions[c]
      /\ Covers(nodes, nodes[x].connections[i], e, Len(e))
  BY <1>1, ExpandedArcs DEF IInv, IsSearchGraph, IsSearchNode, Expanded, Id
<1>3. PICK k \in 1..Len(e) : c = e[k].to
  BY <1>2 DEF Covers
<1> HIDE DEF c
<1>4. /\ Len(e) \in Nat
      /\ \A l \in 1..Len(e) : f[l] \in Nat /\ f[l] = bound[e[l].to]
      /\ SumFunction(f) = SumOf(f, 1..Len(e))
  <2>1. Len(e) \in Nat
    BY <1>2, OutcomeTerms
  <2>2. \A l \in 1..Len(e) : f[l] \in Nat /\ f[l] = bound[e[l].to]
    BY <1>2, OutcomeTerms
  <2>3. SumFunction(f) = SumOf(f, 1..Len(e))
    BY <1>2, OutcomeTerms
  <2> QED
    BY <2>1, <2>2, <2>3
<1>5. 1 + SumFunction(f) <= bound[c]
  BY <1>2 DEF IsBound
<1>6. bound[c] \in Nat
  BY <1>2, BoundsAssumption
<1> HIDE DEF f, e
<1>7. IsFiniteSet(1..Len(e)) /\ {k} \subseteq 1..Len(e)
  BY <1>3, <1>4, FS_Interval
<1>8. SumOf(f, {k}) <= SumOf(f, 1..Len(e)) /\ SumOf(f, {k}) \in Nat
      /\ SumOf(f, 1..Len(e)) \in Nat
  BY <1>4, <1>7, SumOfFewer
<1>9. SumOf(f, {k}) = f[k]
  <2>1. Units(f, {}) = {} /\ SumOf(f, {}) = 0
    BY SumOfNone
  <2>2. IsFiniteSet(Units(f, {}))
    BY <2>1, FS_EmptySet
  <2>3. f[k] \in Nat /\ k \notin {}
    BY <1>3, <1>4
  <2>4. SumOf(f, {} \cup {k}) = SumOf(f, {}) + f[k]
    BY <2>2, <2>3, SumOfOneMore
  <2> QED
    BY <2>1, <2>3, <2>4
<1> QED
  BY <1>3, <1>4, <1>5, <1>6, <1>8, <1>9

(* Without recursion the search never panics: no node is its own child,    *)
(* and a connector that could still be solved has a finite cost.           *)
THEOREM WithoutRecursionNeverPanics ==
  ASSUME \A prob \in Problems : Bounded(prob)
  PROVE  Spec => []NeverPanics
<1>1. ASSUME IInv, PInv, VInv, NeverPanics, [Next]_vars PROVE NeverPanics'
  <2> SUFFICES ASSUME pc' = "panic" PROVE FALSE
    BY DEF NeverPanics
  <2>1. pc = "revise"
    BY <1>1, PanickingStep DEF NeverPanics
  <2>2. PICK x \in work : RevisePanics(x)
    BY <1>1, <2>1
       DEF Next, Find, Expand, Revise, Extract, BeginIteration, FindStep, FindEnds,
           ExpandSkips, ExpandTerminal, ExpandBegins, OutcomeMerges, OutcomeInserts,
           NextConnector, ExpandEnds, ReviseStep, ReviseTerminal, ReviseFails, ReviseSolves,
           ReviseOnGoing, ReviseEnds, Terminate, ExtractStep, ExtractEnds, vars
  <2>3. /\ x \in Id /\ nodes[x].config \in Config
        /\ Expanded(nodes, problem, nodes[x].config, nodes[x].connections)
    BY <1>1, <2>1, <2>2, RevisedNode DEF RevisePanics, IsSearchNode
  <2>4. nodes[x].connections # <<>>
    BY <2>3 DEF Expanded
  <2>5. PICK bound \in [Config -> 0..(Inf-1)] : IsBound(problem, bound)
    BY <1>1 DEF IInv, Bounded
  <2>6. SelfArcs(x) = {}
    BY <1>1, <2>3, <2>5, NotItsOwnChild DEF SelfArcs
  <2>7. /\ ChildrenStatus(nodes[x].connections) = "OnGoing"
        /\ ArcCost(nodes[x].connections[BestArc(nodes[x].connections)]) = Inf
    BY <2>2, <2>6 DEF RevisePanics
  <2>8. Inf <= bound[nodes[x].config]
    BY <1>1, <2>3, <2>4, <2>5, <2>7, OnGoingCosts
  <2> QED
    BY <2>3, <2>8, BoundsAssumption
<1>2. Init => NeverPanics
  BY DEF Init, NeverPanics
<1> QED
  BY <1>1, <1>2, AlwaysPInv, AlwaysVInv, PTL DEF Spec

=============================================================================
