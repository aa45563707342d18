-------------------------- MODULE LiftedGPGProofs --------------------------
(***************************************************************************)
(* The planning graph of lifted grounding finds every grounding whose      *)
(* antecedents are reached, exactly once, and sorting the subtasks of the  *)
(* methods before its second run keeps their order.                        *)
(***************************************************************************)
EXTENDS LiftedGPG, FiniteSetTheorems, TLAPS

----------------------------------------------------------------------------
(* Sequences that list a set. *)

(* An injection between finite sets of the same size reaches everything. *)
LEMMA InjectionIsOnto ==
  ASSUME NEW S, NEW T, IsFiniteSet(T), NEW f \in [S -> T], IsInjective(f),
         Cardinality(S) = Cardinality(T)
  PROVE  \A y \in T : \E x \in S : f[x] = y
<1>1. f \in Injection(S, T)
  BY DEF Injection
<1>2. f \in Surjection(S, T)
  BY <1>1, FS_Injection
<1> QED
  BY <1>2 DEF Surjection

(* SetToSeq lists every element of a finite set once. *)
LEMMA SetToSeqLists ==
  ASSUME NEW S, IsFiniteSet(S)
  PROVE  /\ Cardinality(S) \in Nat
         /\ SetToSeq(S) \in [1..Cardinality(S) -> S]
         /\ IsInjective(SetToSeq(S))
         /\ \A x \in S : \E n \in 1..Cardinality(S) : SetToSeq(S)[n] = x
<1> DEFINE N == Cardinality(S)
<1>1. N \in Nat /\ ExistsBijection(1..N, S)
  BY FS_CardinalityType
<1>2. PICK f \in Bijection(1..N, S) : TRUE
  BY <1>1 DEF ExistsBijection
<1>3. f \in [1..N -> S] /\ IsInjective(f)
  BY <1>2 DEF Bijection, Injection
<1>4. SetToSeq(S) \in [1..N -> S] /\ IsInjective(SetToSeq(S))
  BY <1>3 DEF SetToSeq
<1>5. Cardinality(1..N) = N
  BY <1>1, FS_Interval
<1> QED
  BY <1>1, <1>4, <1>5, InjectionIsOnto

(* A relation that orders the elements of a set linearly. *)
Orders(R, S) ==
  /\ \A x \in S : <<x, x>> \notin R
  /\ \A x, y, z \in S : <<x, y>> \in R /\ <<y, z>> \in R => <<x, z>> \in R
  /\ \A x, y \in S : x = y \/ <<x, y>> \in R \/ <<y, x>> \in R

UpTo(S, R, x) == {y \in S : y = x \/ <<y, x>> \in R}
Rank(S, R, x) == Cardinality(UpTo(S, R, x))

LEMMA RankGrows ==
  ASSUME NEW S, IsFiniteSet(S), NEW R, Orders(R, S), NEW x \in S, NEW y \in S, <<x, y>> \in R
  PROVE  Rank(S, R, x) < Rank(S, R, y)
<1>1. UpTo(S, R, x) \subseteq UpTo(S, R, y) /\ y \in UpTo(S, R, y) /\ y \notin UpTo(S, R, x)
  BY DEF Orders, UpTo
<1>2. IsFiniteSet(UpTo(S, R, y))
  BY FS_Subset DEF UpTo
<1>3. IsFiniteSet(UpTo(S, R, x))
  BY FS_Subset DEF UpTo
<1>4. /\ Rank(S, R, x) <= Rank(S, R, y)
      /\ Rank(S, R, x) # Rank(S, R, y)
  BY <1>1, <1>2, FS_Subset DEF Rank
<1>5. Rank(S, R, x) \in Nat /\ Rank(S, R, y) \in Nat
  BY <1>2, <1>3, FS_CardinalityType DEF Rank
<1> QED
  BY <1>4, <1>5

(* Ascending lists every element of a finite set once, in its order. *)
LEMMA AscendingLists ==
  ASSUME NEW S, IsFiniteSet(S), NEW R, Orders(R, S)
  PROVE  /\ Cardinality(S) \in Nat
         /\ Ascending(S, R) \in [1..Cardinality(S) -> S]
         /\ \A n \in 1..Cardinality(S) : Rank(S, R, Ascending(S, R)[n]) = n
         /\ \A x \in S : Rank(S, R, x) \in 1..Cardinality(S) /\ Ascending(S, R)[Rank(S, R, x)] = x
<1> DEFINE N == Cardinality(S)
           rank == [x \in S |-> Rank(S, R, x)]
<1>1. N \in Nat
  BY FS_CardinalityType
<1>2. ASSUME NEW x \in S
      PROVE  Rank(S, R, x) \in 1..N
  <2>1. UpTo(S, R, x) \subseteq S /\ x \in UpTo(S, R, x)
    BY DEF UpTo
  <2>2. IsFiniteSet(UpTo(S, R, x)) /\ Cardinality(UpTo(S, R, x)) <= N
    BY <2>1, FS_Subset
  <2>3. Cardinality(UpTo(S, R, x)) \in Nat
    BY <2>2, FS_CardinalityType
  <2>4. Cardinality(UpTo(S, R, x)) # 0
    BY <2>1, <2>2, FS_EmptySet
  <2> QED
    BY <1>1, <2>2, <2>3, <2>4 DEF Rank
<1>3. \A x, y \in S : Rank(S, R, x) = Rank(S, R, y) => x = y
  <2> SUFFICES ASSUME NEW x \in S, NEW y \in S, Rank(S, R, x) = Rank(S, R, y), x # y
               PROVE  FALSE
    OBVIOUS
  <2>1. <<x, y>> \in R \/ <<y, x>> \in R
    BY DEF Orders
  <2>2. Rank(S, R, x) \in Int /\ Rank(S, R, y) \in Int
    BY <1>2
  <2> QED
    BY <2>1, <2>2, RankGrows
<1>4. rank \in [S -> 1..N] /\ IsInjective(rank)
  BY <1>2, <1>3 DEF IsInjective
<1>5. IsFiniteSet(1..N) /\ Cardinality(1..N) = N
  BY <1>1, FS_Interval
<1>6. \A n \in 1..N : \E x \in S : rank[x] = n
  <2> DEFINE Ranks == 1..N
  <2>1. IsFiniteSet(Ranks) /\ Cardinality(S) = Cardinality(Ranks)
    BY <1>5
  <2>2. rank \in [S -> Ranks] /\ IsInjective(rank)
    BY <1>4
  <2> HIDE DEF rank, Ranks
  <2>3. \A n \in Ranks : \E x \in S : rank[x] = n
    BY <2>1, <2>2, InjectionIsOnto
  <2> QED
    BY <2>3 DEF Ranks
<1> DEFINE at(n) == CHOOSE x \in S : Rank(S, R, x) = n
<1>7. Ascending(S, R) = [n \in 1..N |-> at(n)]
  BY DEF Ascending, Rank, UpTo
<1>8. ASSUME NEW n \in 1..N
      PROVE  at(n) \in S /\ Rank(S, R, at(n)) = n
  BY <1>6
<1> HIDE DEF at
<1>9. Ascending(S, R) \in [1..N -> S] /\ \A n \in 1..N : Rank(S, R, Ascending(S, R)[n]) = n
  BY <1>7, <1>8
<1>10. ASSUME NEW x \in S
       PROVE  Ascending(S, R)[Rank(S, R, x)] = x
  BY <1>2, <1>3, <1>9
<1> QED
  BY <1>1, <1>2, <1>9, <1>10

(* A function over an initial interval is a sequence. *)
LEMMA IntervalSequence ==
  ASSUME NEW n \in Nat, NEW S, NEW f \in [1..n -> S]
  PROVE  IsSequence(f) /\ Len(f) = n /\ DOMAIN f = 1..n
<1>1. f \in [1..n -> ToSet(f)]
  BY DEF ToSet
<1> QED
  BY <1>1 DEF IsSequence

LEMMA SequenceOver ==
  ASSUME NEW T, NEW s \in Seq(T)
  PROVE  IsSequence(s)
<1>1. s \in [1..Len(s) -> T] /\ Len(s) \in Nat
  OBVIOUS
<1> QED
  BY <1>1, IntervalSequence

LEMMA SequenceDomain ==
  ASSUME NEW s, IsSequence(s)
  PROVE  /\ Len(s) \in Nat /\ DOMAIN s = 1..Len(s) /\ IsFiniteSet(DOMAIN s)
         /\ s \in [1..Len(s) -> ToSet(s)]
<1>1. Len(s) \in Nat /\ DOMAIN s = 1..Len(s) /\ s \in [1..Len(s) -> ToSet(s)]
  BY DEF IsSequence
<1> QED
  BY <1>1, FS_Interval

LEMMA FiniteImage ==
  ASSUME NEW S, IsFiniteSet(S), NEW f
  PROVE  IsFiniteSet({f[x] : x \in S})
<1> DEFINE T == {f[x] : x \in S}
           g == [x \in S |-> f[x]]
<1>1. g \in Surjection(S, T)
  BY DEF Surjection
<1> HIDE DEF g, T
<1>2. IsFiniteSet(T)
  BY <1>1, FS_Surjection
<1> QED
  BY <1>2 DEF T

(* The union of finitely many finite sets. *)
LEMMA FiniteUnion ==
  ASSUME NEW S, IsFiniteSet(S), NEW F, \A x \in S : IsFiniteSet(F[x])
  PROVE  IsFiniteSet(UNION {F[x] : x \in S})
<1> DEFINE T == {F[x] : x \in S}
<1>2. IsFiniteSet(T)
  BY FiniteImage
<1>3. \A X \in T : IsFiniteSet(X)
  OBVIOUS
<1> HIDE DEF T
<1>4. IsFiniteSet(UNION T)
  BY <1>2, <1>3, FS_UNION
<1> QED
  BY <1>4 DEF T

(* Distinct lists what a sequence holds, each once. *)
LEMMA DistinctLists ==
  ASSUME NEW s, IsSequence(s)
  PROVE  IsSequence(Distinct(s)) /\ IsInjective(Distinct(s))
<1> DEFINE first == {k \in DOMAIN s : \A j \in 1..k - 1 : s[j] # s[k]}
           R == {jk \in first \X first : jk[1] < jk[2]}
           order == Ascending(first, R)
           N == Cardinality(first)
<1>1. first \subseteq 1..Len(s) /\ IsFiniteSet(first) /\ Len(s) \in Nat
  <2>1. first \subseteq DOMAIN s
    OBVIOUS
  <2> HIDE DEF first
  <2> QED
    BY <2>1, SequenceDomain, FS_Subset
<1>2. Orders(R, first)
  <2>1. \A x, y : <<x, y>> \in R <=> x \in first /\ y \in first /\ x < y
    BY Zenon
  <2> HIDE DEF R, first
  <2> QED
    BY <1>1, <2>1 DEF Orders
<1>3. /\ N \in Nat /\ order \in [1..N -> first]
      /\ \A n \in 1..N : Rank(first, R, order[n]) = n
  <2> HIDE DEF R, first
  <2> QED
    BY <1>1, <1>2, AscendingLists
<1>4. \A j, k \in first : s[j] = s[k] => j = k
  <2> SUFFICES ASSUME NEW j \in first, NEW k \in first, s[j] = s[k], j < k
               PROVE  FALSE
    BY <1>1
  <2> QED
    BY <1>1
<1>5. Distinct(s) = [n \in DOMAIN order |-> s[order[n]]]
  BY DEF Distinct
<1> HIDE DEF first, R, order, N
<1>6. Distinct(s) = [n \in 1..N |-> s[order[n]]]
  BY <1>3, <1>5
<1>7. Distinct(s) \in [1..N -> {s[k] : k \in first}]
  BY <1>3, <1>6
<1>8. IsSequence(Distinct(s))
  BY <1>3, <1>7, IntervalSequence
<1>9. ASSUME NEW m \in 1..N, NEW n \in 1..N, Distinct(s)[m] = Distinct(s)[n]
      PROVE  m = n
  <2>1. order[m] = order[n]
    BY <1>3, <1>4, <1>6, <1>9
  <2> QED
    BY <1>3, <2>1
<1> QED
  BY <1>6, <1>8, <1>9 DEF IsInjective

LEMMA FirstOf ==
  ASSUME NEW S, IsFiniteSet(S), S # {}, NEW R, Orders(R, S)
  PROVE  \E x \in S : \A y \in S : <<y, x>> \notin R
<1>1. Cardinality(S) \in Nat /\ Cardinality(S) # 0
  BY FS_CardinalityType, FS_EmptySet
<1>2. 1 \in 1..Cardinality(S)
  BY <1>1
<1> DEFINE x == Ascending(S, R)[1]
<1>3. x \in S /\ Rank(S, R, x) = 1
  BY <1>2, AscendingLists
<1> HIDE DEF x
<1>4. IsFiniteSet(UpTo(S, R, x)) /\ x \in UpTo(S, R, x)
  BY <1>3, FS_Subset DEF UpTo
<1>5. PICK y : UpTo(S, R, x) = {y}
  BY <1>3, <1>4, FS_Singleton DEF Rank
<1>6. UpTo(S, R, x) = {x}
  BY <1>4, <1>5
<1>7. \A z \in S : <<z, x>> \in R => z = x
  BY <1>6 DEF UpTo
<1>8. <<x, x>> \notin R
  BY <1>3 DEF Orders
<1> QED
  BY <1>3, <1>7, <1>8

----------------------------------------------------------------------------
(* Compiling conditional effects keeps the problem well-formed. *)

(* The places of arguments in a sequence of literals, in their order. *)
Places(lits) == UNION {{k} \X DOMAIN lits[k].args : k \in DOMAIN lits}
Earlier(P) == {pq \in P \X P : pq[1][1] < pq[2][1] \/ (pq[1][1] = pq[2][1] /\ pq[1][2] < pq[2][2])}

LEMMA PlacesOrdered ==
  ASSUME NEW lits, NEW V, LiteralsOver(lits, V)
  PROVE  /\ IsFiniteSet(Places(lits))
         /\ \A p \in Places(lits) : /\ p[1] \in DOMAIN lits /\ p[2] \in DOMAIN lits[p[1]].args
                                    /\ lits[p[1]].args[p[2]] \in V
         /\ \A P \in SUBSET Places(lits) : IsFiniteSet(P) /\ Orders(Earlier(P), P)
<1>1. IsFiniteSet(DOMAIN lits) /\ DOMAIN lits \subseteq Nat
  BY SequenceDomain DEF LiteralsOver
<1>2. ASSUME NEW k \in DOMAIN lits
      PROVE  /\ IsFiniteSet({k} \X DOMAIN lits[k].args)
             /\ DOMAIN lits[k].args \subseteq Nat
             /\ lits[k].args \in [DOMAIN lits[k].args -> V]
  <2>1. lits[k].args \in Seq(V)
    BY DEF LiteralsOver
  <2>2. /\ Len(lits[k].args) \in Nat /\ DOMAIN lits[k].args = 1..Len(lits[k].args)
        /\ lits[k].args \in [1..Len(lits[k].args) -> V]
    BY <2>1
  <2>3. IsFiniteSet(DOMAIN lits[k].args)
    BY <2>2, FS_Interval
  <2>4. IsFiniteSet({k})
    BY FS_Singleton
  <2>5. IsFiniteSet({k} \X DOMAIN lits[k].args)
    BY <2>3, <2>4, FS_Product
  <2>6. DOMAIN lits[k].args \subseteq Nat
    BY <2>2
  <2> QED
    BY <2>2, <2>5, <2>6
<1> DEFINE F == [k \in DOMAIN lits |-> {k} \X DOMAIN lits[k].args]
<1>3. IsFiniteSet(Places(lits))
  <2>1. Places(lits) = UNION {F[k] : k \in DOMAIN lits}
    BY DEF Places
  <2>2. \A k \in DOMAIN lits : IsFiniteSet(F[k])
    BY <1>2
  <2> HIDE DEF F
  <2> QED
    BY <1>1, <2>1, <2>2, FiniteUnion
<1>4. \A p \in Places(lits) : /\ p[1] \in DOMAIN lits /\ p[2] \in DOMAIN lits[p[1]].args
                             /\ lits[p[1]].args[p[2]] \in V
                             /\ p = <<p[1], p[2]>> /\ p[1] \in Nat /\ p[2] \in Nat
  <2> SUFFICES ASSUME NEW p \in Places(lits)
               PROVE  /\ p[1] \in DOMAIN lits /\ p[2] \in DOMAIN lits[p[1]].args
                      /\ lits[p[1]].args[p[2]] \in V
                      /\ p = <<p[1], p[2]>> /\ p[1] \in Nat /\ p[2] \in Nat
    OBVIOUS
  <2>1. PICK k \in DOMAIN lits : p \in {k} \X DOMAIN lits[k].args
    BY Zenon DEF Places
  <2>2. PICK i \in DOMAIN lits[k].args : p = <<k, i>>
    BY <2>1
  <2>3. k \in Nat /\ i \in Nat /\ lits[k].args[i] \in V
    BY <1>1, <1>2
  <2> QED
    BY <2>2, <2>3
<1>5. ASSUME NEW P \in SUBSET Places(lits)
      PROVE  IsFiniteSet(P) /\ Orders(Earlier(P), P)
  <2>1. IsFiniteSet(P)
    BY <1>3, FS_Subset
  <2>2. \A p, q : <<p, q>> \in Earlier(P) <=>
                   /\ p \in P /\ q \in P
                   /\ p[1] < q[1] \/ (p[1] = q[1] /\ p[2] < q[2])
    BY DEF Earlier
  <2>3. \A p \in P : p = <<p[1], p[2]>> /\ p[1] \in Nat /\ p[2] \in Nat
    BY <1>4
  <2> QED
    BY <2>1, <2>2, <2>3 DEF Orders
<1> QED
  BY <1>3, <1>4, <1>5

(* The variables of a conditional effect are those that it mentions. *)
LEMMA VariablesOfEffect ==
  ASSUME NEW ce, NEW V, LiteralsOver(ce.cond, V), ce.eff.args \in Seq(V)
  PROVE  /\ IsSequence(CEVars(ce))
         /\ \A n \in DOMAIN CEVars(ce) : CEVars(ce)[n] \in V
         /\ \A lit : (lit = ce.eff \/ \E k \in DOMAIN ce.cond : lit = ce.cond[k]) =>
              \A i \in DOMAIN lit.args : \E n \in DOMAIN CEVars(ce) : CEVars(ce)[n] = lit.args[i]
<1> DEFINE lits == Append(ce.cond, ce.eff)
           At(p) == lits[p[1]].args[p[2]]
           first == {p \in Places(lits) : \A q \in Places(lits) : <<q, p>> \in Earlier(Places(lits)) => At(q) # At(p)}
           order == Ascending(first, Earlier(first))
<1>1. /\ LiteralsOver(lits, V)
      /\ DOMAIN lits = 1..Len(ce.cond) + 1 /\ Len(ce.cond) \in Nat
      /\ \A k \in DOMAIN ce.cond : lits[k] = ce.cond[k]
      /\ lits[Len(ce.cond) + 1] = ce.eff
  <2>1. ce.cond \in Seq(ToSet(ce.cond)) /\ \A k \in DOMAIN ce.cond : ce.cond[k].args \in Seq(V)
    BY DEF LiteralsOver, IsSequence
  <2>2. /\ DOMAIN lits = 1..Len(ce.cond) + 1 /\ Len(ce.cond) \in Nat
        /\ \A k \in DOMAIN ce.cond : lits[k] = ce.cond[k]
        /\ lits[Len(ce.cond) + 1] = ce.eff
        /\ DOMAIN ce.cond = 1..Len(ce.cond)
    BY <2>1
  <2>3. \A k \in DOMAIN lits : lits[k].args \in Seq(V)
    BY <2>1, <2>2
  <2> DEFINE T == ToSet(ce.cond) \cup {ce.eff}
  <2>4. lits \in Seq(T)
    <3>1. ToSet(ce.cond) \subseteq T /\ ce.eff \in T
      OBVIOUS
    <3>2. ce.cond \in Seq(T)
      <4> HIDE DEF T
      <4> QED
        BY <2>1, <3>1
    <3> HIDE DEF T
    <3> QED
      BY <3>1, <3>2
  <2> HIDE DEF lits, T
  <2>5. IsSequence(lits)
    BY <2>4, SequenceOver
  <2> QED
    BY <2>2, <2>3, <2>5 DEF LiteralsOver
<1>2. CEVars(ce) = [n \in DOMAIN order |-> At(order[n])]
  BY DEF CEVars, Places, Earlier
<1> HIDE DEF lits
<1>3. first \subseteq Places(lits)
  OBVIOUS
<1>4. /\ Cardinality(first) \in Nat
      /\ order \in [1..Cardinality(first) -> first]
      /\ \A p \in first : \E n \in 1..Cardinality(first) : order[n] = p
  <2> HIDE DEF first
  <2>1. IsFiniteSet(first) /\ Orders(Earlier(first), first)
    BY <1>1, <1>3, PlacesOrdered
  <2> QED
    BY <2>1, AscendingLists
<1>5. ASSUME NEW p \in Places(lits)
      PROVE  \E q \in first : At(q) = At(p)
  <2> DEFINE P == {q \in Places(lits) : At(q) = At(p)}
  <2>1. P \subseteq Places(lits) /\ p \in P
    OBVIOUS
  <2>2. PICK q \in P : \A r \in P : <<r, q>> \notin Earlier(P)
    <3> HIDE DEF P
    <3> QED
      BY <1>1, <2>1, PlacesOrdered, FirstOf
  <2>3. \A r \in P : <<r, q>> \in Earlier(Places(lits)) => <<r, q>> \in Earlier(P)
    BY DEF Earlier
  <2> QED
    BY <2>2, <2>3
<1>6. CEVars(ce) \in [1..Cardinality(first) -> V]
  <2>1. \A p \in first : At(p) \in V
    BY <1>1, <1>3, PlacesOrdered
  <2> HIDE DEF At, first
  <2> QED
    BY <1>2, <1>4, <2>1
<1>7. ASSUME NEW lit, lit = ce.eff \/ \E k \in DOMAIN ce.cond : lit = ce.cond[k], NEW i \in DOMAIN lit.args
      PROVE  \E n \in DOMAIN CEVars(ce) : CEVars(ce)[n] = lit.args[i]
  <2>1. PICK k \in DOMAIN lits : lits[k] = lit
    <3>1. CASE lit = ce.eff
      BY <1>1, <3>1
    <3>2. CASE \E k \in DOMAIN ce.cond : lit = ce.cond[k]
      <4>1. PICK k \in DOMAIN ce.cond : lit = ce.cond[k]
        BY <3>2
      <4>2. DOMAIN ce.cond = 1..Len(ce.cond)
        BY SequenceDomain DEF LiteralsOver
      <4> QED
        BY <1>1, <4>1, <4>2
    <3> QED
      BY <1>7, <3>1, <3>2
  <2>2. <<k, i>> \in Places(lits)
    BY <1>7, <2>1 DEF Places
  <2>3. PICK q \in first : At(q) = At(<<k, i>>)
    BY <1>5, <2>2
  <2>4. PICK n \in 1..Cardinality(first) : order[n] = q
    BY <1>4, <2>3
  <2> QED
    BY <1>2, <1>4, <2>1, <2>3, <2>4
<1>8. IsSequence(CEVars(ce))
  <2> HIDE DEF first
  <2> QED
    BY <1>4, <1>6, IntervalSequence
<1> QED
  BY <1>6, <1>7, <1>8

LEMMA EffectsFinite ==
  ASSUME NEW q \in Domains
  PROVE  /\ IsFiniteSet(Conditionals(q)) /\ IsFiniteSet({c.ce.task : c \in Conditionals(q)})
         /\ \A c \in Conditionals(q) :
              /\ c.main \in q.prim
              /\ LiteralsOver(c.ce.cond, DOMAIN q.sort[c.main])
              /\ c.ce.eff.args \in Seq(DOMAIN q.sort[c.main])
              /\ c.ce.task \notin q.prim \cup q.meth
<1> DEFINE F == [t \in q.prim |-> {[main |-> t, ce |-> q.cond[t][k]] : k \in DOMAIN q.cond[t]}]
<1>1. IsFiniteSet(q.prim) /\ \A t \in q.prim : EffectsOver(q.cond[t], DOMAIN q.sort[t])
  BY DomainsAssumption DEF IsProblem
<1>2. ASSUME NEW t \in q.prim
      PROVE  IsFiniteSet(F[t])
  <2> DEFINE f == [k \in DOMAIN q.cond[t] |-> [main |-> t, ce |-> q.cond[t][k]]]
  <2>1. IsFiniteSet(DOMAIN q.cond[t])
    BY <1>1, SequenceDomain DEF EffectsOver
  <2>2. F[t] = {f[k] : k \in DOMAIN q.cond[t]}
    OBVIOUS
  <2> HIDE DEF f, F
  <2> QED
    BY <2>1, <2>2, FiniteImage
<1>3. Conditionals(q) = UNION {F[t] : t \in q.prim}
  BY DEF Conditionals
<1>4. IsFiniteSet(Conditionals(q))
  <2> HIDE DEF F
  <2> QED
    BY <1>1, <1>2, <1>3, FiniteUnion
<1>5. IsFiniteSet({c.ce.task : c \in Conditionals(q)})
  <2> DEFINE f == [c \in Conditionals(q) |-> c.ce.task]
  <2>1. {c.ce.task : c \in Conditionals(q)} = {f[c] : c \in Conditionals(q)}
    OBVIOUS
  <2> HIDE DEF f
  <2> QED
    BY <1>4, <2>1, FiniteImage
<1>6. ASSUME NEW c \in Conditionals(q)
      PROVE  \E t \in q.prim : \E k \in DOMAIN q.cond[t] : c = [main |-> t, ce |-> q.cond[t][k]]
  BY Zenon DEF Conditionals
<1>7. ASSUME NEW c \in Conditionals(q)
      PROVE  /\ c.main \in q.prim
             /\ LiteralsOver(c.ce.cond, DOMAIN q.sort[c.main])
             /\ c.ce.eff.args \in Seq(DOMAIN q.sort[c.main])
             /\ c.ce.task \notin q.prim \cup q.meth
  <2>0. PICK t \in q.prim : \E k \in DOMAIN q.cond[t] : c = [main |-> t, ce |-> q.cond[t][k]]
    BY <1>6
  <2>1. PICK k \in DOMAIN q.cond[t] : c = [main |-> t, ce |-> q.cond[t][k]]
    BY <2>0
  <2>2. c.main = t /\ c.ce = q.cond[t][k]
    BY <2>1
  <2>3. /\ LiteralsOver(q.cond[t][k].cond, DOMAIN q.sort[t])
        /\ q.cond[t][k].eff.args \in Seq(DOMAIN q.sort[t])
    BY <1>1 DEF EffectsOver
  <2>4. q.cond[t][k].task \notin q.prim \cup q.meth
    BY DomainsAssumption
  <2> QED
    BY <2>2, <2>3, <2>4
<1> QED
  BY <1>4, <1>5, <1>7

(* The task of a conditional effect is over its own variables. *)
LEMMA EffectTask ==
  ASSUME NEW q \in Domains, NEW c \in Conditionals(q)
  PROVE  LET vs == CEVars(c.ce)
             sort == [k \in DOMAIN vs |-> q.sort[c.main][vs[k]]]
             guard == Atom(c.ce.guard, [k \in DOMAIN vs |-> k])
         IN  /\ IsSequence(vs) /\ \A k \in DOMAIN vs : vs[k] \in DOMAIN q.sort[c.main]
             /\ IsSequence(sort) /\ \A k \in DOMAIN sort : IsFiniteSet(sort[k])
             /\ LiteralsOver(Append([k \in DOMAIN c.ce.cond |-> ToCE(c.ce, c.ce.cond[k])], guard), DOMAIN sort)
             /\ LiteralsOver(<<ToCE(c.ce, c.ce.eff)>>, DOMAIN sort)
             /\ LiteralsOver(<<>>, DOMAIN sort)
<1> DEFINE vs == CEVars(c.ce)
           sort == [k \in DOMAIN vs |-> q.sort[c.main][vs[k]]]
           guard == Atom(c.ce.guard, [k \in DOMAIN vs |-> k])
           pre == [k \in DOMAIN c.ce.cond |-> ToCE(c.ce, c.ce.cond[k])]
<1>1. /\ c.main \in q.prim
      /\ LiteralsOver(c.ce.cond, DOMAIN q.sort[c.main])
      /\ c.ce.eff.args \in Seq(DOMAIN q.sort[c.main])
  BY EffectsFinite
<1>2. /\ IsSequence(vs) /\ \A n \in DOMAIN vs : vs[n] \in DOMAIN q.sort[c.main]
      /\ \A lit : (lit = c.ce.eff \/ \E k \in DOMAIN c.ce.cond : lit = c.ce.cond[k]) =>
           \A i \in DOMAIN lit.args : \E n \in DOMAIN vs : vs[n] = lit.args[i]
  BY <1>1, VariablesOfEffect
<1>3. \A k \in DOMAIN q.sort[c.main] : IsFiniteSet(q.sort[c.main][k])
  BY <1>1, DomainsAssumption DEF IsProblem
<1>4. Len(vs) \in Nat /\ DOMAIN vs = 1..Len(vs)
  <2> HIDE DEF vs
  <2> QED
    BY <1>2, SequenceDomain
<1>5. DOMAIN sort = 1..Len(vs) /\ \A k \in DOMAIN sort : sort[k] = q.sort[c.main][vs[k]]
  BY <1>4
<1>6. IsSequence(sort)
  <2>1. sort \in [1..Len(vs) -> {sort[k] : k \in 1..Len(vs)}]
    BY <1>4
  <2> HIDE DEF sort, vs
  <2> QED
    BY <1>4, <2>1, IntervalSequence
<1>7. \A k \in DOMAIN sort : IsFiniteSet(sort[k])
  BY <1>2, <1>3, <1>4, <1>5
<1>8. ASSUME NEW lit, lit = c.ce.eff \/ \E k \in DOMAIN c.ce.cond : lit = c.ce.cond[k]
      PROVE  ToCE(c.ce, lit).args \in Seq(DOMAIN sort)
  <2>1. lit.args \in Seq(DOMAIN q.sort[c.main])
    BY <1>1, <1>8 DEF LiteralsOver
  <2>2. Len(lit.args) \in Nat /\ DOMAIN lit.args = 1..Len(lit.args)
    BY <2>1
  <2>3. ToCE(c.ce, lit).args = [k \in DOMAIN lit.args |-> CHOOSE n \in DOMAIN vs : vs[n] = lit.args[k]]
    BY DEF ToCE, Atom
  <2>4. \A k \in DOMAIN lit.args : (CHOOSE n \in DOMAIN vs : vs[n] = lit.args[k]) \in DOMAIN vs
    <3>1. \A k \in DOMAIN lit.args : \E n \in DOMAIN vs : vs[n] = lit.args[k]
      BY <1>2, <1>8
    <3> HIDE DEF vs
    <3> QED
      BY <3>1
  <2>5. ToCE(c.ce, lit).args \in [1..Len(lit.args) -> DOMAIN vs]
    <3> HIDE DEF vs
    <3> QED
      BY <2>2, <2>3, <2>4
  <2> QED
    BY <1>4, <1>5, <2>2, <2>5
<1>9. guard.args \in Seq(DOMAIN sort)
  <2>1. guard.args = [k \in DOMAIN vs |-> k]
    BY DEF Atom
  <2>2. guard.args \in [1..Len(vs) -> DOMAIN sort]
    BY <1>4, <1>5, <2>1
  <2> HIDE DEF guard, vs, sort
  <2> QED
    BY <1>4, <2>2
<1>10. LiteralsOver(Append(pre, guard), DOMAIN sort)
  <2>1. /\ Len(c.ce.cond) \in Nat /\ DOMAIN c.ce.cond = 1..Len(c.ce.cond)
    BY <1>1, SequenceDomain DEF LiteralsOver
  <2> DEFINE T == {pre[k] : k \in DOMAIN c.ce.cond} \cup {guard}
  <2>2. pre \in Seq(T) /\ guard \in T /\ DOMAIN pre = 1..Len(c.ce.cond) /\ Len(pre) = Len(c.ce.cond)
    <3>1. pre \in [1..Len(c.ce.cond) -> T]
      BY <2>1
    <3>2. guard \in T
      OBVIOUS
    <3> HIDE DEF pre, guard, T
    <3> QED
      BY <2>1, <3>1, <3>2
  <2>3. \A k \in DOMAIN pre : pre[k].args \in Seq(DOMAIN sort)
    <3> HIDE DEF sort
    <3> QED
      BY <1>8
  <2> HIDE DEF pre, guard, T
  <2>4. Append(pre, guard) \in Seq(T)
    BY <2>2
  <2>5. \A k \in DOMAIN Append(pre, guard) : Append(pre, guard)[k] = guard \/ \E j \in DOMAIN pre : Append(pre, guard)[k] = pre[j]
    BY <2>1, <2>2
  <2> HIDE DEF sort
  <2> QED
    BY <1>9, <2>3, <2>4, <2>5, SequenceOver DEF LiteralsOver
<1>11. LiteralsOver(<<ToCE(c.ce, c.ce.eff)>>, DOMAIN sort)
  <2> DEFINE l == ToCE(c.ce, c.ce.eff)
  <2>1. l.args \in Seq(DOMAIN sort)
    <3> HIDE DEF sort
    <3> QED
      BY <1>8
  <2> HIDE DEF l, sort
  <2>2. <<l>> \in Seq({l})
    OBVIOUS
  <2>3. IsSequence(<<l>>)
    BY <2>2, SequenceOver
  <2> QED
    BY <2>1, <2>3 DEF LiteralsOver, l
<1>12. LiteralsOver(<<>>, DOMAIN sort)
  <2> HIDE DEF sort
  <2>1. <<>> \in Seq({})
    OBVIOUS
  <2>2. IsSequence(<<>>)
    BY <2>1, SequenceOver
  <2> QED
    BY <2>2 DEF LiteralsOver
<1> QED
  BY <1>2, <1>6, <1>7, <1>10, <1>11, <1>12

LEMMA ProblemExpanded ==
  ASSUME NEW q \in Domains
  PROVE  /\ IsProblem(ExpandConditionalEffects(q))
         /\ IsSequence(ExpandConditionalEffects(q).init)
         /\ {"sub", "ord"} \subseteq DOMAIN ExpandConditionalEffects(q)
<1> DEFINE CEs == Conditionals(q)
           ceTasks == {c.ce.task : c \in CEs}
           Of(t) == CHOOSE c \in CEs : c.ce.task = t
           Guard(c) == Atom(c.ce.guard, [k \in DOMAIN CEVars(c.ce) |-> k])
           CESort(c) == [k \in DOMAIN CEVars(c.ce) |-> q.sort[c.main][CEVars(c.ce)[k]]]
           CEPre(c) == Append([k \in DOMAIN c.ce.cond |-> ToCE(c.ce, c.ce.cond[k])], Guard(c))
           CEAdd(c) == IF c.ce.adds THEN <<ToCE(c.ce, c.ce.eff)>> ELSE <<>>
           guards(t) == [k \in DOMAIN q.cond[t] |-> Atom(q.cond[t][k].guard, CEVars(q.cond[t][k]))]
           e == ExpandConditionalEffects(q)
<1>1. /\ e.prim = q.prim \cup ceTasks /\ e.meth = q.meth /\ e.sub = q.sub /\ e.ord = q.ord /\ e.init = q.init
      /\ {"sub", "ord"} \subseteq DOMAIN e
  BY DEF ExpandConditionalEffects
<1>2. /\ e.sort = [x \in DOMAIN q.sort \cup ceTasks |-> IF x \in ceTasks THEN CESort(Of(x)) ELSE q.sort[x]]
      /\ e.pre = [x \in DOMAIN q.pre \cup ceTasks |-> IF x \in ceTasks THEN CEPre(Of(x)) ELSE q.pre[x]]
  BY DEF ExpandConditionalEffects
<1>3. e.add = [x \in q.prim \cup ceTasks |-> IF x \in ceTasks THEN CEAdd(Of(x)) ELSE q.add[x] \o guards(x)]
  BY DEF ExpandConditionalEffects
<1>4. /\ IsFiniteSet(ceTasks) /\ \A t \in ceTasks : Of(t) \in CEs /\ t \notin q.prim \cup q.meth
  <2>1. IsFiniteSet(ceTasks)
    BY EffectsFinite
  <2>2. ASSUME NEW t \in ceTasks
        PROVE  Of(t) \in CEs /\ Of(t).ce.task = t
    <3>1. \E c \in CEs : c.ce.task = t
      OBVIOUS
    <3> HIDE DEF CEs
    <3> QED
      BY <3>1
  <2>3. \A c \in CEs : c.ce.task \notin q.prim \cup q.meth
    BY EffectsFinite
  <2> HIDE DEF Of, CEs, ceTasks
  <2>4. \A t \in ceTasks : t \notin q.prim \cup q.meth
    BY <2>2, <2>3
  <2> QED
    BY <2>1, <2>2, <2>4
<1>5. /\ IsProblem(q) /\ IsSequence(q.init)
      /\ q.prim \cup q.meth \subseteq DOMAIN q.sort
      /\ q.prim = DOMAIN q.pre
  BY DomainsAssumption
<1>6. ASSUME NEW t \in ceTasks
      PROVE  /\ IsSequence(e.sort[t]) /\ \A k \in DOMAIN e.sort[t] : IsFiniteSet(e.sort[t][k])
             /\ LiteralsOver(e.pre[t], DOMAIN e.sort[t])
             /\ LiteralsOver(e.add[t], DOMAIN e.sort[t])
  <2> DEFINE c == Of(t)
  <2>1. c \in CEs
    BY <1>4
  <2> HIDE DEF ceTasks, Of, e
  <2>2. e.sort[t] = CESort(c) /\ e.pre[t] = CEPre(c) /\ e.add[t] = CEAdd(c)
    <3> HIDE DEF CESort, CEPre, CEAdd
    <3> QED
      BY <1>2, <1>3
  <2> HIDE DEF c
  <2>3. /\ IsSequence(CESort(c)) /\ \A k \in DOMAIN CESort(c) : IsFiniteSet(CESort(c)[k])
        /\ LiteralsOver(CEPre(c), DOMAIN CESort(c))
        /\ LiteralsOver(<<ToCE(c.ce, c.ce.eff)>>, DOMAIN CESort(c))
        /\ LiteralsOver(<<>>, DOMAIN CESort(c))
    BY <2>1, EffectTask
  <2>4. LiteralsOver(CEAdd(c), DOMAIN CESort(c))
    <3>1. CEAdd(c) = <<ToCE(c.ce, c.ce.eff)>> \/ CEAdd(c) = <<>>
      OBVIOUS
    <3> HIDE DEF CEAdd, CESort
    <3> QED
      BY <2>3, <3>1
  <2> HIDE DEF CEAdd, CESort, CEPre
  <2> QED
    BY <2>2, <2>3, <2>4
<1>7. ASSUME NEW x \in q.prim \cup q.meth
      PROVE  e.sort[x] = q.sort[x]
  <2>1. x \in DOMAIN q.sort /\ x \notin ceTasks
    BY <1>4, <1>5
  <2> HIDE DEF ceTasks, e, CESort
  <2> QED
    BY <1>2, <2>1
<1>8. ASSUME NEW t \in q.prim
      PROVE  e.pre[t] = q.pre[t] /\ e.add[t] = q.add[t] \o guards(t)
  <2>1. t \in DOMAIN q.pre /\ t \notin ceTasks
    BY <1>4, <1>5
  <2> HIDE DEF ceTasks, e, CEPre, CEAdd, guards
  <2> QED
    BY <1>2, <1>3, <2>1
<1>9. ASSUME NEW t \in q.prim
      PROVE  LiteralsOver(q.add[t] \o guards(t), DOMAIN q.sort[t])
  <2> DEFINE V == DOMAIN q.sort[t]
  <2>1. LiteralsOver(q.add[t], V)
    BY <1>5 DEF IsProblem
  <2>2. EffectsOver(q.cond[t], V)
    BY DomainsAssumption
  <2>3. ASSUME NEW k \in DOMAIN q.cond[t]
        PROVE  guards(t)[k].args \in Seq(V)
    <3>1. guards(t)[k].args = CEVars(q.cond[t][k])
      BY DEF Atom
    <3>2. LiteralsOver(q.cond[t][k].cond, V) /\ q.cond[t][k].eff.args \in Seq(V)
      BY <2>2 DEF EffectsOver
    <3> HIDE DEF V
    <3>3. IsSequence(CEVars(q.cond[t][k])) /\ \A n \in DOMAIN CEVars(q.cond[t][k]) : CEVars(q.cond[t][k])[n] \in V
      BY <3>2, VariablesOfEffect
    <3>4. /\ Len(CEVars(q.cond[t][k])) \in Nat
          /\ CEVars(q.cond[t][k]) \in [1..Len(CEVars(q.cond[t][k])) -> V]
      BY <3>3, SequenceDomain
    <3> QED
      BY <3>1, <3>4
  <2>4. /\ Len(q.cond[t]) \in Nat /\ DOMAIN q.cond[t] = 1..Len(q.cond[t])
    BY <2>2, SequenceDomain DEF EffectsOver
  <2> DEFINE T == ToSet(q.add[t]) \cup {guards(t)[k] : k \in DOMAIN q.cond[t]}
             g == guards(t)
  <2>5. g \in Seq(T) /\ DOMAIN g = DOMAIN q.cond[t]
    <3>1. g \in [1..Len(q.cond[t]) -> T]
      BY <2>4
    <3> HIDE DEF g, T
    <3> QED
      BY <2>4, <3>1
  <2>6. q.add[t] \in Seq(T)
    <3>1. ToSet(q.add[t]) \subseteq T /\ q.add[t] \in Seq(ToSet(q.add[t]))
      BY <2>1 DEF LiteralsOver, IsSequence
    <3> HIDE DEF T
    <3> QED
      BY <3>1
  <2>7. \A k \in DOMAIN q.add[t] : q.add[t][k].args \in Seq(V)
    BY <2>1 DEF LiteralsOver
  <2>8. \A k \in DOMAIN g : g[k].args \in Seq(V)
    BY <2>3, <2>5
  <2> HIDE DEF T, g, V
  <2>9. q.add[t] \o g \in Seq(T)
    BY <2>5, <2>6
  <2>10. \A k \in DOMAIN (q.add[t] \o g) :
           \/ \E j \in DOMAIN q.add[t] : (q.add[t] \o g)[k] = q.add[t][j]
           \/ \E j \in DOMAIN g : (q.add[t] \o g)[k] = g[j]
    BY <2>5, <2>6
  <2>11. LiteralsOver(q.add[t] \o g, V)
    BY <2>7, <2>8, <2>9, <2>10, SequenceOver DEF LiteralsOver
  <2> QED
    BY <2>11 DEF g, V
<1> HIDE DEF ceTasks, Of, e, CESort, CEPre, CEAdd, guards
<1>10. IsFiniteSet(e.prim) /\ IsFiniteSet(e.meth)
  <2>1. IsFiniteSet(q.prim) /\ IsFiniteSet(q.meth)
    BY <1>5 DEF IsProblem
  <2>2. IsFiniteSet(q.prim \cup ceTasks)
    BY <1>4, <2>1, FS_Union
  <2> QED
    BY <1>1, <2>1, <2>2
<1>11. ASSUME NEW x \in e.prim \cup e.meth
       PROVE  IsSequence(e.sort[x]) /\ \A k \in DOMAIN e.sort[x] : IsFiniteSet(e.sort[x][k])
  <2>1. CASE x \in ceTasks
    BY <1>6, <2>1
  <2>2. CASE x \in q.prim \cup q.meth
    BY <1>5, <1>7, <2>2 DEF IsProblem
  <2> QED
    BY <1>1, <2>1, <2>2
<1>12. ASSUME NEW t \in e.prim
       PROVE  LiteralsOver(e.pre[t], DOMAIN e.sort[t]) /\ LiteralsOver(e.add[t], DOMAIN e.sort[t])
  <2>1. CASE t \in ceTasks
    BY <1>6, <2>1
  <2>2. CASE t \in q.prim
    BY <1>5, <1>7, <1>8, <1>9, <2>2 DEF IsProblem
  <2> QED
    BY <1>1, <2>1, <2>2
<1>13. ASSUME NEW m \in e.meth
       PROVE  /\ LiteralsOver(e.sub[m], DOMAIN e.sort[m])
              /\ e.ord[m] \subseteq (DOMAIN e.sub[m]) \X (DOMAIN e.sub[m])
  BY <1>1, <1>5, <1>7 DEF IsProblem
<1>14. IsProblem(e)
  BY <1>10, <1>11, <1>12, <1>13 DEF IsProblem
<1> QED
  BY <1>1, <1>5, <1>14 DEF e

----------------------------------------------------------------------------
(* Sorting the subtasks. *)

LEMMA SubtasksListed ==
  ASSUME NEW q, IsProblem(q), NEW m \in q.meth
  PROVE  /\ Len(q.sub[m]) \in Nat /\ DOMAIN q.sub[m] = 1..Len(q.sub[m])
         /\ SortedSubtasks(q, m) \in [DOMAIN q.sub[m] -> DOMAIN q.sub[m]]
         /\ \A i \in DOMAIN q.sub[m] :
              /\ NumberOf(i, SortedSubtasks(q, m)) \in DOMAIN q.sub[m]
              /\ SortedSubtasks(q, m)[NumberOf(i, SortedSubtasks(q, m))] = i
<1> DEFINE all == DOMAIN q.sub[m]
           R == {ij \in all \X all : Sooner(q, m, ij[1], ij[2])}
           sorted == SortedSubtasks(q, m)
<1>1. LiteralsOver(q.sub[m], DOMAIN q.sort[m])
  BY DEF IsProblem
<1>2. Len(q.sub[m]) \in Nat /\ all = 1..Len(q.sub[m]) /\ IsFiniteSet(all)
  BY <1>1, SequenceDomain DEF LiteralsOver
<1>3. \A i \in all : Len(q.sub[m][i].args) \in Nat
  BY <1>1 DEF LiteralsOver
<1>4. \A i, j \in all : <<i, j>> \in R <=> Sooner(q, m, i, j)
  OBVIOUS
<1>5. sorted = Ascending(all, R)
  BY DEF SortedSubtasks
<1>6. Cardinality(all) = Len(q.sub[m])
  BY <1>2, FS_Interval
<1> HIDE DEF all, R, sorted
<1>7. Orders(R, all)
  <2>1. \A i \in all : i \in Nat
    BY <1>2
  <2> DEFINE args == [i \in all |-> Len(q.sub[m][i].args)]
  <2>2. \A i, j \in all : <<i, j>> \in R <=> args[i] > args[j] \/ (args[i] = args[j] /\ i > j)
    BY <1>4 DEF Sooner
  <2>3. args \in [all -> Nat]
    BY <1>3
  <2> HIDE DEF args
  <2> QED
    BY <2>1, <2>2, <2>3 DEF Orders
<1>8. /\ sorted \in [all -> all]
      /\ \A i \in all : Rank(all, R, i) \in all /\ sorted[Rank(all, R, i)] = i
  BY <1>2, <1>5, <1>6, <1>7, AscendingLists
<1>9. \A i \in all : NumberOf(i, sorted) \in all /\ sorted[NumberOf(i, sorted)] = i
  BY <1>8 DEF NumberOf
<1> QED
  BY <1>2, <1>8, <1>9 DEF all, sorted

LEMMA SortingKeeps ==
  ASSUME NEW q, IsProblem(q), {"sub", "ord"} \subseteq DOMAIN q
  PROVE  LET s == SortSubtasks(q)
         IN  /\ s.prim = q.prim /\ s.meth = q.meth /\ s.sort = q.sort /\ s.con = q.con
             /\ s.of = q.of /\ s.par = q.par /\ s.pre = q.pre /\ s.add = q.add
             /\ s.typed = q.typed /\ s.ceTasks = q.ceTasks /\ s.init = q.init
             /\ {"sub", "ord"} \subseteq DOMAIN s
             /\ IsProblem(s)
             /\ \A m \in q.meth : Ordered(s, m) = Ordered(q, m)
<1> DEFINE sub == [m \in q.meth |-> [k \in DOMAIN q.sub[m] |-> q.sub[m][SortedSubtasks(q, m)[k]]]]
           New(m, i) == NumberOf(i, SortedSubtasks(q, m))
           ord == [m \in q.meth |-> {<<New(m, o[1]), New(m, o[2])>> : o \in q.ord[m]}]
           s == SortSubtasks(q)
<1>1. s = [q EXCEPT !.sub = sub, !.ord = ord]
  BY DEF SortSubtasks
<1> HIDE DEF sub, ord, s
<1>2. /\ s.prim = q.prim /\ s.meth = q.meth /\ s.sort = q.sort /\ s.con = q.con
      /\ s.of = q.of /\ s.par = q.par /\ s.pre = q.pre /\ s.add = q.add
      /\ s.typed = q.typed /\ s.ceTasks = q.ceTasks /\ s.init = q.init
      /\ DOMAIN s = DOMAIN q
  BY <1>1
<1>3. s.sub = sub /\ s.ord = ord
  BY <1>1
<1>4. ASSUME NEW m \in q.meth
      PROVE  /\ LiteralsOver(s.sub[m], DOMAIN s.sort[m])
             /\ s.ord[m] \subseteq (DOMAIN s.sub[m]) \X (DOMAIN s.sub[m])
             /\ Ordered(s, m) = Ordered(q, m)
  <2> DEFINE sorted == SortedSubtasks(q, m)
             all == DOMAIN q.sub[m]
             N(i) == NumberOf(i, sorted)
  <2>1. /\ Len(q.sub[m]) \in Nat /\ all = 1..Len(q.sub[m])
        /\ sorted \in [all -> all]
        /\ \A i \in all : N(i) \in all /\ sorted[N(i)] = i
    BY SubtasksListed
  <2>2. LiteralsOver(q.sub[m], DOMAIN q.sort[m]) /\ q.ord[m] \subseteq all \X all
    BY DEF IsProblem
  <2>3. s.sub[m] = [k \in all |-> q.sub[m][sorted[k]]]
    BY <1>3 DEF sub
  <2>4. s.ord[m] = {<<N(o[1]), N(o[2])>> : o \in q.ord[m]}
    BY <1>3 DEF ord
  <2> HIDE DEF sorted, N
  <2>5. LiteralsOver(s.sub[m], DOMAIN s.sort[m])
    <3>1. s.sub[m] \in [1..Len(q.sub[m]) -> {q.sub[m][i] : i \in all}]
      BY <2>1, <2>3
    <3>2. IsSequence(s.sub[m]) /\ DOMAIN s.sub[m] = all
      BY <2>1, <3>1, IntervalSequence
    <3>3. \A k \in all : s.sub[m][k].args \in Seq(DOMAIN q.sort[m])
      BY <2>1, <2>2, <2>3 DEF LiteralsOver
    <3> QED
      BY <1>2, <3>2, <3>3 DEF LiteralsOver
  <2>6. \A o \in q.ord[m] : o = <<o[1], o[2]>> /\ o[1] \in all /\ o[2] \in all
    BY <2>2
  <2>7. DOMAIN s.sub[m] = all
    BY <2>3
  <2>8. s.ord[m] \subseteq all \X all
    BY <2>1, <2>4, <2>6
  <2>9. \A o \in q.ord[m] : /\ s.sub[m][N(o[1])] = q.sub[m][o[1]]
                           /\ s.sub[m][N(o[2])] = q.sub[m][o[2]]
    BY <2>1, <2>3, <2>6
  <2>10. Ordered(s, m) = {<<s.sub[m][N(o[1])], s.sub[m][N(o[2])]>> : o \in q.ord[m]}
    <3>1. ASSUME NEW x \in Ordered(s, m)
          PROVE  \E o \in q.ord[m] : x = <<s.sub[m][N(o[1])], s.sub[m][N(o[2])]>>
      <4>1. PICK p \in s.ord[m] : x = <<s.sub[m][p[1]], s.sub[m][p[2]]>>
        BY DEF Ordered
      <4>2. PICK o \in q.ord[m] : p = <<N(o[1]), N(o[2])>>
        BY <2>4
      <4> QED
        BY <4>1, <4>2
    <3>2. ASSUME NEW o \in q.ord[m]
          PROVE  <<s.sub[m][N(o[1])], s.sub[m][N(o[2])]>> \in Ordered(s, m)
      <4>1. <<N(o[1]), N(o[2])>> \in s.ord[m]
        BY <2>4
      <4> DEFINE p == <<N(o[1]), N(o[2])>>
      <4>2. p[1] = N(o[1]) /\ p[2] = N(o[2])
        OBVIOUS
      <4>3. <<s.sub[m][p[1]], s.sub[m][p[2]]>> \in Ordered(s, m)
        BY <4>1 DEF Ordered
      <4> QED
        BY <4>2, <4>3
    <3> QED
      BY <3>1, <3>2
  <2>11. Ordered(s, m) = Ordered(q, m)
    BY <2>9, <2>10 DEF Ordered
  <2> QED
    BY <2>5, <2>7, <2>8, <2>11
<1>5. IsProblem(s)
  BY <1>2, <1>4 DEF IsProblem
<1> QED
  BY <1>2, <1>4, <1>5 DEF s

----------------------------------------------------------------------------
(* What one turn of the loop puts out. *)

LEMMA FunctionsFinite ==
  ASSUME NEW S, IsFiniteSet(S), NEW T, IsFiniteSet(T)
  PROVE  IsFiniteSet([S -> T])
<1> DEFINE Pairs == SUBSET (S \X T)
           Graph == [f \in [S -> T] |-> {<<x, f[x]>> : x \in S}]
<1>1. IsFiniteSet(Pairs)
  BY FS_Product, FS_SUBSET
<1>2. Graph \in [[S -> T] -> Pairs]
  OBVIOUS
<1>3. ASSUME NEW f \in [S -> T], NEW g \in [S -> T], Graph[f] = Graph[g]
      PROVE  f = g
  <2>1. ASSUME NEW x \in S
        PROVE  f[x] = g[x]
    <3>1. <<x, f[x]>> \in Graph[g]
      BY <1>3
    <3>2. PICK y \in S : <<x, f[x]>> = <<y, g[y]>>
      BY <3>1
    <3> QED
      BY <3>2
  <2> QED
    BY <2>1
<1>4. Graph \in Injection([S -> T], Pairs)
  BY <1>2, <1>3 DEF Injection, IsInjective
<1> HIDE DEF Graph, Pairs
<1> QED
  BY <1>1, <1>4, FS_Injection

LEMMA ValuationsFinite ==
  ASSUME NEW x, IsSequence(d.sort[x]), \A k \in DOMAIN d.sort[x] : IsFiniteSet(d.sort[x][k])
  PROVE  IsFiniteSet(Valuations(x))
<1> DEFINE D == DOMAIN d.sort[x]
           U == UNION {d.sort[x][k] : k \in D}
<1>1. IsFiniteSet(D)
  BY SequenceDomain
<1>2. IsFiniteSet(U)
  BY <1>1, FiniteUnion
<1>3. Valuations(x) \subseteq [D -> U]
  BY DEF Valuations
<1> HIDE DEF D, U
<1> QED
  BY <1>1, <1>2, <1>3, FunctionsFinite, FS_Subset

(* Emit appends: new atoms after the known ones, the groundings found     *)
(* after those put out before.                                            *)
LEMMA Emitted ==
  ASSUME NEW found, IsFiniteSet(found),
         NEW known, IsSequence(known), IsInjective(known),
         NEW out, IsSequence(out), NEW ante, NEW cons,
         \A f \in found : IsFiniteSet(DOMAIN cons[f.act])
  PROVE  LET g == Emit(found, known, out, ante, cons)
         IN  /\ IsSequence(g.atoms) /\ IsInjective(g.atoms)
             /\ Len(known) <= Len(g.atoms)
             /\ \A k \in 1..Len(known) : g.atoms[k] = known[k]
             /\ IsSequence(g.output) /\ Len(g.output) = Len(out) + Cardinality(found)
             /\ \A k \in 1..Len(out) : g.output[k] = out[k]
             /\ \A k \in 1..Cardinality(found) :
                  /\ g.output[Len(out) + k].act = SetToSeq(found)[k].act
                  /\ g.output[Len(out) + k].val = SetToSeq(found)[k].val
<1> DEFINE added == UNION {{Instance(cons[f.act][k], f.val) : k \in DOMAIN cons[f.act]} : f \in found}
           new == added \ ToSet(known)
           all == known \o SetToSeq(new)
           fs == SetToSeq(found)
           Numbers(lits, f) == [k \in DOMAIN lits |-> NumberOf(Instance(lits[k], f.val), all)]
           late == [k \in DOMAIN fs |->
                      [act |-> fs[k].act, val |-> fs[k].val,
                       ante |-> Numbers(ante[fs[k].act], fs[k]), add |-> Numbers(cons[fs[k].act], fs[k])]]
           g == Emit(found, known, out, ante, cons)
<1>1. g.atoms = all /\ g.output = out \o late
  BY DEF Emit
<1>2. IsFiniteSet(new)
  <2> DEFINE F == [f \in found |-> {Instance(cons[f.act][k], f.val) : k \in DOMAIN cons[f.act]}]
  <2>1. ASSUME NEW f \in found
        PROVE  IsFiniteSet(F[f])
    <3> DEFINE i == [k \in DOMAIN cons[f.act] |-> Instance(cons[f.act][k], f.val)]
    <3>1. F[f] = {i[k] : k \in DOMAIN cons[f.act]}
      OBVIOUS
    <3> HIDE DEF i, F
    <3> QED
      BY <3>1, FiniteImage
  <2>2. added = UNION {F[f] : f \in found}
    OBVIOUS
  <2> HIDE DEF F, added
  <2>3. IsFiniteSet(added)
    BY <2>1, <2>2, FiniteUnion
  <2> QED
    BY <2>3, FS_Difference
<1> HIDE DEF g
<1>3. /\ Len(known) \in Nat /\ DOMAIN known = 1..Len(known)
      /\ known \in [1..Len(known) -> ToSet(known)]
  BY SequenceDomain
<1>4. /\ Cardinality(new) \in Nat
      /\ SetToSeq(new) \in [1..Cardinality(new) -> new]
      /\ IsInjective(SetToSeq(new))
  <2> HIDE DEF new
  <2> QED
    BY <1>2, SetToSeqLists
<1>5. /\ IsSequence(all) /\ Len(known) <= Len(all)
      /\ \A k \in 1..Len(known) : all[k] = known[k]
      /\ Len(all) = Len(known) + Cardinality(new)
      /\ \A k \in 1..Cardinality(new) : all[Len(known) + k] = SetToSeq(new)[k]
      /\ DOMAIN all = 1..Len(all)
  <2> DEFINE T == ToSet(known) \cup new
             sn == SetToSeq(new)
  <2>1. known \in Seq(T)
    <3> HIDE DEF T
    <3>1. ToSet(known) \subseteq T
      BY DEF T
    <3> QED
      BY <1>3, <3>1 DEF IsSequence
  <2>2. sn \in Seq(T) /\ Len(sn) = Cardinality(new)
    <3> HIDE DEF new, sn
    <3>1. sn \in [1..Cardinality(new) -> T]
      BY <1>4 DEF sn
    <3> HIDE DEF T
    <3> QED
      BY <1>4, <3>1
  <2> HIDE DEF T, sn, new
  <2>3. known \o sn \in Seq(T) /\ Len(known \o sn) = Len(known) + Len(sn)
    BY <2>1, <2>2
  <2>4. \A k \in 1..Len(known) : (known \o sn)[k] = known[k]
    BY <1>3, <2>1, <2>2
  <2>5. \A k \in 1..Len(sn) : (known \o sn)[Len(known) + k] = sn[k]
    BY <1>3, <1>4, <2>1, <2>2
  <2>6. IsSequence(known \o sn)
    BY <2>3, SequenceOver
  <2>7. DOMAIN (known \o sn) = 1..Len(known \o sn)
    BY <2>6, SequenceDomain
  <2> QED
    BY <1>3, <1>4, <2>2, <2>3, <2>4, <2>5, <2>6, <2>7 DEF sn
<1>6. IsInjective(all)
  <2>1. \A k \in 1..Cardinality(new) : SetToSeq(new)[k] \notin ToSet(known)
    BY <1>4
  <2>2. \A k \in 1..Len(known) : known[k] \in ToSet(known)
    BY <1>3
  <2> HIDE DEF all, new
  <2>3. \A k \in DOMAIN all : k \in 1..Len(known) \/ \E j \in 1..Cardinality(new) : k = Len(known) + j
    <3> SUFFICES ASSUME NEW k \in DOMAIN all, k \notin 1..Len(known)
                 PROVE  \E j \in 1..Cardinality(new) : k = Len(known) + j
      OBVIOUS
    <3>1. k - Len(known) \in 1..Cardinality(new) /\ k = Len(known) + (k - Len(known))
      BY <1>3, <1>4, <1>5
    <3> QED
      BY <3>1
  <2>4. \A j, k \in 1..Cardinality(new) : SetToSeq(new)[j] = SetToSeq(new)[k] => j = k
    BY <1>4 DEF IsInjective
  <2>5. \A j, k \in 1..Len(known) : known[j] = known[k] => j = k
    BY <1>3 DEF IsInjective
  <2> QED
    BY <1>3, <1>4, <1>5, <2>1, <2>2, <2>3, <2>4, <2>5 DEF IsInjective
<1>7. Cardinality(found) \in Nat /\ fs \in [1..Cardinality(found) -> found]
  BY SetToSeqLists
<1> HIDE DEF all, new, added, fs, Numbers
<1>8. /\ DOMAIN late = 1..Cardinality(found)
      /\ \A k \in 1..Cardinality(found) : late[k].act = fs[k].act /\ late[k].val = fs[k].val
      /\ late \in [1..Cardinality(found) -> ToSet(late)]
  BY <1>7 DEF ToSet
<1>9. /\ IsSequence(out \o late) /\ Len(out \o late) = Len(out) + Cardinality(found)
      /\ \A k \in 1..Len(out) : (out \o late)[k] = out[k]
      /\ \A k \in 1..Cardinality(found) : (out \o late)[Len(out) + k] = late[k]
  <2> DEFINE T == ToSet(out) \cup ToSet(late)
  <2> HIDE DEF late
  <2>1. ToSet(out) \subseteq T /\ ToSet(late) \subseteq T
    OBVIOUS
  <2> HIDE DEF T
  <2>2. out \in Seq(T) /\ Len(out) \in Nat
    BY <2>1 DEF IsSequence
  <2>3. late \in Seq(T) /\ Len(late) = Cardinality(found)
    BY <1>7, <1>8, <2>1
  <2>4. out \o late \in Seq(T) /\ Len(out \o late) = Len(out) + Cardinality(found)
    BY <2>2, <2>3
  <2>5. \A k \in 1..Len(out) : (out \o late)[k] = out[k]
    BY <2>2, <2>3
  <2>6. \A k \in 1..Cardinality(found) : (out \o late)[Len(out) + k] = late[k]
    BY <1>7, <2>2, <2>3
  <2> QED
    BY <2>4, <2>5, <2>6, SequenceOver
<1> HIDE DEF late
<1> QED
  BY <1>1, <1>5, <1>6, <1>8, <1>9 DEF g, fs

----------------------------------------------------------------------------
(* The invariant: what was put out are the groundings whose antecedents    *)
(* are among the atoms processed so far, each once.                        *)

IsGrounding(a, v, n) ==
  /\ Satisfies(d.con[a], v) /\ Compatible(a, v)
  /\ \A j \in DOMAIN Antecedents(a) : \E x \in 1..n : Fulfils(a, j, x, v)

Groundings(n) ==
  UNION {{<<a, v>> : v \in {w \in Valuations(a) : IsGrounding(a, w, n)}} : a \in Actions}

Lists(out, P) ==
  /\ \A k \in DOMAIN out : <<out[k].act, out[k].val>> \in P
  /\ \A p \in P : \E k \in DOMAIN out : p = <<out[k].act, out[k].val>>
  /\ \A k, l \in DOMAIN out : out[k].act = out[l].act /\ out[k].val = out[l].val => k = l

ProblemInv ==
  /\ IsProblem(d) /\ IsSequence(d.init) /\ {"sub", "ord"} \subseteq DOMAIN d
  /\ phase \in {"HT", "PG", "TDG", "Done"}

GraphInv ==
  /\ IsSequence(atoms) /\ IsInjective(atoms) /\ IsSequence(output)
  /\ done \in 0..Len(atoms)

JoinInv ==
  ProblemInv /\ GraphInv /\ (phase \in {"PG", "TDG"} => Lists(output, Groundings(done)))

LEMMA Appended ==
  ASSUME NEW P, NEW Q, P \subseteq Q, NEW out, IsSequence(out), Lists(out, P),
         NEW found, IsFiniteSet(found),
         \A f \in found : <<f.act, f.val>> \in Q \ P,
         \A q \in Q \ P : \E f \in found : q = <<f.act, f.val>>,
         \A f, g \in found : f.act = g.act /\ f.val = g.val => f = g,
         NEW out2, IsSequence(out2), Len(out2) = Len(out) + Cardinality(found),
         \A k \in 1..Len(out) : out2[k] = out[k],
         \A k \in 1..Cardinality(found) :
           /\ out2[Len(out) + k].act = SetToSeq(found)[k].act
           /\ out2[Len(out) + k].val = SetToSeq(found)[k].val
  PROVE  Lists(out2, Q)
<1> DEFINE fs == SetToSeq(found)
           N == Len(out)
           M == Cardinality(found)
<1>1. /\ M \in Nat /\ fs \in [1..M -> found] /\ IsInjective(fs)
      /\ \A f \in found : \E n \in 1..M : fs[n] = f
  BY SetToSeqLists
<1>2. /\ N \in Nat /\ DOMAIN out = 1..N /\ DOMAIN out2 = 1..N + M
  BY SequenceDomain
<1> HIDE DEF fs, N, M
<1>3. \A k \in 1..N : k \in DOMAIN out2 /\ out2[k] = out[k]
  BY <1>1, <1>2 DEF N
<1>4. \A k \in 1..M : N + k \in DOMAIN out2 /\ out2[N + k].act = fs[k].act /\ out2[N + k].val = fs[k].val
  BY <1>1, <1>2 DEF N, M, fs
<1>5. ASSUME NEW k \in DOMAIN out2
      PROVE  k \in 1..N \/ \E j \in 1..M : k = N + j
  <2> SUFFICES ASSUME k \notin 1..N
               PROVE  \E j \in 1..M : k = N + j
    OBVIOUS
  <2>1. k - N \in 1..M /\ k = N + (k - N)
    BY <1>1, <1>2
  <2> QED
    BY <2>1
<1>6. ASSUME NEW k \in 1..N
      PROVE  <<out2[k].act, out2[k].val>> \in P
  BY <1>2, <1>3 DEF Lists
<1>7. ASSUME NEW k \in 1..M
      PROVE  <<out2[N + k].act, out2[N + k].val>> \in Q \ P
  BY <1>1, <1>4
<1>8. \A k \in DOMAIN out2 : <<out2[k].act, out2[k].val>> \in Q
  BY <1>5, <1>6, <1>7
<1>9. ASSUME NEW q \in Q
      PROVE  \E k \in DOMAIN out2 : q = <<out2[k].act, out2[k].val>>
  <2>1. CASE q \in P
    <3>1. PICK k \in 1..N : q = <<out[k].act, out[k].val>>
      BY <1>2, <2>1 DEF Lists
    <3> QED
      BY <1>3, <3>1
  <2>2. CASE q \notin P
    <3>1. PICK f \in found : q = <<f.act, f.val>>
      BY <2>2
    <3>2. PICK k \in 1..M : fs[k] = f
      BY <1>1
    <3> QED
      BY <1>4, <3>1, <3>2
  <2> QED
    BY <2>1, <2>2
<1>10. ASSUME NEW k \in DOMAIN out2, NEW l \in DOMAIN out2, out2[k].act = out2[l].act, out2[k].val = out2[l].val
       PROVE  k = l
  <2>1. CASE k \in 1..N /\ l \in 1..N
    BY <1>2, <1>3, <1>10, <2>1 DEF Lists
  <2>2. CASE k \in 1..N /\ \E j \in 1..M : l = N + j
    BY <1>6, <1>7, <1>10, <2>2
  <2>3. CASE l \in 1..N /\ \E j \in 1..M : k = N + j
    BY <1>6, <1>7, <1>10, <2>3
  <2>4. CASE (\E i \in 1..M : k = N + i) /\ (\E j \in 1..M : l = N + j)
    <3>1. PICK i \in 1..M : k = N + i
      BY <2>4
    <3>2. PICK j \in 1..M : l = N + j
      BY <2>4
    <3>3. fs[i] = fs[j]
      BY <1>1, <1>4, <1>10, <3>1, <3>2
    <3>4. i = j
      BY <1>1, <3>3 DEF IsInjective
    <3> QED
      BY <3>1, <3>2, <3>4
  <2> QED
    BY <1>5, <2>1, <2>2, <2>3, <2>4
<1> QED
  BY <1>8, <1>9, <1>10 DEF Lists

LEMMA AntecedentsOver ==
  ASSUME ProblemInv, phase \in {"PG", "TDG"}, NEW a \in Actions
  PROVE  /\ LiteralsOver(Antecedents(a), DOMAIN d.sort[a])
         /\ IsSequence(d.sort[a]) /\ \A k \in DOMAIN d.sort[a] : IsFiniteSet(d.sort[a][k])
         /\ IsFiniteSet(DOMAIN Consequences(a))
<1>1. CASE phase = "PG"
  <2>1. a \in d.prim /\ Antecedents(a) = d.pre[a] /\ Consequences(a) = d.add[a]
    BY <1>1 DEF Actions, Antecedents, Consequences
  <2>2. IsFiniteSet(DOMAIN d.add[a])
    BY <2>1, SequenceDomain DEF ProblemInv, IsProblem, LiteralsOver
  <2> QED
    BY <2>1, <2>2 DEF ProblemInv, IsProblem
<1>2. CASE phase = "TDG"
  <2>1. a \in d.meth /\ Antecedents(a) = d.sub[a] /\ Consequences(a) = <<Atom(d.of[a], d.par[a])>>
    BY <1>2 DEF Actions, Antecedents, Consequences
  <2>2. DOMAIN Consequences(a) = {1}
    BY <2>1
  <2>3. IsFiniteSet(DOMAIN Consequences(a))
    BY <2>2, FS_Singleton
  <2> QED
    BY <2>1, <2>3 DEF ProblemInv, IsProblem
<1> QED
  BY <1>1, <1>2

(* An atom that is an antecedent of a grounding fits that antecedent.      *)
LEMMA FulfilledFits ==
  ASSUME ProblemInv, phase \in {"PG", "TDG"}, NEW a \in Actions, NEW v \in Valuations(a),
         NEW j \in DOMAIN Antecedents(a), NEW x, Fulfils(a, j, x, v)
  PROVE  /\ Fits(a, j, x)
         /\ atoms[x].head = Antecedents(a)[j].head
         /\ \A l \in DOMAIN Antecedents(a)[j].args : atoms[x].args[l] = v[Antecedents(a)[j].args[l]]
<1> DEFINE lit == Antecedents(a)[j]
<1>1. /\ atoms[x].head = lit.head
      /\ \A l \in DOMAIN lit.args : atoms[x].args[l] = v[lit.args[l]]
  BY DEF Fulfils, Instance, Atom
<1>2. lit.args \in Seq(DOMAIN d.sort[a])
  BY AntecedentsOver DEF LiteralsOver
<1>3. \A l \in DOMAIN lit.args : lit.args[l] \in DOMAIN d.sort[a]
  <2> HIDE DEF lit
  <2> QED
    BY <1>2
<1>4. \A y \in DOMAIN d.sort[a] : v[y] \in d.sort[a][y]
  BY DEF Valuations
<1> QED
  BY <1>1, <1>3, <1>4 DEF Fits

(* Neither the test for the existence of atoms nor the lookahead rejects a *)
(* grounding, so matching finds those whose new antecedent comes last.     *)
LEMMA MatchesAre ==
  ASSUME ProblemInv, phase \in {"PG", "TDG"}, NEW a \in Actions,
         NEW n \in Nat \ {0}, NEW i \in DOMAIN Antecedents(a), NEW v
  PROVE  v \in Matches(a, i, n) <=>
           /\ v \in Valuations(a) /\ Satisfies(d.con[a], v) /\ Compatible(a, v)
           /\ Fulfils(a, i, n, v)
           /\ \A j \in DOMAIN Antecedents(a) \ {i} :
                \E x \in 1..n : Fulfils(a, j, x, v) /\ (x = n => j < i)
<1>1. ASSUME v \in Valuations(a), Fulfils(a, i, n, v),
             \A j \in DOMAIN Antecedents(a) \ {i} : \E x \in 1..n : Fulfils(a, j, x, v)
      PROVE  /\ Fits(a, i, n) /\ EachHasAtom(a, n)
             /\ \A k \in {0} \cup DOMAIN Antecedents(a) : MayExtend(a, k, v, n)
  <2>1. Fits(a, i, n)
    BY <1>1, FulfilledFits
  <2>2. ASSUME NEW j \in DOMAIN Antecedents(a)
        PROVE  \E x \in 1..n : Fulfils(a, j, x, v)
    <3>1. n \in 1..n
      OBVIOUS
    <3> QED
      BY <1>1, <3>1
  <2>3. EachHasAtom(a, n)
    BY <1>1, <2>2, FulfilledFits DEF EachHasAtom
  <2>4. IsSequence(Antecedents(a))
    BY AntecedentsOver DEF LiteralsOver
  <2>5. Len(Antecedents(a)) \in Nat /\ DOMAIN Antecedents(a) = 1..Len(Antecedents(a))
    BY <2>4, SequenceDomain
  <2>6. ASSUME NEW k \in {0} \cup DOMAIN Antecedents(a)
        PROVE  MayExtend(a, k, v, n)
    <3>1. (k + 1)..Len(Antecedents(a)) \subseteq DOMAIN Antecedents(a)
      BY <2>5
    <3>2. ASSUME NEW j \in (k + 1)..Len(Antecedents(a))
          PROVE  \E x \in 1..n :
                   /\ Fits(a, j, x)
                   /\ \A l \in DOMAIN Antecedents(a)[j].args :
                        atoms[x].args[l] = v[Antecedents(a)[j].args[l]]
      <4>1. j \in DOMAIN Antecedents(a)
        BY <3>1
      <4>2. PICK x \in 1..n : Fulfils(a, j, x, v)
        BY <2>2, <4>1
      <4> QED
        BY <1>1, <4>1, <4>2, FulfilledFits
    <3> QED
      BY <3>2 DEF MayExtend
  <2> QED
    BY <2>1, <2>3, <2>6
<1> QED
  BY <1>1 DEF Matches, MayUseNew

LEMMA InGroundings ==
  ASSUME NEW a, NEW v, NEW n
  PROVE  <<a, v>> \in Groundings(n) <=> a \in Actions /\ v \in Valuations(a) /\ IsGrounding(a, v, n)
<1>1. ASSUME <<a, v>> \in Groundings(n)
      PROVE  a \in Actions /\ v \in Valuations(a) /\ IsGrounding(a, v, n)
  <2>1. PICK b \in Actions : <<a, v>> \in {<<b, w>> : w \in {u \in Valuations(b) : IsGrounding(b, u, n)}}
    BY <1>1 DEF Groundings
  <2>2. PICK w \in {u \in Valuations(b) : IsGrounding(b, u, n)} : <<a, v>> = <<b, w>>
    BY <2>1
  <2>3. a = b /\ v = w
    BY <2>2
  <2> QED
    BY <2>2, <2>3
<1>2. ASSUME a \in Actions, v \in Valuations(a), IsGrounding(a, v, n)
      PROVE  <<a, v>> \in Groundings(n)
  BY <1>2 DEF Groundings
<1> QED
  BY <1>1, <1>2

LEMMA GroundingsArePairs ==
  ASSUME NEW n, NEW p \in Groundings(n)
  PROVE  \E a \in Actions : \E v \in Valuations(a) : p = <<a, v>>
<1>1. PICK a \in Actions : p \in {<<a, w>> : w \in {u \in Valuations(a) : IsGrounding(a, u, n)}}
  BY DEF Groundings
<1> QED
  BY <1>1

(* What a turn finds for atom number n. *)
Found(n) ==
  UNION {{[act |-> o[1], val |-> v, at |-> o[2]] : v \in Matches(o[1], o[2], n)} :
           o \in Occurrences(atoms[n].head)}

LEMMA InOccurrences ==
  ASSUME NEW h, NEW o
  PROVE  o \in Occurrences(h) <=>
           \E a \in Actions : \E i \in DOMAIN Antecedents(a) : Antecedents(a)[i].head = h /\ o = <<a, i>>
<1> DEFINE Heads(a) == {i \in DOMAIN Antecedents(a) : Antecedents(a)[i].head = h}
<1>1. Occurrences(h) = UNION {{<<a, i>> : i \in Heads(a)} : a \in Actions}
  BY DEF Occurrences
<1>2. \A a : \A i : i \in Heads(a) <=> i \in DOMAIN Antecedents(a) /\ Antecedents(a)[i].head = h
  OBVIOUS
<1> HIDE DEF Heads
<1>3. ASSUME o \in Occurrences(h)
      PROVE  \E a \in Actions : \E i \in Heads(a) : o = <<a, i>>
  <2>1. PICK a \in Actions : o \in {<<a, i>> : i \in Heads(a)}
    BY <1>1, <1>3
  <2> QED
    BY <2>1
<1>4. ASSUME NEW a \in Actions, NEW i \in Heads(a), o = <<a, i>>
      PROVE  o \in Occurrences(h)
  BY <1>1, <1>4
<1> QED
  BY <1>2, <1>3, <1>4

LEMMA InFound ==
  ASSUME NEW n, NEW f
  PROVE  f \in Found(n) <=>
           \E a \in Actions : \E i \in DOMAIN Antecedents(a) : \E v \in Matches(a, i, n) :
             Antecedents(a)[i].head = atoms[n].head /\ f = [act |-> a, val |-> v, at |-> i]
<1> DEFINE O == Occurrences(atoms[n].head)
           Of(o) == {[act |-> o[1], val |-> v, at |-> o[2]] : v \in Matches(o[1], o[2], n)}
<1>1. f \in Found(n) <=> \E o \in O : f \in Of(o)
  BY DEF Found
<1>2. ASSUME NEW a, NEW i
      PROVE  f \in Of(<<a, i>>) <=> \E v \in Matches(a, i, n) : f = [act |-> a, val |-> v, at |-> i]
  OBVIOUS
<1> HIDE DEF Of
<1>3. ASSUME f \in Found(n)
      PROVE  \E a \in Actions : \E i \in DOMAIN Antecedents(a) : \E v \in Matches(a, i, n) :
               Antecedents(a)[i].head = atoms[n].head /\ f = [act |-> a, val |-> v, at |-> i]
  <2>1. PICK o \in O : f \in Of(o)
    BY <1>1, <1>3
  <2>2. \E a \in Actions : \E i \in DOMAIN Antecedents(a) :
          Antecedents(a)[i].head = atoms[n].head /\ o = <<a, i>>
    BY <2>1, InOccurrences
  <2>3. PICK a \in Actions : \E i \in DOMAIN Antecedents(a) :
          Antecedents(a)[i].head = atoms[n].head /\ o = <<a, i>>
    BY <2>2
  <2>4. PICK i \in DOMAIN Antecedents(a) : Antecedents(a)[i].head = atoms[n].head /\ o = <<a, i>>
    BY <2>3
  <2>5. f \in Of(<<a, i>>)
    BY <2>1, <2>4
  <2>6. PICK v \in Matches(a, i, n) : f = [act |-> a, val |-> v, at |-> i]
    BY <1>2, <2>5
  <2> QED
    BY <2>4, <2>6
<1>4. ASSUME NEW a \in Actions, NEW i \in DOMAIN Antecedents(a), NEW v \in Matches(a, i, n),
             Antecedents(a)[i].head = atoms[n].head, f = [act |-> a, val |-> v, at |-> i]
      PROVE  f \in Found(n)
  <2>1. <<a, i>> \in O
    BY <1>4, InOccurrences
  <2>2. f \in Of(<<a, i>>)
    BY <1>2, <1>4
  <2> QED
    BY <1>1, <2>1, <2>2
<1> QED
  BY <1>3, <1>4

LEMMA FoundFinite ==
  ASSUME ProblemInv, phase \in {"PG", "TDG"}, NEW n
  PROVE  IsFiniteSet(Found(n))
<1> DEFINE h == atoms[n].head
           At(a) == {<<a, i>> : i \in {j \in DOMAIN Antecedents(a) : Antecedents(a)[j].head = h}}
           F == [a \in Actions |-> At(a)]
<1>1. IsFiniteSet(Actions)
  BY DEF Actions, ProblemInv, IsProblem
<1>2. ASSUME NEW a \in Actions
      PROVE  IsFiniteSet(F[a])
  <2> DEFINE J == {j \in DOMAIN Antecedents(a) : Antecedents(a)[j].head = h}
             pair == [j \in J |-> <<a, j>>]
  <2>1. IsFiniteSet(DOMAIN Antecedents(a))
    BY AntecedentsOver, SequenceDomain DEF LiteralsOver
  <2>2. IsFiniteSet(J)
    BY <2>1, FS_Subset
  <2>3. F[a] = {pair[j] : j \in J}
    BY DEF F
  <2> HIDE DEF F, J, pair
  <2> QED
    BY <2>2, <2>3, FiniteImage
<1>3. Occurrences(h) = UNION {F[a] : a \in Actions}
  BY DEF Occurrences
<1> HIDE DEF F, h
<1>4. IsFiniteSet(Occurrences(h))
  BY <1>1, <1>2, <1>3, FiniteUnion
<1> DEFINE G == [o \in Occurrences(h) |->
                   {[act |-> o[1], val |-> v, at |-> o[2]] : v \in Matches(o[1], o[2], n)}]
<1>5. ASSUME NEW o \in Occurrences(h)
      PROVE  IsFiniteSet(G[o])
  <2>1. PICK a \in Actions : \E i \in DOMAIN Antecedents(a) : o = <<a, i>>
    BY InOccurrences
  <2>2. PICK i \in DOMAIN Antecedents(a) : o = <<a, i>>
    BY <2>1
  <2> DEFINE M == Matches(a, i, n)
             record == [v \in M |-> [act |-> a, val |-> v, at |-> i]]
  <2>3. G[o] = {record[v] : v \in M}
    BY <2>2 DEF G
  <2>4. IsFiniteSet(Valuations(a))
    BY AntecedentsOver, ValuationsFinite
  <2>5. M \subseteq Valuations(a)
    BY DEF Matches
  <2> HIDE DEF M, G, record
  <2>6. IsFiniteSet(M)
    BY <2>4, <2>5, FS_Subset
  <2> QED
    BY <2>3, <2>6, FiniteImage
<1>6. Found(n) = UNION {G[o] : o \in Occurrences(h)}
  BY DEF Found, h
<1> HIDE DEF G
<1> QED
  BY <1>4, <1>5, <1>6, FiniteUnion

(* The groundings that atom n completes are those found in its turn, each  *)
(* at the last of its antecedents that is atom n.                          *)
LEMMA FoundAreNew ==
  ASSUME ProblemInv, GraphInv, phase \in {"PG", "TDG"}, NEW n \in 1..Len(atoms)
  PROVE  /\ Groundings(n - 1) \subseteq Groundings(n)
         /\ \A f \in Found(n) : <<f.act, f.val>> \in Groundings(n) \ Groundings(n - 1)
         /\ \A q \in Groundings(n) \ Groundings(n - 1) : \E f \in Found(n) : q = <<f.act, f.val>>
         /\ \A f, g \in Found(n) : f.act = g.act /\ f.val = g.val => f = g
<1>1. Len(atoms) \in Nat /\ DOMAIN atoms = 1..Len(atoms)
  BY SequenceDomain DEF GraphInv
<1>2. n \in Nat \ {0} /\ 1..n - 1 \subseteq 1..n /\ 1..n \subseteq DOMAIN atoms /\ n \in 1..n
      /\ (\A x \in 1..n : x = n \/ x \in 1..n - 1) /\ n \notin 1..n - 1
  BY <1>1
<1>3. \A x \in 1..n : atoms[x] = atoms[n] => x = n
  BY <1>2 DEF GraphInv, IsInjective
<1>4. \A a, j, v : \A x \in 1..n : Fulfils(a, j, x, v) /\ Fulfils(a, j, n, v) => x = n
  BY <1>3 DEF Fulfils
<1>5. Groundings(n - 1) \subseteq Groundings(n)
  <2> SUFFICES ASSUME NEW p \in Groundings(n - 1)
               PROVE  p \in Groundings(n)
    OBVIOUS
  <2>1. PICK a \in Actions : \E v \in Valuations(a) : p = <<a, v>>
    BY GroundingsArePairs
  <2>2. PICK v \in Valuations(a) : p = <<a, v>>
    BY <2>1
  <2>3. IsGrounding(a, v, n - 1)
    BY <2>2, InGroundings
  <2>4. IsGrounding(a, v, n)
    BY <1>2, <2>3 DEF IsGrounding
  <2> QED
    BY <2>2, <2>4, InGroundings
<1>6. ASSUME NEW f \in Found(n)
      PROVE  \E a \in Actions : \E i \in DOMAIN Antecedents(a) : \E v \in Valuations(a) :
               /\ f = [act |-> a, val |-> v, at |-> i]
               /\ Satisfies(d.con[a], v) /\ Compatible(a, v)
               /\ Fulfils(a, i, n, v)
               /\ \A j \in DOMAIN Antecedents(a) \ {i} :
                    \E x \in 1..n : Fulfils(a, j, x, v) /\ (x = n => j < i)
  <2>1. PICK a \in Actions : \E i \in DOMAIN Antecedents(a) : \E v \in Matches(a, i, n) :
               f = [act |-> a, val |-> v, at |-> i]
    BY InFound
  <2>2. PICK i \in DOMAIN Antecedents(a) : \E v \in Matches(a, i, n) : f = [act |-> a, val |-> v, at |-> i]
    BY <2>1
  <2>3. PICK v \in Matches(a, i, n) : f = [act |-> a, val |-> v, at |-> i]
    BY <2>2
  <2> QED
    BY <1>2, <2>3, MatchesAre
<1>7. ASSUME NEW f \in Found(n)
      PROVE  <<f.act, f.val>> \in Groundings(n) \ Groundings(n - 1)
  <2>1. PICK a \in Actions : \E i \in DOMAIN Antecedents(a) : \E v \in Valuations(a) :
               /\ f = [act |-> a, val |-> v, at |-> i]
               /\ Satisfies(d.con[a], v) /\ Compatible(a, v)
               /\ Fulfils(a, i, n, v)
               /\ \A j \in DOMAIN Antecedents(a) \ {i} :
                    \E x \in 1..n : Fulfils(a, j, x, v) /\ (x = n => j < i)
    BY <1>6
  <2>2. PICK i \in DOMAIN Antecedents(a) : \E v \in Valuations(a) :
               /\ f = [act |-> a, val |-> v, at |-> i]
               /\ Satisfies(d.con[a], v) /\ Compatible(a, v)
               /\ Fulfils(a, i, n, v)
               /\ \A j \in DOMAIN Antecedents(a) \ {i} :
                    \E x \in 1..n : Fulfils(a, j, x, v) /\ (x = n => j < i)
    BY <2>1
  <2>3. PICK v \in Valuations(a) :
               /\ f = [act |-> a, val |-> v, at |-> i]
               /\ Satisfies(d.con[a], v) /\ Compatible(a, v)
               /\ Fulfils(a, i, n, v)
               /\ \A j \in DOMAIN Antecedents(a) \ {i} :
                    \E x \in 1..n : Fulfils(a, j, x, v) /\ (x = n => j < i)
    BY <2>2
  <2>4. IsGrounding(a, v, n)
    BY <1>2, <2>3 DEF IsGrounding
  <2>5. ~IsGrounding(a, v, n - 1)
    BY <1>2, <1>4, <2>3 DEF IsGrounding
  <2>6. f.act = a /\ f.val = v
    BY <2>3
  <2> QED
    BY <2>4, <2>5, <2>6, InGroundings
<1>8. ASSUME NEW q \in Groundings(n) \ Groundings(n - 1)
      PROVE  \E f \in Found(n) : q = <<f.act, f.val>>
  <2>1. PICK a \in Actions : \E v \in Valuations(a) : q = <<a, v>>
    BY <1>8, GroundingsArePairs
  <2>2. PICK v \in Valuations(a) : q = <<a, v>>
    BY <2>1
  <2>3. IsGrounding(a, v, n) /\ ~IsGrounding(a, v, n - 1)
    BY <1>8, <2>2, InGroundings
  <2> DEFINE S == {j \in DOMAIN Antecedents(a) : Fulfils(a, j, n, v)}
             R == {jk \in S \X S : jk[2] < jk[1]}
  <2>4. S # {}
    BY <1>2, <2>3 DEF IsGrounding
  <2>5. IsSequence(Antecedents(a))
    BY AntecedentsOver DEF LiteralsOver
  <2>6. IsFiniteSet(S) /\ S \subseteq Nat
    <3>1. DOMAIN Antecedents(a) \subseteq Nat /\ IsFiniteSet(DOMAIN Antecedents(a))
      BY <2>5, SequenceDomain
    <3> QED
      BY <3>1, FS_Subset
  <2>7. \A j, k : <<j, k>> \in R <=> j \in S /\ k \in S /\ k < j
    <3> HIDE DEF S
    <3> QED
      BY Zenon
  <2>8. Orders(R, S)
    <3> HIDE DEF R, S
    <3> QED
      BY <2>6, <2>7 DEF Orders
  <2>9. PICK i \in S : \A j \in S : <<j, i>> \notin R
    <3> HIDE DEF R, S
    <3> QED
      BY <2>4, <2>6, <2>8, FirstOf
  <2>10. \A j \in S \ {i} : j < i
    <3> SUFFICES ASSUME NEW j \in S, j # i
                 PROVE  j < i
      OBVIOUS
    <3> HIDE DEF R, S
    <3>1. <<j, i>> \notin R
      BY <2>9
    <3>2. ~(i < j)
      BY <2>7, <3>1
    <3>3. i \in Nat /\ j \in Nat
      BY <2>6
    <3> QED
      BY <3>2, <3>3
  <2>11. ASSUME NEW j \in DOMAIN Antecedents(a) \ {i}
         PROVE  \E x \in 1..n : Fulfils(a, j, x, v) /\ (x = n => j < i)
    <3>1. PICK x \in 1..n : Fulfils(a, j, x, v)
      BY <2>3 DEF IsGrounding
    <3>2. x = n => j < i
      BY <2>10, <3>1
    <3> QED
      BY <3>1, <3>2
  <2>12. i \in DOMAIN Antecedents(a) /\ Fulfils(a, i, n, v)
    OBVIOUS
  <2> HIDE DEF S, R
  <2>13. v \in Matches(a, i, n)
    BY <1>2, <2>3, <2>11, <2>12, MatchesAre DEF IsGrounding
  <2>14. Antecedents(a)[i].head = atoms[n].head
    BY <2>12, FulfilledFits
  <2> DEFINE f == [act |-> a, val |-> v, at |-> i]
  <2>15. f \in Found(n)
    BY <2>12, <2>13, <2>14, InFound
  <2>16. q = <<f.act, f.val>>
    BY <2>2
  <2> QED
    BY <2>15, <2>16
<1>9. ASSUME NEW f \in Found(n), NEW g \in Found(n), f.act = g.act, f.val = g.val
      PROVE  f = g
  <2> DEFINE Is(e, a, v, i) ==
               /\ i \in DOMAIN Antecedents(a)
               /\ e = [act |-> a, val |-> v, at |-> i]
               /\ Fulfils(a, i, n, v)
               /\ \A j \in DOMAIN Antecedents(a) \ {i} :
                    \E x \in 1..n : Fulfils(a, j, x, v) /\ (x = n => j < i)
  <2>1. PICK a, v, i : a \in Actions /\ Is(f, a, v, i)
    BY <1>6
  <2>2. PICK b, w, k : Is(g, b, w, k)
    BY <1>6
  <2>3. f.act = a /\ f.val = v /\ g.act = b /\ g.val = w
    BY <2>1, <2>2
  <2>4. a = b /\ v = w
    BY <1>9, <2>3
  <2>5. i \in Nat /\ k \in Nat
    <3>1. IsSequence(Antecedents(a))
      BY <2>1, AntecedentsOver DEF LiteralsOver
    <3>2. DOMAIN Antecedents(a) \subseteq Nat
      BY <3>1, SequenceDomain
    <3> QED
      BY <2>1, <2>2, <2>4, <3>2
  <2>6. i # k => k < i
    BY <1>4, <2>1, <2>2, <2>4
  <2>7. i # k => i < k
    BY <1>4, <2>1, <2>2, <2>4
  <2>8. i = k
    BY <2>5, <2>6, <2>7
  <2> QED
    BY <2>1, <2>2, <2>4, <2>8
<1> QED
  BY <1>5, <1>7, <1>8, <1>9

(* Later atoms do not change what the first n of them ground. *)
LEMMA GroundingsStay ==
  ASSUME NEW n, UNCHANGED <<d, phase, typing>>, \A x \in 1..n : atoms'[x] = atoms[x]
  PROVE  Groundings(n)' = Groundings(n)
<1>1. Actions' = Actions /\ \A a : Antecedents(a)' = Antecedents(a)
  BY DEF Actions, Antecedents
<1>2. \A a : Valuations(a)' = Valuations(a)
  BY DEF Valuations
<1>3. \A a, v : Compatible(a, v)' <=> Compatible(a, v)
  BY DEF Compatible
<1>4. \A a, v : Satisfies(d.con[a], v)' <=> Satisfies(d.con[a], v)
  BY DEF Satisfies
<1>5. \A a, j, v : \A x \in 1..n : Fulfils(a, j, x, v)' <=> Fulfils(a, j, x, v)
  BY <1>1 DEF Fulfils, Instance
<1>6. \A a, v : IsGrounding(a, v, n)' <=> IsGrounding(a, v, n)
  BY <1>1, <1>3, <1>4, <1>5 DEF IsGrounding
<1>7. \A a : {w \in Valuations(a) : IsGrounding(a, w, n)}' = {w \in Valuations(a) : IsGrounding(a, w, n)}
  BY <1>2, <1>6
<1> QED
  BY <1>1, <1>7 DEF Groundings

LEMMA TurnKeepsJoin ==
  ASSUME JoinInv, ProcessAtom
  PROVE  JoinInv'
<1>1. PICK n : n = done + 1
  OBVIOUS
<1> DEFINE ante == [a \in Actions |-> Antecedents(a)]
           cons == [a \in Actions |-> Consequences(a)]
           g == Emit(Found(n), atoms, output, ante, cons)
<1>2. /\ phase \in {"PG", "TDG"} /\ done < Len(atoms)
      /\ done' = n /\ atoms' = g.atoms /\ output' = g.output
      /\ UNCHANGED <<d, phase, typing>>
  BY <1>1 DEF ProcessAtom, Found
<1>3. ProblemInv /\ GraphInv /\ Lists(output, Groundings(done))
  BY <1>2 DEF JoinInv
<1>4. n \in 1..Len(atoms) /\ done = n - 1 /\ Len(atoms) \in Nat /\ 1..n \subseteq 1..Len(atoms)
  BY <1>1, <1>2, <1>3, SequenceDomain DEF GraphInv
<1>5. IsFiniteSet(Found(n))
  BY <1>2, <1>3, FoundFinite
<1>6. ASSUME NEW f \in Found(n)
      PROVE  IsFiniteSet(DOMAIN cons[f.act])
  <2>1. f.act \in Actions
    BY InFound
  <2>2. IsFiniteSet(DOMAIN Consequences(f.act))
    BY <1>2, <1>3, <2>1, AntecedentsOver
  <2> QED
    BY <2>1, <2>2
<1> HIDE DEF ante, cons
<1>7. /\ IsSequence(g.atoms) /\ IsInjective(g.atoms)
      /\ Len(atoms) <= Len(g.atoms)
      /\ \A k \in 1..Len(atoms) : g.atoms[k] = atoms[k]
      /\ IsSequence(g.output) /\ Len(g.output) = Len(output) + Cardinality(Found(n))
      /\ \A k \in 1..Len(output) : g.output[k] = output[k]
      /\ \A k \in 1..Cardinality(Found(n)) :
           /\ g.output[Len(output) + k].act = SetToSeq(Found(n))[k].act
           /\ g.output[Len(output) + k].val = SetToSeq(Found(n))[k].val
  BY <1>3, <1>5, <1>6, Emitted DEF GraphInv
<1>8. /\ Groundings(n - 1) \subseteq Groundings(n)
      /\ \A f \in Found(n) : <<f.act, f.val>> \in Groundings(n) \ Groundings(n - 1)
      /\ \A q \in Groundings(n) \ Groundings(n - 1) : \E f \in Found(n) : q = <<f.act, f.val>>
      /\ \A e, f \in Found(n) : e.act = f.act /\ e.val = f.val => e = f
  BY <1>2, <1>3, <1>4, FoundAreNew
<1> HIDE DEF g
<1>9. Lists(output', Groundings(n))
  <2> DEFINE P == Groundings(n - 1)
             Q == Groundings(n)
             F == Found(n)
  <2>1. Lists(output, P)
    BY <1>3, <1>4
  <2> HIDE DEF P, Q, F
  <2>2. /\ P \subseteq Q
        /\ \A f \in F : <<f.act, f.val>> \in Q \ P
        /\ \A q \in Q \ P : \E f \in F : q = <<f.act, f.val>>
        /\ \A e, f \in F : e.act = f.act /\ e.val = f.val => e = f
    BY <1>8 DEF P, Q, F
  <2> DEFINE out2 == g.output
  <2>3. /\ IsSequence(out2) /\ Len(out2) = Len(output) + Cardinality(F)
        /\ \A k \in 1..Len(output) : out2[k] = output[k]
        /\ \A k \in 1..Cardinality(F) : /\ out2[Len(output) + k].act = SetToSeq(F)[k].act
                                       /\ out2[Len(output) + k].val = SetToSeq(F)[k].val
    BY <1>7 DEF F
  <2>4. IsFiniteSet(F) /\ IsSequence(output)
    BY <1>3, <1>5 DEF F, GraphInv
  <2> HIDE DEF out2
  <2>5. Lists(out2, Q)
    BY <2>1, <2>2, <2>3, <2>4, Appended
  <2> QED
    BY <1>2, <2>5 DEF Q, out2
<1>10. Groundings(n)' = Groundings(n)
  BY <1>2, <1>4, <1>7, GroundingsStay
<1>11. Groundings(done)' = Groundings(n)'
  BY <1>2 DEF Groundings, IsGrounding
<1>12. GraphInv'
  <2>1. done' \in 0..Len(atoms')
    BY <1>2, <1>4, <1>7, SequenceDomain
  <2> QED
    BY <1>2, <1>7, <2>1 DEF GraphInv
<1>13. ProblemInv'
  BY <1>2, <1>3 DEF ProblemInv
<1> QED
  BY <1>9, <1>10, <1>11, <1>12, <1>13 DEF JoinInv, Lists

----------------------------------------------------------------------------
(* A graph starts with the groundings that need no atom. *)

LEMMA InFree ==
  ASSUME NEW acts, NEW ante, NEW f
  PROVE  f \in Free(acts, ante) <=>
           \E a \in acts : \E v \in Valuations(a) :
             /\ ante[a] = <<>> /\ Satisfies(d.con[a], v) /\ Compatible(a, v)
             /\ f = [act |-> a, val |-> v, at |-> 0]
<1> DEFINE B == {b \in acts : ante[b] = <<>>}
           W(a) == {w \in Valuations(a) : Satisfies(d.con[a], w) /\ Compatible(a, w)}
           Of(a) == {[act |-> a, val |-> v, at |-> 0] : v \in W(a)}
<1>1. f \in Free(acts, ante) <=> \E a \in B : f \in Of(a)
  BY DEF Free
<1>2. \A a : f \in Of(a) <=> \E v \in W(a) : f = [act |-> a, val |-> v, at |-> 0]
  OBVIOUS
<1>3. \A a, v : v \in W(a) <=> v \in Valuations(a) /\ Satisfies(d.con[a], v) /\ Compatible(a, v)
  OBVIOUS
<1>4. \A a : a \in B <=> a \in acts /\ ante[a] = <<>>
  OBVIOUS
<1> HIDE DEF B, W, Of
<1> QED
  BY <1>1, <1>2, <1>3, <1>4

LEMMA FreeFinite ==
  ASSUME ProblemInv, NEW acts, IsFiniteSet(acts), acts \subseteq d.prim \cup d.meth, NEW ante
  PROVE  IsFiniteSet(Free(acts, ante))
<1> DEFINE B == {b \in acts : ante[b] = <<>>}
           W(a) == {w \in Valuations(a) : Satisfies(d.con[a], w) /\ Compatible(a, w)}
           F == [a \in B |-> {[act |-> a, val |-> v, at |-> 0] : v \in W(a)}]
<1>1. IsFiniteSet(B)
  BY FS_Subset
<1>2. ASSUME NEW a \in B
      PROVE  IsFiniteSet(F[a])
  <2> DEFINE V == W(a)
             record == [v \in V |-> [act |-> a, val |-> v, at |-> 0]]
  <2>1. IsFiniteSet(Valuations(a))
    <3>1. a \in d.prim \cup d.meth
      OBVIOUS
    <3>2. IsSequence(d.sort[a]) /\ \A k \in DOMAIN d.sort[a] : IsFiniteSet(d.sort[a][k])
      BY <3>1 DEF ProblemInv, IsProblem
    <3> QED
      BY <3>2, ValuationsFinite
  <2>2. IsFiniteSet(V)
    BY <2>1, FS_Subset
  <2>3. F[a] = {record[v] : v \in V}
    BY DEF F
  <2> HIDE DEF F, V, record
  <2> QED
    BY <2>2, <2>3, FiniteImage
<1>3. Free(acts, ante) = UNION {F[a] : a \in B}
  BY DEF Free
<1> HIDE DEF F, B
<1> QED
  BY <1>1, <1>2, <1>3, FiniteUnion

LEMMA StartMakesJoin ==
  ASSUME ProblemInv, ProblemInv', phase' \in {"PG", "TDG"}, typing' = typing,
         d'.con = d.con, d'.sort = d.sort, d'.typed = d.typed, d'.ceTasks = d.ceTasks,
         NEW initial, IsSequence(initial),
         NEW acts, IsFiniteSet(acts), acts \subseteq d.prim \cup d.meth, Actions' = acts,
         NEW ante, \A a \in acts : IsSequence(ante[a]) /\ Antecedents(a)' = ante[a],
         NEW cons, \A a \in acts : IsFiniteSet(DOMAIN cons[a]),
         StartGraph(initial, acts, ante, cons)
  PROVE  JoinInv'
<1> DEFINE F == Free(acts, ante)
           known == Distinct(initial)
           nil == <<>>
           g == Emit(F, known, nil, ante, cons)
           Q == {<<f.act, f.val>> : f \in F}
<1>1. atoms' = g.atoms /\ output' = g.output /\ done' = 0
  BY DEF StartGraph
<1>2. \A f \in F : \E a \in acts : \E v \in Valuations(a) :
         /\ ante[a] = <<>> /\ Satisfies(d.con[a], v) /\ Compatible(a, v)
         /\ f = [act |-> a, val |-> v, at |-> 0]
  BY InFree
<1>3. IsFiniteSet(F)
  BY FreeFinite
<1>4. IsSequence(known) /\ IsInjective(known)
  BY DistinctLists
<1>5. \A f \in F : IsFiniteSet(DOMAIN cons[f.act])
  BY <1>2
<1>6. IsSequence(nil) /\ Len(nil) = 0
  BY DEF IsSequence
<1>7. Lists(nil, {})
  BY DEF Lists
<1> HIDE DEF F, known, nil
<1>8. /\ IsSequence(g.atoms) /\ IsInjective(g.atoms)
      /\ Len(known) <= Len(g.atoms)
      /\ \A k \in 1..Len(known) : g.atoms[k] = known[k]
      /\ IsSequence(g.output) /\ Len(g.output) = Len(nil) + Cardinality(F)
      /\ \A k \in 1..Len(nil) : g.output[k] = nil[k]
      /\ \A k \in 1..Cardinality(F) :
           /\ g.output[Len(nil) + k].act = SetToSeq(F)[k].act
           /\ g.output[Len(nil) + k].val = SetToSeq(F)[k].val
  <2>1. PICK fs : fs = F
    OBVIOUS
  <2>2. PICK start : start = known
    OBVIOUS
  <2>3. PICK empty : empty = nil
    OBVIOUS
  <2> DEFINE h == Emit(fs, start, empty, ante, cons)
  <2>4. /\ IsSequence(h.atoms) /\ IsInjective(h.atoms)
        /\ Len(start) <= Len(h.atoms)
        /\ \A k \in 1..Len(start) : h.atoms[k] = start[k]
        /\ IsSequence(h.output) /\ Len(h.output) = Len(empty) + Cardinality(fs)
        /\ \A k \in 1..Len(empty) : h.output[k] = empty[k]
        /\ \A k \in 1..Cardinality(fs) :
             /\ h.output[Len(empty) + k].act = SetToSeq(fs)[k].act
             /\ h.output[Len(empty) + k].val = SetToSeq(fs)[k].val
    <3>1. IsFiniteSet(fs) /\ \A f \in fs : IsFiniteSet(DOMAIN cons[f.act])
      BY <1>3, <1>5, <2>1
    <3>2. IsSequence(start) /\ IsInjective(start) /\ IsSequence(empty)
      BY <1>4, <1>6, <2>2, <2>3
    <3> QED
      BY <3>1, <3>2, Emitted
  <2> QED
    BY <2>1, <2>2, <2>3, <2>4
<1>9. \A e, f \in F : e.act = f.act /\ e.val = f.val => e = f
  BY <1>2
<1>10. Lists(output', Q)
  <2> DEFINE out2 == g.output
  <2>1. /\ {} \subseteq Q
        /\ \A f \in F : <<f.act, f.val>> \in Q \ {}
        /\ \A q \in Q \ {} : \E f \in F : q = <<f.act, f.val>>
    OBVIOUS
  <2>2. /\ IsSequence(nil) /\ Lists(nil, {})
        /\ IsSequence(out2) /\ Len(out2) = Len(nil) + Cardinality(F)
        /\ \A k \in 1..Len(nil) : out2[k] = nil[k]
        /\ \A k \in 1..Cardinality(F) : /\ out2[Len(nil) + k].act = SetToSeq(F)[k].act
                                       /\ out2[Len(nil) + k].val = SetToSeq(F)[k].val
    BY <1>6, <1>7, <1>8
  <2> HIDE DEF out2, Q, g
  <2>3. Lists(out2, Q)
    BY <1>3, <1>9, <2>1, <2>2, Appended
  <2> QED
    BY <1>1, <2>3 DEF out2
<1> HIDE DEF g
<1>11. \A a : Valuations(a)' = Valuations(a)
  BY DEF Valuations
<1>12. \A a, v : Compatible(a, v)' <=> Compatible(a, v)
  BY DEF Compatible
<1>13. \A a, v : Satisfies(d.con[a], v)' <=> Satisfies(d.con[a], v)
  BY DEF Satisfies
<1>14. ASSUME NEW a \in acts, NEW v
       PROVE  IsGrounding(a, v, 0)' <=> ante[a] = <<>> /\ Satisfies(d.con[a], v) /\ Compatible(a, v)
  <2>1. ante[a] = <<>> <=> \A j \in DOMAIN ante[a] : FALSE
    <3> DEFINE s == ante[a]
    <3>1. IsSequence(s)
      OBVIOUS
    <3> HIDE DEF s
    <3>2. Len(s) # 0 => 1 \in DOMAIN s
      <4>1. Len(s) \in Nat /\ DOMAIN s = 1..Len(s)
        BY <3>1, SequenceDomain
      <4> QED
        BY <4>1
    <3>3. Len(s) = 0 => s = <<>>
      BY <3>1 DEF IsSequence
    <3>4. s = <<>> => \A j \in DOMAIN s : FALSE
      OBVIOUS
    <3> QED
      BY <3>2, <3>3, <3>4 DEF s
  <2>2. \A j \in DOMAIN ante[a] : ~\E x \in 1..0 : Fulfils(a, j, x, v)'
    OBVIOUS
  <2> QED
    BY <1>12, <1>13, <2>1, <2>2 DEF IsGrounding
<1>15. Groundings(0)' = Q
  <2>1. ASSUME NEW p \in Q
        PROVE  p \in Groundings(0)'
    <3>1. PICK f \in F : p = <<f.act, f.val>>
      OBVIOUS
    <3>2. PICK a \in acts : \E v \in Valuations(a) :
             /\ ante[a] = <<>> /\ Satisfies(d.con[a], v) /\ Compatible(a, v)
             /\ f = [act |-> a, val |-> v, at |-> 0]
      BY <1>2
    <3>3. PICK v \in Valuations(a) :
             /\ ante[a] = <<>> /\ Satisfies(d.con[a], v) /\ Compatible(a, v)
             /\ f = [act |-> a, val |-> v, at |-> 0]
      BY <3>2
    <3>4. a \in Actions' /\ v \in Valuations(a)' /\ IsGrounding(a, v, 0)'
      BY <1>11, <1>14, <3>3
    <3>5. p = <<a, v>>
      BY <3>1, <3>3
    <3> QED
      BY <3>4, <3>5 DEF Groundings
  <2>2. ASSUME NEW p \in Groundings(0)'
        PROVE  p \in Q
    <3>1. PICK a \in Actions' : p \in {<<a, w>> : w \in {u \in Valuations(a)' : IsGrounding(a, u, 0)'}}
      BY DEF Groundings
    <3>2. PICK v \in Valuations(a)' : IsGrounding(a, v, 0)' /\ p = <<a, v>>
      BY <3>1
    <3> DEFINE f == [act |-> a, val |-> v, at |-> 0]
    <3>3. f \in F
      BY <1>11, <1>14, <3>2, InFree DEF F
    <3>4. p = <<f.act, f.val>>
      BY <3>2
    <3> HIDE DEF f
    <3> QED
      BY <3>3, <3>4
  <2> QED
    BY <2>1, <2>2
<1>16. Groundings(done)' = Groundings(0)'
  BY <1>1 DEF Groundings, IsGrounding
<1>17. GraphInv'
  <2>1. Len(atoms') \in Nat
    BY <1>1, <1>8, SequenceDomain
  <2> QED
    BY <1>1, <1>8, <2>1 DEF GraphInv
<1> HIDE DEF Q
<1> QED
  BY <1>10, <1>15, <1>16, <1>17 DEF JoinInv, Lists

LEMMA FactGraphStarts ==
  ASSUME JoinInv, StartPG
  PROVE  JoinInv'
<1>1. /\ phase' = "PG" /\ d' = d /\ typing' = typing
      /\ StartGraph(d.init, d.prim, d.pre, d.add)
  BY DEF StartPG
<1>2. ProblemInv /\ ProblemInv'
  BY <1>1 DEF JoinInv, ProblemInv
<1>3. IsSequence(d.init) /\ IsFiniteSet(d.prim)
  BY <1>2 DEF ProblemInv, IsProblem
<1>4. Actions' = d.prim /\ \A t \in d.prim : Antecedents(t)' = d.pre[t]
  BY <1>1 DEF Actions, Antecedents
<1>5. \A t \in d.prim : IsSequence(d.pre[t]) /\ IsFiniteSet(DOMAIN d.add[t])
  BY <1>2, SequenceDomain DEF ProblemInv, IsProblem, LiteralsOver
<1>6. phase' \in {"PG", "TDG"}
  BY <1>1
<1> QED
  BY <1>1, <1>2, <1>3, <1>4, <1>5, <1>6, StartMakesJoin

LEMMA InitialTasksListed ==
  ASSUME JoinInv, phase = "PG"
  PROVE  IsSequence(InitialTasks)
<1> DEFINE order == SetToSeq(d.prim)
           all == DOMAIN output
           task == [k \in all |-> NumberOf(output[k].act, order)]
           R == {jk \in all \X all :
                   \/ task[jk[1]] < task[jk[2]]
                   \/ task[jk[1]] = task[jk[2]] /\ jk[1] < jk[2]}
           sorted == Ascending(all, R)
           N == Cardinality(all)
<1>1. ProblemInv /\ GraphInv /\ Lists(output, Groundings(done))
  BY DEF JoinInv
<1>2. Len(output) \in Nat /\ all = 1..Len(output) /\ IsFiniteSet(all)
  BY <1>1, SequenceDomain DEF GraphInv
<1>3. IsFiniteSet(d.prim)
  BY <1>1 DEF ProblemInv, IsProblem
<1>4. ASSUME NEW k \in all
      PROVE  task[k] \in Nat
  <2>1. output[k].act \in d.prim
    <3>1. <<output[k].act, output[k].val>> \in Groundings(done)
      BY <1>1 DEF Lists
    <3> QED
      BY <3>1, InGroundings DEF Actions
  <2>2. PICK n \in 1..Cardinality(d.prim) : order[n] = output[k].act
    BY <1>3, <2>1, SetToSeqLists
  <2>3. Cardinality(d.prim) \in Nat /\ DOMAIN order = 1..Cardinality(d.prim)
    BY <1>3, SetToSeqLists
  <2>4. NumberOf(output[k].act, order) \in DOMAIN order
    BY <2>2, <2>3 DEF NumberOf
  <2> QED
    BY <2>3, <2>4
<1>5. \A j, k : <<j, k>> \in R <=>
                    /\ j \in all /\ k \in all
                    /\ task[j] < task[k] \/ (task[j] = task[k] /\ j < k)
  <2> HIDE DEF all, task
  <2> QED
    BY Zenon
<1>6. InitialTasks = [n \in DOMAIN sorted |-> Atom(output[sorted[n]].act, output[sorted[n]].val)]
  <2>1. R = {jk \in all \X all :
               \/ NumberOf(output[jk[1]].act, order) < NumberOf(output[jk[2]].act, order)
               \/ NumberOf(output[jk[1]].act, order) = NumberOf(output[jk[2]].act, order) /\ jk[1] < jk[2]}
    OBVIOUS
  <2> QED
    BY <2>1 DEF InitialTasks
<1> HIDE DEF all, task, R
<1>7. Orders(R, all)
  BY <1>2, <1>4, <1>5 DEF Orders
<1>8. N \in Nat /\ sorted \in [1..N -> all]
  BY <1>2, <1>7, AscendingLists
<1> HIDE DEF sorted, N
<1>9. InitialTasks \in [1..N -> {Atom(output[k].act, output[k].val) : k \in all}]
  BY <1>6, <1>8
<1> QED
  BY <1>8, <1>9, IntervalSequence

LEMMA TaskGraphStarts ==
  ASSUME JoinInv, StartTDG
  PROVE  JoinInv' /\ \A m \in d.meth : Ordered(d', m) = Ordered(d, m)
<1> DEFINE cons == [m \in d.meth |-> <<Atom(d.of[m], d.par[m])>>]
<1>1. /\ phase = "PG" /\ phase' = "TDG" /\ d' = SortSubtasks(d) /\ typing' = typing
      /\ StartGraph(InitialTasks, d.meth, d'.sub, cons)
  BY DEF StartTDG
<1>2. ProblemInv
  BY DEF JoinInv
<1>3. /\ d'.prim = d.prim /\ d'.meth = d.meth /\ d'.sort = d.sort /\ d'.con = d.con
      /\ d'.typed = d.typed /\ d'.ceTasks = d.ceTasks /\ d'.init = d.init
      /\ {"sub", "ord"} \subseteq DOMAIN d'
      /\ IsProblem(d')
      /\ \A m \in d.meth : Ordered(d', m) = Ordered(d, m)
  BY <1>1, <1>2, SortingKeeps DEF ProblemInv
<1>4. ProblemInv' /\ phase' \in {"PG", "TDG"}
  BY <1>1, <1>2, <1>3 DEF ProblemInv
<1>5. IsSequence(InitialTasks)
  BY <1>1, InitialTasksListed
<1>6. IsFiniteSet(d.meth) /\ Actions' = d.meth
  BY <1>1, <1>2, <1>3 DEF ProblemInv, IsProblem, Actions
<1>7. PICK ante : ante = d'.sub
  OBVIOUS
<1>8. \A m \in d.meth : IsSequence(ante[m]) /\ Antecedents(m)' = ante[m]
  BY <1>1, <1>3, <1>7 DEF IsProblem, LiteralsOver, Antecedents
<1>9. ASSUME NEW m \in d.meth
      PROVE  IsFiniteSet(DOMAIN cons[m])
  <2>1. DOMAIN cons[m] = {1}
    OBVIOUS
  <2> QED
    BY <2>1, FS_Singleton
<1>10. PICK initial : initial = InitialTasks
  OBVIOUS
<1>11. PICK acts : acts = d.meth
  OBVIOUS
<1>12. PICK c : c = cons
  OBVIOUS
<1>13. JoinInv'
  <2>1. IsSequence(initial) /\ IsFiniteSet(acts) /\ acts \subseteq d.prim \cup d.meth /\ Actions' = acts
    BY <1>5, <1>6, <1>10, <1>11
  <2>2. \A m \in acts : IsSequence(ante[m]) /\ Antecedents(m)' = ante[m]
    BY <1>8, <1>11
  <2>3. \A m \in acts : IsFiniteSet(DOMAIN c[m])
    BY <1>9, <1>11, <1>12
  <2>4. StartGraph(initial, acts, ante, c)
    BY <1>1, <1>7, <1>10, <1>11, <1>12
  <2> QED
    BY <1>1, <1>2, <1>3, <1>4, <2>1, <2>2, <2>3, <2>4, StartMakesJoin
<1> QED
  BY <1>3, <1>13

LEMMA JoinInitially ==
  ASSUME Init
  PROVE  JoinInv
<1>1. PICK q \in Domains : d = ExpandConditionalEffects(q)
  BY DEF Init
<1>2. ProblemInv
  BY <1>1, ProblemExpanded DEF Init, ProblemInv
<1>3. GraphInv
  BY DEF Init, GraphInv, IsSequence, IsInjective
<1> QED
  BY <1>2, <1>3 DEF Init, JoinInv

LEMMA JoinKept ==
  ASSUME JoinInv, [Next]_vars
  PROVE  JoinInv'
<1>1. CASE TaskDfs
  <2>1. phase = "HT" /\ UNCHANGED <<d, phase, atoms, done, output>>
    BY <1>1 DEF TaskDfs, graph
  <2> QED
    BY <2>1 DEF JoinInv, ProblemInv, GraphInv
<1>2. CASE StartPG
  BY <1>2, FactGraphStarts
<1>3. CASE ProcessAtom
  BY <1>3, TurnKeepsJoin
<1>4. CASE DropPrediction \/ UNCHANGED vars
  <2>1. UNCHANGED <<d, phase, typing, atoms, done, output>>
    BY <1>4 DEF DropPrediction, vars, graph
  <2>2. PICK n : n = done
    OBVIOUS
  <2>3. Groundings(n)' = Groundings(n)
    BY <2>1, GroundingsStay
  <2>4. Groundings(done)' = Groundings(n)'
    BY <2>1, <2>2 DEF Groundings, IsGrounding
  <2> QED
    BY <2>1, <2>2, <2>3, <2>4 DEF JoinInv, ProblemInv, GraphInv, Lists
<1>5. CASE StartTDG
  BY <1>5, TaskGraphStarts
<1>6. CASE Collect
  <2>1. phase' = "Done" /\ UNCHANGED <<d, atoms, done, output>>
    BY <1>6 DEF Collect, graph
  <2> QED
    BY <2>1 DEF JoinInv, ProblemInv, GraphInv
<1> QED
  BY <1>1, <1>2, <1>3, <1>4, <1>5, <1>6 DEF Next

LEMMA JoinAlways == Spec => []JoinInv
<1> QED
  BY JoinInitially, JoinKept, PTL DEF Spec

LEMMA JoinInvIsExact ==
  ASSUME JoinInv
  PROVE  JoinIsExact
<1> SUFFICES ASSUME phase \in {"PG", "TDG"}, done = Len(atoms)
             PROVE  JoinIsExact
  BY DEF JoinIsExact
<1> DEFINE pair == [k \in DOMAIN output |-> [act |-> output[k].act, val |-> output[k].val]]
           found == {[act |-> output[k].act, val |-> output[k].val] : k \in DOMAIN output}
           Reached(a, w) == /\ Satisfies(d.con[a], w) /\ Compatible(a, w)
                            /\ \A j \in DOMAIN Antecedents(a) :
                                 Contains(atoms, Instance(Antecedents(a)[j], w))
           all == UNION {{[act |-> a, val |-> v] : v \in {w \in Valuations(a) : Reached(a, w)}} : a \in Actions}
<1>1. ProblemInv /\ GraphInv /\ Lists(output, Groundings(done))
  BY DEF JoinInv
<1>2. Len(output) \in Nat /\ DOMAIN output = 1..Len(output) /\ IsFiniteSet(DOMAIN output)
  BY <1>1, SequenceDomain DEF GraphInv
<1>3. Cardinality(DOMAIN output) = Len(output)
  <2>1. PICK n \in Nat : n = Len(output)
    BY <1>2
  <2>2. Cardinality(1..n) = n
    BY FS_Interval
  <2> QED
    BY <1>2, <2>1, <2>2
<1>4. Cardinality(found) = Len(output)
  <2>1. pair \in [DOMAIN output -> found]
    OBVIOUS
  <2>2. \A k, l \in DOMAIN output : pair[k] = pair[l] => k = l
    <3> SUFFICES ASSUME NEW k \in DOMAIN output, NEW l \in DOMAIN output, pair[k] = pair[l]
                 PROVE  k = l
      OBVIOUS
    <3>1. output[k].act = output[l].act /\ output[k].val = output[l].val
      OBVIOUS
    <3> QED
      BY <1>1, <3>1 DEF Lists
  <2>3. \A f \in found : \E k \in DOMAIN output : pair[k] = f
    OBVIOUS
  <2> HIDE DEF pair, found
  <2>4. pair \in Bijection(DOMAIN output, found)
    BY <2>1, <2>2, <2>3 DEF Bijection, Injection, IsInjective, Surjection
  <2>5. ExistsBijection(DOMAIN output, found)
    BY <2>4 DEF ExistsBijection
  <2> QED
    BY <1>2, <1>3, <2>5, FS_Bijection
<1>5. \A a, w : IsGrounding(a, w, done) <=> Reached(a, w)
  BY DEF IsGrounding, Fulfils, Contains
<1>6. ASSUME NEW f \in found
      PROVE  f \in all
  <2>1. PICK k \in DOMAIN output : f = [act |-> output[k].act, val |-> output[k].val]
    OBVIOUS
  <2>2. <<output[k].act, output[k].val>> \in Groundings(done)
    BY <1>1 DEF Lists
  <2>3. output[k].act \in Actions /\ output[k].val \in Valuations(output[k].act)
        /\ IsGrounding(output[k].act, output[k].val, done)
    BY <2>2, InGroundings
  <2> HIDE DEF Reached
  <2> QED
    BY <1>5, <2>1, <2>3
<1>7. ASSUME NEW f \in all
      PROVE  f \in found
  <2> HIDE DEF Reached
  <2>1. PICK a \in Actions : f \in {[act |-> a, val |-> v] : v \in {w \in Valuations(a) : Reached(a, w)}}
    OBVIOUS
  <2>2. PICK v \in Valuations(a) : Reached(a, v) /\ f = [act |-> a, val |-> v]
    BY <2>1
  <2>3. <<a, v>> \in Groundings(done)
    BY <1>5, <2>2, InGroundings
  <2>4. PICK k \in DOMAIN output : <<a, v>> = <<output[k].act, output[k].val>>
    BY <1>1, <2>3 DEF Lists
  <2> QED
    BY <2>2, <2>4
<1>8. found = all
  BY <1>6, <1>7
<1> QED
  BY <1>4, <1>8 DEF JoinIsExact

(* In every reachable state in which the queue of a graph is empty, for    *)
(* every problem: the matching of liftedGPG and gpg.h, which joins each    *)
(* atom only with those taken before it and discards groundings early, has *)
(* put out all groundings over the reached atoms and none of them twice.   *)
THEOREM JoinAlwaysExact == Spec => []JoinIsExact
<1> QED
  BY JoinAlways, JoinInvIsExact, PTL

(* Sorting the subtasks of the methods before the graph of tasks never     *)
(* changes which subtasks a method orders.                                 *)
THEOREM SubtaskOrderAlwaysKept == Spec => SubtaskOrderKept
<1>1. ASSUME JoinInv, [Next]_vars
      PROVE  [phase = "PG" /\ phase' = "TDG" => \A m \in d.meth : Ordered(d', m) = Ordered(d, m)]_vars
  <2>1. CASE StartTDG
    BY <1>1, <2>1, TaskGraphStarts
  <2>2. CASE TaskDfs \/ StartPG \/ ProcessAtom \/ DropPrediction \/ Collect
    BY <2>2 DEF TaskDfs, StartPG, ProcessAtom, DropPrediction, Collect
  <2> QED
    BY <1>1, <2>1, <2>2 DEF Next
<1> QED
  BY <1>1, JoinAlways, PTL DEF Spec, SubtaskOrderKept
=============================================================================
