----------------------- MODULE NaiveGroundingProofs -----------------------
(***************************************************************************)
(* Lifted grounding keeps every task and method that the naive grounding   *)
(* needs.  Hierarchy typing admits what an executable decomposition can    *)
(* use; the graph over facts then reaches its facts and puts out its       *)
(* primitive tasks; the graph over tasks composes them to its methods; and *)
(* the final search comes down to all of them.                             *)
(***************************************************************************)
EXTENDS NaiveGrounding, LiftedGPGProofs

----------------------------------------------------------------------------
(* Loops. *)

(* What holds at the first step and from each to the next holds at all.    *)
LEMMA StepByStep ==
  ASSUME NEW N \in Nat, NEW T, 0 \in T, \A k \in 1..N : k - 1 \in T => k \in T
  PROVE  0..N \subseteq T
<1> DEFINE S == (0..N) \ T
           R == {jk \in S \X S : jk[1] < jk[2]}
<1> SUFFICES ASSUME S # {}
             PROVE  FALSE
  OBVIOUS
<1>1. IsFiniteSet(S) /\ S \subseteq Nat
  <2>1. IsFiniteSet(0..N)
    BY FS_Interval
  <2> QED
    BY <2>1, FS_Subset
<1>2. \A j, k : <<j, k>> \in R <=> j \in S /\ k \in S /\ j < k
  BY Zenon
<1>3. \A k \in S : k \in 1..N /\ k - 1 \in S
  OBVIOUS
<1> HIDE DEF S, R
<1>4. Orders(R, S)
  BY <1>1, <1>2 DEF Orders
<1>5. PICK k \in S : \A j \in S : <<j, k>> \notin R
  BY <1>1, <1>4, FirstOf
<1>6. k - 1 \in S /\ k - 1 < k
  BY <1>1, <1>3
<1> QED
  BY <1>2, <1>5, <1>6

LEMMA LoopStays ==
  ASSUME NEW N \in Nat, NEW S, NEW h, h[0] \in S, \A k \in 1..N : h[k - 1] \in S => h[k] \in S
  PROVE  \A k \in 0..N : h[k] \in S
<1> DEFINE T == {k \in 0..N : h[k] \in S}
<1>1. 0 \in T /\ \A k \in 1..N : k - 1 \in T => k \in T
  OBVIOUS
<1> HIDE DEF T
<1>2. 0..N \subseteq T
  BY <1>1, StepByStep
<1> QED
  BY <1>2 DEF T

(* Steps that stay within a set can be made.                               *)
LoopOf(h, N, S, base, F) ==
  h \in [0..N -> S] /\ h[0] = base /\ \A k \in 1..N : h[k] = F[<<h[k - 1], k>>]

LEMMA LoopExists ==
  ASSUME NEW N \in Nat, NEW S, NEW base \in S, NEW F \in [S \X (1..N) -> S]
  PROVE  \E h : LoopOf(h, N, S, base, F)
<1> DEFINE IsLoop(h, n) == h \in [0..n -> S] /\ h[0] = base /\ \A k \in 1..n : h[k] = F[<<h[k - 1], k>>]
           T == {n \in 0..N : \E h : IsLoop(h, n)}
<1>1. 0 \in T
  <2> DEFINE h == [k \in 0..0 |-> base]
  <2>1. h \in [0..0 -> S] /\ h[0] = base
    OBVIOUS
  <2> HIDE DEF h
  <2>2. IsLoop(h, 0)
    BY <2>1
  <2> QED
    BY <2>2
<1>2. ASSUME NEW n \in 1..N, n - 1 \in T
      PROVE  n \in T
  <2>1. PICK h : IsLoop(h, n - 1)
    BY <1>2
  <2> DEFINE g == [k \in 0..n |-> IF k = n THEN F[<<h[n - 1], n>>] ELSE h[k]]
  <2>2. h[n - 1] \in S /\ F[<<h[n - 1], n>>] \in S
    BY <2>1
  <2>3. g \in [0..n -> S] /\ g[0] = base
    BY <2>1, <2>2
  <2>4. ASSUME NEW k \in 1..n
        PROVE  g[k] = F[<<g[k - 1], k>>]
    <3>1. CASE k = n
      <4>1. k \in 0..n /\ k - 1 # n /\ k - 1 \in 0..n
        BY <3>1
      <4>2. g[k] = F[<<h[n - 1], n>>] /\ g[k - 1] = h[n - 1]
        BY <3>1, <4>1
      <4> QED
        BY <3>1, <4>2
    <3>2. CASE k # n
      <4>1. k \in 1..n - 1 /\ k \in 0..n /\ k - 1 # n /\ k - 1 \in 0..n
        BY <3>2
      <4>2. g[k] = h[k] /\ g[k - 1] = h[k - 1]
        BY <3>2, <4>1
      <4>3. h[k] = F[<<h[k - 1], k>>]
        BY <2>1, <4>1
      <4> QED
        BY <4>2, <4>3
    <3> QED
      BY <3>1, <3>2
  <2> HIDE DEF g
  <2>5. IsLoop(g, n)
    BY <2>3, <2>4
  <2> QED
    BY <2>5
<1> HIDE DEF T
<1>3. 0..N \subseteq T
  BY <1>1, <1>2, StepByStep
<1>4. PICK h : IsLoop(h, N)
  <2>1. N \in 0..N
    OBVIOUS
  <2>2. N \in T
    BY <1>3, <2>1
  <2> QED
    BY <2>2 DEF T
<1> QED
  BY <1>4 DEF LoopOf

----------------------------------------------------------------------------
(* Hierarchy typing keeps a valuation in the typings made from one. *)

(* The typings over the variables D with the valuation v. *)
Around(D, V, v) == {q \in [D -> SUBSET V] : \A k \in D : v[k] \in q[k]}

LEMMA ConstrainedKeeps ==
  ASSUME NEW D, NEW V, IsFiniteSet(V), NEW v, NEW con, IsFiniteSet(con),
         \A c \in con : c[2] \in D /\ c[3] \in D, Satisfies(con, v),
         NEW pc \in Around(D, V, v)
  PROVE  Constrained(con, pc) \in Around(D, V, v)
<1> DEFINE cs == SetToSeq(con)
           S == Around(D, V, v)
           N == Len(cs)
           Unequal(q, i, j) == IF Cardinality(q[i]) = 1 THEN [q EXCEPT ![j] = q[j] \ q[i]] ELSE q
           Step(q, k) ==
             LET i == cs[k][2]  j == cs[k][3] IN
             IF cs[k][1]
             THEN [q EXCEPT ![i] = q[i] \cap q[j], ![j] = q[i] \cap q[j]]
             ELSE LET qj == IF Cardinality(q[i]) = 1 THEN [q EXCEPT ![j] = q[j] \ q[i]] ELSE q
                  IN  IF Cardinality(qj[j]) = 1 THEN [qj EXCEPT ![i] = qj[i] \ qj[j]] ELSE qj
<1>1. N \in Nat /\ \A k \in 1..N : cs[k] \in con
  <2>1. Cardinality(con) \in Nat /\ cs \in [1..Cardinality(con) -> con]
    BY SetToSeqLists
  <2> HIDE DEF cs
  <2>2. N = Cardinality(con)
    BY <2>1
  <2> QED
    BY <2>1, <2>2
<1>2. ASSUME NEW q \in S, NEW i \in D, NEW j \in D, v[i] # v[j]
      PROVE  Unequal(q, i, j) \in S
  <2>1. q \in [D -> SUBSET V] /\ \A k \in D : v[k] \in q[k]
    BY DEF Around
  <2>2. CASE Cardinality(q[i]) = 1
    <3>1. IsFiniteSet(q[i])
      BY <2>1, FS_Subset
    <3>2. q[i] = {v[i]}
      BY <2>1, <2>2, <3>1, FS_Singleton
    <3>3. v[j] \in q[j] \ q[i] /\ q[j] \ q[i] \in SUBSET V
      BY <1>2, <2>1, <3>2
    <3> DEFINE p == [q EXCEPT ![j] = q[j] \ q[i]]
    <3>4. p \in [D -> SUBSET V] /\ \A k \in D : p[k] = IF k = j THEN q[j] \ q[i] ELSE q[k]
      BY <2>1, <3>3
    <3> HIDE DEF p
    <3>5. p \in S
      BY <2>1, <3>3, <3>4 DEF Around
    <3> QED
      BY <2>2, <3>5 DEF p
  <2> QED
    BY <2>2
<1>3. ASSUME NEW q \in S, NEW k \in 1..N
      PROVE  Step(q, k) \in S
  <2> DEFINE i == cs[k][2]
             j == cs[k][3]
  <2>1. cs[k] \in con /\ i \in D /\ j \in D /\ (cs[k][1] <=> v[i] = v[j])
    BY <1>1 DEF Satisfies
  <2>2. CASE cs[k][1]
    <3>1. q \in [D -> SUBSET V] /\ \A x \in D : v[x] \in q[x]
      BY DEF Around
    <3>2. v[i] \in q[i] \cap q[j] /\ v[j] \in q[i] \cap q[j] /\ q[i] \cap q[j] \in SUBSET V
      BY <2>1, <2>2, <3>1
    <3> HIDE DEF i, j
    <3> DEFINE p == [q EXCEPT ![i] = q[i] \cap q[j], ![j] = q[i] \cap q[j]]
    <3>3. p \in [D -> SUBSET V] /\ \A x \in D : p[x] = IF x = i \/ x = j THEN q[i] \cap q[j] ELSE q[x]
      BY <2>1, <3>1, <3>2
    <3>4. p \in S
      <4> HIDE DEF p
      <4> QED
        BY <3>1, <3>2, <3>3 DEF Around
    <3> QED
      BY <2>2, <3>4 DEF i, j
  <2>3. CASE ~cs[k][1]
    <3>1. v[i] # v[j]
      BY <2>1, <2>3
    <3> HIDE DEF S, i, j, Unequal
    <3>2. Unequal(q, i, j) \in S
      BY <1>2, <2>1, <3>1
    <3>3. Unequal(Unequal(q, i, j), j, i) \in S
      BY <1>2, <2>1, <3>1, <3>2
    <3> QED
      BY <2>3, <3>3 DEF Unequal, i, j
  <2> QED
    BY <2>2, <2>3
<1> DEFINE F == [p \in S \X (1..N) |-> Step(p[1], p[2])]
           Loop(h) == h = [k \in 0..N |-> IF k = 0 THEN pc ELSE Step(h[k - 1], k)]
           after == CHOOSE h : Loop(h)
<1>4. Constrained(con, pc) = after[N]
  BY DEF Constrained, Iterate
<1> HIDE DEF S, Step, N
<1>5. N \in Nat /\ pc \in S /\ F \in [S \X (1..N) -> S]
  BY <1>1, <1>3 DEF S
<1>6. \E h : Loop(h)
  <2> HIDE DEF F
  <2>1. PICK h : LoopOf(h, N, S, pc, F)
    BY <1>5, LoopExists
  <2>2. ASSUME NEW k \in 1..N
        PROVE  h[k] = Step(h[k - 1], k)
    <3>1. k - 1 \in 0..N /\ h[k - 1] \in S
      BY <1>1, <2>1 DEF LoopOf
    <3>2. F[<<h[k - 1], k>>] = Step(h[k - 1], k)
      BY <3>1 DEF F
    <3> QED
      BY <2>1, <3>2 DEF LoopOf
  <2>3. \A k \in 0..N : k # 0 => k \in 1..N
    BY <1>1
  <2>4. Loop(h)
    BY <2>1, <2>2, <2>3 DEF LoopOf
  <2> QED
    BY <2>4
<1>7. Loop(after)
  <2> HIDE DEF Loop
  <2> QED
    BY <1>6
<1> HIDE DEF after
<1>8. after[0] \in S /\ \A k \in 1..N : after[k - 1] \in S => after[k] \in S
  BY <1>3, <1>5, <1>7
<1>9. after[N] \in S
  BY <1>5, <1>8, LoopStays
<1> QED
  BY <1>4, <1>9 DEF S

LEMMA AroundFinite ==
  ASSUME NEW D, IsFiniteSet(D), NEW V, IsFiniteSet(V), NEW v, NEW pc \in Around(D, V, v)
  PROVE  Cardinality(UNION {{k} \X pc[k] : k \in DOMAIN pc}) \in Nat
<1> DEFINE G == [k \in D |-> {k} \X pc[k]]
<1>1. pc \in [D -> SUBSET V]
  BY DEF Around
<1>2. ASSUME NEW k \in D
      PROVE  IsFiniteSet(G[k])
  <2>1. IsFiniteSet(pc[k]) /\ IsFiniteSet({k})
    BY <1>1, FS_Subset, FS_Singleton
  <2>2. IsFiniteSet({k} \X pc[k])
    BY <2>1, FS_Product
  <2> QED
    BY <2>2
<1>3. UNION {{k} \X pc[k] : k \in DOMAIN pc} = UNION {G[k] : k \in D}
  BY <1>1
<1> HIDE DEF G
<1>4. IsFiniteSet(UNION {G[k] : k \in D})
  BY <1>2, FiniteUnion
<1> QED
  BY <1>3, <1>4, FS_CardinalityType

LEMMA ApplyConstraintsKeeps ==
  ASSUME NEW D, IsFiniteSet(D), NEW V, IsFiniteSet(V), NEW v, NEW con, IsFiniteSet(con),
         \A c \in con : c[2] \in D /\ c[3] \in D, Satisfies(con, v),
         NEW pc \in Around(D, V, v)
  PROVE  ApplyConstraints(con, pc) \in Around(D, V, v)
<1> DEFINE S == Around(D, V, v)
           N == Cardinality(UNION {{k} \X pc[k] : k \in DOMAIN pc})
           Step(q, n) == Constrained(con, q)
<1>1. N \in Nat
  BY AroundFinite
<1>2. ASSUME NEW q \in S, NEW k \in 1..N
      PROVE  Step(q, k) \in S
  BY ConstrainedKeeps
<1> DEFINE F == [p \in S \X (1..N) |-> Step(p[1], p[2])]
           Loop(h) == h = [k \in 0..N |-> IF k = 0 THEN pc ELSE Step(h[k - 1], k)]
           after == CHOOSE h : Loop(h)
<1>3. ApplyConstraints(con, pc) = after[N]
  BY DEF ApplyConstraints, Iterate
<1> HIDE DEF S, Step, N
<1>4. N \in Nat /\ pc \in S /\ F \in [S \X (1..N) -> S]
  BY <1>1, <1>2 DEF S
<1>5. \E h : Loop(h)
  <2> HIDE DEF F
  <2>1. PICK h : LoopOf(h, N, S, pc, F)
    BY <1>4, LoopExists
  <2>2. ASSUME NEW k \in 1..N
        PROVE  h[k] = Step(h[k - 1], k)
    <3>1. k - 1 \in 0..N /\ h[k - 1] \in S
      BY <1>4, <2>1 DEF LoopOf
    <3>2. F[<<h[k - 1], k>>] = Step(h[k - 1], k)
      BY <3>1 DEF F
    <3> QED
      BY <2>1, <3>2 DEF LoopOf
  <2>3. \A k \in 0..N : k # 0 => k \in 1..N
    BY <1>4
  <2>4. Loop(h)
    BY <2>1, <2>2, <2>3 DEF LoopOf
  <2> QED
    BY <2>4
<1>6. Loop(after)
  <2> HIDE DEF Loop
  <2> QED
    BY <1>5
<1> HIDE DEF after
<1>7. after[0] \in S /\ \A k \in 1..N : after[k - 1] \in S => after[k] \in S
  BY <1>2, <1>4, <1>6
<1>8. after[N] \in S
  BY <1>4, <1>7, LoopStays
<1> QED
  BY <1>3, <1>8 DEF S

LEMMA IntersectKeeps ==
  ASSUME NEW a, NEW b, NEW x \in a, x \in b
  PROVE  x \in Intersect(a, b) /\ Intersect(a, b) \subseteq a
<1> QED
  BY DEF Intersect

(* Writing a smaller set that keeps the value of the variable.             *)
LEMMA AroundSmaller ==
  ASSUME NEW D, NEW V, NEW v, NEW q \in Around(D, V, v), NEW x \in D, NEW s, s \subseteq q[x], v[x] \in s
  PROVE  [q EXCEPT ![x] = s] \in Around(D, V, v)
<1> DEFINE p == [q EXCEPT ![x] = s]
<1>1. q \in [D -> SUBSET V] /\ \A k \in D : v[k] \in q[k]
  BY DEF Around
<1>2. p \in [D -> SUBSET V] /\ \A k \in D : p[k] = IF k = x THEN s ELSE q[k]
  BY <1>1
<1> HIDE DEF p
<1>3. p \in Around(D, V, v)
  BY <1>1, <1>2 DEF Around
<1> QED
  BY <1>3 DEF p

(* The states of restricting the variables: what is left, and which are    *)
(* still full.                                                             *)
Restrictions(D, V, v) == [val : Around(D, V, v), full : SUBSET D]

LEMMA FromTaskKeeps ==
  ASSUME NEW m, NEW pc, NEW D, D = DOMAIN d.sort[m], NEW V, NEW v, d.sort[m] \in Around(D, V, v),
         Len(d.par[m]) \in Nat,
         \A k \in 1..Len(d.par[m]) : d.par[m][k] \in D /\ v[d.par[m][k]] \in pc[k]
  PROVE  FromTask(m, pc) \in Restrictions(D, V, v)
<1> USE DEF Restrictions
<1> DEFINE S == Restrictions(D, V, v)
           N == Len(d.par[m])
           base == [val |-> d.sort[m], full |-> DOMAIN d.sort[m]]
           Step(q, k) ==
             LET x == d.par[m][k] IN
             [val |-> [q.val EXCEPT ![x] = IF x \in q.full THEN @ \cap pc[k] ELSE Intersect(@, pc[k])],
              full |-> q.full \ {x}]
<1>1. N \in Nat /\ base \in S
  OBVIOUS
<1>2. ASSUME NEW q \in S, NEW k \in 1..N
      PROVE  Step(q, k) \in S
  <2>1. PICK x \in D : x = d.par[m][k] /\ v[x] \in pc[k]
    BY <1>1
  <2>2. q.val \in Around(D, V, v) /\ q.full \in SUBSET D
    OBVIOUS
  <2>3. v[x] \in q.val[x]
    BY <2>2 DEF Around
  <2>4. PICK s : s = IF x \in q.full THEN q.val[x] \cap pc[k] ELSE Intersect(q.val[x], pc[k])
    OBVIOUS
  <2>5. s \subseteq q.val[x] /\ v[x] \in s
    <3>1. CASE x \in q.full
      BY <2>1, <2>3, <2>4, <3>1
    <3>2. CASE x \notin q.full
      <4>1. s = Intersect(q.val[x], pc[k])
        BY <2>4, <3>2
      <4> QED
        BY <2>1, <2>3, <4>1, IntersectKeeps
    <3> QED
      BY <3>1, <3>2
  <2>6. [q.val EXCEPT ![x] = s] \in Around(D, V, v)
    BY <2>2, <2>5, AroundSmaller
  <2>7. Step(q, k) = [val |-> [q.val EXCEPT ![x] = s], full |-> q.full \ {x}]
    BY <2>1, <2>4
  <2>8. q.full \ {x} \in SUBSET D
    BY <2>2
  <2> QED
    BY <2>6, <2>7, <2>8
<1> HIDE DEF base
<1> DEFINE F == [p \in S \X (1..N) |-> Step(p[1], p[2])]
           Loop(h) == h = [k \in 0..N |-> IF k = 0 THEN base ELSE Step(h[k - 1], k)]
           after == CHOOSE h : Loop(h)
<1>3. FromTask(m, pc) = after[N]
  BY DEF FromTask, base, Iterate
<1> HIDE DEF S, Step, N
<1>4. N \in Nat /\ base \in S /\ F \in [S \X (1..N) -> S]
  BY <1>1, <1>2
<1>5. \E h : Loop(h)
  <2> HIDE DEF F
  <2>1. PICK h : LoopOf(h, N, S, base, F)
    BY <1>4, LoopExists
  <2>2. ASSUME NEW k \in 1..N
        PROVE  h[k] = Step(h[k - 1], k)
    <3>1. k - 1 \in 0..N /\ h[k - 1] \in S
      BY <1>4, <2>1 DEF LoopOf
    <3>2. F[<<h[k - 1], k>>] = Step(h[k - 1], k)
      BY <3>1 DEF F
    <3> QED
      BY <2>1, <3>2 DEF LoopOf
  <2>3. \A k \in 0..N : k # 0 => k \in 1..N
    BY <1>4
  <2>4. Loop(h)
    BY <2>1, <2>2, <2>3 DEF LoopOf
  <2> QED
    BY <2>4
<1>6. Loop(after)
  <2> HIDE DEF Loop
  <2> QED
    BY <1>5
<1> HIDE DEF after
<1>7. after[0] \in S /\ \A k \in 1..N : after[k - 1] \in S => after[k] \in S
  BY <1>2, <1>4, <1>6
<1>8. after[N] \in S
  <2>1. \A k \in 0..N : after[k] \in S
    <3> HIDE DEF S, N
    <3> QED
      BY <1>4, <1>7, LoopStays
  <2>2. N \in 0..N
    BY <1>4
  <2> QED
    BY <2>1, <2>2
<1> QED
  BY <1>3, <1>8 DEF S

LEMMA FromStaticKeeps ==
  ASSUME NEW D, NEW V, NEW v, NEW q \in Restrictions(D, V, v),
         NEW lit, lit.args \in Seq(D),
         StaticPredicate(lit.head) => Instance(lit, v) \in ToSet(d.init)
  PROVE  FromStatic(q, lit) \in Restrictions(D, V, v)
<1> SUFFICES ASSUME StaticPredicate(lit.head), lit.args # <<>>
             PROVE  FromStatic(q, lit) \in Restrictions(D, V, v)
  BY DEF FromStatic
<1> USE DEF Restrictions
<1> DEFINE S == Restrictions(D, V, v)
           N == Len(lit.args)
           Meets(f) == /\ f.head = lit.head
                       /\ \A k \in DOMAIN lit.args : f.args[k] \in q.val[lit.args[k]]
           New(k) == {f.args[k] : f \in {g \in ToSet(d.init) : Meets(g)}}
           smallest == CHOOSE x \in VarsOf(lit) :
                         \A w \in VarsOf(lit) : Cardinality(q.val[x]) <= Cardinality(q.val[w])
           full == IF VarsOf(lit) \subseteq q.full THEN q.full \ {smallest} ELSE q.full
           base == [val |-> q.val, full |-> full]
           Step(r, k) ==
             LET x == lit.args[k] IN
             IF x \in r.full THEN [val |-> [r.val EXCEPT ![x] = @ \cap New(k)], full |-> r.full \ {x}]
             ELSE IF Cardinality(r.val[x]) = Cardinality(New(k)) THEN r
             ELSE [r EXCEPT !.val[x] = Intersect(@, New(k))]
<1>1. N \in Nat /\ DOMAIN lit.args = 1..N /\ \A k \in 1..N : lit.args[k] \in D
  BY SMT
<1>2. q.val \in Around(D, V, v) /\ q.full \in SUBSET D
  OBVIOUS
<1>3. ASSUME NEW k \in 1..N
      PROVE  v[lit.args[k]] \in New(k)
  <2> DEFINE f == Instance(lit, v)
  <2>1. f.head = lit.head /\ \A i \in DOMAIN lit.args : f.args[i] = v[lit.args[i]]
    BY DEF Instance, Atom
  <2>2. f \in ToSet(d.init)
    OBVIOUS
  <2> HIDE DEF f
  <2>3. Meets(f)
    BY <1>1, <1>2, <2>1 DEF Around
  <2>4. f.args[k] = v[lit.args[k]]
    BY <1>1, <2>1
  <2> QED
    BY <2>2, <2>3, <2>4
<1> HIDE DEF New
<1>4. full \in SUBSET D
  BY <1>2
<1> HIDE DEF full
<1>5. base \in S
  BY <1>2, <1>4
<1>6. ASSUME NEW r \in S, NEW k \in 1..N
      PROVE  Step(r, k) \in S
  <2>1. PICK x \in D : x = lit.args[k] /\ v[x] \in New(k)
    BY <1>1, <1>3
  <2>2. r.val \in Around(D, V, v) /\ r.full \in SUBSET D /\ r = [val |-> r.val, full |-> r.full]
    OBVIOUS
  <2>3. v[x] \in r.val[x]
    BY <2>2 DEF Around
  <2>4. CASE x \in r.full
    <3>1. PICK s : s = r.val[x] \cap New(k)
      OBVIOUS
    <3>2. [r.val EXCEPT ![x] = s] \in Around(D, V, v)
      BY <2>1, <2>2, <2>3, <3>1, AroundSmaller
    <3>3. Step(r, k) = [val |-> [r.val EXCEPT ![x] = s], full |-> r.full \ {x}]
      BY <2>1, <2>4, <3>1
    <3>4. r.full \ {x} \in SUBSET D
      BY <2>2
    <3> QED
      BY <3>2, <3>3, <3>4
  <2>5. CASE x \notin r.full /\ Cardinality(r.val[x]) = Cardinality(New(k))
    BY <2>1, <2>5
  <2>6. CASE x \notin r.full /\ Cardinality(r.val[x]) # Cardinality(New(k))
    <3>1. PICK s : s = Intersect(r.val[x], New(k))
      OBVIOUS
    <3>2. s \subseteq r.val[x] /\ v[x] \in s
      BY <2>1, <2>3, <3>1, IntersectKeeps
    <3>3. [r.val EXCEPT ![x] = s] \in Around(D, V, v)
      BY <2>2, <3>2, AroundSmaller
    <3>4. Step(r, k) = [r EXCEPT !.val[x] = s]
      BY <2>1, <2>6, <3>1
    <3>5. [r EXCEPT !.val[x] = s] = [val |-> [r.val EXCEPT ![x] = s], full |-> r.full]
      BY <2>2
    <3> QED
      BY <2>2, <3>3, <3>4, <3>5
  <2> QED
    BY <2>4, <2>5, <2>6
<1>7. FromStatic(q, lit) = Iterate(Step, base, N)
  BY DEF FromStatic, New, full
<1> HIDE DEF base
<1> DEFINE F == [p \in S \X (1..N) |-> Step(p[1], p[2])]
           Loop(h) == h = [k \in 0..N |-> IF k = 0 THEN base ELSE Step(h[k - 1], k)]
           after == CHOOSE h : Loop(h)
<1>8. Iterate(Step, base, N) = after[N]
  BY DEF Iterate
<1> HIDE DEF S, Step, N
<1>9. N \in Nat /\ base \in S /\ F \in [S \X (1..N) -> S]
  BY <1>1, <1>5, <1>6
<1>10. \E h : Loop(h)
  <2> HIDE DEF F
  <2>1. PICK h : LoopOf(h, N, S, base, F)
    BY <1>9, LoopExists
  <2>2. ASSUME NEW k \in 1..N
        PROVE  h[k] = Step(h[k - 1], k)
    <3>1. k - 1 \in 0..N /\ h[k - 1] \in S
      BY <1>9, <2>1 DEF LoopOf
    <3>2. F[<<h[k - 1], k>>] = Step(h[k - 1], k)
      BY <3>1 DEF F
    <3> QED
      BY <2>1, <3>2 DEF LoopOf
  <2>3. \A k \in 0..N : k # 0 => k \in 1..N
    BY <1>9
  <2>4. Loop(h)
    BY <2>1, <2>2, <2>3 DEF LoopOf
  <2> QED
    BY <2>4
<1>11. Loop(after)
  <2> HIDE DEF Loop
  <2> QED
    BY <1>10
<1> HIDE DEF after
<1>12. after[0] \in S /\ \A k \in 1..N : after[k - 1] \in S => after[k] \in S
  BY <1>6, <1>9, <1>11
<1>13. after[N] \in S
  <2>1. \A k \in 0..N : after[k] \in S
    <3> HIDE DEF S, N
    <3> QED
      BY <1>9, <1>12, LoopStays
  <2>2. N \in 0..N
    BY <1>9
  <2> QED
    BY <2>1, <2>2
<1> QED
  BY <1>7, <1>8, <1>13 DEF S

----------------------------------------------------------------------------
(* Sequences put one after the other. *)

Within(s, t) == \A k \in DOMAIN s : \E j \in DOMAIN t : t[j] = s[k]

LEMMA Concatenated ==
  ASSUME NEW T, NEW s \in Seq(T), NEW t \in Seq(T)
  PROVE  s \o t \in Seq(T) /\ Within(s, s \o t) /\ Within(t, s \o t)
<1>1. /\ s \o t \in Seq(T) /\ Len(s) \in Nat /\ Len(t) \in Nat
      /\ Len(s \o t) = Len(s) + Len(t)
      /\ DOMAIN s = 1..Len(s) /\ DOMAIN t = 1..Len(t) /\ DOMAIN (s \o t) = 1..Len(s \o t)
  OBVIOUS
<1>2. ASSUME NEW k \in DOMAIN s
      PROVE  k \in DOMAIN (s \o t) /\ (s \o t)[k] = s[k]
  BY <1>1
<1>3. ASSUME NEW k \in DOMAIN t
      PROVE  Len(s) + k \in DOMAIN (s \o t) /\ (s \o t)[Len(s) + k] = t[k]
  BY <1>1
<1> QED
  BY <1>1, <1>2, <1>3 DEF Within

LEMMA WithinWithin ==
  ASSUME NEW r, NEW s, NEW t, Within(r, s), Within(s, t)
  PROVE  Within(r, t)
<1> SUFFICES ASSUME NEW k \in DOMAIN r
             PROVE  \E j \in DOMAIN t : t[j] = r[k]
  BY DEF Within
<1>1. PICK i \in DOMAIN s : s[i] = r[k]
  BY DEF Within
<1>2. PICK j \in DOMAIN t : t[j] = s[i]
  BY DEF Within
<1> QED
  BY <1>1, <1>2

LEMMA Flattened ==
  ASSUME NEW n \in Nat, NEW T, NEW ss \in [1..n -> Seq(T)]
  PROVE  FlattenSeq(ss) \in Seq(T) /\ \A i \in 1..n : Within(ss[i], FlattenSeq(ss))
<1> DEFINE S == Seq(T)
           F == [p \in S \X (1..n) |-> p[1] \o ss[p[2]]]
           Loop(f) == f = [i \in 1..n |-> IF i = 1 THEN ss[i] ELSE f[i - 1] \o ss[i]]
           flatten == CHOOSE f : Loop(f)
           K == {k \in 0..n : k # 0 => flatten[k] \in S /\ \A i \in 1..k : Within(ss[i], flatten[k])}
<1>1. \A q, t \in S : q \o t \in S
  OBVIOUS
<1>2. Len(ss) = n
  OBVIOUS
<1>3. CASE n = 0
  <2>1. FlattenSeq(ss) = ss
    BY <1>2, <1>3 DEF FlattenSeq
  <2>2. ss \in Seq(T)
    BY <1>3
  <2> QED
    BY <1>3, <2>1, <2>2
<1>4. CASE n # 0
  <2>1. FlattenSeq(ss) = flatten[n]
    BY <1>2, <1>4 DEF FlattenSeq
  <2>2. F \in [S \X (1..n) -> S] /\ <<>> \in S
    <3>1. <<>> \in S
      OBVIOUS
    <3> HIDE DEF S
    <3>2. \A p \in S \X (1..n) : p[1] \in S /\ ss[p[2]] \in S
      BY DEF S
    <3> QED
      BY <1>1, <3>1, <3>2
  <2>3. \E f : Loop(f)
    <3> DEFINE nil == <<>>
    <3>1. PICK h : LoopOf(h, n, S, nil, F)
      <4> HIDE DEF S, F, nil
      <4> QED
        BY <2>2, LoopExists DEF nil
    <3> DEFINE f == [i \in 1..n |-> h[i]]
    <3>2. ASSUME NEW i \in 1..n
          PROVE  h[i] = h[i - 1] \o ss[i] /\ h[i - 1] \in S
      <4>1. i - 1 \in 0..n /\ h[i - 1] \in S
        BY <3>1 DEF LoopOf
      <4>2. F[<<h[i - 1], i>>] = h[i - 1] \o ss[i]
        BY <4>1
      <4> QED
        BY <3>1, <4>1, <4>2 DEF LoopOf
    <3>3. ASSUME NEW i \in 1..n, i = 1
          PROVE  h[i] = ss[i]
      <4>1. h[i] = <<>> \o ss[i]
        <5>1. h[i - 1] = <<>>
          BY <3>1, <3>3 DEF LoopOf
        <5> QED
          BY <3>2, <5>1
      <4>2. ss[i] \in Seq(T)
        OBVIOUS
      <4>3. <<>> \o ss[i] = ss[i]
        BY <4>2
      <4> QED
        BY <4>1, <4>3
    <3>4. ASSUME NEW i \in 1..n, i # 1
          PROVE  h[i] = f[i - 1] \o ss[i]
      <4>1. i - 1 \in 1..n
        BY <3>4
      <4> QED
        BY <3>2, <4>1
    <3>5. Loop(f)
      <4>1. \A i \in 1..n : h[i] = IF i = 1 THEN ss[i] ELSE f[i - 1] \o ss[i]
        BY <3>3, <3>4
      <4> HIDE DEF Loop
      <4>2. f = [i \in 1..n |-> IF i = 1 THEN ss[i] ELSE f[i - 1] \o ss[i]]
        BY <4>1
      <4> QED
        BY <4>2 DEF Loop
    <3> QED
      BY <3>5
  <2>4. Loop(flatten)
    <3> HIDE DEF Loop
    <3> QED
      BY <2>3
  <2> HIDE DEF flatten
  <2>5. 0 \in K
    OBVIOUS
  <2>6. ASSUME NEW k \in 1..n, k - 1 \in K
        PROVE  k \in K
    <3>1. CASE k = 1
      <4>1. flatten[k] = ss[k] /\ ss[k] \in S
        BY <2>4, <3>1
      <4>2. \A i \in 1..k : i = k
        BY <3>1
      <4>3. \A i \in 1..k : Within(ss[i], flatten[k])
        BY <4>1, <4>2 DEF Within
      <4> QED
        BY <4>1, <4>3
    <3>2. CASE k # 1
      <4>1. k - 1 \in 1..n /\ k - 1 # 0
        BY <3>2
      <4>2. flatten[k] = flatten[k - 1] \o ss[k]
        BY <2>4, <3>2
      <4>3. flatten[k - 1] \in S /\ \A i \in 1..k - 1 : Within(ss[i], flatten[k - 1])
        BY <2>6, <4>1
      <4>4. ss[k] \in S
        OBVIOUS
      <4>5. /\ flatten[k] \in S /\ Within(flatten[k - 1], flatten[k]) /\ Within(ss[k], flatten[k])
        BY <4>2, <4>3, <4>4, Concatenated
      <4>6. ASSUME NEW i \in 1..k
            PROVE  Within(ss[i], flatten[k])
        <5>1. i = k \/ i \in 1..k - 1
          BY <4>1
        <5> QED
          BY <4>3, <4>5, <5>1, WithinWithin
      <4> QED
        BY <4>5, <4>6
    <3> QED
      BY <3>1, <3>2
  <2> HIDE DEF K
  <2>7. 0..n \subseteq K
    BY <2>5, <2>6, StepByStep
  <2>8. n \in K
    BY <2>7
  <2> QED
    BY <1>4, <2>1, <2>8 DEF K
<1> QED
  BY <1>3, <1>4

----------------------------------------------------------------------------
(* The typing of a method admits the valuations that its task's typing and *)
(* the static preconditions of its subtasks admit.                         *)

Executable(m, v) ==
  \A j \in DOMAIN d.sub[m] :
    d.sub[m][j].head \in d.prim =>
      \A k \in DOMAIN d.pre[d.sub[m][j].head] :
        StaticPredicate(d.pre[d.sub[m][j].head][k].head) =>
          Instance(d.pre[d.sub[m][j].head][k], Instance(d.sub[m][j], v).args) \in ToSet(d.init)

LEMMA SubtaskOver ==
  ASSUME IsProblem(d), IsHierarchy(d), NEW m \in d.meth, NEW j \in DOMAIN d.sub[m]
  PROVE  LET s == d.sub[m][j]
         IN  /\ s.head \in d.prim \cup d.abs
             /\ s.args \in Seq(DOMAIN d.sort[m])
             /\ s.args \in [DOMAIN d.sort[s.head] -> DOMAIN d.sort[m]]
<1> DEFINE s == d.sub[m][j]
<1>1. s.head \in d.prim \cup d.abs /\ DOMAIN s.args = DOMAIN d.sort[s.head]
  BY DEF IsHierarchy
<1>2. s.args \in Seq(DOMAIN d.sort[m])
  BY DEF IsProblem, LiteralsOver
<1> HIDE DEF s
<1>3. s.args \in [DOMAIN s.args -> DOMAIN d.sort[m]]
  BY <1>2
<1> QED
  BY <1>1, <1>2, <1>3 DEF s

LEMMA InstanceOfInstance ==
  ASSUME NEW p, NEW E, p.args \in Seq(E), NEW D, NEW a, a.args \in Seq(D), DOMAIN a.args = E, NEW v
  PROVE  /\ Instance(p, a.args).args \in Seq(D)
         /\ Instance(p, a.args).head = p.head
         /\ Instance(Instance(p, a.args), v) = Instance(p, Instance(a, v).args)
<1> DEFINE i == Instance(p, a.args)
<1>1. p.args \in [1..Len(p.args) -> E] /\ Len(p.args) \in Nat /\ DOMAIN p.args = 1..Len(p.args)
  OBVIOUS
<1>2. a.args \in [E -> D]
  OBVIOUS
<1>3. i.head = p.head /\ i.args = [k \in DOMAIN p.args |-> a.args[p.args[k]]]
  BY DEF Instance, Atom
<1>4. i.args \in [1..Len(p.args) -> D]
  BY <1>1, <1>2, <1>3
<1>5. i.args \in Seq(D)
  BY <1>1, <1>4
<1>6. Instance(a, v).args = [k \in E |-> v[a.args[k]]]
  BY DEF Instance, Atom
<1>7. \A k \in DOMAIN p.args : v[i.args[k]] = Instance(a, v).args[p.args[k]]
  BY <1>1, <1>3, <1>6
<1>8. DOMAIN i.args = DOMAIN p.args
  BY <1>3
<1> HIDE DEF i
<1>9. [k \in DOMAIN i.args |-> v[i.args[k]]] = [k \in DOMAIN p.args |-> Instance(a, v).args[p.args[k]]]
  BY <1>7, <1>8
<1>10. Instance(i, v) = Instance(p, Instance(a, v).args)
  BY <1>3, <1>9 DEF Instance
<1> QED
  BY <1>3, <1>5, <1>10 DEF i

LEMMA PreconditionsOver ==
  ASSUME IsProblem(d), IsHierarchy(d), NEW m \in d.meth, NEW v, Executable(m, v)
  PROVE  /\ Len(Preconditions(m)) \in Nat
         /\ \A n \in 1..Len(Preconditions(m)) :
              LET lit == Preconditions(m)[n]
              IN  /\ lit.args \in Seq(DOMAIN d.sort[m])
                  /\ StaticPredicate(lit.head) => Instance(lit, v) \in ToSet(d.init)
<1> DEFINE OfSub(s) == IF s.head \notin d.prim THEN <<>>
                       ELSE [k \in DOMAIN d.pre[s.head] |-> Instance(d.pre[s.head][k], s.args)]
           Fine(lit) == /\ lit.args \in Seq(DOMAIN d.sort[m])
                        /\ StaticPredicate(lit.head) => Instance(lit, v) \in ToSet(d.init)
           ss == [k \in DOMAIN d.sub[m] |-> OfSub(d.sub[m][k])]
           Lits(j) == IF d.sub[m][j].head \notin d.prim THEN {}
                      ELSE {Instance(d.pre[d.sub[m][j].head][k], d.sub[m][j].args) :
                              k \in DOMAIN d.pre[d.sub[m][j].head]}
           T == UNION {Lits(j) : j \in DOMAIN d.sub[m]}
           n == Len(d.sub[m])
<1>1. Preconditions(m) = FlattenSeq(ss)
  BY DEF Preconditions
<1>2. n \in Nat /\ DOMAIN d.sub[m] = 1..n
  BY SequenceDomain DEF IsProblem, LiteralsOver
<1>3. ASSUME NEW j \in DOMAIN d.sub[m]
      PROVE  OfSub(d.sub[m][j]) \in Seq(T)
  <2> DEFINE s == d.sub[m][j]
  <2>1. CASE s.head \notin d.prim
    BY <2>1
  <2>2. CASE s.head \in d.prim
    <3>1. Len(d.pre[s.head]) \in Nat /\ DOMAIN d.pre[s.head] = 1..Len(d.pre[s.head])
      BY <2>2, SequenceDomain DEF IsProblem, LiteralsOver
    <3>2. \A k \in DOMAIN d.pre[s.head] : Instance(d.pre[s.head][k], s.args) \in Lits(j)
      BY <2>2
    <3>3. Lits(j) \subseteq T
      OBVIOUS
    <3> HIDE DEF T, Lits
    <3>4. OfSub(s) = [k \in DOMAIN d.pre[s.head] |-> Instance(d.pre[s.head][k], s.args)]
      BY <2>2
    <3> HIDE DEF s, OfSub
    <3>5. OfSub(s) \in [1..Len(d.pre[s.head]) -> T]
      BY <3>1, <3>2, <3>3, <3>4
    <3>6. OfSub(s) \in Seq(T)
      BY <3>1, <3>5
    <3> QED
      BY <3>6 DEF s
  <2> QED
    BY <2>1, <2>2
<1>4. ASSUME NEW lit \in T
      PROVE  Fine(lit)
  <2>1. PICK j \in DOMAIN d.sub[m] : lit \in Lits(j)
    OBVIOUS
  <2> DEFINE s == d.sub[m][j]
  <2>2. s.head \in d.prim
    BY <2>1
  <2>3. PICK k \in DOMAIN d.pre[s.head] : lit = Instance(d.pre[s.head][k], s.args)
    BY <2>1, <2>2
  <2>4. s.args \in Seq(DOMAIN d.sort[m]) /\ DOMAIN s.args = DOMAIN d.sort[s.head]
    BY SubtaskOver
  <2>5. d.pre[s.head][k].args \in Seq(DOMAIN d.sort[s.head])
    BY <2>2 DEF IsProblem, LiteralsOver
  <2>6. StaticPredicate(d.pre[s.head][k].head) =>
          Instance(d.pre[s.head][k], Instance(s, v).args) \in ToSet(d.init)
    BY <2>2 DEF Executable
  <2> HIDE DEF s, Lits, T
  <2>7. PICK p : p = d.pre[s.head][k]
    OBVIOUS
  <2>8. PICK E : E = DOMAIN d.sort[s.head]
    OBVIOUS
  <2>9. PICK D : D = DOMAIN d.sort[m]
    OBVIOUS
  <2>10. PICK a : a = s
    OBVIOUS
  <2>11. p.args \in Seq(E) /\ a.args \in Seq(D) /\ DOMAIN a.args = E
    BY <2>4, <2>5, <2>7, <2>8, <2>9, <2>10
  <2>12. /\ Instance(p, a.args).args \in Seq(D)
         /\ Instance(p, a.args).head = p.head
         /\ Instance(Instance(p, a.args), v) = Instance(p, Instance(a, v).args)
    BY ONLY <2>11, InstanceOfInstance, SMTT(30)
  <2> QED
    BY <2>3, <2>6, <2>7, <2>9, <2>10, <2>12
<1>5. FlattenSeq(ss) \in Seq(T)
  <2> HIDE DEF OfSub, T
  <2>1. ss \in [1..n -> Seq(T)]
    BY <1>2, <1>3
  <2> HIDE DEF ss, n
  <2> QED
    BY <1>2, <2>1, Flattened
<1> HIDE DEF ss, T, Fine
<1>6. /\ Len(FlattenSeq(ss)) \in Nat
      /\ \A i \in 1..Len(FlattenSeq(ss)) : FlattenSeq(ss)[i] \in T
  BY <1>5
<1> QED
  BY <1>1, <1>4, <1>6 DEF Fine

LEMMA MethodTypingKeeps ==
  ASSUME IsProblem(d), IsHierarchy(d), NEW m \in d.meth, NEW pc, NEW v \in Valuations(m),
         Satisfies(d.con[m], v), \A k \in DOMAIN d.par[m] : v[d.par[m][k]] \in pc[k],
         Executable(m, v)
  PROVE  /\ MethodTyping(m, pc) \in Around(DOMAIN d.sort[m], UNION {d.sort[m][k] : k \in DOMAIN d.sort[m]}, v)
         /\ IsFiniteSet(DOMAIN d.sort[m])
         /\ IsFiniteSet(UNION {d.sort[m][k] : k \in DOMAIN d.sort[m]})
<1>0. PICK D, V : D = DOMAIN d.sort[m] /\ V = UNION {d.sort[m][k] : k \in DOMAIN d.sort[m]}
  OBVIOUS
<1> DEFINE lits == Preconditions(m)
           S == Restrictions(D, V, v)
           N == Len(lits)
           base == FromTask(m, pc)
           Step(q, k) == FromStatic(q, lits[k])
           r == IF d.static THEN Iterate(Step, base, N) ELSE base
<1>1. IsFiniteSet(D) /\ IsFiniteSet(V) /\ d.sort[m] \in Around(D, V, v)
  <2>1. IsSequence(d.sort[m]) /\ \A k \in DOMAIN d.sort[m] : IsFiniteSet(d.sort[m][k])
    BY DEF IsProblem
  <2>2. PICK s : s = d.sort[m]
    OBVIOUS
  <2>3. D = DOMAIN s /\ V = UNION {s[k] : k \in D}
    BY <1>0, <2>2
  <2>4. IsFiniteSet(D)
    BY <2>1, <2>2, <2>3, SequenceDomain
  <2>5. IsFiniteSet(V)
    BY <2>1, <2>2, <2>3, <2>4, FiniteUnion
  <2>6. s \in [D -> SUBSET V]
    <3>1. \A k \in D : s[k] \in SUBSET V
      BY <2>3
    <3>2. s = [k \in D |-> s[k]]
      BY <2>1, <2>2, <2>3 DEF IsSequence
    <3> QED
      BY <3>1, <3>2
  <2>7. \A k \in D : v[k] \in s[k]
    BY <1>0, <2>2 DEF Valuations
  <2> QED
    BY <2>2, <2>4, <2>5, <2>6, <2>7 DEF Around
<1>2. base \in S
  <2>1. d.par[m] \in Seq(D)
    BY <1>0 DEF IsHierarchy
  <2>2. Len(d.par[m]) \in Nat /\ DOMAIN d.par[m] = 1..Len(d.par[m])
        /\ \A k \in 1..Len(d.par[m]) : d.par[m][k] \in D
    BY <2>1
  <2> QED
    <3>1. /\ D = DOMAIN d.sort[m] /\ d.sort[m] \in Around(D, V, v) /\ Len(d.par[m]) \in Nat
          /\ \A k \in 1..Len(d.par[m]) : d.par[m][k] \in D /\ v[d.par[m][k]] \in pc[k]
      BY <1>0, <1>1, <2>2
    <3>2. FromTask(m, pc) \in Restrictions(D, V, v)
      BY <3>1, FromTaskKeeps
    <3> QED
      BY <3>2
<1>3. N \in Nat /\ \A k \in 1..N : /\ lits[k].args \in Seq(D)
                                   /\ StaticPredicate(lits[k].head) => Instance(lits[k], v) \in ToSet(d.init)
  BY <1>0, PreconditionsOver
<1>4. ASSUME NEW q \in S, NEW k \in 1..N
      PROVE  Step(q, k) \in S
  BY <1>3, FromStaticKeeps
<1>5. MethodTyping(m, pc) = ApplyConstraints(d.con[m], r.val)
  BY DEF MethodTyping
<1>6. Iterate(Step, base, N) \in S
  <2> DEFINE F == [p \in S \X (1..N) |-> Step(p[1], p[2])]
             Loop(h) == h = [k \in 0..N |-> IF k = 0 THEN base ELSE Step(h[k - 1], k)]
             after == CHOOSE h : Loop(h)
  <2>1. Iterate(Step, base, N) = after[N]
    BY DEF Iterate
  <2> HIDE DEF S, Step, N, base
  <2>2. N \in Nat /\ base \in S /\ F \in [S \X (1..N) -> S]
    BY <1>2, <1>3, <1>4
  <2>3. \E h : Loop(h)
    <3> HIDE DEF F
    <3>1. PICK h : LoopOf(h, N, S, base, F)
      BY <2>2, LoopExists
    <3>2. ASSUME NEW k \in 1..N
          PROVE  h[k] = Step(h[k - 1], k)
      <4>1. k - 1 \in 0..N /\ h[k - 1] \in S
        BY <2>2, <3>1 DEF LoopOf
      <4>2. F[<<h[k - 1], k>>] = Step(h[k - 1], k)
        BY <4>1 DEF F
      <4> QED
        BY <3>1, <4>2 DEF LoopOf
    <3>3. \A k \in 0..N : k # 0 => k \in 1..N
      BY <2>2
    <3>4. Loop(h)
      BY <3>1, <3>2, <3>3 DEF LoopOf
    <3> QED
      BY <3>4
  <2>4. Loop(after)
    <3> HIDE DEF Loop
    <3> QED
      BY <2>3
  <2> HIDE DEF after
  <2>5. after[0] \in S /\ \A k \in 1..N : after[k - 1] \in S => after[k] \in S
    BY <1>4, <2>2, <2>4
  <2>6. after[N] \in S
    <3>1. \A k \in 0..N : after[k] \in S
      <4> HIDE DEF S, N
      <4> QED
        BY <2>2, <2>5, LoopStays
    <3>2. N \in 0..N
      BY <2>2
    <3> QED
      BY <3>1, <3>2
  <2> QED
    BY <2>1, <2>6
<1> HIDE DEF Step, base, N
<1>7. r \in S
  BY <1>2, <1>6
<1> HIDE DEF r
<1>8. r.val \in Around(D, V, v)
  BY <1>7 DEF Restrictions
<1>9. ApplyConstraints(d.con[m], r.val) \in Around(D, V, v)
  <2>1. IsFiniteSet(d.con[m]) /\ \A c \in d.con[m] : c[2] \in D /\ c[3] \in D
    BY <1>0 DEF IsHierarchy
  <2> QED
    BY <1>1, <1>8, <2>1, ApplyConstraintsKeeps
<1> QED
  BY <1>0, <1>1, <1>5, <1>9

----------------------------------------------------------------------------
(* The invariant of hierarchy typing: a method whose task a typing admits  *)
(* has a typing too when it can be executed, and its subtasks are admitted *)
(* by a typing that is recorded or still to be visited.                    *)

TypingAdmits(ty, x, w) == \E pc \in ty[x] : \A k \in DOMAIN w : w[k] \in pc[k]

CallAdmits(call, x, w) == call.task = x /\ \A k \in DOMAIN w : w[k] \in call.pc[k]

Admits(ty, st, x, w) == TypingAdmits(ty, x, w) \/ \E i \in DOMAIN st : CallAdmits(st[i], x, w)

(* The valuations of a method that an executable decomposition may use.    *)
Usable(m, v) ==
  /\ v \in Valuations(m) /\ Satisfies(d.con[m], v) /\ Executable(m, v)
  /\ \A j \in DOMAIN d.sub[m] : Satisfies(d.con[d.sub[m][j].head], Instance(d.sub[m][j], v).args)

Parameters(m, v) == Instance(Atom(d.of[m], d.par[m]), v).args

Refines(ty, st, m, v) ==
  /\ TypingAdmits(ty, m, v)
  /\ \A j \in DOMAIN d.sub[m] : Admits(ty, st, d.sub[m][j].head, Instance(d.sub[m][j], v).args)

StackInv ==
  /\ IsHierarchy(d) /\ d.ceTasks \subseteq d.prim
  /\ DOMAIN typing = d.prim \cup d.abs \cup d.meth
  /\ IsSequence(stack) /\ \A i \in DOMAIN stack : stack[i].task \in d.prim \cup d.abs
  /\ phase # "HT" => stack = <<>>

HierarchyInv ==
  /\ StackInv
  /\ d.typed => Admits(typing, stack, d.top, <<>>)
  /\ \A m \in d.meth : \A v :
       Usable(m, v) /\ TypingAdmits(typing, d.of[m], Parameters(m, v)) => Refines(typing, stack, m, v)

LEMMA SubtaskCallsKeep ==
  ASSUME IsProblem(d), IsHierarchy(d), NEW m \in d.meth, NEW v, Usable(m, v),
         NEW pc, IsFiniteSet(DOMAIN d.sort[m]),
         NEW V, IsFiniteSet(V), pc \in Around(DOMAIN d.sort[m], V, v),
         NEW j \in DOMAIN d.sub[m]
  PROVE  CallAdmits(SubtaskCalls(m, pc)[j], d.sub[m][j].head, Instance(d.sub[m][j], v).args)
<1>1. PICK s : s = d.sub[m][j]
  OBVIOUS
<1>2. PICK D, E : D = DOMAIN d.sort[m] /\ E = DOMAIN d.sort[s.head]
  OBVIOUS
<1> DEFINE w == Instance(s, v).args
           sc == [k \in DOMAIN s.args |-> pc[s.args[k]]]
           con == d.con[s.head]
<1>3. s.head \in d.prim \cup d.abs /\ s.args \in [E -> D]
  BY <1>1, <1>2, SubtaskOver
<1>4. w = [k \in E |-> v[s.args[k]]]
  BY <1>3 DEF Instance, Atom
<1>5. sc \in Around(E, V, w)
  <2>1. pc \in [D -> SUBSET V] /\ \A k \in D : v[k] \in pc[k]
    BY <1>2 DEF Around
  <2>2. sc \in [E -> SUBSET V]
    BY <1>3, <2>1
  <2>3. \A k \in E : w[k] \in sc[k]
    BY <1>3, <1>4, <2>1
  <2> HIDE DEF w, sc
  <2> QED
    BY <2>2, <2>3 DEF Around
<1>6. IsFiniteSet(E)
  <2>1. IsSequence(d.sort[s.head])
    BY <1>3 DEF IsProblem, IsHierarchy
  <2> QED
    BY <1>2, <2>1, SequenceDomain
<1>7. Satisfies(con, w)
  BY <1>1 DEF Usable
<1>8. IsFiniteSet(con) /\ \A c \in con : c[2] \in E /\ c[3] \in E
  BY <1>2, <1>3 DEF IsHierarchy
<1> HIDE DEF w, sc, con
<1>9. ApplyConstraints(con, sc) \in Around(E, V, w)
  BY <1>5, <1>6, <1>7, <1>8, ApplyConstraintsKeeps
<1>10. SubtaskCalls(m, pc)[j] = [task |-> s.head, pc |-> ApplyConstraints(con, sc)]
  BY <1>1 DEF SubtaskCalls, SubtaskTyping, con, sc
<1>11. \A k \in DOMAIN w : w[k] \in ApplyConstraints(con, sc)[k]
  BY <1>4, <1>9 DEF Around
<1>12. Instance(d.sub[m][j], v).args = w /\ d.sub[m][j].head = s.head
  BY <1>1 DEF w
<1> QED
  BY <1>10, <1>11, <1>12 DEF CallAdmits

LEMMA StackTop ==
  ASSUME NEW s, IsSequence(s), s # <<>>
  PROVE  /\ 1 \in DOMAIN s /\ Head(s) = s[1] /\ Tail(s) \in Seq(ToSet(s))
         /\ \A i \in DOMAIN s : i = 1 \/ \E j \in DOMAIN Tail(s) : Tail(s)[j] = s[i]
<1>1. PICK T : T = ToSet(s)
  OBVIOUS
<1>2. s \in Seq(T)
  BY <1>1 DEF IsSequence
<1>3. /\ Len(s) \in Nat /\ Len(s) # 0 /\ DOMAIN s = 1..Len(s) /\ Head(s) = s[1]
      /\ Tail(s) \in Seq(T) /\ Len(Tail(s)) = Len(s) - 1 /\ DOMAIN Tail(s) = 1..Len(s) - 1
      /\ \A j \in 1..Len(s) - 1 : Tail(s)[j] = s[j + 1]
  BY <1>2
<1>4. ASSUME NEW i \in DOMAIN s, i # 1
      PROVE  \E j \in DOMAIN Tail(s) : Tail(s)[j] = s[i]
  <2>1. i - 1 \in 1..Len(s) - 1 /\ i - 1 + 1 = i
    BY <1>3, <1>4
  <2>2. Tail(s)[i - 1] = s[i]
    BY <1>3, <2>1
  <2> QED
    BY <1>3, <2>1, <2>2
<1> QED
  BY <1>1, <1>3, <1>4

(* What was admitted stays admitted when the call taken was settled.       *)
LEMMA AdmitsStays ==
  ASSUME NEW ty, NEW ty2, NEW x, ty[x] \subseteq ty2[x],
         NEW st, IsSequence(st), st # <<>>, NEW st2, Within(Tail(st), st2),
         NEW w, CallAdmits(st[1], x, w) => TypingAdmits(ty2, x, w),
         Admits(ty, st, x, w)
  PROVE  Admits(ty2, st2, x, w)
<1>1. CASE TypingAdmits(ty, x, w)
  BY <1>1 DEF Admits, TypingAdmits
<1>2. CASE \E i \in DOMAIN st : CallAdmits(st[i], x, w)
  <2>1. PICK i \in DOMAIN st : CallAdmits(st[i], x, w)
    BY <1>2
  <2>2. CASE i = 1
    BY <2>1, <2>2 DEF Admits
  <2>3. CASE i # 1
    <3>1. PICK j \in DOMAIN Tail(st) : Tail(st)[j] = st[i]
      BY <2>3, StackTop
    <3>2. PICK l \in DOMAIN st2 : st2[l] = Tail(st)[j]
      BY DEF Within
    <3>3. CallAdmits(st2[l], x, w)
      BY <2>1, <3>1, <3>2
    <3> QED
      BY <3>3 DEF Admits
  <2> QED
    BY <2>2, <2>3
<1> QED
  BY <1>1, <1>2 DEF Admits

(* The arguments of a subtask are a valuation of the variables of its task. *)
LEMMA ArgumentsOver ==
  ASSUME IsProblem(d), IsHierarchy(d), NEW m \in d.meth, NEW j \in DOMAIN d.sub[m], NEW v
  PROVE  DOMAIN Instance(d.sub[m][j], v).args = DOMAIN d.sort[d.sub[m][j].head]
<1> QED
  BY SubtaskOver DEF Instance, Atom

LEMMA KnownCallKeeps ==
  ASSUME ProblemInv, HierarchyInv, TaskDfs,
         NEW old \in typing[Head(stack).task], Included(Head(stack).task, Head(stack).pc, old)
  PROVE  HierarchyInv'
<1>1. /\ stack' = Tail(stack) /\ phase' = phase /\ d' = d /\ typing' = typing
      /\ phase = "HT" /\ stack # <<>>
  BY DEF TaskDfs
<1>2. PICK ty, st, st2 : ty = typing /\ st = stack /\ st2 = Tail(stack)
  OBVIOUS
<1>3. IsSequence(st) /\ st # <<>> /\ IsProblem(d) /\ IsHierarchy(d)
  BY <1>1, <1>2 DEF HierarchyInv, StackInv, ProblemInv
<1>4. /\ 1 \in DOMAIN st /\ Head(st) = st[1] /\ st2 \in Seq(ToSet(st))
      /\ \A i \in DOMAIN st : i = 1 \/ \E j \in DOMAIN st2 : st2[j] = st[i]
  BY <1>2, <1>3, StackTop
<1>5. Within(Tail(st), st2)
  BY <1>2 DEF Within
<1>6. ASSUME NEW x, NEW w, DOMAIN w = DOMAIN d.sort[x], Admits(ty, st, x, w)
      PROVE  Admits(ty, st2, x, w)
  <2>1. ASSUME CallAdmits(st[1], x, w)
        PROVE  TypingAdmits(ty, x, w)
    BY <1>2, <1>4, <1>6, <2>1 DEF CallAdmits, TypingAdmits, Included
  <2> QED
    BY <1>3, <1>5, <1>6, <2>1, AdmitsStays
<1>7. \A m \in d.meth : \A v :
        Usable(m, v) /\ TypingAdmits(ty, d.of[m], Parameters(m, v)) => Refines(ty, st2, m, v)
  <2> SUFFICES ASSUME NEW m \in d.meth, NEW v, Usable(m, v), TypingAdmits(ty, d.of[m], Parameters(m, v))
               PROVE  Refines(ty, st2, m, v)
    OBVIOUS
  <2>1. Refines(ty, st, m, v)
    BY <1>2 DEF HierarchyInv
  <2> QED
    BY <1>3, <1>6, <2>1, ArgumentsOver DEF Refines
<1>8. d.typed => Admits(ty, st2, d.top, <<>>)
  <2>1. DOMAIN <<>> = DOMAIN d.sort[d.top]
    BY <1>3 DEF IsHierarchy
  <2> QED
    BY <1>2, <1>6, <2>1 DEF HierarchyInv
<1>9. IsSequence(st2) /\ \A i \in DOMAIN st2 : st2[i].task \in d.prim \cup d.abs
  <2>1. \A c \in ToSet(st) : c.task \in d.prim \cup d.abs
    BY <1>2 DEF HierarchyInv, StackInv, ToSet
  <2> QED
    BY <1>4, <2>1, SequenceOver
<1>10. StackInv'
  BY <1>1, <1>2, <1>9 DEF HierarchyInv, StackInv
<1>11. ty = typing' /\ st2 = stack' /\ d' = d
  BY <1>1, <1>2
<1>12. \A m, v : (Usable(m, v)' <=> Usable(m, v)) /\ Parameters(m, v)' = Parameters(m, v)
                 /\ (Refines(ty, st2, m, v)' <=> Refines(ty, st2, m, v))
  BY <1>11 DEF Usable, Executable, Parameters, Refines, Valuations, StaticPredicate
<1> QED
  BY <1>7, <1>8, <1>10, <1>11, <1>12 DEF HierarchyInv

(* The methods of a task, listed.                                          *)
LEMMA MethodsListed ==
  ASSUME IsProblem(d), NEW t
  PROVE  /\ Cardinality({m \in d.meth : d.of[m] = t}) \in Nat
         /\ MethodsOf(t) \in [1..Cardinality({m \in d.meth : d.of[m] = t}) -> {m \in d.meth : d.of[m] = t}]
         /\ ToSet(MethodsOf(t)) = {m \in d.meth : d.of[m] = t}
<1>1. PICK M : M = {m \in d.meth : d.of[m] = t}
  OBVIOUS
<1>2. MethodsOf(t) = SetToSeq(M)
  BY <1>1 DEF MethodsOf
<1>3. IsFiniteSet(M)
  BY <1>1, FS_Subset DEF IsProblem
<1>4. /\ Cardinality(M) \in Nat /\ SetToSeq(M) \in [1..Cardinality(M) -> M]
      /\ \A x \in M : \E n \in 1..Cardinality(M) : SetToSeq(M)[n] = x
  BY <1>3, SetToSeqLists
<1>5. ToSet(SetToSeq(M)) = M
  BY <1>4 DEF ToSet
<1> QED
  BY <1>1, <1>2, <1>4, <1>5

LEMMA NewCallKeeps ==
  ASSUME ProblemInv, HierarchyInv, TaskDfs,
         ~\E old \in typing[Head(stack).task] : Included(Head(stack).task, Head(stack).pc, old)
  PROVE  HierarchyInv'
<1> DEFINE call == Head(stack)
           ms == MethodsOf(call.task)
           pcs == [m \in ToSet(ms) |-> MethodTyping(m, call.pc)]
           able == {m \in ToSet(ms) : \A k \in DOMAIN pcs[m] : pcs[m][k] # {}}
           ss == [i \in DOMAIN ms |-> IF ms[i] \in able THEN SubtaskCalls(ms[i], pcs[ms[i]]) ELSE <<>>]
           calls == FlattenSeq(ss)
           M == {m \in d.meth : d.of[m] = call.task}
           C == {c \in UNION {{SubtaskCalls(m, pcs[m])[j] : j \in DOMAIN d.sub[m]} : m \in M} :
                   c.task \in d.prim \cup d.abs}
<1>1. /\ stack' = calls \o Tail(stack) /\ phase' = phase /\ d' = d /\ phase = "HT" /\ stack # <<>>
      /\ typing' = [x \in DOMAIN typing |->
                      IF x = call.task THEN typing[x] \cup {call.pc}
                      ELSE IF x \in able THEN typing[x] \cup {pcs[x]} ELSE typing[x]]
  BY DEF TaskDfs
<1>2. /\ IsSequence(stack) /\ IsProblem(d) /\ IsHierarchy(d)
      /\ \A i \in DOMAIN stack : stack[i].task \in d.prim \cup d.abs
      /\ DOMAIN typing = d.prim \cup d.abs \cup d.meth
  BY <1>1 DEF HierarchyInv, StackInv, ProblemInv
<1>3. /\ 1 \in DOMAIN stack /\ call = stack[1] /\ Tail(stack) \in Seq(ToSet(stack))
      /\ call.task \in d.prim \cup d.abs
  BY <1>1, <1>2, StackTop
<1>4. /\ Cardinality(M) \in Nat /\ ms \in [1..Cardinality(M) -> M] /\ ToSet(ms) = M
  BY <1>2, MethodsListed
<1>5. \A m \in M : m \in d.meth /\ m \notin d.prim \cup d.abs /\ d.of[m] = call.task
  BY <1>2 DEF IsHierarchy
<1>6. able \subseteq M /\ \A m \in M : m \in able <=> \A k \in DOMAIN pcs[m] : pcs[m][k] # {}
  BY <1>4
<1>7. ASSUME NEW m \in M
      PROVE  pcs[m] = MethodTyping(m, call.pc) /\ SubtaskCalls(m, pcs[m]) \in Seq(C)
  <2>1. pcs[m] = MethodTyping(m, call.pc)
    BY <1>4
  <2>2. Len(d.sub[m]) \in Nat /\ DOMAIN d.sub[m] = 1..Len(d.sub[m])
    BY <1>2, <1>5, SequenceDomain DEF IsProblem, LiteralsOver
  <2>3. PICK pc : pc = pcs[m]
    OBVIOUS
  <2>4. ASSUME NEW j \in DOMAIN d.sub[m]
        PROVE  SubtaskCalls(m, pc)[j] \in C
    <3>1. SubtaskCalls(m, pc)[j].task = d.sub[m][j].head
      BY DEF SubtaskCalls, SubtaskTyping
    <3>2. d.sub[m][j].head \in d.prim \cup d.abs
      BY <1>2, <1>5, SubtaskOver
    <3> HIDE DEF pcs, M
    <3> QED
      BY <2>3, <3>1, <3>2
  <2>5. DOMAIN SubtaskCalls(m, pc) = DOMAIN d.sub[m] /\ SubtaskCalls(m, pc) = [j \in DOMAIN d.sub[m] |-> SubtaskCalls(m, pc)[j]]
    BY DEF SubtaskCalls
  <2> HIDE DEF C, pcs, M
  <2>6. SubtaskCalls(m, pc) \in [1..Len(d.sub[m]) -> C]
    BY <2>2, <2>4, <2>5
  <2>7. SubtaskCalls(m, pc) \in Seq(C)
    BY <2>2, <2>6
  <2> QED
    BY <2>1, <2>3, <2>7
<1>8. calls \in Seq(C) /\ \A i \in 1..Cardinality(M) : Within(ss[i], calls)
  <2>1. DOMAIN ms = 1..Cardinality(M) /\ \A i \in 1..Cardinality(M) : ms[i] \in M
    BY <1>4
  <2>2. <<>> \in Seq(C)
    OBVIOUS
  <2> HIDE DEF C, pcs, M, able, ms
  <2>3. ss \in [1..Cardinality(M) -> Seq(C)]
    BY <1>7, <2>1, <2>2
  <2> HIDE DEF ss
  <2> QED
    BY <1>4, <2>3, Flattened
<1>9. \A i \in 1..Cardinality(M) : ms[i] \in able => ss[i] = SubtaskCalls(ms[i], pcs[ms[i]])
  <2>1. DOMAIN ms = 1..Cardinality(M)
    BY <1>4
  <2> HIDE DEF M, ms, able, pcs
  <2> QED
    BY <2>1
<1> HIDE DEF ms, able, ss, calls, M, pcs
<1>10. PICK ty, ty2, st, tl, st2 :
         ty = typing /\ ty2 = typing' /\ st = stack /\ tl = Tail(stack) /\ st2 = calls \o Tail(stack)
  OBVIOUS
<1>11. /\ IsSequence(st2) /\ Within(tl, st2) /\ Within(calls, st2)
       /\ \A i \in DOMAIN st2 : st2[i].task \in d.prim \cup d.abs
  <2> DEFINE T == {c \in C \cup ToSet(stack) : c.task \in d.prim \cup d.abs}
  <2>1. C \subseteq T /\ ToSet(stack) \subseteq T
    <3>1. \A c \in ToSet(stack) : c.task \in d.prim \cup d.abs
      BY <1>2 DEF ToSet
    <3> QED
      BY <3>1
  <2>2. \A c \in T : c.task \in d.prim \cup d.abs
    OBVIOUS
  <2> HIDE DEF C, T
  <2>3. calls \in Seq(T) /\ tl \in Seq(T)
    BY <1>3, <1>8, <1>10, <2>1
  <2>4. st2 \in Seq(T) /\ Within(tl, st2) /\ Within(calls, st2)
    <3>1. PICK cs : cs = calls
      OBVIOUS
    <3>2. cs \in Seq(T) /\ st2 = cs \o tl
      BY <1>10, <2>3, <3>1
    <3> QED
      BY <2>3, <3>1, <3>2, Concatenated
  <2> QED
    BY <2>2, <2>4, SequenceOver
<1> HIDE DEF C
<1>12. \A x : x \in DOMAIN typing => ty[x] \subseteq ty2[x]
  BY <1>1, <1>10
<1>13. /\ call.pc \in ty2[call.task]
       /\ \A x \in d.abs : x = call.task \/ ty2[x] = ty[x]
       /\ ty2[call.task] = ty[call.task] \cup {call.pc}
       /\ \A m \in M : m \in able => pcs[m] \in ty2[m]
  <2>1. \A x \in d.abs : x \notin able
    BY <1>2, <1>5, <1>6 DEF IsHierarchy
  <2> QED
    BY <1>1, <1>2, <1>3, <1>5, <1>6, <1>10, <2>1
<1>14. ASSUME NEW x \in DOMAIN typing, NEW w, Admits(ty, st, x, w)
       PROVE  Admits(ty2, st2, x, w)
  <2>1. ASSUME CallAdmits(st[1], x, w)
        PROVE  TypingAdmits(ty2, x, w)
    BY <1>3, <1>10, <1>13, <2>1 DEF CallAdmits, TypingAdmits
  <2>2. ty[x] \subseteq ty2[x] /\ IsSequence(st) /\ st # <<>> /\ Within(Tail(st), st2)
    BY <1>1, <1>2, <1>10, <1>11, <1>12
  <2> QED
    BY <1>14, <2>1, <2>2, AdmitsStays
<1>15. ASSUME NEW m \in d.meth, NEW v, Usable(m, v), TypingAdmits(ty2, d.of[m], Parameters(m, v))
       PROVE  Refines(ty2, st2, m, v)
  <2>1. d.of[m] \in d.abs /\ m \in DOMAIN typing
    BY <1>2 DEF IsHierarchy
  <2>2. \A j \in DOMAIN d.sub[m] : d.sub[m][j].head \in DOMAIN typing
    BY <1>2, SubtaskOver
  <2>3. CASE TypingAdmits(ty, d.of[m], Parameters(m, v))
    <3>1. Refines(ty, st, m, v)
      BY <1>10, <1>15, <2>3 DEF HierarchyInv
    <3>2. TypingAdmits(ty2, m, v)
      BY <1>12, <2>1, <3>1 DEF Refines, TypingAdmits
    <3>3. \A j \in DOMAIN d.sub[m] : Admits(ty2, st2, d.sub[m][j].head, Instance(d.sub[m][j], v).args)
      BY <1>14, <2>2, <3>1 DEF Refines
    <3> QED
      BY <3>2, <3>3 DEF Refines
  <2>4. CASE ~TypingAdmits(ty, d.of[m], Parameters(m, v))
    <3>1. /\ d.of[m] = call.task /\ m \in M
          /\ \A k \in DOMAIN Parameters(m, v) : Parameters(m, v)[k] \in call.pc[k]
      BY <1>13, <1>15, <2>1, <2>4 DEF TypingAdmits, M
    <3>2. \A k \in DOMAIN d.par[m] : v[d.par[m][k]] \in call.pc[k]
      BY <3>1 DEF Parameters, Instance, Atom
    <3>3. PICK D, V : D = DOMAIN d.sort[m] /\ V = UNION {d.sort[m][k] : k \in DOMAIN d.sort[m]}
      OBVIOUS
    <3>4. PICK pc : pc = call.pc
      OBVIOUS
    <3>5. MethodTyping(m, pc) \in Around(D, V, v) /\ IsFiniteSet(D) /\ IsFiniteSet(V)
      BY <1>2, <1>15, <3>2, <3>3, <3>4, MethodTypingKeeps DEF Usable
    <3>6. PICK mt : mt = pcs[m]
      OBVIOUS
    <3>7. mt \in Around(D, V, v)
      BY <1>7, <3>1, <3>4, <3>5, <3>6
    <3>8. mt \in [D -> SUBSET V] /\ \A k \in D : v[k] \in mt[k]
      BY <3>7 DEF Around
    <3>9. m \in able /\ mt \in ty2[m]
      BY <1>6, <1>13, <3>1, <3>6, <3>8
    <3>10. TypingAdmits(ty2, m, v)
      <4>1. DOMAIN v = D
        BY <1>15, <3>3 DEF Usable, Valuations
      <4> QED
        BY <3>8, <3>9, <4>1 DEF TypingAdmits
    <3>11. PICK i \in 1..Cardinality(M) : ms[i] = m
      BY <1>4, <3>1 DEF ToSet
    <3>12. Within(SubtaskCalls(m, mt), calls)
      BY <1>8, <1>9, <3>6, <3>9, <3>11
    <3>13. ASSUME NEW j \in DOMAIN d.sub[m]
           PROVE  Admits(ty2, st2, d.sub[m][j].head, Instance(d.sub[m][j], v).args)
      <4>1. CallAdmits(SubtaskCalls(m, mt)[j], d.sub[m][j].head, Instance(d.sub[m][j], v).args)
        BY <1>2, <1>15, <3>3, <3>5, <3>7, SubtaskCallsKeep
      <4>2. j \in DOMAIN SubtaskCalls(m, mt)
        BY DEF SubtaskCalls
      <4>3. PICK l \in DOMAIN st2 : st2[l] = SubtaskCalls(m, mt)[j]
        BY <1>11, <3>12, <4>2, WithinWithin DEF Within
      <4> QED
        BY <4>1, <4>3 DEF Admits
    <3> QED
      BY <3>10, <3>13 DEF Refines
  <2> QED
    BY <2>3, <2>4
<1>16. d.typed => Admits(ty2, st2, d.top, <<>>)
  <2>1. d.top \in DOMAIN typing
    BY <1>2 DEF IsHierarchy
  <2> QED
    BY <1>10, <1>14, <2>1 DEF HierarchyInv
<1>17. StackInv'
  <2>1. DOMAIN typing' = DOMAIN typing
    BY <1>1
  <2> QED
    BY <1>1, <1>10, <1>11, <2>1 DEF HierarchyInv, StackInv
<1>18. ty2 = typing' /\ st2 = stack' /\ d' = d
  BY <1>1, <1>10
<1>19. \A m, v : (Usable(m, v)' <=> Usable(m, v)) /\ Parameters(m, v)' = Parameters(m, v)
                 /\ (Refines(ty2, st2, m, v)' <=> Refines(ty2, st2, m, v))
  BY <1>18 DEF Usable, Executable, Parameters, Refines, Valuations, StaticPredicate
<1> QED
  BY <1>15, <1>16, <1>17, <1>18, <1>19 DEF HierarchyInv

LEMMA TaskDfsKeepsHierarchy ==
  ASSUME ProblemInv, HierarchyInv, TaskDfs
  PROVE  HierarchyInv'
<1> QED
  BY KnownCallKeeps, NewCallKeeps

(* Sorting the subtasks permutes them and changes no other part.           *)
LEMMA SubtasksPermuted ==
  ASSUME NEW q, IsProblem(q), {"sub", "ord"} \subseteq DOMAIN q
  PROVE  LET s == SortSubtasks(q)
         IN  /\ s.abs = q.abs /\ s.top = q.top /\ s.del = q.del /\ s.static = q.static /\ s.guards = q.guards
             /\ \A m \in q.meth :
                  /\ \A j \in DOMAIN s.sub[m] : \E i \in DOMAIN q.sub[m] : s.sub[m][j] = q.sub[m][i]
                  /\ \A i \in DOMAIN q.sub[m] : \E j \in DOMAIN s.sub[m] : s.sub[m][j] = q.sub[m][i]
<1> DEFINE sub == [m \in q.meth |-> [k \in DOMAIN q.sub[m] |-> q.sub[m][SortedSubtasks(q, m)[k]]]]
           New(m, i) == NumberOf(i, SortedSubtasks(q, m))
           ord == [m \in q.meth |-> {<<New(m, o[1]), New(m, o[2])>> : o \in q.ord[m]}]
           s == SortSubtasks(q)
<1>1. s = [q EXCEPT !.sub = sub, !.ord = ord]
  BY DEF SortSubtasks
<1> HIDE DEF sub, ord, s
<1>2. /\ s.abs = q.abs /\ s.top = q.top /\ s.del = q.del /\ s.static = q.static /\ s.guards = q.guards
      /\ s.sub = sub
  BY <1>1
<1>3. ASSUME NEW m \in q.meth
      PROVE  /\ \A j \in DOMAIN s.sub[m] : \E i \in DOMAIN q.sub[m] : s.sub[m][j] = q.sub[m][i]
             /\ \A i \in DOMAIN q.sub[m] : \E j \in DOMAIN s.sub[m] : s.sub[m][j] = q.sub[m][i]
  <2> DEFINE sorted == SortedSubtasks(q, m)
             N(i) == NumberOf(i, sorted)
  <2>1. /\ sorted \in [DOMAIN q.sub[m] -> DOMAIN q.sub[m]]
        /\ \A i \in DOMAIN q.sub[m] : N(i) \in DOMAIN q.sub[m] /\ sorted[N(i)] = i
    BY SubtasksListed
  <2>2. s.sub[m] = [k \in DOMAIN q.sub[m] |-> q.sub[m][sorted[k]]]
    BY <1>2 DEF sub
  <2>3. PICK t, r : t = q.sub[m] /\ r = s.sub[m]
    OBVIOUS
  <2> HIDE DEF sorted, N
  <2>4. DOMAIN r = DOMAIN t /\ \A k \in DOMAIN t : r[k] = t[sorted[k]]
    BY <2>2, <2>3
  <2>5. \A i \in DOMAIN t : r[N(i)] = t[i]
    BY <2>1, <2>3, <2>4
  <2> QED
    BY <2>1, <2>3, <2>4, <2>5
<1> QED
  BY <1>2, <1>3 DEF s

(* Therefore it changes neither what can be executed nor what is admitted. *)
LEMMA SortingKeepsHierarchy ==
  ASSUME ProblemInv, HierarchyInv, d' = SortSubtasks(d), typing' = typing,
         stack = <<>>, stack' = stack, phase' # "HT"
  PROVE  HierarchyInv'
<1>1. PICK q, s : q = d /\ s = d'
  OBVIOUS
<1>2. IsProblem(d) /\ {"sub", "ord"} \subseteq DOMAIN d /\ IsHierarchy(d)
  BY DEF ProblemInv, HierarchyInv, StackInv
<1>3. /\ s.prim = q.prim /\ s.meth = q.meth /\ s.sort = q.sort /\ s.con = q.con
      /\ s.of = q.of /\ s.par = q.par /\ s.pre = q.pre /\ s.add = q.add
      /\ s.typed = q.typed /\ s.ceTasks = q.ceTasks /\ s.init = q.init
  BY <1>1, <1>2, SortingKeeps
<1>4. /\ s.abs = q.abs /\ s.top = q.top /\ s.del = q.del
      /\ \A m \in q.meth :
           /\ \A j \in DOMAIN s.sub[m] : \E i \in DOMAIN q.sub[m] : s.sub[m][j] = q.sub[m][i]
           /\ \A i \in DOMAIN q.sub[m] : \E j \in DOMAIN s.sub[m] : s.sub[m][j] = q.sub[m][i]
  BY <1>1, <1>2, SubtasksPermuted
<1>5. IsHierarchy(s)
  <2>1. ASSUME NEW m \in s.meth, NEW j \in DOMAIN s.sub[m]
        PROVE  /\ s.sub[m][j].head \in s.prim \cup s.abs
               /\ DOMAIN s.sub[m][j].args = DOMAIN s.sort[s.sub[m][j].head]
    <3>1. PICK i \in DOMAIN q.sub[m] : s.sub[m][j] = q.sub[m][i]
      BY <1>3, <1>4
    <3> QED
      BY <1>1, <1>2, <1>3, <1>4, <3>1 DEF IsHierarchy
  <2> QED
    BY <1>1, <1>2, <1>3, <1>4, <2>1 DEF IsHierarchy
<1>6. ASSUME NEW m, NEW v
      PROVE  /\ Valuations(m)' = Valuations(m)
             /\ Parameters(m, v)' = Parameters(m, v)
             /\ Satisfies(d.con[m], v)' <=> Satisfies(d.con[m], v)
  BY <1>1, <1>3 DEF Valuations, Parameters, Satisfies, Instance, Atom
<1>7. \A h : StaticPredicate(h)' <=> StaticPredicate(h)
  BY <1>1, <1>3, <1>4 DEF StaticPredicate
<1>8. ASSUME NEW m \in d.meth, NEW v, Usable(m, v)'
      PROVE  Usable(m, v)
  <2>1. ASSUME NEW i \in DOMAIN q.sub[m]
        PROVE  /\ Satisfies(q.con[q.sub[m][i].head], Instance(q.sub[m][i], v).args)
               /\ q.sub[m][i].head \in q.prim =>
                    \A k \in DOMAIN q.pre[q.sub[m][i].head] :
                      StaticPredicate(q.pre[q.sub[m][i].head][k].head) =>
                        Instance(q.pre[q.sub[m][i].head][k], Instance(q.sub[m][i], v).args) \in ToSet(q.init)
    <3>1. PICK j \in DOMAIN s.sub[m] : s.sub[m][j] = q.sub[m][i]
      BY <1>1, <1>4
    <3>2. Satisfies(s.con[s.sub[m][j].head], Instance(s.sub[m][j], v).args)
      BY <1>1, <1>8 DEF Usable, Satisfies, Instance, Atom
    <3>3. s.sub[m][j].head \in s.prim =>
             \A k \in DOMAIN s.pre[s.sub[m][j].head] :
               StaticPredicate(s.pre[s.sub[m][j].head][k].head)' =>
                 Instance(s.pre[s.sub[m][j].head][k], Instance(s.sub[m][j], v).args) \in ToSet(s.init)
      BY <1>1, <1>8 DEF Usable, Executable
    <3> QED
      BY <1>3, <1>7, <3>1, <3>2, <3>3
  <2>2. Executable(m, v)
    BY <1>1, <2>1 DEF Executable
  <2> QED
    BY <1>1, <1>6, <1>8, <2>1, <2>2 DEF Usable
<1>9. ASSUME NEW m \in d.meth, NEW v, Refines(typing, stack, m, v)
      PROVE  Refines(typing, stack, m, v)'
  <2>1. ASSUME NEW j \in DOMAIN s.sub[m]
        PROVE  Admits(typing, stack, s.sub[m][j].head, Instance(s.sub[m][j], v).args)
    <3>1. PICK i \in DOMAIN q.sub[m] : s.sub[m][j] = q.sub[m][i]
      BY <1>1, <1>4
    <3> QED
      BY <1>1, <1>9, <3>1 DEF Refines
  <2>2. PICK ty, st : ty = typing /\ st = stack
    OBVIOUS
  <2>3. TypingAdmits(ty, m, v) /\ ty = typing' /\ st = stack'
    BY <1>9, <2>2 DEF Refines
  <2>4. \A j \in DOMAIN s.sub[m] : Admits(ty, st, s.sub[m][j].head, Instance(s.sub[m][j], v).args)
    BY <2>1, <2>2
  <2> QED
    BY <1>1, <2>3, <2>4 DEF Refines, TypingAdmits
<1>10. StackInv'
  BY <1>1, <1>3, <1>4, <1>5 DEF HierarchyInv, StackInv
<1>11. PICK ty, st : ty = typing /\ st = stack
  OBVIOUS
<1>12. d'.typed => Admits(ty, st, d'.top, <<>>)
  BY <1>1, <1>3, <1>4, <1>11 DEF HierarchyInv
<1>13. ASSUME NEW m \in d'.meth, NEW v, Usable(m, v)', TypingAdmits(typing, d.of[m], Parameters(m, v))'
       PROVE  Refines(typing, stack, m, v)'
  <2>1. m \in d.meth /\ Usable(m, v)
    BY <1>1, <1>3, <1>8, <1>13
  <2>2. TypingAdmits(typing, d.of[m], Parameters(m, v))
    <3>1. PICK w, tp : w = Parameters(m, v) /\ tp = typing
      OBVIOUS
    <3>2. w = Parameters(m, v)' /\ tp = typing' /\ d'.of[m] = d.of[m]
      BY <1>1, <1>3, <1>6, <3>1
    <3>3. TypingAdmits(tp, d'.of[m], w)
      BY <1>13, <3>2 DEF TypingAdmits
    <3> QED
      BY <3>1, <3>2, <3>3
  <2>3. Refines(typing, stack, m, v)
    BY <2>1, <2>2 DEF HierarchyInv
  <2> QED
    BY <1>9, <2>1, <2>3
<1>14. ty = typing' /\ st = stack'
  BY <1>11
<1> QED
  BY <1>10, <1>13, <1>12, <1>14 DEF HierarchyInv

(* The tasks for conditional effects are no part of the hierarchy.         *)
LEMMA HierarchyExpanded ==
  ASSUME NEW q \in Domains
  PROVE  LET e == ExpandConditionalEffects(q)
         IN  IsHierarchy(e) /\ e.ceTasks \subseteq e.prim /\ e.typed = q.typed /\ e.top = q.top
<1> DEFINE CEs == Conditionals(q)
           ceTasks == {c.ce.task : c \in CEs}
           Of(t) == CHOOSE c \in CEs : c.ce.task = t
           CESort(c) == [k \in DOMAIN CEVars(c.ce) |-> q.sort[c.main][CEVars(c.ce)[k]]]
           e == ExpandConditionalEffects(q)
<1>1. /\ e.prim = q.prim \cup ceTasks /\ e.abs = q.abs /\ e.meth = q.meth /\ e.top = q.top
      /\ e.of = q.of /\ e.par = q.par /\ e.sub = q.sub /\ e.typed = q.typed /\ e.ceTasks = ceTasks
  BY DEF ExpandConditionalEffects
<1>2. /\ e.sort = [x \in DOMAIN q.sort \cup ceTasks |-> IF x \in ceTasks THEN CESort(Of(x)) ELSE q.sort[x]]
      /\ e.con = [x \in DOMAIN q.con \cup ceTasks |-> IF x \in ceTasks THEN {} ELSE q.con[x]]
  BY DEF ExpandConditionalEffects
<1>3. \A t \in ceTasks : t \notin q.prim \cup q.abs \cup q.meth
  <2>1. ASSUME NEW c \in CEs
        PROVE  c.ce.task \notin q.prim \cup q.abs \cup q.meth
    <3>1. PICK t \in q.prim : c \in {[main |-> t, ce |-> q.cond[t][k]] : k \in DOMAIN q.cond[t]}
      BY DEF Conditionals
    <3>2. PICK k \in DOMAIN q.cond[t] : c = [main |-> t, ce |-> q.cond[t][k]]
      BY <3>1
    <3>3. q.cond[t][k].task \notin q.prim \cup q.abs \cup q.meth
      BY DomainsAssumption
    <3> QED
      BY <3>2, <3>3
  <2> HIDE DEF CEs
  <2> QED
    BY <2>1
<1>4. /\ IsHierarchy(q) /\ q.prim \cup q.abs \cup q.meth \subseteq DOMAIN q.sort \cap DOMAIN q.con
  BY DomainsAssumption
<1> HIDE DEF e, ceTasks, CESort, Of
<1>5. ASSUME NEW x \in q.prim \cup q.abs \cup q.meth
      PROVE  e.sort[x] = q.sort[x] /\ e.con[x] = q.con[x]
  BY <1>2, <1>3, <1>4
<1>6. \A x \in ceTasks : e.con[x] = {}
  BY <1>2
<1>7. \A x \in e.prim \cup e.abs \cup e.meth :
        /\ IsFiniteSet(e.con[x])
        /\ \A c \in e.con[x] : c[2] \in DOMAIN e.sort[x] /\ c[3] \in DOMAIN e.sort[x]
  BY <1>1, <1>4, <1>5, <1>6, FS_EmptySet DEF IsHierarchy
<1>8. ASSUME NEW m \in e.meth, NEW k \in DOMAIN e.sub[m]
      PROVE  /\ e.sub[m][k].head \in e.prim \cup e.abs
             /\ DOMAIN e.sub[m][k].args = DOMAIN e.sort[e.sub[m][k].head]
  <2>1. q.sub[m][k].head \in q.prim \cup q.abs /\ DOMAIN q.sub[m][k].args = DOMAIN q.sort[q.sub[m][k].head]
    BY <1>1, <1>4 DEF IsHierarchy
  <2> QED
    BY <1>1, <1>5, <2>1
<1>9. \A m \in e.meth : e.of[m] \in e.abs /\ e.par[m] \in Seq(DOMAIN e.sort[m])
  BY <1>1, <1>4, <1>5 DEF IsHierarchy
<1>10. /\ e.top \in e.abs /\ e.sort[e.top] = <<>>
       /\ IsFiniteSet(e.abs) /\ e.abs \cap e.prim = {} /\ e.meth \cap (e.prim \cup e.abs) = {}
       /\ \A t \in e.abs : IsSequence(e.sort[t]) /\ \A k \in DOMAIN e.sort[t] : IsFiniteSet(e.sort[t][k])
  BY <1>1, <1>3, <1>4, <1>5 DEF IsHierarchy
<1>11. IsHierarchy(e)
  BY <1>7, <1>8, <1>9, <1>10 DEF IsHierarchy
<1> QED
  BY <1>1, <1>11 DEF e

LEMMA HierarchyInitially ==
  ASSUME Init
  PROVE  HierarchyInv
<1>1. PICK q \in Domains : /\ d = ExpandConditionalEffects(q) /\ stack = TopCall(q)
                           /\ typing = [x \in d.prim \cup d.abs \cup d.meth |-> {}]
                           /\ phase = "HT"
  BY DEF Init
<1>2. IsHierarchy(d) /\ d.ceTasks \subseteq d.prim /\ d.typed = q.typed /\ d.top = q.top
  BY <1>1, HierarchyExpanded
<1>3. IsSequence(stack) /\ \A i \in DOMAIN stack : stack[i].task \in d.prim \cup d.abs
  <2>1. PICK c : c = [task |-> d.top, pc |-> <<>>]
    OBVIOUS
  <2>2. stack = <<c>> \/ stack = <<>>
    BY <1>1, <1>2, <2>1 DEF TopCall
  <2>3. stack \in Seq({c})
    <3>1. <<c>> \in Seq({c})
      OBVIOUS
    <3>2. <<>> \in Seq({c})
      OBVIOUS
    <3> QED
      BY <2>2, <3>1, <3>2
  <2>4. c.task \in d.abs
    BY <1>2, <2>1 DEF IsHierarchy
  <2> QED
    BY <2>3, <2>4, SequenceOver
<1>4. ASSUME d.typed
      PROVE  Admits(typing, stack, d.top, <<>>)
  <2>1. 1 \in DOMAIN stack /\ stack[1] = [task |-> d.top, pc |-> <<>>]
    BY <1>1, <1>2, <1>4 DEF TopCall
  <2>2. CallAdmits(stack[1], d.top, <<>>)
    BY <2>1 DEF CallAdmits
  <2> QED
    BY <2>1, <2>2 DEF Admits
<1>5. \A m \in d.meth : typing[d.of[m]] = {}
  BY <1>1, <1>2 DEF IsHierarchy
<1> QED
  BY <1>1, <1>2, <1>3, <1>4, <1>5 DEF HierarchyInv, StackInv, TypingAdmits

(* The hierarchy does not depend on the graph.                             *)
LEMMA HierarchyStays ==
  ASSUME HierarchyInv, UNCHANGED <<d, stack, typing>>, phase' # "HT" => stack = <<>>
  PROVE  HierarchyInv'
<1>1. PICK ty, st : ty = typing /\ st = stack
  OBVIOUS
<1>2. ty = typing' /\ st = stack' /\ d' = d
  BY <1>1
<1>3. \A m, v : (Usable(m, v)' <=> Usable(m, v)) /\ Parameters(m, v)' = Parameters(m, v)
                /\ (Refines(ty, st, m, v)' <=> Refines(ty, st, m, v))
  BY <1>2 DEF Usable, Executable, Parameters, Refines, Valuations, StaticPredicate
<1>4. \A m \in d.meth : \A v :
        Usable(m, v) /\ TypingAdmits(ty, d.of[m], Parameters(m, v)) => Refines(ty, st, m, v)
  BY <1>1 DEF HierarchyInv
<1>5. d.typed => Admits(ty, st, d.top, <<>>)
  BY <1>1 DEF HierarchyInv
<1>6. StackInv'
  BY <1>2 DEF HierarchyInv, StackInv
<1> QED
  BY <1>2, <1>3, <1>4, <1>5, <1>6 DEF HierarchyInv

LEMMA HierarchyKept ==
  ASSUME ProblemInv, HierarchyInv, [Next]_vars
  PROVE  HierarchyInv'
<1>1. CASE TaskDfs
  BY <1>1, TaskDfsKeepsHierarchy
<1>2. CASE StartTDG
  <2>1. phase = "PG" /\ phase' = "TDG" /\ d' = SortSubtasks(d) /\ typing' = typing /\ stack' = stack
    BY <1>2 DEF StartTDG
  <2>2. stack = <<>> /\ phase' # "HT"
    BY <2>1 DEF HierarchyInv, StackInv
  <2> QED
    BY <2>1, <2>2, SortingKeepsHierarchy
<1>3. CASE StartPG \/ ProcessAtom \/ DropPrediction \/ Collect \/ UNCHANGED vars
  <2>1. UNCHANGED <<d, stack, typing>> /\ (phase' = "HT" => phase = "HT") /\ (StartPG => stack = <<>>)
    BY <1>3 DEF StartPG, ProcessAtom, DropPrediction, Collect, vars, graph
  <2>2. phase' # "HT" => stack = <<>>
    <3>1. phase # "HT" => stack = <<>>
      BY DEF HierarchyInv, StackInv
    <3>2. StartPG \/ phase' = phase \/ phase = "TDG"
      BY <1>3 DEF StartPG, ProcessAtom, DropPrediction, Collect, vars, graph
    <3> QED
      BY <2>1, <3>1, <3>2
  <2> QED
    BY <2>1, <2>2, HierarchyStays
<1> QED
  BY <1>1, <1>2, <1>3 DEF Next

LEMMA HierarchyAlways == Spec => []HierarchyInv
<1>1. JoinInv /\ HierarchyInv /\ [Next]_vars => HierarchyInv'
  BY HierarchyKept DEF JoinInv
<1> QED
  BY <1>1, HierarchyInitially, JoinAlways, PTL DEF Spec

----------------------------------------------------------------------------
(* What a graph puts out carries the numbers of its antecedents and of     *)
(* what it adds.                                                           *)

NumbersAre(ns, lits, v, all) ==
  /\ DOMAIN ns = DOMAIN lits
  /\ \A j \in DOMAIN lits : ns[j] \in DOMAIN all /\ all[ns[j]] = Instance(lits[j], v)

LEMMA EmittedNumbers ==
  ASSUME NEW found, IsFiniteSet(found),
         NEW known, IsSequence(known),
         NEW out, IsSequence(out), NEW ante, NEW cons,
         \A f \in found : IsFiniteSet(DOMAIN cons[f.act]),
         \A f \in found : \A j \in DOMAIN ante[f.act] : Instance(ante[f.act][j], f.val) \in ToSet(known)
  PROVE  LET g == Emit(found, known, out, ante, cons)
         IN  \A k \in 1..Cardinality(found) :
               LET o == g.output[Len(out) + k]
               IN  /\ NumbersAre(o.ante, ante[o.act], o.val, g.atoms)
                   /\ NumbersAre(o.add, cons[o.act], o.val, g.atoms)
<1> DEFINE added == UNION {{Instance(cons[f.act][k], f.val) : k \in DOMAIN cons[f.act]} : f \in found}
           new == added \ ToSet(known)
           sn == SetToSeq(new)
           all == known \o sn
           fs == SetToSeq(found)
           Numbers(lits, f) == [k \in DOMAIN lits |-> NumberOf(Instance(lits[k], f.val), all)]
           late == [k \in DOMAIN fs |->
                      [act |-> fs[k].act, val |-> fs[k].val,
                       ante |-> Numbers(ante[fs[k].act], fs[k]), add |-> Numbers(cons[fs[k].act], fs[k])]]
           g == Emit(found, known, out, ante, cons)
           N == Cardinality(found)
<1>1. g.atoms = all /\ g.output = out \o late
  BY DEF Emit
<1>2. IsFiniteSet(new)
  <2> DEFINE F == [f \in found |-> {Instance(cons[f.act][k], f.val) : k \in DOMAIN cons[f.act]}]
  <2>1. ASSUME NEW f \in found
        PROVE  IsFiniteSet(F[f])
    <3> DEFINE i == [k \in DOMAIN cons[f.act] |-> Instance(cons[f.act][k], f.val)]
    <3>1. F[f] = {i[k] : k \in DOMAIN cons[f.act]}
      OBVIOUS
    <3> HIDE DEF i, F
    <3> QED
      BY <3>1, FiniteImage
  <2>2. added = UNION {F[f] : f \in found}
    OBVIOUS
  <2> HIDE DEF F, added
  <2>3. IsFiniteSet(added)
    BY <2>1, <2>2, FiniteUnion
  <2> QED
    BY <2>3, FS_Difference
<1>3. \A f \in found : \A j \in DOMAIN cons[f.act] :
        Instance(cons[f.act][j], f.val) \in ToSet(known) \cup new
  OBVIOUS
<1> HIDE DEF g, new
<1>4. ToSet(known) \cup new \subseteq ToSet(all)
  <2>1. /\ Cardinality(new) \in Nat /\ sn \in [1..Cardinality(new) -> new]
        /\ \A x \in new : \E n \in 1..Cardinality(new) : sn[n] = x
    BY <1>2, SetToSeqLists
  <2>2. PICK T : T = ToSet(known) \cup new
    OBVIOUS
  <2>3. known \in Seq(T) /\ \A x \in ToSet(known) : \E n \in DOMAIN known : known[n] = x
    <3>1. ToSet(known) \subseteq T /\ known \in Seq(ToSet(known))
      BY <2>2 DEF IsSequence
    <3>2. \A x \in ToSet(known) : \E n \in DOMAIN known : known[n] = x
      BY DEF ToSet
    <3> QED
      BY <3>1, <3>2
  <2> HIDE DEF sn
  <2>4. sn \in Seq(T) /\ DOMAIN sn = 1..Cardinality(new)
    BY <2>1, <2>2
  <2>5. Within(known, all) /\ Within(sn, all)
    BY <2>3, <2>4, Concatenated
  <2>6. \A x \in T : \E n \in DOMAIN all : all[n] = x
    <3> HIDE DEF all
    <3> QED
      BY <2>1, <2>2, <2>3, <2>4, <2>5 DEF Within
  <2> HIDE DEF all
  <2> QED
    BY <2>2, <2>6 DEF ToSet
<1> HIDE DEF sn, all
<1>5. ASSUME NEW lits, NEW f, \A j \in DOMAIN lits : Instance(lits[j], f.val) \in ToSet(all)
      PROVE  NumbersAre(Numbers(lits, f), lits, f.val, all)
  <2>1. ASSUME NEW x \in ToSet(all)
        PROVE  NumberOf(x, all) \in DOMAIN all /\ all[NumberOf(x, all)] = x
    BY DEF ToSet, NumberOf
  <2> QED
    BY <1>5, <2>1 DEF NumbersAre
<1>6. N \in Nat /\ fs \in [1..N -> found]
  BY SetToSeqLists
<1> HIDE DEF fs, Numbers
<1>7. /\ DOMAIN late = 1..N /\ late \in [1..N -> ToSet(late)]
      /\ \A k \in 1..N : /\ late[k].act = fs[k].act /\ late[k].val = fs[k].val
                         /\ late[k].ante = Numbers(ante[fs[k].act], fs[k])
                         /\ late[k].add = Numbers(cons[fs[k].act], fs[k])
  BY <1>6 DEF ToSet
<1> HIDE DEF late, N
<1>8. \A k \in 1..N : (out \o late)[Len(out) + k] = late[k]
  <2>1. PICK T : T = ToSet(out) \cup ToSet(late)
    OBVIOUS
  <2>2. ToSet(out) \subseteq T /\ ToSet(late) \subseteq T
    BY <2>1
  <2>3. out \in Seq(T) /\ Len(out) \in Nat
    BY <2>2 DEF IsSequence
  <2>4. late \in Seq(T) /\ Len(late) = N
    BY <1>6, <1>7, <2>2
  <2> QED
    BY <1>6, <2>3, <2>4
<1>9. ASSUME NEW k \in 1..N
      PROVE  LET o == g.output[Len(out) + k]
             IN  /\ NumbersAre(o.ante, ante[o.act], o.val, g.atoms)
                 /\ NumbersAre(o.add, cons[o.act], o.val, g.atoms)
  <2>1. fs[k] \in found
    BY <1>6
  <2>2. PICK f : f = fs[k]
    OBVIOUS
  <2>3. NumbersAre(Numbers(ante[f.act], f), ante[f.act], f.val, all)
    BY <1>4, <1>5, <2>1, <2>2
  <2>4. NumbersAre(Numbers(cons[f.act], f), cons[f.act], f.val, all)
    BY <1>3, <1>4, <1>5, <2>1, <2>2
  <2>5. g.output[Len(out) + k] = late[k]
    BY <1>1, <1>8
  <2> QED
    BY <1>1, <1>7, <2>2, <2>3, <2>4, <2>5
<1> QED
  BY <1>9 DEF g, N

(* Distinct leaves out nothing.                                            *)
LEMMA DistinctListsAll ==
  ASSUME NEW s, IsSequence(s)
  PROVE  ToSet(s) \subseteq ToSet(Distinct(s))
<1> DEFINE first == {k \in DOMAIN s : \A j \in 1..k - 1 : s[j] # s[k]}
           R == {jk \in first \X first : jk[1] < jk[2]}
           order == Ascending(first, R)
<1>1. /\ Len(s) \in Nat /\ DOMAIN s = 1..Len(s) /\ IsFiniteSet(DOMAIN s)
  BY SequenceDomain
<1>2. IsFiniteSet(first) /\ \A k \in first : k \in Nat
  <2>1. first \subseteq DOMAIN s
    OBVIOUS
  <2> HIDE DEF first
  <2> QED
    BY <1>1, <2>1, FS_Subset
<1>3. \A j, k : <<j, k>> \in R <=> j \in first /\ k \in first /\ j < k
  <2> HIDE DEF first
  <2> QED
    BY Zenon
<1>4. ASSUME NEW x \in ToSet(s)
      PROVE  \E k \in first : s[k] = x
  <2> DEFINE P == {k \in DOMAIN s : s[k] = x}
             Q == {jk \in P \X P : jk[1] < jk[2]}
  <2>1. P # {} /\ P \subseteq DOMAIN s
    BY DEF ToSet
  <2>2. IsFiniteSet(P) /\ \A k \in P : k \in Nat
    <3> HIDE DEF P
    <3> QED
      BY <1>1, <2>1, FS_Subset
  <2>3. \A j, k : <<j, k>> \in Q <=> j \in P /\ k \in P /\ j < k
    <3> HIDE DEF P
    <3> QED
      BY Zenon
  <2>4. \A k : k \in P <=> k \in DOMAIN s /\ s[k] = x
    OBVIOUS
  <2> HIDE DEF P, Q
  <2>5. Orders(Q, P)
    BY <2>2, <2>3 DEF Orders
  <2>6. PICK k \in P : \A j \in P : <<j, k>> \notin Q
    BY <2>1, <2>2, <2>5, FirstOf
  <2>7. ASSUME NEW j \in 1..k - 1, s[j] = s[k]
        PROVE  FALSE
    <3>1. k \in 1..Len(s)
      BY <1>1, <2>4
    <3>2. j \in DOMAIN s /\ j < k
      BY <1>1, <3>1
    <3> QED
      BY <2>3, <2>4, <2>6, <2>7, <3>2
  <2> QED
    BY <2>4, <2>6, <2>7
<1> HIDE DEF first, R
<1>5. Orders(R, first)
  BY <1>2, <1>3 DEF Orders
<1>6. /\ order \in [1..Cardinality(first) -> first]
      /\ \A k \in first : Rank(first, R, k) \in 1..Cardinality(first) /\ order[Rank(first, R, k)] = k
  BY <1>2, <1>5, AscendingLists
<1>7. Distinct(s) = [n \in DOMAIN order |-> s[order[n]]]
  BY DEF Distinct, first, R
<1> HIDE DEF order
<1>8. ASSUME NEW x \in ToSet(s)
      PROVE  \E n \in DOMAIN Distinct(s) : Distinct(s)[n] = x
  <2>1. PICK k \in first : s[k] = x
    BY <1>4
  <2>2. Rank(first, R, k) \in DOMAIN order /\ order[Rank(first, R, k)] = k
    BY <1>6
  <2> QED
    BY <1>7, <2>1, <2>2
<1> QED
  BY <1>8 DEF ToSet

LabelsInv ==
  phase \in {"PG", "TDG"} =>
    \A k \in DOMAIN output :
      /\ NumbersAre(output[k].ante, Antecedents(output[k].act), output[k].val, atoms)
      /\ NumbersAre(output[k].add, Consequences(output[k].act), output[k].val, atoms)

LEMMA NumbersStay ==
  ASSUME NEW ns, NEW lits, NEW v, NEW all, NEW more, IsSequence(all), IsSequence(more), Len(all) <= Len(more),
         \A k \in 1..Len(all) : more[k] = all[k], NumbersAre(ns, lits, v, all)
  PROVE  NumbersAre(ns, lits, v, more)
<1>1. /\ Len(all) \in Nat /\ DOMAIN all = 1..Len(all)
      /\ Len(more) \in Nat /\ DOMAIN more = 1..Len(more)
  BY SequenceDomain
<1>2. \A k \in DOMAIN all : k \in DOMAIN more /\ more[k] = all[k]
  BY <1>1
<1> QED
  BY <1>2 DEF NumbersAre

LEMMA TurnKeepsLabels ==
  ASSUME JoinInv, LabelsInv, ProcessAtom
  PROVE  LabelsInv' /\ ToSet(atoms) \subseteq ToSet(atoms')
<1>1. PICK n : n = done + 1
  OBVIOUS
<1> DEFINE ante == [a \in Actions |-> Antecedents(a)]
           cons == [a \in Actions |-> Consequences(a)]
           g == Emit(Found(n), atoms, output, ante, cons)
<1>2. /\ phase \in {"PG", "TDG"} /\ done < Len(atoms)
      /\ done' = n /\ atoms' = g.atoms /\ output' = g.output
      /\ UNCHANGED <<d, phase, typing>>
  BY <1>1 DEF ProcessAtom, Found
<1>3. ProblemInv /\ GraphInv /\ Lists(output, Groundings(done))
  BY <1>2 DEF JoinInv
<1>4. n \in 1..Len(atoms) /\ done = n - 1 /\ Len(atoms) \in Nat /\ 1..n \subseteq DOMAIN atoms
  BY <1>1, <1>2, <1>3, SequenceDomain DEF GraphInv
<1>5. IsFiniteSet(Found(n)) /\ IsSequence(output) /\ IsSequence(atoms)
  BY <1>2, <1>3, FoundFinite DEF GraphInv
<1>6. ASSUME NEW f \in Found(n)
      PROVE  /\ f.act \in Actions /\ ante[f.act] = Antecedents(f.act) /\ cons[f.act] = Consequences(f.act)
             /\ IsFiniteSet(DOMAIN cons[f.act])
             /\ \A j \in DOMAIN ante[f.act] : Instance(ante[f.act][j], f.val) \in ToSet(atoms)
  <2>1. <<f.act, f.val>> \in Groundings(n)
    BY <1>2, <1>3, <1>4, FoundAreNew
  <2>2. f.act \in Actions /\ IsGrounding(f.act, f.val, n)
    BY <2>1, InGroundings
  <2>3. IsFiniteSet(DOMAIN Consequences(f.act))
    BY <1>2, <1>3, <2>2, AntecedentsOver
  <2>4. \A j \in DOMAIN Antecedents(f.act) : Instance(Antecedents(f.act)[j], f.val) \in ToSet(atoms)
    BY <1>4, <2>2 DEF IsGrounding, Fulfils, ToSet
  <2> QED
    BY <2>2, <2>3, <2>4
<1> DEFINE N == Cardinality(Found(n))
<1> HIDE DEF ante, cons
<1>7. /\ IsSequence(g.atoms)
      /\ Len(atoms) <= Len(g.atoms)
      /\ \A k \in 1..Len(atoms) : g.atoms[k] = atoms[k]
      /\ IsSequence(g.output) /\ Len(g.output) = Len(output) + Cardinality(Found(n))
      /\ \A k \in 1..Len(output) : g.output[k] = output[k]
      /\ \A k \in 1..Cardinality(Found(n)) :
           /\ g.output[Len(output) + k].act = SetToSeq(Found(n))[k].act
           /\ g.output[Len(output) + k].val = SetToSeq(Found(n))[k].val
  BY <1>3, <1>5, <1>6, Emitted DEF GraphInv
<1>8. \A k \in 1..Cardinality(Found(n)) :
        LET o == g.output[Len(output) + k]
        IN  /\ NumbersAre(o.ante, ante[o.act], o.val, g.atoms)
            /\ NumbersAre(o.add, cons[o.act], o.val, g.atoms)
  BY <1>5, <1>6, EmittedNumbers
<1>9. N \in Nat /\ SetToSeq(Found(n)) \in [1..N -> Found(n)]
  BY <1>5, SetToSeqLists
<1>10. /\ Len(output) \in Nat /\ DOMAIN output = 1..Len(output)
       /\ DOMAIN g.output = 1..Len(g.output) /\ Len(g.atoms) \in Nat /\ DOMAIN atoms = 1..Len(atoms)
       /\ DOMAIN g.atoms = 1..Len(g.atoms)
  BY <1>5, <1>7, SequenceDomain
<1> HIDE DEF g, N
<1>11. ASSUME NEW k \in DOMAIN g.output
       PROVE  LET o == g.output[k]
              IN  /\ NumbersAre(o.ante, Antecedents(o.act), o.val, g.atoms)
                  /\ NumbersAre(o.add, Consequences(o.act), o.val, g.atoms)
  <2>1. CASE k \in 1..Len(output)
    <3>1. PICK o : o = output[k]
      OBVIOUS
    <3>2. g.output[k] = o
      BY <1>7, <2>1, <3>1
    <3>3. /\ NumbersAre(o.ante, Antecedents(o.act), o.val, atoms)
          /\ NumbersAre(o.add, Consequences(o.act), o.val, atoms)
      BY <1>2, <1>10, <2>1, <3>1 DEF LabelsInv
    <3>4. PICK old, more, lits, ends : old = atoms /\ more = g.atoms /\ lits = Antecedents(o.act) /\ ends = Consequences(o.act)
      OBVIOUS
    <3>5. NumbersAre(o.ante, lits, o.val, more)
      BY <1>5, <1>7, <3>3, <3>4, NumbersStay
    <3>6. NumbersAre(o.add, ends, o.val, more)
      BY <1>5, <1>7, <3>3, <3>4, NumbersStay
    <3> QED
      BY <3>2, <3>4, <3>5, <3>6
  <2>2. CASE k \notin 1..Len(output)
    <3>1. PICK j \in 1..N : k = Len(output) + j
      <4>1. k - Len(output) \in 1..N /\ k = Len(output) + (k - Len(output))
        BY <1>7, <1>9, <1>10, <2>2 DEF N
      <4> QED
        BY <4>1
    <3>2. PICK o : o = g.output[k]
      OBVIOUS
    <3>3. o.act = SetToSeq(Found(n))[j].act /\ SetToSeq(Found(n))[j] \in Found(n)
      BY <1>7, <1>9, <3>1, <3>2 DEF N
    <3>4. ante[o.act] = Antecedents(o.act) /\ cons[o.act] = Consequences(o.act)
      BY <1>6, <3>3
    <3> QED
      BY <1>8, <3>1, <3>2, <3>4 DEF N
  <2> QED
    BY <2>1, <2>2
<1>12. \A a : Antecedents(a)' = Antecedents(a) /\ Consequences(a)' = Consequences(a)
  BY <1>2 DEF Antecedents, Consequences
<1>13. LabelsInv'
  BY <1>2, <1>11, <1>12 DEF LabelsInv
<1>14. ToSet(atoms) \subseteq ToSet(atoms')
  <2>1. \A k \in DOMAIN atoms : k \in DOMAIN g.atoms /\ g.atoms[k] = atoms[k]
    BY <1>4, <1>7, <1>10
  <2> QED
    BY <1>2, <2>1 DEF ToSet
<1> QED
  BY <1>13, <1>14

LEMMA StartMakesLabels ==
  ASSUME ProblemInv, phase' \in {"PG", "TDG"},
         NEW initial, IsSequence(initial),
         NEW acts, IsFiniteSet(acts), acts \subseteq d.prim \cup d.meth,
         NEW ante, \A a \in acts : Antecedents(a)' = ante[a],
         NEW cons, \A a \in acts : IsFiniteSet(DOMAIN cons[a]) /\ Consequences(a)' = cons[a],
         StartGraph(initial, acts, ante, cons)
  PROVE  LabelsInv' /\ ToSet(initial) \subseteq ToSet(atoms')
<1> DEFINE F == Free(acts, ante)
           known == Distinct(initial)
           nil == <<>>
           g == Emit(F, known, nil, ante, cons)
           N == Cardinality(F)
<1>1. atoms' = g.atoms /\ output' = g.output
  BY DEF StartGraph
<1>2. \A f \in F : f.act \in acts /\ ante[f.act] = <<>>
  BY InFree
<1>3. IsFiniteSet(F)
  BY FreeFinite
<1>4. IsSequence(known) /\ IsInjective(known) /\ ToSet(initial) \subseteq ToSet(known)
  BY DistinctLists, DistinctListsAll
<1>5. \A f \in F : IsFiniteSet(DOMAIN cons[f.act])
  BY <1>2
<1>6. IsSequence(nil) /\ Len(nil) = 0
  BY DEF IsSequence
<1>7. \A f \in F : \A j \in DOMAIN ante[f.act] : Instance(ante[f.act][j], f.val) \in ToSet(known)
  <2> HIDE DEF F
  <2>1. \A f \in F : DOMAIN ante[f.act] = {}
    BY <1>2
  <2> QED
    BY <2>1
<1> HIDE DEF F, known, nil
<1>8. PICK fs, start, empty : fs = F /\ start = known /\ empty = nil
  OBVIOUS
<1> DEFINE h == Emit(fs, start, empty, ante, cons)
<1>9. /\ IsSequence(h.atoms) /\ Len(start) <= Len(h.atoms)
      /\ \A k \in 1..Len(start) : h.atoms[k] = start[k]
      /\ IsSequence(h.output) /\ Len(h.output) = Len(empty) + Cardinality(fs)
      /\ \A k \in 1..Cardinality(fs) :
           /\ h.output[Len(empty) + k].act = SetToSeq(fs)[k].act
           /\ h.output[Len(empty) + k].val = SetToSeq(fs)[k].val
  <2>1. IsFiniteSet(fs) /\ \A f \in fs : IsFiniteSet(DOMAIN cons[f.act])
    BY <1>3, <1>5, <1>8
  <2>2. IsSequence(start) /\ IsInjective(start) /\ IsSequence(empty)
    BY <1>4, <1>6, <1>8
  <2> QED
    BY <2>1, <2>2, Emitted
<1>10. \A k \in 1..Cardinality(fs) :
         LET o == h.output[Len(empty) + k]
         IN  /\ NumbersAre(o.ante, ante[o.act], o.val, h.atoms)
             /\ NumbersAre(o.add, cons[o.act], o.val, h.atoms)
  <2>1. IsFiniteSet(fs) /\ \A f \in fs : IsFiniteSet(DOMAIN cons[f.act])
    BY <1>3, <1>5, <1>8
  <2>2. IsSequence(start) /\ IsSequence(empty)
    BY <1>4, <1>6, <1>8
  <2>3. \A f \in fs : \A j \in DOMAIN ante[f.act] : Instance(ante[f.act][j], f.val) \in ToSet(start)
    BY <1>7, <1>8
  <2> QED
    BY <2>1, <2>2, <2>3, EmittedNumbers
<1>11. Cardinality(fs) \in Nat /\ SetToSeq(fs) \in [1..Cardinality(fs) -> fs]
  BY <1>3, <1>8, SetToSeqLists
<1>12. /\ DOMAIN h.output = 1..Len(h.output) /\ Len(h.atoms) \in Nat /\ DOMAIN h.atoms = 1..Len(h.atoms)
       /\ Len(start) \in Nat /\ DOMAIN start = 1..Len(start)
  BY <1>4, <1>8, <1>9, SequenceDomain
<1>13. h.atoms = atoms' /\ h.output = output'
  BY <1>1, <1>8
<1> HIDE DEF h, g
<1>14. ASSUME NEW k \in DOMAIN h.output
       PROVE  LET o == h.output[k]
              IN  /\ NumbersAre(o.ante, Antecedents(o.act)', o.val, h.atoms)
                  /\ NumbersAre(o.add, Consequences(o.act)', o.val, h.atoms)
  <2>1. k \in 1..Cardinality(fs) /\ Len(empty) + k = k
    BY <1>6, <1>8, <1>9, <1>11, <1>12
  <2>2. PICK o : o = h.output[k]
    OBVIOUS
  <2>3. o.act = SetToSeq(fs)[k].act /\ SetToSeq(fs)[k] \in fs
    BY <1>9, <1>11, <2>1, <2>2
  <2>4. o.act \in acts
    BY <1>2, <1>8, <2>3
  <2> QED
    BY <1>10, <2>1, <2>2, <2>4
<1>15. ToSet(start) \subseteq ToSet(h.atoms)
  <2>1. \A k \in DOMAIN start : k \in DOMAIN h.atoms /\ h.atoms[k] = start[k]
    BY <1>9, <1>12
  <2> QED
    BY <2>1 DEF ToSet
<1> QED
  BY <1>4, <1>8, <1>13, <1>14, <1>15 DEF LabelsInv

----------------------------------------------------------------------------
(* The graph of facts leaves every fact that is initial or added and every *)
(* primitive task over its facts that the typings admit; all these tasks   *)
(* are atoms of the graph of tasks.                                        *)

KnownInv == phase = "PG" => ToSet(d.init) \subseteq ToSet(atoms)

(* The numbers ns hold those of the instances of lits.                     *)
Numbered(ns, lits, v, all) ==
  \A j \in DOMAIN lits : \E n \in ns : n \in DOMAIN all /\ all[n] = Instance(lits[j], v)

Tasked(t, v) == \E k \in DOMAIN tasks : tasks[k].act = t /\ tasks[k].val = v

TasksInv ==
  phase \in {"TDG", "Done"} =>
    /\ IsInjective(facts) /\ ToSet(d.init) \subseteq ToSet(facts)
    /\ \A t \in d.prim : \A v \in Valuations(t) :
         /\ Satisfies(d.con[t], v) /\ Compatible(t, v)
         /\ \A j \in DOMAIN d.pre[t] : Instance(d.pre[t][j], v) \in ToSet(facts)
         => Tasked(t, v)
    /\ \A k \in DOMAIN tasks :
         /\ Numbered(tasks[k].pre, d.pre[tasks[k].act], tasks[k].val, facts)
         /\ Numbered(tasks[k].add, d.add[tasks[k].act], tasks[k].val, facts)
         /\ Atom(tasks[k].act, tasks[k].val) \in ToSet(atoms)

LEMMA InitialTasksListAll ==
  ASSUME JoinInv, phase = "PG", NEW k \in DOMAIN output
  PROVE  Atom(output[k].act, output[k].val) \in ToSet(InitialTasks)
<1> DEFINE order == SetToSeq(d.prim)
           all == DOMAIN output
           task == [i \in all |-> NumberOf(output[i].act, order)]
           R == {jk \in all \X all :
                   \/ task[jk[1]] < task[jk[2]]
                   \/ task[jk[1]] = task[jk[2]] /\ jk[1] < jk[2]}
           sorted == Ascending(all, R)
           N == Cardinality(all)
<1>1. ProblemInv /\ GraphInv /\ Lists(output, Groundings(done))
  BY DEF JoinInv
<1>2. Len(output) \in Nat /\ all = 1..Len(output) /\ IsFiniteSet(all)
  BY <1>1, SequenceDomain DEF GraphInv
<1>3. IsFiniteSet(d.prim)
  BY <1>1 DEF ProblemInv, IsProblem
<1>4. ASSUME NEW i \in all
      PROVE  task[i] \in Nat
  <2>1. output[i].act \in d.prim
    <3>1. <<output[i].act, output[i].val>> \in Groundings(done)
      BY <1>1 DEF Lists
    <3> QED
      BY <3>1, InGroundings DEF Actions
  <2>2. PICK n \in 1..Cardinality(d.prim) : order[n] = output[i].act
    BY <1>3, <2>1, SetToSeqLists
  <2>3. Cardinality(d.prim) \in Nat /\ DOMAIN order = 1..Cardinality(d.prim)
    BY <1>3, SetToSeqLists
  <2>4. NumberOf(output[i].act, order) \in DOMAIN order
    BY <2>2, <2>3 DEF NumberOf
  <2> QED
    BY <2>3, <2>4
<1>5. \A j, i : <<j, i>> \in R <=>
                    /\ j \in all /\ i \in all
                    /\ task[j] < task[i] \/ (task[j] = task[i] /\ j < i)
  <2> HIDE DEF all, task
  <2> QED
    BY Zenon
<1>6. InitialTasks = [n \in DOMAIN sorted |-> Atom(output[sorted[n]].act, output[sorted[n]].val)]
  <2>1. R = {jk \in all \X all :
               \/ NumberOf(output[jk[1]].act, order) < NumberOf(output[jk[2]].act, order)
               \/ NumberOf(output[jk[1]].act, order) = NumberOf(output[jk[2]].act, order) /\ jk[1] < jk[2]}
    OBVIOUS
  <2> QED
    BY <2>1 DEF InitialTasks
<1> HIDE DEF task, R
<1>7. Orders(R, all)
  <2> HIDE DEF all
  <2> QED
    BY <1>2, <1>4, <1>5 DEF Orders
<1> HIDE DEF all
<1>8. /\ sorted \in [1..N -> all] /\ Rank(all, R, k) \in 1..N /\ sorted[Rank(all, R, k)] = k
  BY <1>2, <1>7, AscendingLists DEF all
<1> HIDE DEF sorted, N
<1>9. Rank(all, R, k) \in DOMAIN InitialTasks /\ InitialTasks[Rank(all, R, k)] = Atom(output[k].act, output[k].val)
  BY <1>6, <1>8
<1>10. PICK s : s = InitialTasks
  OBVIOUS
<1>11. Atom(output[k].act, output[k].val) \in ToSet(s)
  BY <1>9, <1>10 DEF ToSet
<1> QED
  BY <1>10, <1>11

LEMMA FactGraphKnows ==
  ASSUME JoinInv, StartPG
  PROVE  LabelsInv' /\ KnownInv'
<1>1. /\ phase' = "PG" /\ d' = d
      /\ StartGraph(d.init, d.prim, d.pre, d.add)
  BY DEF StartPG
<1>2. ProblemInv
  BY DEF JoinInv
<1>3. IsSequence(d.init) /\ IsFiniteSet(d.prim)
  BY <1>2 DEF ProblemInv, IsProblem
<1>4. \A t \in d.prim : Antecedents(t)' = d.pre[t] /\ Consequences(t)' = d.add[t]
  BY <1>1 DEF Antecedents, Consequences
<1>5. \A t \in d.prim : IsFiniteSet(DOMAIN d.add[t])
  BY <1>2, SequenceDomain DEF ProblemInv, IsProblem, LiteralsOver
<1>6. PICK initial, acts, ante, cons : initial = d.init /\ acts = d.prim /\ ante = d.pre /\ cons = d.add
  OBVIOUS
<1>7. /\ phase' \in {"PG", "TDG"} /\ IsSequence(initial) /\ IsFiniteSet(acts) /\ acts \subseteq d.prim \cup d.meth
      /\ \A a \in acts : Antecedents(a)' = ante[a]
      /\ \A a \in acts : IsFiniteSet(DOMAIN cons[a]) /\ Consequences(a)' = cons[a]
      /\ StartGraph(initial, acts, ante, cons)
  BY <1>1, <1>3, <1>4, <1>5, <1>6
<1>8. LabelsInv' /\ ToSet(initial) \subseteq ToSet(atoms')
  BY <1>2, <1>7, StartMakesLabels
<1> QED
  BY <1>1, <1>6, <1>8 DEF KnownInv

LEMMA TaskGraphKnows ==
  ASSUME JoinInv, LabelsInv, KnownInv, StartTDG
  PROVE  LabelsInv' /\ TasksInv'
<1> DEFINE cons == [m \in d.meth |-> <<Atom(d.of[m], d.par[m])>>]
<1>1. /\ phase = "PG" /\ done = Len(atoms) /\ phase' = "TDG" /\ d' = SortSubtasks(d) /\ typing' = typing
      /\ facts' = atoms
      /\ tasks' = [k \in DOMAIN output |->
                     [act |-> output[k].act, val |-> output[k].val, pre |-> ToSet(output[k].ante),
                      add |-> ToSet(output[k].add), del |-> DeletesOf(output[k])]]
      /\ StartGraph(InitialTasks, d.meth, d'.sub, cons)
  BY DEF StartTDG
<1>2. ProblemInv /\ GraphInv /\ Lists(output, Groundings(done))
  BY <1>1 DEF JoinInv
<1>3. /\ d'.prim = d.prim /\ d'.meth = d.meth /\ d'.sort = d.sort /\ d'.con = d.con
      /\ d'.of = d.of /\ d'.par = d.par /\ d'.pre = d.pre /\ d'.add = d.add
      /\ d'.typed = d.typed /\ d'.ceTasks = d.ceTasks /\ d'.init = d.init
  BY <1>1, <1>2, SortingKeeps DEF ProblemInv
<1>4. LabelsInv' /\ ToSet(InitialTasks) \subseteq ToSet(atoms')
  <2>1. IsSequence(InitialTasks) /\ IsFiniteSet(d.meth)
    BY <1>1, <1>2, InitialTasksListed DEF ProblemInv, IsProblem
  <2>2. PICK initial, acts, ante, c : initial = InitialTasks /\ acts = d.meth /\ ante = d'.sub /\ c = cons
    OBVIOUS
  <2>3. \A m \in d.meth : Antecedents(m)' = d'.sub[m] /\ Consequences(m)' = <<Atom(d.of[m], d.par[m])>>
    BY <1>1, <1>3 DEF Antecedents, Consequences
  <2>4. ASSUME NEW m \in d.meth
        PROVE  IsFiniteSet(DOMAIN cons[m])
    <3>1. DOMAIN cons[m] = {1}
      OBVIOUS
    <3> QED
      BY <3>1, FS_Singleton
  <2>5. /\ phase' \in {"PG", "TDG"} /\ IsSequence(initial) /\ IsFiniteSet(acts) /\ acts \subseteq d.prim \cup d.meth
        /\ \A a \in acts : Antecedents(a)' = ante[a]
        /\ \A a \in acts : IsFiniteSet(DOMAIN c[a]) /\ Consequences(a)' = c[a]
        /\ StartGraph(initial, acts, ante, c)
    BY <1>1, <2>1, <2>2, <2>3, <2>4
  <2>6. LabelsInv' /\ ToSet(initial) \subseteq ToSet(atoms')
    BY <1>2, <2>5, StartMakesLabels
  <2> QED
    BY <2>2, <2>6
<1> HIDE DEF cons
<1>5. IsInjective(facts') /\ ToSet(d'.init) \subseteq ToSet(facts')
  BY <1>1, <1>2, <1>3 DEF GraphInv, KnownInv
<1>6. \A k \in DOMAIN output : /\ k \in DOMAIN tasks' /\ tasks'[k].act = output[k].act /\ tasks'[k].val = output[k].val
                               /\ tasks'[k].pre = ToSet(output[k].ante) /\ tasks'[k].add = ToSet(output[k].add)
  BY <1>1
<1>7. DOMAIN tasks' = DOMAIN output
  BY <1>1
<1>8. ASSUME NEW k \in DOMAIN tasks'
      PROVE  /\ Numbered(tasks'[k].pre, d'.pre[tasks'[k].act], tasks'[k].val, facts')
             /\ Numbered(tasks'[k].add, d'.add[tasks'[k].act], tasks'[k].val, facts')
             /\ Atom(tasks'[k].act, tasks'[k].val) \in ToSet(atoms')
  <2>1. PICK o : o = output[k]
    OBVIOUS
  <2>2. /\ NumbersAre(o.ante, d.pre[o.act], o.val, atoms)
        /\ NumbersAre(o.add, d.add[o.act], o.val, atoms)
    BY <1>1, <1>7, <2>1 DEF LabelsInv, Antecedents, Consequences
  <2>3. /\ Numbered(ToSet(o.ante), d.pre[o.act], o.val, atoms)
        /\ Numbered(ToSet(o.add), d.add[o.act], o.val, atoms)
    BY <2>2 DEF Numbered, NumbersAre, ToSet
  <2>4. Atom(o.act, o.val) \in ToSet(atoms')
    BY <1>1, <1>4, <1>7, <2>1, InitialTasksListAll
  <2> QED
    BY <1>1, <1>3, <1>6, <1>7, <2>1, <2>3, <2>4
<1>9. ASSUME NEW t \in d.prim, NEW v \in Valuations(t), Satisfies(d.con[t], v), Compatible(t, v),
             \A j \in DOMAIN d.pre[t] : Instance(d.pre[t][j], v) \in ToSet(atoms)
      PROVE  \E k \in DOMAIN tasks' : tasks'[k].act = t /\ tasks'[k].val = v
  <2>1. DOMAIN atoms = 1..done
    BY <1>1, <1>2, SequenceDomain DEF GraphInv
  <2>2. IsGrounding(t, v, done) /\ t \in Actions
    BY <1>1, <1>9, <2>1 DEF IsGrounding, Fulfils, Antecedents, Actions, ToSet
  <2>3. <<t, v>> \in Groundings(done)
    BY <1>9, <2>2, InGroundings
  <2>4. PICK k \in DOMAIN output : <<t, v>> = <<output[k].act, output[k].val>>
    BY <1>2, <2>3 DEF Lists
  <2> QED
    BY <1>6, <2>4
<1>10. ASSUME NEW t, NEW v
       PROVE  /\ Valuations(t)' = Valuations(t) /\ (Compatible(t, v)' <=> Compatible(t, v))
              /\ (Satisfies(d.con[t], v)' <=> Satisfies(d.con[t], v))
  BY <1>1, <1>3 DEF Valuations, Compatible, Satisfies
<1>11. TasksInv'
  <2>1. ASSUME NEW t \in d'.prim, NEW v \in Valuations(t)', Satisfies(d.con[t], v)', Compatible(t, v)',
               \A j \in DOMAIN d'.pre[t] : Instance(d'.pre[t][j], v) \in ToSet(facts')
        PROVE  Tasked(t, v)'
    BY <1>1, <1>3, <1>9, <1>10, <2>1 DEF Tasked
  <2> QED
    BY <1>5, <1>8, <2>1 DEF TasksInv
<1> QED
  BY <1>4, <1>11

----------------------------------------------------------------------------
(* The final search comes down to everything below where it starts.        *)

(* Steps that only add have nothing more to add after as many as there are *)
(* elements.                                                               *)
LEMMA Climbs ==
  ASSUME NEW D, IsFiniteSet(D), NEW B \in [SUBSET D -> SUBSET D], \A U \in SUBSET D : U \subseteq B[U],
         NEW h, h[0] \subseteq D, \A k \in 1..Cardinality(D) : h[k] = B[h[k - 1]]
  PROVE  /\ h[0] \subseteq h[Cardinality(D)] /\ h[Cardinality(D)] \subseteq D
         /\ B[h[Cardinality(D)]] = h[Cardinality(D)]
<1> DEFINE N == Cardinality(D)
           K == {k \in 0..N : /\ h[0] \subseteq h[k] /\ h[k] \subseteq D
                              /\ Cardinality(h[k]) >= k \/ B[h[k]] = h[k]}
<1>1. N \in Nat
  BY FS_CardinalityType
<1>2. \A U \in SUBSET D : IsFiniteSet(U) /\ Cardinality(U) \in Nat
  BY FS_Subset, FS_CardinalityType
<1>3. 0 \in K
  BY <1>1, <1>2
<1>4. ASSUME NEW k \in 1..N, k - 1 \in K
      PROVE  k \in K
  <2>1. PICK U : U = h[k - 1]
    OBVIOUS
  <2>2. /\ U \in SUBSET D /\ h[0] \subseteq U /\ h[k] = B[U] /\ U \subseteq B[U] /\ B[U] \in SUBSET D
        /\ Cardinality(U) >= k - 1 \/ B[U] = U
    BY <1>4, <2>1
  <2>3. CASE B[U] = U
    BY <2>2, <2>3
  <2>4. CASE B[U] # U
    <3>1. Cardinality(U) <= Cardinality(B[U]) /\ Cardinality(U) # Cardinality(B[U])
      BY <1>2, <2>2, <2>4, FS_Subset
    <3>2. Cardinality(B[U]) >= k
      BY <1>2, <2>2, <2>4, <3>1
    <3> QED
      BY <2>2, <3>2
  <2> QED
    BY <2>3, <2>4
<1> HIDE DEF K
<1>5. 0..N \subseteq K
  <2> HIDE DEF N
  <2> QED
    BY <1>1, <1>3, <1>4, StepByStep
<1>6. N \in K
  BY <1>1, <1>5
<1>7. /\ h[0] \subseteq h[N] /\ h[N] \subseteq D
      /\ Cardinality(h[N]) >= N \/ B[h[N]] = h[N]
  BY <1>6 DEF K
<1>8. CASE Cardinality(h[N]) >= N
  <2>1. Cardinality(h[N]) <= N /\ Cardinality(h[N]) \in Nat /\ (Cardinality(h[N]) = N => h[N] = D)
    BY <1>2, <1>7, FS_Subset
  <2>2. h[N] = D
    BY <1>1, <1>8, <2>1
  <2> QED
    BY <1>7, <2>2
<1> QED
  BY <1>7, <1>8

LEMMA DescendReachesBelow ==
  ASSUME IsSequence(atoms), NEW T, T \subseteq DOMAIN atoms,
         \A k \in DOMAIN output : ToSet(output[k].ante) \subseteq DOMAIN atoms
  PROVE  /\ T \subseteq Descend(T) /\ Descend(T) \subseteq DOMAIN atoms
         /\ \A k \in DOMAIN output : output[k].add[1] \in Descend(T) => ToSet(output[k].ante) \subseteq Descend(T)
<1> DEFINE D == DOMAIN atoms
           S == SUBSET D
           N == Len(atoms)
           Down(U) == U \cup UNION {ToSet(output[m].ante) : m \in {k \in DOMAIN output : output[k].add[1] \in U}}
           Step(U, n) == Down(U)
           B == [U \in SUBSET D |-> Down(U)]
<1>1. N \in Nat /\ IsFiniteSet(D) /\ Cardinality(D) = N
  BY SequenceDomain, FS_Interval
<1>2. ASSUME NEW U \in S
      PROVE  /\ Down(U) \in S /\ U \subseteq Down(U)
             /\ \A k \in DOMAIN output : output[k].add[1] \in U => ToSet(output[k].ante) \subseteq Down(U)
  OBVIOUS
<1> DEFINE F == [p \in S \X (1..N) |-> Step(p[1], p[2])]
           Loop(h) == h = [k \in 0..N |-> IF k = 0 THEN T ELSE Step(h[k - 1], k)]
           after == CHOOSE h : Loop(h)
<1>3. Descend(T) = after[N]
  BY DEF Descend, Iterate
<1>down. \A U, n : Step(U, n) = Down(U)
  OBVIOUS
<1> HIDE DEF Down, Step, N
<1>4. N \in Nat /\ T \in S /\ F \in [S \X (1..N) -> S]
  BY <1>1, <1>2, <1>down
<1>5. \E h : Loop(h)
  <2> HIDE DEF F
  <2>1. PICK h : LoopOf(h, N, S, T, F)
    BY <1>4, LoopExists
  <2>2. ASSUME NEW k \in 1..N
        PROVE  h[k] = Step(h[k - 1], k)
    <3>1. k - 1 \in 0..N /\ h[k - 1] \in S
      BY <1>4, <2>1 DEF LoopOf
    <3>2. F[<<h[k - 1], k>>] = Step(h[k - 1], k)
      BY <3>1 DEF F
    <3> QED
      BY <2>1, <3>2 DEF LoopOf
  <2>3. \A k \in 0..N : k # 0 => k \in 1..N
    BY <1>4
  <2>4. Loop(h)
    BY <2>1, <2>2, <2>3 DEF LoopOf
  <2> QED
    BY <2>4
<1>6. Loop(after)
  <2> HIDE DEF Loop
  <2> QED
    BY <1>5
<1> HIDE DEF after
<1>7. B \in [SUBSET D -> SUBSET D] /\ \A U \in SUBSET D : U \subseteq B[U]
  BY <1>2
<1>8. after[0] = T /\ \A k \in 1..N : k - 1 \in 0..N /\ after[k] = Down(after[k - 1])
  BY <1>1, <1>down, <1>6
<1>9. \A k \in 1..N : after[k - 1] \in S
  <2>1. after[0] \in S /\ \A k \in 1..N : after[k - 1] \in S => after[k] \in S
    BY <1>2, <1>8
  <2>2. PICK M : M = S
    OBVIOUS
  <2>3. \A k \in 0..N : after[k] \in M
    BY <1>1, <2>1, <2>2, LoopStays
  <2> QED
    BY <1>8, <2>2, <2>3
<1>10. \A k \in 1..N : after[k] = B[after[k - 1]]
  BY <1>8, <1>9
<1> HIDE DEF B
<1>11. /\ after[0] \subseteq after[N] /\ after[N] \subseteq D /\ B[after[N]] = after[N]
  <2>1. PICK E : E = D
    OBVIOUS
  <2>2. /\ IsFiniteSet(E) /\ B \in [SUBSET E -> SUBSET E] /\ \A U \in SUBSET E : U \subseteq B[U]
        /\ after[0] \subseteq E /\ \A k \in 1..Cardinality(E) : after[k] = B[after[k - 1]]
        /\ Cardinality(E) = N
    BY <1>1, <1>7, <1>8, <1>10, <2>1
  <2>3. /\ after[0] \subseteq after[Cardinality(E)] /\ after[Cardinality(E)] \subseteq E
        /\ B[after[Cardinality(E)]] = after[Cardinality(E)]
    BY <2>2, Climbs
  <2> QED
    BY <2>1, <2>2, <2>3
<1>12. Down(after[N]) = after[N]
  BY <1>11 DEF B
<1> QED
  BY <1>2, <1>3, <1>8, <1>11, <1>12

(* When the search is done, T are the numbers it has reached: among them   *)
(* the initial task and, with the task of a method that is composed of     *)
(* atoms, its subtasks; what has been reached is kept.                     *)
Reached(T) ==
  /\ \A n \in DOMAIN atoms : atoms[n].head = d.top => n \in T
  /\ \A n \in T : n \in DOMAIN atoms /\ atoms[n] \in kept.tasks
  /\ \A m \in d.meth : \A v \in Valuations(m) :
       /\ Satisfies(d.con[m], v) /\ Compatible(m, v)
       /\ \A j \in DOMAIN d.sub[m] : Instance(d.sub[m][j], v) \in ToSet(atoms)
       => \E n \in DOMAIN atoms :
            /\ atoms[n] = Instance(Atom(d.of[m], d.par[m]), v)
            /\ n \in T => /\ [act |-> m, val |-> v] \in kept.methods
                          /\ Numbered(T, d.sub[m], v, atoms)
  /\ \A u, c \in DOMAIN tasks : \A f \in tasks[u].add \cap tasks[c].pre : \A n \in T :
       /\ atoms[n] = Atom(tasks[u].act, tasks[u].val)
       /\ tasks[c].act \in d.ceTasks /\ f \in DOMAIN facts /\ facts[f].head \in d.guards
       => Atom(tasks[c].act, tasks[c].val) \in kept.tasks

DoneInv == phase = "Done" => IsInjective(atoms) /\ \E T : Reached(T)

LEMMA CollectReaches ==
  ASSUME JoinInv, LabelsInv, Collect
  PROVE  DoneInv'
<1> DEFINE start == {n \in DOMAIN atoms : atoms[n].head = d.top}
           T == Descend(start)
           reached == {atoms[n] : n \in T}
           methods == {k \in DOMAIN output : output[k].add[1] \in T}
<1>1. /\ phase = "TDG" /\ done = Len(atoms) /\ phase' = "Done"
      /\ kept' = [tasks |-> reached \cup KeptEffects(reached),
                  methods |-> {[act |-> output[k].act, val |-> output[k].val] : k \in methods}]
      /\ UNCHANGED <<d, stack, typing, atoms, done, output, facts, tasks>>
  BY DEF Collect, graph
<1>2. ProblemInv /\ GraphInv /\ Lists(output, Groundings(done))
  BY <1>1 DEF JoinInv
<1>3. IsSequence(atoms) /\ IsInjective(atoms) /\ DOMAIN atoms = 1..done
  BY <1>1, <1>2, SequenceDomain DEF GraphInv
<1>4. ASSUME NEW k \in DOMAIN output
      PROVE  /\ NumbersAre(output[k].ante, d.sub[output[k].act], output[k].val, atoms)
             /\ NumbersAre(output[k].add, <<Atom(d.of[output[k].act], d.par[output[k].act])>>, output[k].val, atoms)
  BY <1>1 DEF LabelsInv, Antecedents, Consequences
<1>5. \A k \in DOMAIN output : ToSet(output[k].ante) \subseteq DOMAIN atoms
  BY <1>4 DEF NumbersAre, ToSet
<1>6. /\ start \subseteq T /\ T \subseteq DOMAIN atoms
      /\ \A k \in DOMAIN output : output[k].add[1] \in T => ToSet(output[k].ante) \subseteq T
  <2>1. start \subseteq DOMAIN atoms
    OBVIOUS
  <2> HIDE DEF start
  <2> QED
    BY <1>3, <1>5, <2>1, DescendReachesBelow
<1>7. kept'.tasks = reached \cup KeptEffects(reached)
      /\ kept'.methods = {[act |-> output[k].act, val |-> output[k].val] : k \in methods}
  <2> HIDE DEF reached, methods
  <2> QED
    BY <1>1
<1>8. \A n \in DOMAIN atoms : atoms[n].head = d.top => n \in T
  <2> HIDE DEF T
  <2> QED
    BY <1>6
<1> HIDE DEF T, start
<1>9. \A n \in T : n \in DOMAIN atoms /\ atoms[n] \in kept'.tasks
  BY <1>6, <1>7
<1>10. ASSUME NEW m \in d.meth, NEW v \in Valuations(m), Satisfies(d.con[m], v), Compatible(m, v),
              \A j \in DOMAIN d.sub[m] : Instance(d.sub[m][j], v) \in ToSet(atoms)
       PROVE  \E n \in DOMAIN atoms :
                /\ atoms[n] = Instance(Atom(d.of[m], d.par[m]), v)
                /\ n \in T => /\ [act |-> m, val |-> v] \in kept'.methods
                              /\ Numbered(T, d.sub[m], v, atoms)
  <2>1. IsGrounding(m, v, done) /\ m \in Actions
    BY <1>1, <1>3, <1>10 DEF IsGrounding, Fulfils, Antecedents, Actions, ToSet
  <2>2. <<m, v>> \in Groundings(done)
    BY <1>10, <2>1, InGroundings
  <2>3. PICK k \in DOMAIN output : <<m, v>> = <<output[k].act, output[k].val>>
    BY <1>2, <2>2 DEF Lists
  <2>4. PICK n : n = output[k].add[1]
    OBVIOUS
  <2>5. n \in DOMAIN atoms /\ atoms[n] = Instance(Atom(d.of[m], d.par[m]), v)
    <3>1. PICK a, lits : a = Atom(d.of[m], d.par[m]) /\ lits = <<a>>
      OBVIOUS
    <3>2. NumbersAre(output[k].add, lits, v, atoms)
      BY <1>4, <2>3, <3>1
    <3>3. 1 \in DOMAIN lits /\ lits[1] = a
      BY <3>1
    <3>4. output[k].add[1] \in DOMAIN atoms /\ atoms[output[k].add[1]] = Instance(lits[1], v)
      BY <3>2, <3>3 DEF NumbersAre
    <3> QED
      BY <2>4, <3>1, <3>3, <3>4
  <2>6. ASSUME n \in T
        PROVE  [act |-> m, val |-> v] \in kept'.methods /\ Numbered(T, d.sub[m], v, atoms)
    <3>1. k \in methods /\ ToSet(output[k].ante) \subseteq T
      BY <1>6, <2>4, <2>6
    <3>2. [act |-> m, val |-> v] = [act |-> output[k].act, val |-> output[k].val]
      BY <2>3
    <3>3. [act |-> m, val |-> v] \in kept'.methods
      <4> HIDE DEF methods
      <4> QED
        BY <1>7, <3>1, <3>2
    <3>4. NumbersAre(output[k].ante, d.sub[m], v, atoms)
      BY <1>4, <2>3
    <3>5. Numbered(T, d.sub[m], v, atoms)
      BY <3>1, <3>4 DEF NumbersAre, Numbered, ToSet
    <3> QED
      BY <3>3, <3>5
  <2> QED
    BY <2>5, <2>6
<1>11. ASSUME NEW u \in DOMAIN tasks, NEW c \in DOMAIN tasks, NEW f \in tasks[u].add \cap tasks[c].pre, NEW n \in T,
              atoms[n] = Atom(tasks[u].act, tasks[u].val),
              tasks[c].act \in d.ceTasks, f \in DOMAIN facts, facts[f].head \in d.guards
       PROVE  Atom(tasks[c].act, tasks[c].val) \in kept'.tasks
  <2> DEFINE guards == {i \in DOMAIN facts : facts[i].head \in d.guards}
             users == {i \in DOMAIN tasks : Atom(tasks[i].act, tasks[i].val) \in reached}
             added == guards \cap UNION {tasks[k].add : k \in users}
             effects == {i \in DOMAIN tasks : tasks[i].act \in d.ceTasks /\ tasks[i].pre \cap added # {}}
  <2>1. KeptEffects(reached) = {Atom(tasks[k].act, tasks[k].val) : k \in effects}
    BY DEF KeptEffects
  <2>2. u \in users
    BY <1>11
  <2>3. f \in guards
    BY <1>11
  <2> HIDE DEF users, guards, reached
  <2>4. f \in added
    BY <2>2, <2>3
  <2> HIDE DEF added
  <2>5. c \in effects
    BY <1>11, <2>4
  <2> HIDE DEF effects
  <2> QED
    BY <1>7, <2>1, <2>5
<1> HIDE DEF reached, methods
<1>12. \A m, v : /\ Valuations(m)' = Valuations(m) /\ (Compatible(m, v)' <=> Compatible(m, v))
                 /\ (Satisfies(d.con[m], v)' <=> Satisfies(d.con[m], v))
  BY <1>1 DEF Valuations, Compatible, Satisfies
<1>13. PICK U : U = T
  OBVIOUS
<1>14. Reached(U)'
  <2>1. /\ \A n \in DOMAIN atoms' : atoms'[n].head = d'.top => n \in U
        /\ \A n \in U : n \in DOMAIN atoms' /\ atoms'[n] \in kept'.tasks
    BY <1>1, <1>8, <1>9, <1>13
  <2>2. ASSUME NEW m \in d'.meth, NEW v \in Valuations(m)', Satisfies(d.con[m], v)', Compatible(m, v)',
               \A j \in DOMAIN d'.sub[m] : Instance(d'.sub[m][j], v) \in ToSet(atoms')
        PROVE  \E n \in DOMAIN atoms' :
                 /\ atoms'[n] = Instance(Atom(d'.of[m], d'.par[m]), v)
                 /\ n \in U => /\ [act |-> m, val |-> v] \in kept'.methods
                               /\ Numbered(U, d'.sub[m], v, atoms')
    BY <1>1, <1>10, <1>12, <1>13, <2>2
  <2>3. ASSUME NEW u \in DOMAIN tasks', NEW c \in DOMAIN tasks', NEW f \in tasks'[u].add \cap tasks'[c].pre, NEW n \in U,
               atoms'[n] = Atom(tasks'[u].act, tasks'[u].val),
               tasks'[c].act \in d'.ceTasks, f \in DOMAIN facts', facts'[f].head \in d'.guards
        PROVE  Atom(tasks'[c].act, tasks'[c].val) \in kept'.tasks
    BY <1>1, <1>11, <1>13, <2>3
  <2> QED
    BY <2>1, <2>2, <2>3 DEF Reached
<1> QED
  BY <1>1, <1>3, <1>14 DEF DoneInv

GroundInv == LabelsInv /\ KnownInv /\ TasksInv /\ DoneInv

LEMMA TasksStay ==
  ASSUME TasksInv, UNCHANGED <<d, typing, facts, tasks>>, ToSet(atoms) \subseteq ToSet(atoms'),
         phase' \in {"TDG", "Done"} => phase \in {"TDG", "Done"}
  PROVE  TasksInv'
<1>1. \A t, v : /\ Valuations(t)' = Valuations(t) /\ (Compatible(t, v)' <=> Compatible(t, v))
                /\ (Satisfies(d.con[t], v)' <=> Satisfies(d.con[t], v))
                /\ (Tasked(t, v)' <=> Tasked(t, v))
  BY DEF Valuations, Compatible, Satisfies, Tasked
<1>2. ASSUME phase' \in {"TDG", "Done"}
      PROVE  /\ IsInjective(facts') /\ ToSet(d'.init) \subseteq ToSet(facts')
             /\ \A t \in d'.prim : \A v \in Valuations(t)' :
                  /\ Satisfies(d.con[t], v)' /\ Compatible(t, v)'
                  /\ \A j \in DOMAIN d'.pre[t] : Instance(d'.pre[t][j], v) \in ToSet(facts')
                  => Tasked(t, v)'
             /\ \A k \in DOMAIN tasks' :
                  /\ Numbered(tasks'[k].pre, d'.pre[tasks'[k].act], tasks'[k].val, facts')
                  /\ Numbered(tasks'[k].add, d'.add[tasks'[k].act], tasks'[k].val, facts')
                  /\ Atom(tasks'[k].act, tasks'[k].val) \in ToSet(atoms')
  <2>1. IsInjective(facts') /\ ToSet(d'.init) \subseteq ToSet(facts')
    BY <1>2 DEF TasksInv
  <2>2. \A t \in d'.prim : \A v \in Valuations(t)' :
          /\ Satisfies(d.con[t], v)' /\ Compatible(t, v)'
          /\ \A j \in DOMAIN d'.pre[t] : Instance(d'.pre[t][j], v) \in ToSet(facts')
          => Tasked(t, v)'
    BY <1>1, <1>2 DEF TasksInv
  <2>3. \A k \in DOMAIN tasks' :
          /\ Numbered(tasks'[k].pre, d'.pre[tasks'[k].act], tasks'[k].val, facts')
          /\ Numbered(tasks'[k].add, d'.add[tasks'[k].act], tasks'[k].val, facts')
          /\ Atom(tasks'[k].act, tasks'[k].val) \in ToSet(atoms')
    BY <1>2 DEF TasksInv
  <2> QED
    BY <2>1, <2>2, <2>3
<1> QED
  BY <1>2 DEF TasksInv

LEMMA GroundKept ==
  ASSUME JoinInv, GroundInv, [Next]_vars
  PROVE  GroundInv'
<1>1. CASE TaskDfs
  BY <1>1 DEF TaskDfs, GroundInv, LabelsInv, KnownInv, TasksInv, DoneInv
<1>2. CASE StartPG
  <2>1. phase' = "PG"
    BY <1>2 DEF StartPG
  <2> QED
    BY <1>2, <2>1, FactGraphKnows DEF GroundInv, TasksInv, DoneInv
<1>3. CASE ProcessAtom
  <2>1. UNCHANGED <<d, phase, typing, facts, tasks>> /\ phase \in {"PG", "TDG"}
    BY <1>3 DEF ProcessAtom
  <2>2. LabelsInv' /\ ToSet(atoms) \subseteq ToSet(atoms')
    BY <1>3, TurnKeepsLabels DEF GroundInv
  <2>3. TasksInv'
    BY <2>1, <2>2, TasksStay DEF GroundInv
  <2>4. KnownInv' /\ DoneInv'
    BY <2>1, <2>2 DEF GroundInv, KnownInv, DoneInv
  <2> QED
    BY <2>2, <2>3, <2>4 DEF GroundInv
<1>4. CASE DropPrediction \/ UNCHANGED vars
  <2>1. UNCHANGED <<d, phase, typing, atoms, output, facts, tasks, kept>>
    BY <1>4 DEF DropPrediction, vars, graph
  <2>2. LabelsInv' /\ KnownInv'
    BY <2>1 DEF GroundInv, LabelsInv, KnownInv, Antecedents, Consequences
  <2>3. TasksInv'
    BY <2>1, TasksStay DEF GroundInv
  <2>4. \A m, v : /\ Valuations(m)' = Valuations(m) /\ (Compatible(m, v)' <=> Compatible(m, v))
                  /\ (Satisfies(d.con[m], v)' <=> Satisfies(d.con[m], v))
    BY <2>1 DEF Valuations, Compatible, Satisfies
  <2>5. ASSUME NEW T, Reached(T)
        PROVE  Reached(T)'
    <3>1. /\ \A n \in DOMAIN atoms' : atoms'[n].head = d'.top => n \in T
          /\ \A n \in T : n \in DOMAIN atoms' /\ atoms'[n] \in kept'.tasks
      BY <2>1, <2>5 DEF Reached
    <3>2. ASSUME NEW m \in d'.meth, NEW v \in Valuations(m)', Satisfies(d.con[m], v)', Compatible(m, v)',
                 \A j \in DOMAIN d'.sub[m] : Instance(d'.sub[m][j], v) \in ToSet(atoms')
          PROVE  \E n \in DOMAIN atoms' :
                   /\ atoms'[n] = Instance(Atom(d'.of[m], d'.par[m]), v)
                   /\ n \in T => /\ [act |-> m, val |-> v] \in kept'.methods
                                 /\ Numbered(T, d'.sub[m], v, atoms')
      <4>1. \E n \in DOMAIN atoms :
              /\ atoms[n] = Instance(Atom(d.of[m], d.par[m]), v)
              /\ n \in T => /\ [act |-> m, val |-> v] \in kept.methods
                            /\ Numbered(T, d.sub[m], v, atoms)
        BY <2>1, <2>4, <2>5, <3>2 DEF Reached
      <4> QED
        BY <2>1, <4>1
    <3>3. ASSUME NEW u \in DOMAIN tasks', NEW c \in DOMAIN tasks', NEW f \in tasks'[u].add \cap tasks'[c].pre, NEW n \in T,
                 atoms'[n] = Atom(tasks'[u].act, tasks'[u].val),
                 tasks'[c].act \in d'.ceTasks, f \in DOMAIN facts', facts'[f].head \in d'.guards
          PROVE  Atom(tasks'[c].act, tasks'[c].val) \in kept'.tasks
      BY <2>1, <2>5, <3>3 DEF Reached
    <3> QED
      BY <3>1, <3>2, <3>3 DEF Reached
  <2>6. DoneInv'
    BY <2>1, <2>5 DEF GroundInv, DoneInv
  <2> QED
    BY <2>2, <2>3, <2>6 DEF GroundInv
<1>5. CASE StartTDG
  <2>1. phase' = "TDG"
    BY <1>5 DEF StartTDG
  <2> QED
    BY <1>5, <2>1, TaskGraphKnows DEF GroundInv, KnownInv, DoneInv
<1>6. CASE Collect
  <2>1. phase = "TDG" /\ phase' = "Done" /\ UNCHANGED <<d, typing, atoms, facts, tasks>>
    BY <1>6 DEF Collect, graph
  <2>2. TasksInv'
    BY <2>1, TasksStay DEF GroundInv
  <2> QED
    BY <1>6, <2>1, <2>2, CollectReaches DEF GroundInv, LabelsInv, KnownInv
<1> QED
  BY <1>1, <1>2, <1>3, <1>4, <1>5, <1>6 DEF Next

LEMMA GroundAlways == Spec => []GroundInv
<1>1. Init => GroundInv
  BY DEF Init, GroundInv, LabelsInv, KnownInv, TasksInv, DoneInv
<1>2. JoinInv /\ GroundInv /\ [Next]_vars => GroundInv'
  BY GroundKept
<1> QED
  BY <1>1, <1>2, JoinAlways, PTL DEF Spec

----------------------------------------------------------------------------
(* What the naive grounding reaches lies in every set that is closed.      *)

LEMMA ReachFactsWithin ==
  ASSUME NEW P, NEW F0, IsFiniteSet(P), NEW K, F0 \subseteq K,
         \A u \in P : Pre(u) \subseteq K => Add(u) \subseteq K
  PROVE  ReachFacts(P, F0) \subseteq K
<1> DEFINE S == SUBSET K
           N == Cardinality(P)
           Step(U, n) == U \cup UNION {Add(t) : t \in {u \in P : Pre(u) \subseteq U}}
<1>1. N \in Nat
  BY FS_CardinalityType
<1>2. ASSUME NEW U \in S, NEW n \in 1..N
      PROVE  Step(U, n) \in S
  OBVIOUS
<1> DEFINE F == [p \in S \X (1..N) |-> Step(p[1], p[2])]
           Loop(h) == h = [k \in 0..N |-> IF k = 0 THEN F0 ELSE Step(h[k - 1], k)]
           after == CHOOSE h : Loop(h)
<1>3. ReachFacts(P, F0) = after[N]
  BY DEF ReachFacts, Iterate
<1> HIDE DEF S, Step, N
<1>4. N \in Nat /\ F0 \in S /\ F \in [S \X (1..N) -> S]
  BY <1>1, <1>2 DEF S
<1>5. \E h : Loop(h)
  <2> HIDE DEF F
  <2>1. PICK h : LoopOf(h, N, S, F0, F)
    BY <1>4, LoopExists
  <2>2. ASSUME NEW k \in 1..N
        PROVE  h[k] = Step(h[k - 1], k)
    <3>1. k - 1 \in 0..N /\ h[k - 1] \in S
      BY <1>4, <2>1 DEF LoopOf
    <3>2. F[<<h[k - 1], k>>] = Step(h[k - 1], k)
      BY <3>1 DEF F
    <3> QED
      BY <2>1, <3>2 DEF LoopOf
  <2>3. \A k \in 0..N : k # 0 => k \in 1..N
    BY <1>4
  <2>4. Loop(h)
    BY <2>1, <2>2, <2>3 DEF LoopOf
  <2> QED
    BY <2>4
<1>6. Loop(after)
  <2> HIDE DEF Loop
  <2> QED
    BY <1>5
<1> HIDE DEF after
<1>7. after[0] \in S /\ \A k \in 1..N : after[k - 1] \in S => after[k] \in S
  BY <1>2, <1>4, <1>6
<1>8. after[N] \in S
  <2>1. \A k \in 0..N : after[k] \in S
    <3> HIDE DEF S, N
    <3> QED
      BY <1>4, <1>7, LoopStays
  <2>2. N \in 0..N
    BY <1>4
  <2> QED
    BY <2>1, <2>2
<1> QED
  BY <1>3, <1>8 DEF S

LEMMA ProduceWithin ==
  ASSUME NEW M, NEW T, IsFiniteSet(M), NEW K, T \subseteq K,
         \A m \in M : SubOf(m) \subseteq K => HeadOf(m) \in K
  PROVE  Produce(M, T) \subseteq K
<1> DEFINE S == SUBSET K
           N == Cardinality(M)
           Step(U, n) == U \cup {HeadOf(m) : m \in {k \in M : SubOf(k) \subseteq U}}
<1>1. N \in Nat
  BY FS_CardinalityType
<1>2. ASSUME NEW U \in S, NEW n \in 1..N
      PROVE  Step(U, n) \in S
  OBVIOUS
<1> DEFINE F == [p \in S \X (1..N) |-> Step(p[1], p[2])]
           Loop(h) == h = [k \in 0..N |-> IF k = 0 THEN T ELSE Step(h[k - 1], k)]
           after == CHOOSE h : Loop(h)
<1>3. Produce(M, T) = after[N]
  BY DEF Produce, Iterate
<1> HIDE DEF S, Step, N
<1>4. N \in Nat /\ T \in S /\ F \in [S \X (1..N) -> S]
  BY <1>1, <1>2 DEF S
<1>5. \E h : Loop(h)
  <2> HIDE DEF F
  <2>1. PICK h : LoopOf(h, N, S, T, F)
    BY <1>4, LoopExists
  <2>2. ASSUME NEW k \in 1..N
        PROVE  h[k] = Step(h[k - 1], k)
    <3>1. k - 1 \in 0..N /\ h[k - 1] \in S
      BY <1>4, <2>1 DEF LoopOf
    <3>2. F[<<h[k - 1], k>>] = Step(h[k - 1], k)
      BY <3>1 DEF F
    <3> QED
      BY <2>1, <3>2 DEF LoopOf
  <2>3. \A k \in 0..N : k # 0 => k \in 1..N
    BY <1>4
  <2>4. Loop(h)
    BY <2>1, <2>2, <2>3 DEF LoopOf
  <2> QED
    BY <2>4
<1>6. Loop(after)
  <2> HIDE DEF Loop
  <2> QED
    BY <1>5
<1> HIDE DEF after
<1>7. after[0] \in S /\ \A k \in 1..N : after[k - 1] \in S => after[k] \in S
  BY <1>2, <1>4, <1>6
<1>8. after[N] \in S
  <2>1. \A k \in 0..N : after[k] \in S
    <3> HIDE DEF S, N
    <3> QED
      BY <1>4, <1>7, LoopStays
  <2>2. N \in 0..N
    BY <1>4
  <2> QED
    BY <2>1, <2>2
<1> QED
  BY <1>3, <1>8 DEF S

LEMMA ReachWithin ==
  ASSUME NEW M, NEW T, IsFiniteSet(M), NEW K, T \subseteq K,
         \A m \in M : HeadOf(m) \in K => SubOf(m) \subseteq K
  PROVE  Reach(M, T) \subseteq K
<1> DEFINE S == SUBSET K
           N == Cardinality(M)
           Step(U, n) == U \cup UNION {SubOf(m) : m \in {k \in M : HeadOf(k) \in U}}
<1>1. N \in Nat
  BY FS_CardinalityType
<1>2. ASSUME NEW U \in S, NEW n \in 1..N
      PROVE  Step(U, n) \in S
  OBVIOUS
<1> DEFINE F == [p \in S \X (1..N) |-> Step(p[1], p[2])]
           Loop(h) == h = [k \in 0..N |-> IF k = 0 THEN T ELSE Step(h[k - 1], k)]
           after == CHOOSE h : Loop(h)
<1>3. Reach(M, T) = after[N]
  BY DEF Reach, Iterate
<1> HIDE DEF S, Step, N
<1>4. N \in Nat /\ T \in S /\ F \in [S \X (1..N) -> S]
  BY <1>1, <1>2 DEF S
<1>5. \E h : Loop(h)
  <2> HIDE DEF F
  <2>1. PICK h : LoopOf(h, N, S, T, F)
    BY <1>4, LoopExists
  <2>2. ASSUME NEW k \in 1..N
        PROVE  h[k] = Step(h[k - 1], k)
    <3>1. k - 1 \in 0..N /\ h[k - 1] \in S
      BY <1>4, <2>1 DEF LoopOf
    <3>2. F[<<h[k - 1], k>>] = Step(h[k - 1], k)
      BY <3>1 DEF F
    <3> QED
      BY <2>1, <3>2 DEF LoopOf
  <2>3. \A k \in 0..N : k # 0 => k \in 1..N
    BY <1>4
  <2>4. Loop(h)
    BY <2>1, <2>2, <2>3 DEF LoopOf
  <2> QED
    BY <2>4
<1>6. Loop(after)
  <2> HIDE DEF Loop
  <2> QED
    BY <1>5
<1> HIDE DEF after
<1>7. after[0] \in S /\ \A k \in 1..N : after[k - 1] \in S => after[k] \in S
  BY <1>2, <1>4, <1>6
<1>8. after[N] \in S
  <2>1. \A k \in 0..N : after[k] \in S
    <3> HIDE DEF S, N
    <3> QED
      BY <1>4, <1>7, LoopStays
  <2>2. N \in 0..N
    BY <1>4
  <2> QED
    BY <2>1, <2>2
<1> QED
  BY <1>3, <1>8 DEF S

----------------------------------------------------------------------------
(* What is needed is left as it is by a further round.                     *)

LEMMA InNaiveTasks ==
  ASSUME NEW x
  PROVE  x \in NaiveTasks <=>
           \E t \in d.prim \cup d.abs : \E v \in Valuations(t) : Satisfies(d.con[t], v) /\ x = Atom(t, v)
<1> DEFINE W(t) == {w \in Valuations(t) : Satisfies(d.con[t], w)}
<1>1. \A t, v : v \in W(t) <=> v \in Valuations(t) /\ Satisfies(d.con[t], v)
  OBVIOUS
<1>2. NaiveTasks = UNION {{Atom(t, v) : v \in W(t)} : t \in d.prim \cup d.abs}
  BY DEF NaiveTasks
<1> HIDE DEF W
<1>3. x \in NaiveTasks <=> \E t \in d.prim \cup d.abs : x \in {Atom(t, v) : v \in W(t)}
  BY <1>2
<1>4. \A t : x \in {Atom(t, v) : v \in W(t)} <=> \E v \in W(t) : x = Atom(t, v)
  OBVIOUS
<1> QED
  BY <1>1, <1>3, <1>4

LEMMA InNaiveMethods ==
  ASSUME NEW x
  PROVE  x \in NaiveMethods <=>
           \E m \in d.meth : \E v \in Valuations(m) : Satisfies(d.con[m], v) /\ x = [act |-> m, val |-> v]
<1> DEFINE W(m) == {w \in Valuations(m) : Satisfies(d.con[m], w)}
<1>1. \A m, v : v \in W(m) <=> v \in Valuations(m) /\ Satisfies(d.con[m], v)
  OBVIOUS
<1>2. NaiveMethods = UNION {{[act |-> m, val |-> v] : v \in W(m)} : m \in d.meth}
  BY DEF NaiveMethods
<1> HIDE DEF W
<1>3. x \in NaiveMethods <=> \E m \in d.meth : x \in {[act |-> m, val |-> v] : v \in W(m)}
  BY <1>2
<1>4. \A m : x \in {[act |-> m, val |-> v] : v \in W(m)} <=> \E v \in W(m) : x = [act |-> m, val |-> v]
  OBVIOUS
<1> QED
  BY <1>1, <1>3, <1>4

LEMMA NaiveFinite ==
  ASSUME IsProblem(d), IsHierarchy(d)
  PROVE  IsFiniteSet(NaiveTasks) /\ IsFiniteSet(NaiveMethods)
<1> DEFINE W(t) == {w \in Valuations(t) : Satisfies(d.con[t], w)}
           A == [t \in d.prim \cup d.abs |-> {Atom(t, v) : v \in W(t)}]
           B == [m \in d.meth |-> {[act |-> m, val |-> v] : v \in W(m)}]
<1>1. IsFiniteSet(d.prim \cup d.abs) /\ IsFiniteSet(d.meth)
  BY FS_Union DEF IsProblem, IsHierarchy
<1>2. ASSUME NEW x \in d.prim \cup d.abs \cup d.meth
      PROVE  IsFiniteSet(W(x))
  <2>1. IsFiniteSet(Valuations(x))
    BY ValuationsFinite DEF IsProblem, IsHierarchy
  <2> QED
    BY <2>1, FS_Subset
<1>3. NaiveTasks = UNION {A[t] : t \in d.prim \cup d.abs}
  BY DEF NaiveTasks
<1>4. NaiveMethods = UNION {B[m] : m \in d.meth}
  BY DEF NaiveMethods
<1>5. ASSUME NEW t \in d.prim \cup d.abs
      PROVE  IsFiniteSet(A[t])
  <2> DEFINE V == W(t)
             atom == [v \in V |-> Atom(t, v)]
  <2>1. IsFiniteSet(V)
    BY <1>2
  <2>2. A[t] = {atom[v] : v \in V}
    OBVIOUS
  <2> HIDE DEF A, V, atom
  <2> QED
    BY <2>1, <2>2, FiniteImage
<1>6. ASSUME NEW m \in d.meth
      PROVE  IsFiniteSet(B[m])
  <2> DEFINE V == W(m)
             method == [v \in V |-> [act |-> m, val |-> v]]
  <2>1. IsFiniteSet(V)
    BY <1>2
  <2>2. B[m] = {method[v] : v \in V}
    OBVIOUS
  <2> HIDE DEF B, V, method
  <2> QED
    BY <2>1, <2>2, FiniteImage
<1> HIDE DEF A, B, W
<1> QED
  BY <1>1, <1>3, <1>4, <1>5, <1>6, FiniteUnion

(* Parts of tasks and methods.                                             *)
Parts(A, B) == [tasks : SUBSET A, methods : SUBSET B]

LEMMA ShrinkShrinks ==
  ASSUME NEW all, IsFiniteSet(all.methods)
  PROVE  /\ Shrink(all).tasks \subseteq all.tasks /\ Shrink(all).methods \subseteq all.methods
         /\ Shrink(all) = [tasks |-> Shrink(all).tasks, methods |-> Shrink(all).methods]
<1> DEFINE P == {t \in all.tasks : t.head \in d.prim}
           F == ReachFacts(P, ToSet(d.init))
           T1 == Produce(all.methods, {t \in P : Pre(t) \subseteq F}) \cap all.tasks
           M1 == {m \in all.methods : HeadOf(m) \in T1 /\ SubOf(m) \subseteq T1}
           tops == {t \in T1 : t.head = d.top}
           T2 == Reach(M1, tops)
           added == UNION {Add(t) : t \in {u \in T2 : u.head \in d.prim}}
           T3 == T2 \cup {t \in T1 : /\ t.head \in d.ceTasks
                                     /\ \E f \in Pre(t) : f.head \in d.guards /\ f \in added}
<1>1. Shrink(all) = [tasks |-> T3, methods |-> {m \in M1 : HeadOf(m) \in T3}]
  BY DEF Shrink
<1>2. T1 \subseteq all.tasks /\ M1 \subseteq all.methods /\ tops \subseteq T1 /\ \A m \in M1 : SubOf(m) \subseteq T1
  <2> HIDE DEF P, F
  <2> QED
    OBVIOUS
<1>3. IsFiniteSet(M1)
  <2> HIDE DEF M1
  <2> QED
    BY <1>2, FS_Subset
<1>4. T3 \subseteq T1 \cup T2
  <2> HIDE DEF T2, T1, added
  <2> QED
    OBVIOUS
<1> HIDE DEF M1, T1, tops, T3
<1>5. T2 \subseteq T1
  BY <1>2, <1>3, ReachWithin
<1> HIDE DEF T2
<1>6. T3 \subseteq all.tasks /\ {m \in M1 : HeadOf(m) \in T3} \subseteq all.methods
  BY <1>2, <1>4, <1>5
<1> QED
  BY <1>1, <1>6

(* A part that only shrinks stops within as many steps as it has members.  *)
LEMMA ShrinkingEnds ==
  ASSUME NEW A, NEW B, IsFiniteSet(A), IsFiniteSet(B), NEW n, n = Cardinality(A) + Cardinality(B),
         NEW h, \A k \in 0..n + 1 : h[k] \in Parts(A, B),
         \A k \in 0..n : h[k + 1].tasks \subseteq h[k].tasks /\ h[k + 1].methods \subseteq h[k].methods
  PROVE  \E k \in 0..n : h[k + 1] = h[k]
<1> SUFFICES ASSUME \A k \in 0..n : h[k + 1] # h[k]
             PROVE  FALSE
  OBVIOUS
<1> DEFINE t == [k \in 0..n + 1 |-> Cardinality(h[k].tasks)]
           m == [k \in 0..n + 1 |-> Cardinality(h[k].methods)]
           K == {k \in 0..n : t[k] + m[k] <= n - k}
<1>1. Cardinality(A) \in Nat /\ Cardinality(B) \in Nat /\ n \in Nat
  BY FS_CardinalityType
<1>2. ASSUME NEW k \in 0..n + 1
      PROVE  /\ h[k].tasks \subseteq A /\ h[k].methods \subseteq B
             /\ h[k] = [tasks |-> h[k].tasks, methods |-> h[k].methods]
             /\ IsFiniteSet(h[k].tasks) /\ IsFiniteSet(h[k].methods)
             /\ t[k] = Cardinality(h[k].tasks) /\ m[k] = Cardinality(h[k].methods)
             /\ t[k] \in Nat /\ m[k] \in Nat
             /\ t[k] <= Cardinality(A) /\ m[k] <= Cardinality(B)
  <2>1. /\ h[k].tasks \subseteq A /\ h[k].methods \subseteq B
        /\ h[k] = [tasks |-> h[k].tasks, methods |-> h[k].methods]
    BY DEF Parts
  <2>2. t[k] = Cardinality(h[k].tasks) /\ m[k] = Cardinality(h[k].methods)
    OBVIOUS
  <2> HIDE DEF t, m
  <2>3. IsFiniteSet(h[k].tasks) /\ IsFiniteSet(h[k].methods)
        /\ Cardinality(h[k].tasks) <= Cardinality(A) /\ Cardinality(h[k].methods) <= Cardinality(B)
    BY <2>1, FS_Subset
  <2> QED
    BY <2>1, <2>2, <2>3, FS_CardinalityType
<1> HIDE DEF t, m
<1>3. 0 \in K
  <2>1. 0 \in 0..n + 1 /\ 0 \in 0..n
    BY <1>1
  <2>2. /\ t[0] \in Nat /\ m[0] \in Nat
        /\ t[0] <= Cardinality(A) /\ m[0] <= Cardinality(B)
    BY <1>2, <2>1
  <2>3. t[0] + m[0] <= n - 0
    BY <1>1, <2>2
  <2> QED
    BY <2>1, <2>3
<1>4. ASSUME NEW k \in 1..n, k - 1 \in K
      PROVE  k \in K
  <2>1. k \in 0..n /\ k \in 0..n + 1 /\ k - 1 \in 0..n /\ k - 1 \in 0..n + 1 /\ k - 1 + 1 = k
    BY <1>1
  <2>2. h[k].tasks \subseteq h[k - 1].tasks /\ h[k].methods \subseteq h[k - 1].methods /\ h[k] # h[k - 1]
    BY <2>1
  <2>3. h[k].tasks # h[k - 1].tasks \/ h[k].methods # h[k - 1].methods
    BY <1>2, <2>1, <2>2
  <2>4. t[k] <= t[k - 1] /\ (t[k] = t[k - 1] => h[k].tasks = h[k - 1].tasks)
    <3>1. PICK S, T : S = h[k - 1].tasks /\ T = h[k].tasks
      OBVIOUS
    <3>2. IsFiniteSet(S) /\ T \subseteq S /\ t[k] = Cardinality(T) /\ t[k - 1] = Cardinality(S)
      BY <1>2, <2>1, <2>2, <3>1
    <3>3. Cardinality(T) <= Cardinality(S) /\ (Cardinality(T) = Cardinality(S) => T = S)
      BY <3>2, FS_Subset
    <3> QED
      BY <3>1, <3>2, <3>3
  <2>5. m[k] <= m[k - 1] /\ (m[k] = m[k - 1] => h[k].methods = h[k - 1].methods)
    <3>1. PICK S, T : S = h[k - 1].methods /\ T = h[k].methods
      OBVIOUS
    <3>2. IsFiniteSet(S) /\ T \subseteq S /\ m[k] = Cardinality(T) /\ m[k - 1] = Cardinality(S)
      BY <1>2, <2>1, <2>2, <3>1
    <3>3. Cardinality(T) <= Cardinality(S) /\ (Cardinality(T) = Cardinality(S) => T = S)
      BY <3>2, FS_Subset
    <3> QED
      BY <3>1, <3>2, <3>3
  <2>6. t[k - 1] + m[k - 1] <= n - (k - 1)
    BY <1>4
  <2>7. t[k] \in Nat /\ m[k] \in Nat /\ t[k - 1] \in Nat /\ m[k - 1] \in Nat
    BY <1>2, <2>1
  <2>8. t[k] + m[k] <= n - k
    BY <1>1, <2>3, <2>4, <2>5, <2>6, <2>7
  <2> QED
    BY <2>1, <2>8
<1> HIDE DEF K
<1>5. n \in K
  <2>1. 0..n \subseteq K
    BY <1>1, <1>3, <1>4, StepByStep
  <2> QED
    BY <1>1, <2>1
<1>6. n \in 0..n /\ n \in 0..n + 1 /\ n + 1 \in 0..n + 1
  BY <1>1
<1>7. t[n] = 0 /\ m[n] = 0
  <2>1. t[n] + m[n] <= n - n
    BY <1>5 DEF K
  <2>2. t[n] \in Nat /\ m[n] \in Nat
    BY <1>2, <1>6
  <2>3. PICK a, b : a = t[n] /\ b = m[n]
    OBVIOUS
  <2>4. n - n = 0
    BY <1>1
  <2>5. a \in Nat /\ b \in Nat /\ a + b <= 0
    BY <2>1, <2>2, <2>3, <2>4
  <2>6. a = 0 /\ b = 0
    BY <2>5
  <2> QED
    BY <2>3, <2>6
<1>8. h[n].tasks = {} /\ h[n].methods = {}
  BY <1>2, <1>6, <1>7, FS_EmptySet
<1>9. h[n + 1].tasks = {} /\ h[n + 1].methods = {}
  BY <1>6, <1>8
<1>10. h[n + 1] = h[n]
  <2>1. PICK a, b : a = h[n].tasks /\ b = h[n].methods
    OBVIOUS
  <2>2. a = h[n + 1].tasks /\ b = h[n + 1].methods
    BY <1>8, <1>9, <2>1
  <2>3. h[n] = [tasks |-> a, methods |-> b]
    BY ONLY <1>2, <1>6, <2>1
  <2>4. h[n + 1] = [tasks |-> a, methods |-> b]
    BY ONLY <1>2, <1>6, <2>2
  <2> QED
    BY <2>3, <2>4
<1> QED
  BY <1>6, <1>10

(* What is needed is a part of the naive grounding that does not shrink.   *)
LEMMA NeededIsFixed ==
  ASSUME IsProblem(d), IsHierarchy(d)
  PROVE  /\ Needed.tasks \subseteq NaiveTasks /\ Needed.methods \subseteq NaiveMethods
         /\ Shrink(Needed) = Needed
<1> DEFINE n == Cardinality(NaiveTasks) + Cardinality(NaiveMethods)
           N == n + 1
           S == Parts(NaiveTasks, NaiveMethods)
           F == [p \in S \X (1..N) |-> Shrink(p[1])]
           Loop(h) == h = [k \in 0..n + 1 |-> IF k = 0 THEN Naive ELSE Shrink(h[k - 1])]
           after == CHOOSE h : Loop(h)
           last == CHOOSE k \in 0..n : after[k + 1] = after[k]
<1>1. IsFiniteSet(NaiveTasks) /\ IsFiniteSet(NaiveMethods)
  BY NaiveFinite
<1>2. n \in Nat /\ N \in Nat
  BY <1>1, FS_CardinalityType
<1>3. ASSUME NEW p \in S
      PROVE  Shrink(p) \in S /\ Shrink(p).tasks \subseteq p.tasks /\ Shrink(p).methods \subseteq p.methods
  <2>1. p.tasks \subseteq NaiveTasks /\ p.methods \subseteq NaiveMethods
    BY DEF Parts
  <2>2. IsFiniteSet(p.methods)
    BY <1>1, <2>1, FS_Subset
  <2>3. PICK s : s = Shrink(p)
    OBVIOUS
  <2>4. s.tasks \subseteq p.tasks /\ s.methods \subseteq p.methods /\ s = [tasks |-> s.tasks, methods |-> s.methods]
    BY <2>2, <2>3, ShrinkShrinks
  <2>5. s \in S
    BY <2>1, <2>4 DEF Parts
  <2> QED
    BY <2>3, <2>4, <2>5
<1>4. Naive \in S
  BY DEF Naive, Parts
<1>5. Needed = after[last]
  BY DEF Needed
<1> HIDE DEF n, S
<1>6. F \in [S \X (1..N) -> S]
  BY <1>3
<1>7. \E h : Loop(h)
  <2> HIDE DEF F
  <2>1. PICK h : LoopOf(h, N, S, Naive, F)
    <3> HIDE DEF N
    <3> QED
      BY <1>2, <1>4, <1>6, LoopExists
  <2>2. ASSUME NEW k \in 1..N
        PROVE  h[k] = Shrink(h[k - 1])
    <3>1. k - 1 \in 0..N /\ h[k - 1] \in S
      BY <1>2, <2>1 DEF LoopOf
    <3>2. F[<<h[k - 1], k>>] = Shrink(h[k - 1])
      BY <3>1 DEF F
    <3> QED
      BY <2>1, <3>2 DEF LoopOf
  <2>3. \A k \in 0..N : k # 0 => k \in 1..N
    BY <1>2
  <2>4. Loop(h)
    BY <2>1, <2>2, <2>3 DEF LoopOf
  <2> QED
    BY <2>4
<1>8. Loop(after)
  <2> HIDE DEF Loop
  <2> QED
    BY <1>7
<1> HIDE DEF after, last
<1>9. after[0] = Naive /\ \A k \in 1..N : k - 1 \in 0..N /\ after[k] = Shrink(after[k - 1])
  BY <1>2, <1>8
<1>10. \A k \in 0..N : after[k] \in S
  <2>1. after[0] \in S /\ \A k \in 1..N : after[k - 1] \in S => after[k] \in S
    BY <1>3, <1>4, <1>9
  <2> HIDE DEF N
  <2> QED
    BY <1>2, <2>1, LoopStays
<1>11. ASSUME NEW k \in 0..n
       PROVE  /\ after[k + 1] = Shrink(after[k])
              /\ after[k + 1].tasks \subseteq after[k].tasks /\ after[k + 1].methods \subseteq after[k].methods
  <2>1. k + 1 \in 1..N /\ k + 1 - 1 = k /\ k \in 0..N
    BY <1>2
  <2>2. after[k + 1] = Shrink(after[k])
    BY <1>9, <2>1
  <2> QED
    BY <1>3, <1>10, <2>1, <2>2
<1>12. \E k \in 0..n : after[k + 1] = after[k]
  <2>1. PICK A, B : A = NaiveTasks /\ B = NaiveMethods
    OBVIOUS
  <2>2. /\ IsFiniteSet(A) /\ IsFiniteSet(B) /\ n = Cardinality(A) + Cardinality(B)
        /\ \A k \in 0..n + 1 : after[k] \in Parts(A, B)
    BY <1>1, <1>10, <2>1 DEF n, S
  <2> QED
    BY <1>11, <2>2, ShrinkingEnds
<1>13. last \in 0..n /\ after[last + 1] = after[last]
  BY <1>12 DEF last
<1>14. last \in 0..N /\ after[last] \in S
  BY <1>2, <1>10, <1>13
<1> QED
  BY <1>5, <1>11, <1>13, <1>14 DEF S, Parts

----------------------------------------------------------------------------
(* A further round leaves all that is needed, so each of its tasks and     *)
(* methods has passed every part of a round.                               *)

Primitives == {t \in Needed.tasks : t.head \in d.prim}

NeededFacts == ReachFacts(Primitives, ToSet(d.init))

Descending == Reach(Needed.methods, {t \in Needed.tasks : t.head = d.top})

(* A task for a conditional effect whose guard a task adds.                *)
Guarded(t, u, f) ==
  /\ t.head \in d.ceTasks /\ u.head \in d.prim
  /\ f \in Pre(t) /\ f.head \in d.guards /\ f \in Add(u)

LEMMA NeededLayers ==
  ASSUME IsProblem(d), IsHierarchy(d)
  PROVE  /\ IsFiniteSet(Needed.methods) /\ IsFiniteSet(Primitives)
         /\ Needed.tasks \subseteq Produce(Needed.methods, {t \in Primitives : Pre(t) \subseteq NeededFacts})
         /\ \A m \in Needed.methods : HeadOf(m) \in Needed.tasks /\ SubOf(m) \subseteq Needed.tasks
         /\ Descending \subseteq Needed.tasks
         /\ \A t \in Needed.tasks : t \in Descending \/ \E u \in Descending : \E f : Guarded(t, u, f)
<1> DEFINE X == Needed.tasks
           M == Needed.methods
           start == {t \in Primitives : Pre(t) \subseteq NeededFacts}
           T1 == Produce(M, start) \cap X
           M1 == {m \in M : HeadOf(m) \in T1 /\ SubOf(m) \subseteq T1}
           T2 == Reach(M1, {t \in T1 : t.head = d.top})
           added == UNION {Add(t) : t \in {u \in T2 : u.head \in d.prim}}
           T3 == T2 \cup {t \in T1 : /\ t.head \in d.ceTasks
                                     /\ \E f \in Pre(t) : f.head \in d.guards /\ f \in added}
<1>1. Needed.tasks \subseteq NaiveTasks /\ Needed.methods \subseteq NaiveMethods /\ Shrink(Needed) = Needed
  BY NeededIsFixed
<1>2. IsFiniteSet(Needed.methods) /\ IsFiniteSet(Primitives)
  <2>1. Primitives \subseteq NaiveTasks
    BY <1>1 DEF Primitives
  <2> QED
    BY <1>1, <2>1, NaiveFinite, FS_Subset
<1>3. Shrink(Needed) = [tasks |-> T3, methods |-> {m \in M1 : HeadOf(m) \in T3}]
  BY DEF Shrink, Primitives, NeededFacts
<1>4. X = T3 /\ M = {m \in M1 : HeadOf(m) \in T3}
  <2> HIDE DEF T3, M1
  <2> QED
    BY <1>1, <1>3
<1>5. M1 = M
  <2> HIDE DEF T3, T1
  <2> QED
    BY <1>4
<1>6. T2 \subseteq T1
  <2>1. \A m \in M1 : SubOf(m) \subseteq T1
    OBVIOUS
  <2>2. IsFiniteSet(M1)
    BY <1>2, <1>5
  <2>3. {t \in T1 : t.head = d.top} \subseteq T1
    OBVIOUS
  <2> HIDE DEF T1, M1
  <2> QED
    BY <2>1, <2>2, <2>3, ReachWithin
<1>7. T3 \subseteq T1 /\ T1 \subseteq X
  <2> HIDE DEF T2
  <2> QED
    BY <1>6
<1>8. T1 = X
  BY <1>4, <1>7
<1>9. T2 = Descending
  <2>1. T2 = Reach(M1, {t \in T1 : t.head = d.top})
    OBVIOUS
  <2> HIDE DEF T2, T1, M1
  <2> QED
    BY <1>5, <1>8, <2>1 DEF Descending
<1>10. X \subseteq Produce(M, start)
  <2> HIDE DEF start
  <2> QED
    BY <1>8
<1>11. \A m \in M : HeadOf(m) \in X /\ SubOf(m) \subseteq X
  <2>1. \A m \in M1 : HeadOf(m) \in T1 /\ SubOf(m) \subseteq T1
    OBVIOUS
  <2> HIDE DEF T1, M1
  <2> QED
    BY <1>5, <1>8, <2>1
<1>12. ASSUME NEW t \in X, t \notin T2
       PROVE  \E u \in T2 : \E f : Guarded(t, u, f)
  <2>1. t \in T3
    BY <1>4
  <2>2. t.head \in d.ceTasks /\ \E f \in Pre(t) : f.head \in d.guards /\ f \in added
    <3> HIDE DEF T2, T1, added
    <3> QED
      BY <1>12, <2>1
  <2>3. PICK f \in Pre(t) : f.head \in d.guards /\ f \in added
    BY <2>2
  <2>4. PICK u \in T2 : u.head \in d.prim /\ f \in Add(u)
    <3> HIDE DEF T2
    <3> QED
      BY <2>3
  <2>5. Guarded(t, u, f)
    BY <2>2, <2>3, <2>4 DEF Guarded
  <2> QED
    BY <2>5
<1> HIDE DEF T1, M1, T2, T3
<1> QED
  BY <1>2, <1>6, <1>8, <1>9, <1>10, <1>11, <1>12

LEMMA NeededTasksAre ==
  ASSUME IsProblem(d), IsHierarchy(d), NEW t \in Needed.tasks
  PROVE  /\ t.head \in d.prim \cup d.abs /\ t.args \in Valuations(t.head)
         /\ Satisfies(d.con[t.head], t.args) /\ t = Atom(t.head, t.args)
<1>1. t \in NaiveTasks
  BY NeededIsFixed
<1>2. PICK x \in d.prim \cup d.abs : \E v \in Valuations(x) : Satisfies(d.con[x], v) /\ t = Atom(x, v)
  BY <1>1, InNaiveTasks
<1>3. PICK v \in Valuations(x) : Satisfies(d.con[x], v) /\ t = Atom(x, v)
  BY <1>2
<1>4. t.head = x /\ t.args = v
  BY <1>3 DEF Atom
<1> QED
  BY <1>3, <1>4

LEMMA NeededMethodsAre ==
  ASSUME IsProblem(d), IsHierarchy(d), NEW m \in Needed.methods
  PROVE  /\ m.act \in d.meth /\ m.val \in Valuations(m.act)
         /\ Satisfies(d.con[m.act], m.val) /\ m = [act |-> m.act, val |-> m.val]
<1>1. m \in NaiveMethods
  BY NeededIsFixed
<1>2. PICK x \in d.meth : \E v \in Valuations(x) : Satisfies(d.con[x], v) /\ m = [act |-> x, val |-> v]
  BY <1>1, InNaiveMethods
<1>3. PICK v \in Valuations(x) : Satisfies(d.con[x], v) /\ m = [act |-> x, val |-> v]
  BY <1>2
<1>4. m.act = x /\ m.val = v
  BY <1>3
<1> QED
  BY <1>3, <1>4

(* The task and the subtasks of a method that is needed.                   *)
LEMMA NeededMethodTask ==
  ASSUME IsProblem(d), IsHierarchy(d), NEW m \in Needed.methods
  PROVE  /\ HeadOf(m).head = d.of[m.act] /\ HeadOf(m).head \in d.abs /\ HeadOf(m).head \notin d.prim
         /\ HeadOf(m).args = Parameters(m.act, m.val)
         /\ HeadOf(m) = Instance(Atom(d.of[m.act], d.par[m.act]), m.val)
<1>1. m.act \in d.meth
  BY NeededMethodsAre
<1>2. d.of[m.act] \in d.abs /\ d.of[m.act] \notin d.prim
  BY <1>1 DEF IsHierarchy
<1> QED
  BY <1>2 DEF HeadOf, Instance, Atom, Parameters

(* The primitive tasks that are needed have reachable preconditions.       *)
LEMMA NeededAreReachable ==
  ASSUME IsProblem(d), IsHierarchy(d), NEW t \in Primitives
  PROVE  Pre(t) \subseteq NeededFacts
<1> DEFINE K == {x \in Needed.tasks : x.head \in d.prim => Pre(x) \subseteq NeededFacts}
           start == {x \in Primitives : Pre(x) \subseteq NeededFacts}
<1>1. start \subseteq K
  BY DEF Primitives
<1>2. \A m \in Needed.methods : HeadOf(m) \in K
  BY NeededLayers, NeededMethodTask
<1>3. Needed.tasks \subseteq Produce(Needed.methods, start) /\ IsFiniteSet(Needed.methods)
  BY NeededLayers
<1>4. t \in Needed.tasks /\ t.head \in d.prim
  BY DEF Primitives
<1>5. t \in K
  <2> HIDE DEF K, start
  <2>1. Produce(Needed.methods, start) \subseteq K
    BY <1>1, <1>2, <1>3, ProduceWithin
  <2> QED
    BY <1>3, <1>4, <2>1
<1> QED
  BY <1>4, <1>5

(* A reachable fact of a static predicate is initial.                      *)
LEMMA StaticFactsInitial ==
  ASSUME IsProblem(d), IsHierarchy(d), NEW f \in NeededFacts, StaticPredicate(f.head)
  PROVE  f \in ToSet(d.init)
<1> DEFINE all == ToSet(d.init) \cup UNION {Add(u) : u \in Primitives}
           K == {x \in all : StaticPredicate(x.head) => x \in ToSet(d.init)}
<1>1. ToSet(d.init) \subseteq K
  OBVIOUS
<1>2. ASSUME NEW u \in Primitives, NEW x \in Add(u)
      PROVE  x \in K
  <2>1. PICK k \in DOMAIN d.add[u.head] : x = Instance(d.add[u.head][k], u.args)
    BY <1>2 DEF Add
  <2>2. x.head = d.add[u.head][k].head /\ u.head \in d.prim
    BY <2>1 DEF Instance, Atom, Primitives
  <2>3. ~StaticPredicate(x.head)
    BY <2>2 DEF StaticPredicate
  <2>4. x \in all
    BY <1>2
  <2> QED
    BY <2>3, <2>4
<1>3. \A u \in Primitives : Add(u) \subseteq K
  <2> HIDE DEF K
  <2> QED
    BY <1>2
<1>4. NeededFacts \subseteq K
  <2> HIDE DEF K
  <2> QED
    BY <1>1, <1>3, NeededLayers, ReachFactsWithin DEF NeededFacts
<1> QED
  BY <1>4

LEMMA NeededAreUsable ==
  ASSUME IsProblem(d), IsHierarchy(d), NEW m \in Needed.methods
  PROVE  m.act \in d.meth /\ Usable(m.act, m.val)
<1>1. PICK a, v : a = m.act /\ v = m.val
  OBVIOUS
<1>2. a \in d.meth /\ v \in Valuations(a) /\ Satisfies(d.con[a], v)
  BY <1>1, NeededMethodsAre
<1>3. ASSUME NEW j \in DOMAIN d.sub[a]
      PROVE  /\ Instance(d.sub[a][j], v) \in Needed.tasks
             /\ Instance(d.sub[a][j], v).head = d.sub[a][j].head
  <2>1. Instance(d.sub[a][j], v) \in SubOf(m)
    BY <1>1 DEF SubOf
  <2> QED
    BY <2>1, NeededLayers DEF Instance, Atom
<1>4. Executable(a, v)
  <2> SUFFICES ASSUME NEW j \in DOMAIN d.sub[a], d.sub[a][j].head \in d.prim,
                      NEW k \in DOMAIN d.pre[d.sub[a][j].head],
                      StaticPredicate(d.pre[d.sub[a][j].head][k].head)
               PROVE  Instance(d.pre[d.sub[a][j].head][k], Instance(d.sub[a][j], v).args) \in ToSet(d.init)
    BY DEF Executable
  <2>1. PICK s : s = Instance(d.sub[a][j], v)
    OBVIOUS
  <2>2. s \in Needed.tasks /\ s.head = d.sub[a][j].head /\ s \in Primitives
    BY <1>3, <2>1 DEF Primitives
  <2>3. PICK f : f = Instance(d.pre[s.head][k], s.args)
    OBVIOUS
  <2>4. f \in Pre(s)
    BY <2>2, <2>3 DEF Pre
  <2>5. f \in NeededFacts
    BY <2>2, <2>4, NeededAreReachable
  <2>6. f.head = d.pre[s.head][k].head
    BY <2>3 DEF Instance, Atom
  <2>7. f \in ToSet(d.init)
    BY <2>2, <2>5, <2>6, StaticFactsInitial
  <2> QED
    BY <2>1, <2>2, <2>3, <2>7
<1>5. ASSUME NEW j \in DOMAIN d.sub[a]
      PROVE  Satisfies(d.con[d.sub[a][j].head], Instance(d.sub[a][j], v).args)
  <2>1. PICK s : s = Instance(d.sub[a][j], v)
    OBVIOUS
  <2>2. s \in Needed.tasks /\ s.head = d.sub[a][j].head
    BY <1>3, <2>1
  <2>3. Satisfies(d.con[s.head], s.args)
    BY <2>2, NeededTasksAre
  <2> QED
    BY <2>1, <2>2, <2>3
<1>6. Usable(a, v)
  BY <1>2, <1>4, <1>5 DEF Usable
<1> QED
  BY <1>1, <1>2, <1>6

----------------------------------------------------------------------------
(* What is needed is admitted by the typings, found by the two graphs, and *)
(* kept by the search.                                                     *)

LEMMA DescendingAdmitted ==
  ASSUME IsProblem(d), HierarchyInv, stack = <<>>, d.typed
  PROVE  /\ \A t \in Descending : TypingAdmits(typing, t.head, t.args)
         /\ \A m \in Needed.methods : HeadOf(m) \in Descending => TypingAdmits(typing, m.act, m.val)
<1> DEFINE K == {t \in Needed.tasks : TypingAdmits(typing, t.head, t.args)}
           tops == {t \in Needed.tasks : t.head = d.top}
<1>1. IsHierarchy(d)
  BY DEF HierarchyInv, StackInv
<1>2. \A x, w : Admits(typing, stack, x, w) => TypingAdmits(typing, x, w)
  <2>1. DOMAIN stack = {}
    OBVIOUS
  <2> QED
    BY <2>1 DEF Admits
<1>3. ASSUME NEW t \in tops
      PROVE  t \in K
  <2>1. TypingAdmits(typing, d.top, <<>>)
    BY <1>2 DEF HierarchyInv
  <2>2. PICK pc : pc \in typing[d.top]
    BY <2>1 DEF TypingAdmits
  <2>3. t \in Needed.tasks /\ t.head = d.top
    OBVIOUS
  <2>4. t.args \in Valuations(t.head)
    BY <1>1, <2>3, NeededTasksAre
  <2>5. DOMAIN t.args = {}
    <3>1. DOMAIN d.sort[d.top] = {}
      BY <1>1 DEF IsHierarchy
    <3> QED
      BY <2>3, <2>4, <3>1 DEF Valuations
  <2>6. TypingAdmits(typing, t.head, t.args)
    BY <2>2, <2>3, <2>5 DEF TypingAdmits
  <2> QED
    BY <2>3, <2>6
<1>4. ASSUME NEW m \in Needed.methods, HeadOf(m) \in K
      PROVE  Refines(typing, stack, m.act, m.val)
  <2>1. m.act \in d.meth /\ Usable(m.act, m.val)
    BY <1>1, NeededAreUsable
  <2>2. TypingAdmits(typing, HeadOf(m).head, HeadOf(m).args)
    BY <1>4
  <2>3. TypingAdmits(typing, d.of[m.act], Parameters(m.act, m.val))
    BY <1>1, <2>2, NeededMethodTask
  <2> QED
    BY <2>1, <2>3 DEF HierarchyInv
<1>5. ASSUME NEW m \in Needed.methods, HeadOf(m) \in K
      PROVE  SubOf(m) \subseteq K
  <2> SUFFICES ASSUME NEW s \in SubOf(m)
               PROVE  s \in K
    OBVIOUS
  <2>1. PICK j \in DOMAIN d.sub[m.act] : s = Instance(d.sub[m.act][j], m.val)
    BY DEF SubOf
  <2>2. s.head = d.sub[m.act][j].head /\ s.args = Instance(d.sub[m.act][j], m.val).args
    BY <2>1 DEF Instance, Atom
  <2>3. Admits(typing, stack, s.head, s.args)
    BY <1>4, <1>5, <2>2 DEF Refines
  <2>4. s \in Needed.tasks
    BY <1>1, NeededLayers
  <2> QED
    BY <1>2, <2>3, <2>4
<1>6. tops \subseteq K /\ \A m \in Needed.methods : HeadOf(m) \in K => SubOf(m) \subseteq K
  <2> HIDE DEF K, tops
  <2> QED
    BY <1>3, <1>5
<1>7. Descending \subseteq K
  <2>1. IsFiniteSet(Needed.methods)
    BY <1>1, NeededLayers
  <2>2. Descending = Reach(Needed.methods, tops)
    BY DEF Descending
  <2> HIDE DEF K, tops
  <2> QED
    BY <1>6, <2>1, <2>2, ReachWithin
<1>8. ASSUME NEW m \in Needed.methods, HeadOf(m) \in Descending
      PROVE  TypingAdmits(typing, m.act, m.val)
  <2>1. HeadOf(m) \in K
    <3> HIDE DEF K
    <3> QED
      BY <1>7, <1>8
  <2> QED
    BY <1>4, <2>1 DEF Refines
<1>9. \A t \in Descending : TypingAdmits(typing, t.head, t.args)
  BY <1>7
<1> QED
  BY <1>8, <1>9

(* Only tasks for conditional effects do not descend from the initial      *)
(* task.                                                                   *)
LEMMA NeededCompatible ==
  ASSUME IsProblem(d), HierarchyInv, stack = <<>>
  PROVE  /\ \A t \in Needed.tasks : Compatible(t.head, t.args)
         /\ \A m \in Needed.methods : HeadOf(m) \in Descending /\ Compatible(m.act, m.val)
<1>1. IsHierarchy(d) /\ d.ceTasks \subseteq d.prim
  BY DEF HierarchyInv, StackInv
<1>2. \A t \in Needed.tasks : t \in Descending \/ t.head \in d.ceTasks
  BY <1>1, NeededLayers DEF Guarded
<1>3. \A m \in Needed.methods : HeadOf(m) \in Descending
  <2> SUFFICES ASSUME NEW m \in Needed.methods
               PROVE  HeadOf(m) \in Descending
    OBVIOUS
  <2>1. HeadOf(m) \in Needed.tasks /\ HeadOf(m).head \notin d.prim
    BY <1>1, NeededLayers, NeededMethodTask
  <2> QED
    BY <1>1, <1>2, <2>1
<1>4. ASSUME d.typed
      PROVE  /\ \A t \in Descending : TypingAdmits(typing, t.head, t.args)
             /\ \A m \in Needed.methods : TypingAdmits(typing, m.act, m.val)
  BY <1>3, <1>4, DescendingAdmitted
<1> QED
  BY <1>2, <1>3, <1>4 DEF Compatible, TypingAdmits

(* A primitive task that is needed is put out once its preconditions are   *)
(* found.                                                                  *)
LEMMA NeededPutOut ==
  ASSUME IsProblem(d), HierarchyInv, stack = <<>>, phase = "Done", TasksInv,
         NEW t \in Primitives, Pre(t) \subseteq ToSet(facts)
  PROVE  Tasked(t.head, t.args)
<1>1. IsHierarchy(d)
  BY DEF HierarchyInv, StackInv
<1>2. t \in Needed.tasks /\ t.head \in d.prim
  BY DEF Primitives
<1>3. t.args \in Valuations(t.head) /\ Satisfies(d.con[t.head], t.args) /\ Compatible(t.head, t.args)
  BY <1>1, <1>2, NeededTasksAre, NeededCompatible
<1>4. \A j \in DOMAIN d.pre[t.head] : Instance(d.pre[t.head][j], t.args) \in ToSet(facts)
  BY DEF Pre
<1> QED
  BY <1>2, <1>3, <1>4 DEF TasksInv

LEMMA NeededFactsFound ==
  ASSUME IsProblem(d), HierarchyInv, stack = <<>>, phase = "Done", TasksInv
  PROVE  NeededFacts \subseteq ToSet(facts)
<1>1. IsHierarchy(d)
  BY DEF HierarchyInv, StackInv
<1>2. ToSet(d.init) \subseteq ToSet(facts)
  BY DEF TasksInv
<1>3. ASSUME NEW u \in Primitives, Pre(u) \subseteq ToSet(facts), NEW f \in Add(u)
      PROVE  f \in ToSet(facts)
  <2>1. PICK k \in DOMAIN tasks : tasks[k].act = u.head /\ tasks[k].val = u.args
    BY <1>3, NeededPutOut DEF Tasked
  <2>2. Numbered(tasks[k].add, d.add[u.head], u.args, facts)
    BY <2>1 DEF TasksInv
  <2>3. PICK j \in DOMAIN d.add[u.head] : f = Instance(d.add[u.head][j], u.args)
    BY <1>3 DEF Add
  <2> QED
    BY <2>2, <2>3 DEF Numbered, ToSet
<1>4. \A u \in Primitives : Pre(u) \subseteq ToSet(facts) => Add(u) \subseteq ToSet(facts)
  BY <1>3
<1>5. IsFiniteSet(Primitives)
  BY <1>1, NeededLayers
<1> QED
  BY <1>2, <1>4, <1>5, ReachFactsWithin DEF NeededFacts

(* The primitive tasks that are needed are among the tasks that the graph  *)
(* of facts left, and all tasks that are needed are atoms of the graph of  *)
(* tasks.                                                                  *)
LEMMA NeededTasksFound ==
  ASSUME IsProblem(d), HierarchyInv, stack = <<>>, GroundInv, phase = "Done"
  PROVE  /\ \A t \in Primitives : Tasked(t.head, t.args)
         /\ Needed.tasks \subseteq ToSet(atoms)
<1>1. IsHierarchy(d) /\ TasksInv
  BY DEF HierarchyInv, StackInv, GroundInv
<1>2. ASSUME NEW t \in Primitives
      PROVE  Tasked(t.head, t.args)
  <2>1. Pre(t) \subseteq ToSet(facts)
    BY <1>1, NeededAreReachable, NeededFactsFound
  <2> QED
    BY <1>1, <2>1, NeededPutOut
<1>3. ASSUME NEW t \in Primitives
      PROVE  t \in ToSet(atoms)
  <2>1. PICK k \in DOMAIN tasks : tasks[k].act = t.head /\ tasks[k].val = t.args
    BY <1>2 DEF Tasked
  <2>2. Atom(t.head, t.args) \in ToSet(atoms)
    BY <1>1, <2>1 DEF TasksInv
  <2>3. t = Atom(t.head, t.args)
    BY <1>1, NeededTasksAre DEF Primitives
  <2> QED
    BY <2>2, <2>3
<1>4. PICK T : Reached(T)
  BY DEF GroundInv, DoneInv
<1>5. ASSUME NEW m \in Needed.methods, SubOf(m) \subseteq ToSet(atoms)
      PROVE  HeadOf(m) \in ToSet(atoms)
  <2>1. m.act \in d.meth /\ m.val \in Valuations(m.act) /\ Satisfies(d.con[m.act], m.val)
        /\ Compatible(m.act, m.val)
    BY <1>1, NeededMethodsAre, NeededCompatible
  <2>2. \A j \in DOMAIN d.sub[m.act] : Instance(d.sub[m.act][j], m.val) \in ToSet(atoms)
    BY <1>5 DEF SubOf
  <2>3. PICK n \in DOMAIN atoms : atoms[n] = Instance(Atom(d.of[m.act], d.par[m.act]), m.val)
    BY <1>4, <2>1, <2>2 DEF Reached
  <2>4. atoms[n] = HeadOf(m)
    BY <2>3 DEF HeadOf
  <2> QED
    BY <2>4 DEF ToSet
<1>6. Needed.tasks \subseteq ToSet(atoms)
  <2> DEFINE start == {t \in Primitives : Pre(t) \subseteq NeededFacts}
  <2>1. start \subseteq ToSet(atoms)
    BY <1>3
  <2>2. Needed.tasks \subseteq Produce(Needed.methods, start) /\ IsFiniteSet(Needed.methods)
    BY <1>1, NeededLayers
  <2> HIDE DEF start
  <2>3. Produce(Needed.methods, start) \subseteq ToSet(atoms)
    BY <1>5, <2>1, <2>2, ProduceWithin
  <2> QED
    BY <2>2, <2>3
<1> QED
  BY <1>2, <1>6

LEMMA NeededKept ==
  ASSUME JoinInv, HierarchyInv, GroundInv
  PROVE  GroundingKeepsRefinements
<1> SUFFICES ASSUME phase = "Done"
             PROVE  Needed.tasks \subseteq kept.tasks /\ Needed.methods \subseteq kept.methods
  BY DEF GroundingKeepsRefinements
<1>1. IsProblem(d) /\ IsHierarchy(d) /\ stack = <<>> /\ TasksInv /\ d.ceTasks \subseteq d.prim
  BY DEF JoinInv, ProblemInv, HierarchyInv, StackInv, GroundInv
<1>2. IsInjective(atoms) /\ IsInjective(facts)
  BY DEF GroundInv, DoneInv, TasksInv
<1>3. PICK T : Reached(T)
  BY DEF GroundInv, DoneInv
<1>4. Needed.tasks \subseteq ToSet(atoms) /\ \A t \in Primitives : Tasked(t.head, t.args)
  BY <1>1, NeededTasksFound
<1> DEFINE K == {atoms[n] : n \in T}
<1>5. \A n \in T : n \in DOMAIN atoms /\ atoms[n] \in kept.tasks
  BY <1>3 DEF Reached
<1>6. ASSUME NEW m \in Needed.methods, HeadOf(m) \in K
      PROVE  m \in kept.methods /\ SubOf(m) \subseteq K
  <2>1. /\ m.act \in d.meth /\ m.val \in Valuations(m.act) /\ Satisfies(d.con[m.act], m.val)
        /\ Compatible(m.act, m.val) /\ m = [act |-> m.act, val |-> m.val]
    BY <1>1, NeededMethodsAre, NeededCompatible
  <2>2. SubOf(m) \subseteq ToSet(atoms)
    BY <1>1, <1>4, NeededLayers
  <2>3. \A j \in DOMAIN d.sub[m.act] : Instance(d.sub[m.act][j], m.val) \in ToSet(atoms)
    BY <2>2 DEF SubOf
  <2>4. PICK n \in DOMAIN atoms :
          /\ atoms[n] = Instance(Atom(d.of[m.act], d.par[m.act]), m.val)
          /\ n \in T => /\ [act |-> m.act, val |-> m.val] \in kept.methods
                        /\ Numbered(T, d.sub[m.act], m.val, atoms)
    BY <1>3, <2>1, <2>3 DEF Reached
  <2>5. atoms[n] = HeadOf(m)
    BY <2>4 DEF HeadOf
  <2>6. PICK i \in T : HeadOf(m) = atoms[i]
    BY <1>6
  <2>7. i = n
    BY <1>2, <1>5, <2>5, <2>6 DEF IsInjective
  <2>8. m \in kept.methods /\ Numbered(T, d.sub[m.act], m.val, atoms)
    BY <2>1, <2>4, <2>6, <2>7
  <2>9. SubOf(m) \subseteq K
    BY <2>8 DEF SubOf, Numbered
  <2> QED
    BY <2>8, <2>9
<1>7. Descending \subseteq K
  <2> DEFINE tops == {t \in Needed.tasks : t.head = d.top}
  <2>1. tops \subseteq K
    BY <1>3, <1>4 DEF Reached, ToSet
  <2>2. IsFiniteSet(Needed.methods) /\ Descending = Reach(Needed.methods, tops)
    BY <1>1, NeededLayers DEF Descending
  <2> HIDE DEF K, tops
  <2> QED
    BY <1>6, <2>1, <2>2, ReachWithin
<1>8. Needed.methods \subseteq kept.methods
  <2> SUFFICES ASSUME NEW m \in Needed.methods
               PROVE  m \in kept.methods
    OBVIOUS
  <2>1. HeadOf(m) \in Descending
    BY <1>1, NeededCompatible
  <2> HIDE DEF K
  <2> QED
    BY <1>6, <1>7, <2>1
<1>9. ASSUME NEW t \in Needed.tasks, NEW u \in Descending, NEW f, Guarded(t, u, f)
      PROVE  t \in kept.tasks
  <2>1. u \in Needed.tasks
    BY <1>1, NeededLayers
  <2>2. t \in Primitives /\ u \in Primitives
    BY <1>1, <1>9, <2>1 DEF Guarded, Primitives
  <2>3. t = Atom(t.head, t.args) /\ u = Atom(u.head, u.args)
    BY <1>1, <2>1, NeededTasksAre
  <2>4. PICK c \in DOMAIN tasks : tasks[c].act = t.head /\ tasks[c].val = t.args
    BY <1>4, <2>2 DEF Tasked
  <2>5. PICK k \in DOMAIN tasks : tasks[k].act = u.head /\ tasks[k].val = u.args
    BY <1>4, <2>2 DEF Tasked
  <2>6. PICK g \in tasks[c].pre : g \in DOMAIN facts /\ facts[g] = f
    <3>1. Numbered(tasks[c].pre, d.pre[t.head], t.args, facts)
      BY <1>1, <2>4 DEF TasksInv
    <3>2. f \in Pre(t)
      BY <1>9 DEF Guarded
    <3> QED
      BY <3>1, <3>2 DEF Numbered, Pre
  <2>7. PICK h \in tasks[k].add : h \in DOMAIN facts /\ facts[h] = f
    <3>1. Numbered(tasks[k].add, d.add[u.head], u.args, facts)
      BY <1>1, <2>5 DEF TasksInv
    <3>2. f \in Add(u)
      BY <1>9 DEF Guarded
    <3> QED
      BY <3>1, <3>2 DEF Numbered, Add
  <2>8. g \in tasks[k].add \cap tasks[c].pre /\ facts[g].head \in d.guards
    <3>1. g = h
      BY <1>2, <2>6, <2>7 DEF IsInjective
    <3> QED
      BY <1>9, <2>6, <2>7, <3>1 DEF Guarded
  <2>9. PICK n \in T : u = atoms[n]
    BY <1>7
  <2>10. tasks[c].act \in d.ceTasks
    BY <1>9, <2>4 DEF Guarded
  <2>11. atoms[n] = Atom(tasks[k].act, tasks[k].val)
    BY <2>3, <2>5, <2>9
  <2>12. Atom(tasks[c].act, tasks[c].val) \in kept.tasks
    BY <1>3, <2>6, <2>8, <2>9, <2>10, <2>11 DEF Reached
  <2> QED
    BY <2>3, <2>4, <2>12
<1>10. Needed.tasks \subseteq kept.tasks
  <2> SUFFICES ASSUME NEW t \in Needed.tasks
               PROVE  t \in kept.tasks
    OBVIOUS
  <2>1. t \in Descending \/ \E u \in Descending : \E f : Guarded(t, u, f)
    BY <1>1, NeededLayers
  <2>2. CASE t \in Descending
    BY <1>5, <1>7, <2>2
  <2> HIDE DEF K
  <2> QED
    BY <1>9, <2>1, <2>2
<1> QED
  BY <1>8, <1>10

(***************************************************************************)
(* Lifted grounding loses nothing: whatever the problem the parser         *)
(* delivers, in whatever order tasks are typed and atoms found, and        *)
(* whenever the lookahead is given up, when run_lifted_HTN_GPG is done it  *)
(* has kept every ground task and method that the naive grounding needs.   *)
(***************************************************************************)
THEOREM GroundingAlwaysKeepsRefinements == Spec => []GroundingKeepsRefinements
<1>1. JoinInv /\ HierarchyInv /\ GroundInv => GroundingKeepsRefinements
  BY NeededKept
<1> QED
  BY <1>1, JoinAlways, HierarchyAlways, GroundAlways, PTL
=============================================================================
