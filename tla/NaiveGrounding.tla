--------------------------- MODULE NaiveGrounding ---------------------------
(***************************************************************************)
(* What lifted grounding must not lose: the naive grounding of the problem *)
(* (grounder/src/naiveGrounding.cpp), which instantiates everything,       *)
(* without what no executable decomposition of the initial task can use.   *)
(***************************************************************************)
EXTENDS LiftedGPG

NaiveTasks == UNION {{Atom(t, v) : v \in {w \in Valuations(t) : Satisfies(d.con[t], w)}} :
                     t \in d.prim \cup d.abs}
NaiveMethods == UNION {{[act |-> m, val |-> v] : v \in {w \in Valuations(m) : Satisfies(d.con[m], w)}} :
                       m \in d.meth}

Pre(x) == {Instance(d.pre[x.head][k], x.args) : k \in DOMAIN d.pre[x.head]}
Add(x) == {Instance(d.add[x.head][k], x.args) : k \in DOMAIN d.add[x.head]}
HeadOf(m) == Instance(Atom(d.of[m.act], d.par[m.act]), m.val)
SubOf(m) == {Instance(d.sub[m.act][k], m.val) : k \in DOMAIN d.sub[m.act]}

(* The facts that the tasks P reach from F, the tasks that the methods M   *)
(* can refine down to T, and the tasks that they reach from T.             *)
ReachFacts(P, F) ==
  LET Apply(G, n) == G \cup UNION {Add(t) : t \in {u \in P : Pre(u) \subseteq G}}
  IN  Iterate(Apply, F, Cardinality(P))

Produce(M, T) ==
  LET Compose(U, n) == U \cup {HeadOf(m) : m \in {k \in M : SubOf(k) \subseteq U}}
  IN  Iterate(Compose, T, Cardinality(M))

Reach(M, T) ==
  LET Decompose(U, n) == U \cup UNION {SubOf(m) : m \in {k \in M : HeadOf(k) \in U}}
  IN  Iterate(Decompose, T, Cardinality(M))

(***************************************************************************)
(* Without the tasks that have a fact no task reaches as precondition,     *)
(* those that no methods refine down to executable tasks, and those that   *)
(* do not descend from the initial task; conditional effects descend from  *)
(* the tasks that add their guard.                                         *)
(***************************************************************************)
Shrink(all) ==
  LET P == {t \in all.tasks : t.head \in d.prim}
      F == ReachFacts(P, ToSet(d.init))
      T1 == Produce(all.methods, {t \in P : Pre(t) \subseteq F}) \cap all.tasks
      M1 == {m \in all.methods : HeadOf(m) \in T1 /\ SubOf(m) \subseteq T1}
      T2 == Reach(M1, {t \in T1 : t.head = d.top})
      added == UNION {Add(t) : t \in {u \in T2 : u.head \in d.prim}}
      T3 == T2 \cup {t \in T1 : /\ t.head \in d.ceTasks
                                /\ \E f \in Pre(t) : f.head \in d.guards /\ f \in added}
  IN  [tasks |-> T3, methods |-> {m \in M1 : HeadOf(m) \in T3}]

Naive == [tasks |-> NaiveTasks, methods |-> NaiveMethods]

(* Shrinking until nothing changes. *)
Needed ==
  LET bound == Cardinality(NaiveTasks) + Cardinality(NaiveMethods)
      after[n \in 0..bound + 1] == IF n = 0 THEN Naive ELSE Shrink(after[n - 1])
  IN  after[CHOOSE n \in 0..bound : after[n + 1] = after[n]]

(***************************************************************************)
(* Lifted grounding loses nothing: hierarchy typing, the join over facts,  *)
(* the join over tasks and the final search together keep every ground     *)
(* task and method that an executable decomposition can use.               *)
(***************************************************************************)
GroundingKeepsRefinements ==
  phase = "Done" =>
    Needed.tasks \subseteq kept.tasks /\ Needed.methods \subseteq kept.methods
=============================================================================
