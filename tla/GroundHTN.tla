------------------------------ MODULE GroundHTN ------------------------------
(***************************************************************************)
(* Ground HTN problems as a planner reads them, the plans that solve them  *)
(* and what of a plan can be seen.  The grounder's transformations are     *)
(* judged against this module: they may change tasks and methods, but not  *)
(* what can be seen of the plans.                                          *)
(*                                                                         *)
(* The names of tasks and methods are records.  The grounder and the plan  *)
(* converter only look at their first characters, which "kind" stands for: *)
(*   "plain"                                                               *)
(*   "hidden"   _...                   introduced by a compilation         *)
(*   "mprec"    __method_precondition_ the same, and known to the grounder *)
(*   "inter"    _!...                  introduced by the grounder          *)
(*   "agg"      %aggregate#..#..$      a sequence of primitive tasks       *)
(*   "exp"      <main;task;inner;..>   a method with a subtask expanded    *)
(***************************************************************************)
EXTENDS Integers, Sequences, FiniteSets, TLC, SequencesExt

Plain(b) == [kind |-> "plain", base |-> b]
Hidden(b) == [kind |-> "hidden", base |-> b]
MethodPrecondition(b) == [kind |-> "mprec", base |-> b]
Intermediate(m, i) == [kind |-> "inter", base |-> ToString(<<m, i>>)]
Aggregate(names) == [kind |-> "agg", parts |-> names]

(* What the parser appends to the name of an action it compiles: a|...     *)
Variant(b) == [kind |-> "plain", base |-> b, bar |-> TRUE]

Artificial(name) == name.kind \in {"hidden", "mprec", "inter"}

(* The actions a primitive task stands for in the problem of the user.     *)
RECURSIVE Visible(_)
Visible(name) ==
  IF name.kind = "agg" THEN FlattenSeq([i \in DOMAIN name.parts |-> Visible(name.parts[i])])
  ELSE IF Artificial(name) THEN <<>>
  ELSE <<Plain(name.base)>>

(***************************************************************************)
(* A problem: tasks maps a task to [name, prim, pre, add, del] where       *)
(* effects are pairs of a set of conditions and a fact; methods maps a     *)
(* method to [name, task, sub, ord] where ord holds pairs of positions in  *)
(* sub.  A fact that is both added and deleted is true afterwards, except  *)
(* for those in neg, the facts that stand for the negation of another.     *)
(***************************************************************************)
Fired(effects, s) == {e[2] : e \in {d \in effects : d[1] \subseteq s}}

Result(P, t, s) ==
  LET added == Fired(P.tasks[t].add, s)
      deleted == Fired(P.tasks[t].del, s)
  IN  (s \ deleted) \cup (added \ (P.neg \cap deleted))

Prims(P) == {t \in DOMAIN P.tasks : P.tasks[t].prim}

(* The states some sequence of primitive tasks leads to.                   *)
RECURSIVE StatesFrom(_, _, _)
StatesFrom(P, new, seen) ==
  LET next == UNION {{Result(P, t, s) : t \in {u \in Prims(P) : P.tasks[u].pre \subseteq s}} : s \in new}
  IN  IF new = {} THEN seen ELSE StatesFrom(P, next \ seen, seen \cup next)

ReachableStates(P) == StatesFrom(P, {P.init}, {P.init})

(***************************************************************************)
(* Plans, in the form in which planners print them: every step has a       *)
(* number; prims are the primitive ones in the order of execution, applied *)
(* and subs the method and the subtasks of the abstract ones.  At most     *)
(* P.bound visible actions are considered.                                 *)
(***************************************************************************)
EmptyPlan == [tasks |-> <<>>, prims |-> <<>>, applied |-> <<>>, subs |-> <<>>, root |-> <<>>]

Length(P, net) ==
  FoldSet(LAMBDA i, sum : sum + Len(Visible(P.tasks[net[i].task].name)), 0,
          {i \in DOMAIN net : P.tasks[net[i].task].prim})

Decompose(P, net, i, m, pl) ==
  LET sub == P.methods[m].sub
      first == Cardinality(DOMAIN pl.tasks) - 1
      new == {first + k : k \in DOMAIN sub}
      kept == DOMAIN net \ {i}
  IN  [net |-> [j \in kept \cup new |->
                  IF j \in kept
                  THEN [net[j] EXCEPT !.before = IF i \in @ THEN (@ \ {i}) \cup new ELSE @]
                  ELSE [task |-> sub[j - first],
                        before |-> {first + o[1] : o \in {q \in P.methods[m].ord : q[2] = j - first}}]],
       plan |-> [pl EXCEPT
                   !.tasks = @ @@ [j \in new |-> [name |-> P.tasks[sub[j - first]].name,
                                                  prim |-> P.tasks[sub[j - first]].prim]],
                   !.applied = (i :> P.methods[m].name) @@ @,
                   !.subs = (i :> [k \in DOMAIN sub |-> first + k]) @@ @]]

Executed(net, i) ==
  [j \in DOMAIN net \ {i} |-> [net[j] EXCEPT !.before = @ \ {i}]]

(* All plans: first decompose whatever stands first, then choose a task.   *)
RECURSIVE Explore(_, _, _, _)
Explore(P, net, s, pl) ==
  LET free == {i \in DOMAIN net : net[i].before = {}}
      abstract == {i \in free : ~P.tasks[net[i].task].prim}
  IN  IF DOMAIN net = {} THEN IF P.goal \subseteq s THEN {pl} ELSE {}
      ELSE IF Length(P, net) + Len(pl.seen) > P.bound THEN {}
      ELSE IF abstract # {}
      THEN LET i == CHOOSE x \in abstract : \A y \in abstract : x <= y
           IN  UNION {LET d == Decompose(P, net, i, m, pl) IN Explore(P, d.net, s, d.plan)
                      : m \in {n \in DOMAIN P.methods : P.methods[n].task = net[i].task}}
      ELSE UNION {Explore(P, Executed(net, i), Result(P, net[i].task, s),
                          [pl EXCEPT !.prims = Append(@, i),
                                     !.seen = @ \o Visible(P.tasks[net[i].task].name)])
                  : i \in {x \in free : P.tasks[net[x].task].pre \subseteq s}}

(* The plans, each with the sequence of the actions that can be seen.      *)
Solutions(P) ==
  Explore(P, 0 :> [task |-> P.top, before |-> {}], P.init,
          [EmptyPlan EXCEPT !.tasks = 0 :> [name |-> P.tasks[P.top].name, prim |-> FALSE],
                            !.root = <<0>>] @@ [seen |-> <<>>])

Traces(P) == {pl.seen : pl \in Solutions(P)}

(***************************************************************************)
(* What can be seen of a plan: the trees of its steps without those that   *)
(* are artificial or have an artificial method.  A visible action is known *)
(* by its place among the visible actions.  Forest is a bag of trees.      *)
(***************************************************************************)
BagOf(seq) == [x \in ToSet(seq) |-> Cardinality({i \in DOMAIN seq : seq[i] = x})]

RECURSIVE Trees(_, _)
Trees(pl, i) ==
  LET below == FlattenSeq([k \in DOMAIN pl.subs[i] |-> Trees(pl, pl.subs[i][k])])
      shown == SelectSeq(pl.prims, LAMBDA j : ~Artificial(pl.tasks[j].name))
  IN  IF pl.tasks[i].prim
      THEN IF Artificial(pl.tasks[i].name) THEN <<>>
           ELSE <<[name |-> pl.tasks[i].name.base, at |-> {k \in DOMAIN shown : shown[k] = i}]>>
      ELSE IF Artificial(pl.tasks[i].name) \/ Artificial(pl.applied[i]) THEN below
      ELSE <<[name |-> pl.tasks[i].name.base, method |-> pl.applied[i], below |-> BagOf(below)]>>

Forest(pl) ==
  [actions |-> FlattenSeq([k \in DOMAIN pl.prims |-> Visible(pl.tasks[pl.prims[k]].name)]),
   trees |-> BagOf(FlattenSeq([k \in DOMAIN pl.root |-> Trees(pl, pl.root[k])]))]
=============================================================================
