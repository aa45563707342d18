----------------------------- MODULE GroundExports -----------------------------
(***************************************************************************)
(* The other forms in which the grounder hands out a ground problem: HDDL  *)
(* (write_grounded_HTN_to_HDDL, output.cpp), its actions alone as a SAS+   *)
(* task (write_sasplus, sasplus.cpp), and as such a task to the library    *)
(* that looks for H2 mutexes (h2mutexes.cpp).                              *)
(***************************************************************************)
EXTENDS GroundOutput

(***************************************************************************)
(* HDDL: facts are predicates, the subtasks of a method stand in their     *)
(* arrangement, and a conditional effect of which no condition is left is  *)
(* an effect.  Different tasks are taken to have different HDDL names.     *)
(***************************************************************************)
HDDLTasks(g) ==
  [id \in {<<t, {}>> : t \in {u \in LiveTasks(g) : ~g.tasks[u].ce}} |-> TaskWithEffects(g, id[1])]

HDDLMethods(g) ==
  [m \in {<<"method", x, {}>> : x \in LiveMethods(g)} |-> WrittenMethod(g.methods[m[2]], <<>>)]

WriteHDDL(g) ==
  [tasks |-> HDDLTasks(g), methods |-> HDDLMethods(g), top |-> <<g.top, {}>>,
   init |-> g.init \ g.pf, goal |-> g.goal \ g.pf, neg |-> {}, bound |-> g.bound]

----------------------------------------------------------------------------
(***************************************************************************)
(* write_sasplus: every fact is a variable, every primitive task (compiled *)
(* conditional effects too) an operator, and some operator is to be        *)
(* applied: all of them reach the artificial goal.                         *)
(***************************************************************************)
Reached == "GOAL"
NotReached == "NOT GOAL"

Operator(name, pre, add, del) ==
  [name |-> name, prim |-> TRUE, pre |-> pre,
   add |-> {<<{}, v>> : v \in add}, del |-> {<<{}, v>> : v \in del}]

SasOperator(g, t) ==
  LET x == g.tasks[t]
  IN  Operator(x.name, x.pre \ g.pf, (x.add \ g.pf) \cup {Reached}, x.del \ g.pf)

(* Mutant: goals that were removed because they are true are asked for. *)
SasGoalWithPruned(g) == g.goal \cup {Reached}

SasGoal(g) == ((g.goal \cap g.facts) \ g.pf) \cup {Reached}

WriteSasPlus(g) ==
  [tasks |-> [t \in LivePrims(g) |-> SasOperator(g, t)],
   init |-> g.init \ g.pf, goal |-> SasGoal(g), neg |-> {}]

(***************************************************************************)
(* The sequences of visible actions that a task without methods admits:    *)
(* k of the actions of the trace have been executed, and s is true.        *)
(***************************************************************************)
FollowedBy(P, trace, at) ==
  {<<at[1] + Len(Visible(P.tasks[t].name)), Result(P, t, at[2])>> :
     t \in {u \in Prims(P) :
              /\ P.tasks[u].pre \subseteq at[2]
              /\ IsPrefix(Visible(P.tasks[u].name), SubSeq(trace, at[1] + 1, Len(trace)))}}

RECURSIVE Followed(_, _, _, _)
Followed(P, trace, new, seen) ==
  LET next == UNION {FollowedBy(P, trace, at) : at \in new}
  IN  IF new = {} THEN seen ELSE Followed(P, trace, next \ seen, seen \cup next)

Admits(P, trace) ==
  \E at \in Followed(P, trace, {<<0, P.init>>}, {<<0, P.init>>}) :
     at[1] = Len(trace) /\ P.goal \subseteq at[2]

----------------------------------------------------------------------------
(***************************************************************************)
(* compute_h2_mutexes: the task it builds from the groups c, which cover   *)
(* all facts.  Setting a variable overwrites its value; deletes count only *)
(* as the none-of-them of ground_invariant_analysis.  Of several goals on  *)
(* one variable the last one stays.                                        *)
(***************************************************************************)
H2Variables(g, c) ==
  {Values(g, c, i) : i \in DOMAIN c.sas} \cup {{Reached, NotReached}}

H2Operator(g, c, t) ==
  LET set == (g.tasks[t].add \ g.pf) \cup {None(i) : i \in g.tasks[t].none} \cup {Reached}
  IN  Operator(g.tasks[t].name, g.tasks[t].pre \ g.pf, set,
               UNION {k \in H2Variables(g, c) : k \cap set # {}} \ set)

H2Goal(g, c) ==
  {CHOOSE f \in k : f \in g.goal : k \in {v \in H2Variables(g, c) : v \cap g.goal # {}}} \cup {Reached}

H2Task(g, c) ==
  [tasks |-> [t \in LivePrims(g) |-> H2Operator(g, c, t)],
   init |-> (g.init \ g.pf) \cup {None(i) : i \in {j \in DOMAIN c.sas : c.sas[j] \cap g.init = {}}}
            \cup {NotReached},
   goal |-> H2Goal(g, c), neg |-> {}]

(***************************************************************************)
(* What the library may find in its ten seconds (it is not part of the     *)
(* repository): what is possible in the states that can be reached, or, if *)
(* it is cut short, nothing.  Variables that no operator and no goal asks  *)
(* for, or that have only one value left, are dropped.                     *)
(***************************************************************************)
H2Finds(P, variables, complete) ==
  LET S == ReachableStates(P)
      kept == {t \in Prims(P) : complete => \E s \in S : P.tasks[t].pre \subseteq s}
      possible == IF complete THEN UNION S ELSE UNION variables
      asked == P.goal \cup UNION {P.tasks[t].pre : t \in kept}
      necessary == {k \in variables : k \cap asked # {} /\ Cardinality(k \cap possible) > 1}
      values == possible \cap UNION necessary
      Excluded(v, w) == \A s \in S : ~({v, w} \subseteq s)
      differ == {vw \in values \X values : \A k \in necessary : ~({vw[1], vw[2]} \subseteq k)}
  IN  [kept |-> kept, values |-> values,
       solvable |-> complete => \E s \in S : P.goal \subseteq s,
       mutexes |-> {{vw[1], vw[2]} : vw \in {x \in differ : complete /\ Excluded(x[1], x[2])}}]

(***************************************************************************)
(* How the answer is taken over: what was not reported is pruned; a mutex  *)
(* with none-of-them becomes a clause over the facts of that group, and    *)
(* one with the artificial goal is of no use.                              *)
(***************************************************************************)
Clause(c, k) ==
  {<<FALSE, f>> : f \in k \ {None(i) : i \in DOMAIN c.sas}}
  \cup UNION {{<<TRUE, f>> : f \in c.sas[i]} : i \in {j \in DOMAIN c.sas : None(j) \in k}}

UseH2(g, c, answer, found) ==
  LET relevant == {k \in found : k \cap {Reached, NotReached} = {}}
      true == {k \in relevant : k \subseteq g.facts}
  IN  IF ~answer.solvable THEN [g EXCEPT !.status = "unsolvable"]
      ELSE [g EXCEPT !.pt = @ \cup (LivePrims(g) \ answer.kept),
                     !.pf = g.facts \ answer.values,
                     !.known = true,
                     !.invariants = {Clause(c, k) : k \in relevant \ true}]
=============================================================================
