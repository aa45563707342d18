------------------------------ MODULE Verifier ------------------------------
(***************************************************************************)
(* The plan verifier of the PANDA parser (src/parser/src/verify.cpp).  A   *)
(* plan is a set of numbered steps: the primitive ones in the order in     *)
(* which they are executed, the abstract ones each with the method applied *)
(* to it and the numbers of the subtasks.  The verifier                    *)
(*   - checks the plan's numbers and declarations (Check),                 *)
(*   - matches the subtasks of every applied method with those the method  *)
(*     declares, in every way that instantiates it (MatchMethods),         *)
(*   - picks one matching per step depth first (Linearise), turns it into  *)
(*     a graph of the steps' starts and ends and searches an execution of  *)
(*     that graph (Progress, Branch, Backtrack); when there is none, the   *)
(*     sequence of ambiguous choices made is forbidden and the pick starts *)
(*     over (Refute).                                                      *)
(* A step t has two nodes, its start t and its end -t-1.                   *)
(***************************************************************************)
EXTENDS Integers, Sequences, FiniteSets, TLC, SequencesExt

CONSTANTS
  Cases,      \* the problems with a plan to verify, see Problem below
  UseOrder    \* whether matching uses the methods' orderings (the default)

VARIABLES
  case,       \* the domain, problem and plan at hand
  pc,         \* "check", "match", "pick", "execute", "branch", "done"
  ok,         \* overallResult
  matchings,  \* possibleMethodInstantiations: step -> sequence of matchings
  forbidden,  \* forbidden_matchings: sequences of choices
  chosen,     \* chosen_non_unique_matchings: sequence of <<step, number>>
  picked,     \* chosen_method_matchings: step -> values of the variables
  edges,      \* the graph of the current pick
  numPrec,    \* num_prec: node -> open predecessors, -1 once executed
  state,      \* the state the execution has reached
  stack,      \* the calls of executeDAG that branched: [state, todo, cur]
  verdict     \* "none", "accepted", "rejected", or "aborted" (exit(2))

vars == <<case, pc, ok, matchings, forbidden, chosen, picked, edges, numPrec,
          state, stack, verdict>>
plan == <<case, ok, matchings>>

-----------------------------------------------------------------------------
(* Formulas. A formula is a record with a field "op"; "pos" is FALSE for   *)
(* the negated form of an equality, sort constraint or atom.               *)

Value(v, a) == IF v \in DOMAIN a THEN a[v] ELSE v

Ground(f, a) == <<f.pred, [i \in DOMAIN f.args |-> Value(f.args[i], a)]>>

RECURSIVE Occurs(_, _)
Occurs(f, v) ==
  CASE f.op = "true" -> FALSE
    [] f.op = "eq"   -> v \in {f.left, f.right}
    [] f.op = "sort" -> v = f.var
    [] f.op = "atom" -> v \in Range(f.args)
    [] f.op \in {"and", "or"} -> \E i \in DOMAIN f.subs : Occurs(f.subs[i], v)
    [] f.op \in {"forall", "exists"} -> Occurs(f.body, v)
    [] f.op = "when" -> Occurs(f.cond, v) \/ Occurs(f.body, v)

(* The assignments for the instances of a quantified formula.              *)
Instances(f, a) == {(f.var :> c) @@ a : c \in case.sorts[f.sort]}

(* With ignore the literals count as true: only constraints are left.      *)
RECURSIVE Eval(_, _, _, _)
Eval(f, s, a, ignore) ==
  CASE f.op = "true" -> TRUE
    [] f.op = "eq"   -> (Value(f.left, a) = Value(f.right, a)) = f.pos
    [] f.op = "sort" -> (Value(f.var, a) \in case.sorts[f.sort]) = f.pos
    [] f.op = "atom" -> ignore \/ ((Ground(f, a) \in s) = f.pos)
    [] f.op = "and"  -> \A i \in DOMAIN f.subs : Eval(f.subs[i], s, a, ignore)
    [] f.op = "or"   -> \E i \in DOMAIN f.subs : Eval(f.subs[i], s, a, ignore)
    [] f.op = "forall" -> \A b \in Instances(f, a) : Eval(f.body, s, b, ignore)
    [] f.op = "exists" -> \E b \in Instances(f, a) : Eval(f.body, s, b, ignore)

(* A precondition whose variables are not all assigned holds when some     *)
(* values of the missing ones make it hold; a variable that does not occur *)
(* is left alone, even when its sort is empty.                             *)
EvalMissing(decl, f, s, a) ==
  LET missing == {v \in DOMAIN decl \ DOMAIN a : Occurs(f, v)}
      values  == UNION {case.sorts[decl[v]] : v \in missing}
  IN  \E b \in [missing -> values] :
        /\ \A v \in missing : b[v] \in case.sorts[decl[v]]
        /\ Eval(f, s, b @@ a, FALSE)

(* Conditions are evaluated in the state before the effect.                *)
RECURSIVE Effects(_, _, _)
Effects(f, s, a) ==
  CASE f.op = "true" -> {}
    [] f.op = "atom" -> {<<f.pos, Ground(f, a)>>}
    [] f.op = "and"  -> UNION {Effects(f.subs[i], s, a) : i \in DOMAIN f.subs}
    [] f.op = "forall" -> UNION {Effects(f.body, s, b) : b \in Instances(f, a)}
    [] f.op = "when" ->
         IF Eval(f.cond, s, a, FALSE) THEN Effects(f.body, s, a) ELSE {}

(* Adding takes precedence over deleting.                                  *)
Apply(f, s, a) ==
  LET eff == Effects(f, s, a)
  IN  (s \ {e[2] : e \in {d \in eff : ~d[1]}}) \cup {e[2] : e \in {d \in eff : d[1]}}

-----------------------------------------------------------------------------
(* The plan, as parse_plan leaves it: every step has one number.           *)

Tasks   == case.plan.tasks       \* number -> [name, args, primitive]
Subs    == case.plan.subs        \* number -> sequence of numbers
Applied == case.plan.applied     \* number -> method name
Prims   == case.plan.prims       \* the numbers of the primitive steps
Roots   == case.plan.roots
NoStep  == [name |-> "", args |-> <<>>, primitive |-> FALSE]

Step(t) == IF t \in DOMAIN Tasks THEN Tasks[t] ELSE NoStep
SubsOf(t) == IF t \in DOMAIN Subs THEN Subs[t] ELSE <<>>
Start(t) == t
End(t) == -t - 1

(* A plan that does not begin with __top gets it, with the first number    *)
(* that is free.                                                           *)
AddRoot(p) ==
  LET r == CHOOSE n \in 0 .. Cardinality(DOMAIN p.tasks) :
             /\ n \notin DOMAIN p.tasks
             /\ \A m \in 0 .. n - 1 : m \in DOMAIN p.tasks
      name == IF Len(p.roots) = 1 /\ p.roots[1] \in DOMAIN p.tasks
              THEN p.tasks[p.roots[1]].name ELSE ""
  IN  IF p.roots = <<>> \/ name = "__top" THEN p
      ELSE [p EXCEPT !.tasks = (r :> [NoStep EXCEPT !.name = "__top"]) @@ @,
                     !.applied = (r :> "__top_method") @@ @,
                     !.subs = (r :> p.roots) @@ @,
                     !.roots = <<r>>]

Root == Roots[1]

SubtasksExist ==
  \A t \in DOMAIN Subs : \A st \in Range(Subs[t]) : st # t /\ st \in DOMAIN Tasks

DeclaredAs(t) ==
  IF Tasks[t].name \in DOMAIN case.abstract THEN case.abstract[Tasks[t].name]
  ELSE case.primitive[Tasks[t].name].vars

(* Extra arguments are cut off, so only too few are wrong.                 *)
StepDeclared(t) ==
  LET name == Tasks[t].name
  IN  /\ name \in DOMAIN case.primitive \cup DOMAIN case.abstract
      /\ Tasks[t].primitive <=> name \notin DOMAIN case.abstract
      /\ Len(Tasks[t].args) >= Len(DeclaredAs(t))
      /\ \A i \in DOMAIN DeclaredAs(t) :
           Tasks[t].args[i] \in case.sorts[DeclaredAs(t)[i][2]]

(* The arguments that StepDeclared keeps, and the values of the step's     *)
(* variables.                                                              *)
ArgsOf(t) ==
  IF t \in DOMAIN Tasks THEN SubSeq(Tasks[t].args, 1, Len(DeclaredAs(t))) ELSE <<>>

StepValues(t) ==
  [v \in {DeclaredAs(t)[i][1] : i \in DOMAIN DeclaredAs(t)} |->
     ArgsOf(t)[CHOOSE i \in DOMAIN DeclaredAs(t) : DeclaredAs(t)[i][1] = v]]

(* A duplicate is only looked for within one method.                       *)
NoDuplicates == \A t \in DOMAIN Subs : IsInjective(Subs[t])

NoOrphans ==
  DOMAIN Tasks \subseteq {Root} \cup UNION {Range(Subs[t]) : t \in DOMAIN Subs}

-----------------------------------------------------------------------------
(* Matchings.                                                              *)

MethodsAt(t) ==
  {m \in case.methods : m.at = Step(t).name /\ m.name = Applied[t]}
HasMethod(t) == t \in DOMAIN Applied /\ MethodsAt(t) # {}
MethodOf(t) == CHOOSE m \in MethodsAt(t) : TRUE

(* The subtask in place curpos of the plan is matched with a declared      *)
(* subtask of its name; with UseOrder, with one whose predecessors in the  *)
(* method have been matched before.  The search ends when the plan's       *)
(* subtasks are used up.                                                   *)
Assignable(t, mu) ==
  LET m == MethodOf(t)
  IN  /\ \A i \in DOMAIN mu : m.tasks[mu[i]].task = Step(Subs[t][i]).name
      /\ UseOrder => \A o \in m.order : \A i \in DOMAIN mu :
           mu[i] = o[2] => \E j \in 1 .. i - 1 : mu[j] = o[1]

(* The values that the head and the matched subtasks give to variables.    *)
Given(t, mu) ==
  LET m == MethodOf(t)
      head == {<<m.atArgs[i], ArgsOf(t)[i]>> : i \in DOMAIN m.atArgs}
      sub(i) == {<<m.tasks[mu[i]].args[k], ArgsOf(Subs[t][i])[k]>> :
                   k \in DOMAIN ArgsOf(Subs[t][i])}
  IN  head \cup UNION {sub(i) : i \in DOMAIN mu}

IsFunctional(pairs) == \A p, q \in pairs : p[1] = q[1] => p[2] = q[2]
AsFunction(pairs) ==
  [v \in {p[1] : p \in pairs} |-> (CHOOSE p \in pairs : p[1] = v)[2]]

(* The assignments for one way of matching: variables that neither head    *)
(* nor subtasks assign get every value of their sort if an effect or a     *)
(* constraint mentions them; otherwise they stay open, and their sort must *)
(* have a constant.                                                        *)
Assignments(t, mu) ==
  LET m == MethodOf(t)
      fixed == AsFunction(Given(t, mu))
      open == DOMAIN m.vars \ DOMAIN fixed
      needed == {v \in open : Occurs(m.eff, v) \/ Occurs(m.constraint, v)}
      values == UNION {case.sorts[m.vars[v]] : v \in needed}
  IN  {a \in {fixed @@ b : b \in [needed -> values]} :
         /\ \A v \in open \ needed : case.sorts[m.vars[v]] # {}
         /\ \A v \in DOMAIN a : a[v] \in case.sorts[m.vars[v]]
         /\ Eval(m.constraint, {}, a, TRUE)
         /\ Eval(m.prec, {}, a, TRUE)}

(* Mutant: the values that the subtasks give need not agree.               *)
MatchingsOfAnyValues(t) ==
  LET k == Len(Subs[t])
      ways == {mu \in [1 .. k -> DOMAIN MethodOf(t).tasks] :
                 IsInjective(mu) /\ Assignable(t, mu)}
  IN  {[mu |-> mu, values |-> a] : mu \in ways, a \in UNION {Assignments(t, w) : w \in ways}}

MatchingsOf(t) ==
  LET k == Len(Subs[t])
      ways == {mu \in [1 .. k -> DOMAIN MethodOf(t).tasks] :
                 IsInjective(mu) /\ Assignable(t, mu) /\ IsFunctional(Given(t, mu))}
  IN  UNION {{[mu |-> mu, values |-> a] : a \in Assignments(t, mu)} : mu \in ways}

(* matching.first[id]: an undeclared subtask reads as step 0.              *)
MatchedStep(t, match, i) ==
  IF \E k \in DOMAIN match.mu : match.mu[k] = i
  THEN Subs[t][CHOOSE k \in DOMAIN match.mu : match.mu[k] = i] ELSE 0
-----------------------------------------------------------------------------
(* Picking matchings: findLinearisation.                                   *)

MatchingsAt(t) == IF t \in DOMAIN matchings THEN matchings[t] ELSE <<>>

(* The primitive steps below a step, and their place in the plan; a step   *)
(* that is not in the primitive plan reads as the first.                   *)
RECURSIVE Leaves(_)
Leaves(t) ==
  IF t \notin DOMAIN Subs THEN {t} ELSE UNION {Leaves(st) : st \in Range(Subs[t])}

LeavesOf(t, st) == IF st \in Range(SubsOf(t)) THEN Leaves(st) ELSE {}

Position(t) ==
  IF \E i \in DOMAIN Prims : Prims[i] = t
  THEN CHOOSE i \in DOMAIN Prims : Prims[i] = t ELSE 1

(* Mutant: the positions are compared as if they were the numbers.         *)
BadOrderingOfNumbers(t, match) ==
  \E o \in MethodOf(t).order :
    \E before \in LeavesOf(t, MatchedStep(t, match, o[1])),
       after \in LeavesOf(t, MatchedStep(t, match, o[2])) : before > after

BadOrdering(t, match) ==
  \E o \in MethodOf(t).order :
    \E before \in LeavesOf(t, MatchedStep(t, match, o[1])),
       after \in LeavesOf(t, MatchedStep(t, match, o[2])) :
         Position(before) > Position(after)

MatchingEdges(t, match) ==
  {<<End(MatchedStep(t, match, o[1])), Start(MatchedStep(t, match, o[2]))>> :
     o \in MethodOf(t).order}
  \cup {<<Start(t), End(t)>>}
  \cup UNION {{<<Start(t), Start(st)>>, <<End(st), End(t)>>} : st \in Range(SubsOf(t))}

(* One call for step t. w holds what the calls share, [chosen, picked,     *)
(* edges, forbidden, back, found]; back is backtrackForbidden, found the   *)
(* first component of the result. Try goes through t's matchings from the  *)
(* n-th on: one whose choice is forbidden, whose leaves lie in the wrong   *)
(* order, or below which a step fails is skipped; the choice of a step     *)
(* with one matching is not recorded. The last choice recorded is dropped  *)
(* with a failing matching, whoever recorded it. When every matching was   *)
(* forbidden, what forbade them is forgotten and the call succeeds, to     *)
(* have the choices before it forbidden.                                   *)
RECURSIVE Linearise(_, _), Try(_, _, _, _)
Linearise(t, w) ==
  IF Step(t).primitive THEN [w EXCEPT !.edges = @ \cup {<<Start(t), End(t)>>}]
  ELSE Try(t, 1, TRUE, w)

Try(t, n, allForbidden, w) ==
  LET ms == MatchingsAt(t)
      many == Len(ms) > 1
      here == IF many THEN [w EXCEPT !.chosen = Append(@, <<t, n>>)] ELSE w
      below == FoldLeft(LAMBDA v, st : LET r == Linearise(st, v)
                                       IN  [r EXCEPT !.found = v.found /\ @],
                        here, SubsOf(t))
      failed == [below EXCEPT !.edges = w.edges, !.found = TRUE,
                              !.chosen = IF many THEN Front(@) ELSE @]
      asWell == {Append(w.chosen, <<t, i>>) : i \in DOMAIN ms}
  IN  IF n > Len(ms)
      THEN IF allForbidden /\ many
           THEN [w EXCEPT !.forbidden = @ \ asWell, !.back = TRUE]
           ELSE [w EXCEPT !.found = FALSE]
      ELSE IF here.chosen \in w.forbidden THEN Try(t, n + 1, allForbidden, w)
      ELSE IF BadOrdering(t, ms[n]) THEN Try(t, n + 1, FALSE, w)
      ELSE IF ~below.found THEN Try(t, n + 1, FALSE, failed)
      ELSE [below EXCEPT !.picked = (t :> ms[n].values) @@ @,
                         !.edges = @ \cup MatchingEdges(t, ms[n])]

Pick ==
  Linearise(Root, [chosen |-> <<>>, picked |-> <<>>, edges |-> {},
                   forbidden |-> forbidden, back |-> FALSE, found |-> TRUE])

PlanOrder == {<<End(Prims[i]), Start(Prims[i + 1])>> : i \in 1 .. Len(Prims) - 1}

Successors(n) == {e[2] : e \in {d \in edges : d[1] = n}}

(* Mutant: only the nodes with edges are initialised.                      *)
InDegreesOfEdges(g) ==
  [n \in {e[1] : e \in g} \cup {e[2] : e \in g} |-> Cardinality({e \in g : e[2] = n})]

(* Every step's start is a node, its end when it has edges.                *)
InDegrees(g) ==
  [n \in DOMAIN Tasks \cup {e[1] : e \in g} \cup {e[2] : e \in g} |->
     Cardinality({e \in g : e[2] = n})]

-----------------------------------------------------------------------------
(* Executing the graph: executeDAG.                                        *)

Sources == {n \in DOMAIN numPrec : numPrec[n] = 0}
Finished == \A n \in DOMAIN numPrec : numPrec[n] < 0

(* A start is executed as its method, or as its primitive task.            *)
Values(n) ==
  IF HasMethod(n) THEN (IF n \in DOMAIN picked THEN picked[n] ELSE <<>>)
  ELSE StepValues(n)

Effect(n) ==
  IF HasMethod(n) THEN MethodOf(n).eff ELSE case.primitive[Tasks[n].name].eff

Applicable(n, s) ==
  IF HasMethod(n) THEN EvalMissing(MethodOf(n).vars, MethodOf(n).prec, s, Values(n))
  ELSE Eval(case.primitive[Tasks[n].name].prec, s, Values(n), FALSE)

NoEffect(n) == Effect(n).op = "true"
Greedy(n, s) == n < 0 \/ (Applicable(n, s) /\ NoEffect(n))

Done(counts, n) ==
  [m \in DOMAIN counts |-> IF m = n THEN -1
                           ELSE IF m \in Successors(n) THEN counts[m] - 1
                           ELSE counts[m]]

Undone(counts, n) ==
  [m \in DOMAIN counts |-> IF m = n THEN 0
                           ELSE IF m \in Successors(n) THEN counts[m] + 1
                           ELSE counts[m]]

SmallestOf(S) == CHOOSE n \in S : \A m \in S : n <= m
-----------------------------------------------------------------------------
(* The verifier's steps.                                                   *)

Init ==
  /\ case \in {[c EXCEPT !.plan = AddRoot(@)] : c \in Cases}
  /\ pc = "check" /\ verdict = "none" /\ ok = TRUE
  /\ matchings = <<>> /\ forbidden = {} /\ chosen = <<>> /\ picked = <<>>
  /\ edges = {} /\ numPrec = <<>> /\ state = {} /\ stack = <<>>

Conclude(v) == pc' = "done" /\ verdict' = v
Continue(at) == pc' = at /\ UNCHANGED verdict

(* Wrong declarations, and a plan without a root, end the check at once: a *)
(* plan of primitive steps only is executed, but rejected all the same.    *)
Check ==
  /\ pc = "check"
  /\ IF Roots = <<>> \/ \E t \in DOMAIN Tasks : ~StepDeclared(t)
     THEN Conclude("rejected") /\ UNCHANGED ok
     ELSE Continue("match") /\ ok' = (SubtasksExist /\ NoDuplicates /\ NoOrphans)
  /\ UNCHANGED <<case, matchings, forbidden, chosen, picked, edges, numPrec, state, stack>>

(* The matchings come in the order of the search; any fixed order is taken *)
(* here.                                                                   *)
MatchMethods ==
  /\ pc = "match"
  /\ matchings' = [t \in {u \in DOMAIN Applied : HasMethod(u)} |-> SetToSeq(MatchingsOf(t))]
  /\ ok' = (ok /\ \A t \in DOMAIN Applied : HasMethod(t) /\ MatchingsOf(t) # {})
  /\ Continue("pick")
  /\ UNCHANGED <<case, forbidden, chosen, picked, edges, numPrec, state, stack>>

Verdict(b) == IF b THEN "accepted" ELSE "rejected"

(* Mutant: forbidding a choice lifts the ban on the earlier ones.          *)
ForbidOnly(choice) == {choice}

(* Mutant: the choices before the last one are forbidden.                  *)
ForbidPrefix(choice) == forbidden \cup {IF choice = <<>> THEN choice ELSE Front(choice)}

Forbid(choice) == forbidden \cup {choice}

PickFails ==
  /\ pc = "pick" /\ ~Pick.found
  /\ Conclude("rejected")
  /\ UNCHANGED <<plan, forbidden, chosen, picked, edges, numPrec, state, stack>>

(* The root itself has used up its matchings: its call reports success     *)
(* before it has built a graph.                                            *)
PickExhausted ==
  /\ pc = "pick" /\ Pick.found /\ Pick.edges = {}
  /\ Conclude(Verdict(ok))
  /\ UNCHANGED <<plan, forbidden, chosen, picked, edges, numPrec, state, stack>>

(* A step below the root has used up its matchings: the choices before it  *)
(* are forbidden and the pick starts over.                                 *)
PickBacktracks ==
  /\ pc = "pick" /\ Pick.found /\ Pick.edges # {} /\ Pick.back
  /\ forbidden' = Pick.forbidden \cup {Pick.chosen}
  /\ UNCHANGED <<plan, pc, verdict, chosen, picked, edges, numPrec, state, stack>>

PickSucceeds ==
  LET p == Pick
  IN  /\ pc = "pick" /\ p.found /\ p.edges # {} /\ ~p.back
      /\ forbidden' = p.forbidden /\ chosen' = p.chosen /\ picked' = p.picked
      /\ edges' = p.edges \cup PlanOrder
      /\ numPrec' = InDegrees(p.edges \cup PlanOrder)
      /\ state' = case.init /\ stack' = <<>>
      /\ Continue("execute") /\ UNCHANGED plan

(* All nodes are executed: the goal decides.                               *)
Finish ==
  /\ pc = "execute" /\ Finished
  /\ IF Eval(case.goal, state, <<>>, FALSE)
     THEN Conclude(Verdict(ok)) ELSE Continue("return")
  /\ UNCHANGED <<plan, forbidden, chosen, picked, edges, numPrec, state, stack>>

(* Nodes are left but none is ready: "A DAG has cycles", exit(2).          *)
Abort ==
  /\ pc = "execute" /\ ~Finished /\ Sources = {}
  /\ Conclude("aborted")
  /\ UNCHANGED <<plan, forbidden, chosen, picked, edges, numPrec, state, stack>>

(* Ends, and applicable starts without an effect, are executed at once; no *)
(* later return takes this back.                                           *)
Progress ==
  LET greedy == {n \in Sources : Greedy(n, state)}
  IN  /\ pc = "execute" /\ greedy # {}
      /\ numPrec' = Done(numPrec, SmallestOf(greedy))
      /\ UNCHANGED <<plan, pc, verdict, forbidden, chosen, picked, edges, state, stack>>

Branch ==
  /\ pc = "execute" /\ Sources # {} /\ \A n \in Sources : ~Greedy(n, state)
  /\ stack' = Append(stack, [state |-> state, cur |-> 0,
                             todo |-> {n \in Sources : Applicable(n, state)}])
  /\ Continue("branch")
  /\ UNCHANGED <<plan, forbidden, chosen, picked, edges, numPrec, state>>

TryBranch ==
  LET top == Last(stack)
      n == SmallestOf(top.todo)
  IN  /\ pc = "branch" /\ top.todo # {}
      /\ stack' = Append(Front(stack), [top EXCEPT !.cur = n, !.todo = @ \ {n}])
      /\ state' = Apply(Effect(n), top.state, Values(n))
      /\ numPrec' = Done(numPrec, n)
      /\ Continue("execute")
      /\ UNCHANGED <<plan, forbidden, chosen, picked, edges>>

GiveUpBranch ==
  /\ pc = "branch" /\ Last(stack).todo = {}
  /\ stack' = Front(stack)
  /\ Continue("return")
  /\ UNCHANGED <<plan, forbidden, chosen, picked, edges, numPrec, state>>

Backtrack ==
  /\ pc = "return" /\ stack # <<>>
  /\ numPrec' = Undone(numPrec, Last(stack).cur)
  /\ Continue("branch")
  /\ UNCHANGED <<plan, forbidden, chosen, picked, edges, state, stack>>

Refute ==
  /\ pc = "return" /\ stack = <<>>
  /\ forbidden' = Forbid(chosen)
  /\ chosen' = <<>> /\ picked' = <<>>
  /\ Continue("pick")
  /\ UNCHANGED <<plan, edges, numPrec, state, stack>>

Next ==
  \/ Check \/ MatchMethods
  \/ PickFails \/ PickExhausted \/ PickBacktracks \/ PickSucceeds
  \/ Finish \/ Abort \/ Progress
  \/ Branch \/ TryBranch \/ GiveUpBranch \/ Backtrack \/ Refute

Spec == Init /\ [][Next]_vars

(* One process runs to its end: some step is always taken.                 *)
FairSpec == Spec /\ WF_vars(Next)

-----------------------------------------------------------------------------
(* What a plan must be: the subtasks form a tree, every method is applied  *)
(* to all its subtasks with values for all its variables, the primitive    *)
(* plan keeps its orderings, and the steps' starts and ends can be         *)
(* executed one after the other up to the goal.  With UseOrder the plan    *)
(* lists the subtasks of a step in an order that its method allows.        *)

IsTree ==
  /\ \A t \in DOMAIN Tasks :
       Cardinality({<<u, i>> \in (DOMAIN Subs) \X (1 .. Cardinality(DOMAIN Tasks)) :
                      i \in DOMAIN Subs[u] /\ Subs[u][i] = t}) = IF t = Root THEN 0 ELSE 1
  /\ SubtasksExist
  /\ {t \in DOMAIN Tasks : ~Tasks[t].primitive} = DOMAIN Applied

FullMatchings(t) ==
  LET m == MethodOf(t)
      values == {a \in [DOMAIN m.vars -> UNION {case.sorts[m.vars[v]] : v \in DOMAIN m.vars}] :
                   \A v \in DOMAIN m.vars : a[v] \in case.sorts[m.vars[v]]}
      fits(mu, a) ==
        /\ \A i \in DOMAIN m.atArgs : Value(m.atArgs[i], a) = ArgsOf(t)[i]
        /\ \A i \in DOMAIN mu :
             LET st == Subs[t][mu[i]]
             IN  /\ m.tasks[i].task = Tasks[st].name
                 /\ [k \in DOMAIN m.tasks[i].args |-> Value(m.tasks[i].args[k], a)] = ArgsOf(st)
        /\ Eval(m.constraint, {}, a, TRUE)
        /\ UseOrder => \A o \in m.order : mu[o[1]] < mu[o[2]]
  IN  IF Len(Subs[t]) # Len(m.tasks) THEN {}
      ELSE {<<mu, a>> \in [DOMAIN m.tasks -> DOMAIN m.tasks] \X values :
              IsInjective(mu) /\ fits(mu, a)}

(* One decomposition: an instantiated method for every abstract step.      *)
Decompositions ==
  {d \in [DOMAIN Applied -> UNION {FullMatchings(t) : t \in DOMAIN Applied}] :
     \A t \in DOMAIN Applied : d[t] \in FullMatchings(t)}

Before(d) ==
  PlanOrder
  \cup {<<Start(t), End(t)>> : t \in DOMAIN Tasks}
  \cup UNION {UNION {{<<Start(t), Start(st)>>, <<End(st), End(t)>>} : st \in Range(Subs[t])}
               : t \in DOMAIN Applied}
  \cup UNION {{<<End(Subs[t][d[t][1][o[1]]]), Start(Subs[t][d[t][1][o[2]]])>> :
                 o \in MethodOf(t).order} : t \in DOMAIN Applied}

(* The executed nodes and the state after k steps in any order.            *)
RECURSIVE Reachable(_, _)
Reachable(d, k) ==
  LET before == Before(d)
      values(n) == IF n \in DOMAIN Applied THEN d[n][2] ELSE StepValues(n)
      prec(n) == IF n \in DOMAIN Applied THEN MethodOf(n).prec
                 ELSE case.primitive[Tasks[n].name].prec
      nodes == DOMAIN Tasks \cup {End(t) : t \in DOMAIN Tasks}
      after(c) ==
        {<<c[1] \cup {n}, IF n < 0 THEN c[2] ELSE Apply(Effect(n), c[2], values(n))>> :
           n \in {m \in nodes \ c[1] :
                   /\ \A e \in before : e[2] = m => e[1] \in c[1]
                   /\ m >= 0 => Eval(prec(m), c[2], values(m), FALSE)}}
  IN  IF k = 0 THEN {<<{}, case.init>>}
      ELSE UNION {after(c) : c \in Reachable(d, k - 1)}

Executable(d) ==
  \E c \in Reachable(d, 2 * Cardinality(DOMAIN Tasks)) : Eval(case.goal, c[2], <<>>, FALSE)

ValidPlan ==
  /\ Roots # <<>>
  /\ \A t \in DOMAIN Tasks : StepDeclared(t)
  /\ IsTree
  /\ \A t \in DOMAIN Applied : HasMethod(t)
  /\ \E d \in Decompositions : Executable(d)
-----------------------------------------------------------------------------
(* Properties.                                                             *)

(* The plan keeps its root, and matchings, choices and open branches are   *)
(* about its steps.  A node's count can fall below -1: what Progress did   *)
(* below a branch is not taken back with the branch.                       *)
TypeOK ==
  /\ pc \in {"check", "match", "pick", "execute", "branch", "return", "done"}
  /\ ok \in BOOLEAN
  /\ verdict \in {"none", "accepted", "rejected", "aborted"}
  /\ Roots # <<>> => Root \in DOMAIN Tasks
  /\ DOMAIN matchings \subseteq DOMAIN Applied
  /\ \A f \in forbidden : Range(f) \subseteq (DOMAIN matchings) \X (1 .. 99)
  /\ Range(chosen) \subseteq (DOMAIN matchings) \X (1 .. 99)
  /\ DOMAIN picked \subseteq DOMAIN Applied
  /\ \A n \in DOMAIN numPrec : numPrec[n] \in Int
  /\ pc \in {"execute", "branch", "return"} => DOMAIN Tasks \subseteq DOMAIN numPrec
  /\ \A i \in DOMAIN stack : stack[i].todo \subseteq DOMAIN Tasks

(* A plan is only accepted when it is one: it was derived from the root    *)
(* and can be executed to the goal.  verify_plan as a whole.               *)
AcceptedPlansAreValid == verdict = "accepted" => ValidPlan

(* A plan that can be derived and executed is accepted: no matching that   *)
(* leads to an execution is skipped, forbidden or given up (findLineari-   *)
(* sation "returns whether a linearisation of the derived task network     *)
(* exists that is compatible with the given primitive plan").              *)
ValidPlansAreAccepted == pc = "done" /\ verdict # "accepted" => ~ValidPlan

Agrees(d, f) ==
  \A c \in Range(f) :
    LET match == matchings[c[1]][c[2]]
    IN  /\ \A j \in DOMAIN match.mu : d[c[1]][1][match.mu[j]] = j
        /\ \A v \in DOMAIN match.values : d[c[1]][2][v] = match.values[v]

(* The search only forbids choices that no execution uses: a decomposition *)
(* that agrees with a forbidden sequence of choices cannot be executed.    *)
ForbiddenAreRefuted ==
  \A f \in forbidden : \A d \in Decompositions : Agrees(d, f) => ~Executable(d)

(* The search for matchings and executions ends, though the pick starts    *)
(* over each time and what was forbidden is forgotten again (the recursion *)
(* at the end of findLinearisation).                                       *)
VerificationEnds == <>(pc = "done")
=============================================================================
