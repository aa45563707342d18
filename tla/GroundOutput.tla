----------------------------- MODULE GroundOutput -----------------------------
(***************************************************************************)
(* From the simplified ground problem to the file a planner reads:         *)
(* SAS+ variables (sasinvariants.cpp), the reachability analysis that runs *)
(* again when they rule out tasks (groundedGPG.cpp, see also GroundedGPG), *)
(* and write_grounded_HTN (output.cpp) without its layout and numbering.   *)
(*                                                                         *)
(* A ground problem also has                                               *)
(*   fams        lifted groups of which at most one fact is true: literals *)
(*               lits [pred, args], with arguments [var, name] that are    *)
(*               variables or objects, the sort of each variable, and the  *)
(*               set free of those that have one value in a ground group   *)
(*   atoms       the predicate and the arguments of facts                  *)
(*   known       ground mutex groups found by H2, see GroundExports        *)
(*   invariants  clauses of pairs <<is positive, fact>> found by H2        *)
(***************************************************************************)
EXTENDS Postprocessing

(***************************************************************************)
(* run_grounded_HTN_GPG as one step: relaxed reachability of facts, tasks  *)
(* that can be decomposed, tasks that descend from the initial one; until  *)
(* no primitive task is lost.  "always" asks for the last two in any case. *)
(***************************************************************************)
RECURSIVE Closure(_, _, _)
Closure(reached, rules, all) ==
  LET new == UNION {all[r].gives : r \in {x \in rules : all[x].needs \subseteq reached}}
  IN  IF new \subseteq reached THEN reached ELSE Closure(reached \cup new, rules, all)

PgPass(g) ==
  LET facts == Closure(g.init, LivePrims(g),
                       [t \in LivePrims(g) |-> [needs |-> g.tasks[t].pre, gives |-> g.tasks[t].add]])
  IN  [g EXCEPT !.pt = @ \cup {t \in LivePrims(g) : ~(g.tasks[t].pre \subseteq facts)},
                !.pf = @ \cup (g.facts \ facts)]

TdgPass(g) ==
  LET tasks == Closure(LivePrims(g), LiveMethods(g),
                       [m \in LiveMethods(g) |-> [needs |-> ToSet(g.methods[m].sub),
                                                  gives |-> {g.methods[m].task}]])
  IN  [g EXCEPT !.pt = @ \cup (DOMAIN g.tasks \ tasks),
                !.pm = @ \cup {m \in LiveMethods(g) : ~(ToSet(g.methods[m].sub) \subseteq tasks)}]

DfsPass(g) ==
  LET tasks == Closure({g.top} \ g.pt, LiveMethods(g),
                       [m \in LiveMethods(g) |-> [needs |-> {g.methods[m].task},
                                                  gives |-> ToSet(g.methods[m].sub)]])
  IN  [g EXCEPT !.pt = @ \cup {t \in LiveTasks(g) : t \notin tasks /\ ~g.tasks[t].ce},
                !.pm = @ \cup {m \in LiveMethods(g) : g.methods[m].task \notin tasks}]

RECURSIVE Rounds(_, _, _)
Rounds(g, remaining, always) ==
  LET pg == PgPass(g)
      left == Cardinality(LivePrims(pg))
      dfs == DfsPass(TdgPass(pg))
  IN  IF left = remaining /\ ~always THEN pg
      ELSE IF Cardinality(LivePrims(dfs)) = left THEN dfs
      ELSE Rounds(dfs, Cardinality(LivePrims(dfs)), FALSE)

RunGPG(g, always) == Rounds(g, Cardinality(Prims(g)), always)

----------------------------------------------------------------------------
(***************************************************************************)
(* compute_sas_groups: the facts that match a literal of a lifted group,   *)
(* one ground group for all values of its free variables.  A literal that  *)
(* lacks a free variable matches for each of its values.                   *)
(***************************************************************************)
MatchesLiteral(fam, l, atom, free) ==
  /\ atom.pred = l.pred
  /\ \A k \in DOMAIN l.args :
       LET x == l.args[k].name IN
       IF l.args[k].var THEN /\ atom.args[k] \in fam.sort[x]
                             /\ x \in fam.free => atom.args[k] = free[x]
       ELSE atom.args[k] = x

FreeAssignments(fam) ==
  {a \in [fam.free -> UNION {fam.sort[v] : v \in fam.free}] : \A v \in fam.free : a[v] \in fam.sort[v]}

FamGroups(g) ==
  UNION {{{f \in DOMAIN g.atoms \ g.pf : \E l \in fam.lits : MatchesLiteral(fam, l, g.atoms[f], a)} :
            a \in FreeAssignments(fam)} : fam \in g.fams}

(***************************************************************************)
(* The known groups and these, largest first, become SAS+                  *)
(* variables if their facts are in none yet and at most one is true        *)
(* initially; the others are kept as further mutexes.  Groups of one size  *)
(* come in any order.                                                      *)
(***************************************************************************)
GroupsLeft(g) == {k \in FamGroups(g) \cup {m \ g.pf : m \in g.known} : Cardinality(k) >= 2}

GroupOrders(g) ==
  {s \in SetToSeqs(GroupsLeft(g)) :
     \A i, j \in DOMAIN s : i < j => Cardinality(s[i]) >= Cardinality(s[j])}

Uncovered(g, groups) ==
  SetToSeq({f \in g.facts \ g.pf : \A i \in DOMAIN groups : f \notin groups[i]})

ComputeSasGroups(g, order, variablesOnly) ==
  LET Consider(acc, k) ==
        IF Cardinality(k \cap g.init) > 1 THEN acc
        ELSE IF \E i \in DOMAIN acc.sas : acc.sas[i] \cap k # {}
        THEN [acc EXCEPT !.other = Append(@, k)]
        ELSE [acc EXCEPT !.sas = Append(@, k)]
      split == FoldLeft(Consider, [sas |-> <<>>, other |-> <<>>], order)
      rest == Uncovered(g, split.sas)
  IN  IF variablesOnly
      THEN [split EXCEPT !.sas = @ \o [i \in DOMAIN rest |-> {rest[i]}]]
      ELSE split

(***************************************************************************)
(* ground_invariant_analysis: a task that needs two facts of a group is    *)
(* pruned; a group needs the value none-of-them if no fact of it is true   *)
(* initially or some task deletes one and adds none.                       *)
(***************************************************************************)
ViolatesMutex(g, t, groups) ==
  \E i \in DOMAIN groups : Cardinality(g.tasks[t].pre \cap groups[i]) > 1

(* Mutant: deleting one value and adding another is not told apart. *)
EmptiesGroupByAdding(g, t, k) ==
  g.tasks[t].del \cap k # {} /\ g.tasks[t].add \cap k # {}

EmptiesGroup(g, t, k) ==
  g.tasks[t].del \cap k # {} /\ g.tasks[t].add \cap k = {}

NeedsNone(g, k) ==
  k \cap g.init = {} \/ \E t \in LivePrims(g) : EmptiesGroup(g, t, k)

PruneMutexTasks(g, groups) ==
  [g EXCEPT !.pt = @ \cup {t \in LivePrims(g) : \/ ViolatesMutex(g, t, groups.sas)
                                                \/ ViolatesMutex(g, t, groups.other)}]

RecordNone(g, groups) ==
  [g EXCEPT !.tasks = [t \in DOMAIN @ |->
     IF t \notin LivePrims(g) THEN g.tasks[t]
     ELSE [g.tasks[t] EXCEPT !.none = {i \in DOMAIN groups.sas : EmptiesGroup(g, t, groups.sas[i])}]]]

----------------------------------------------------------------------------
(***************************************************************************)
(* write_grounded_HTN.  c holds the groups (sas, other); o the options     *)
(* noop (noopForEmptyMethods), negative (compileNegativeSASVariables) and  *)
(* mode (sas_mode).                                                        *)
(***************************************************************************)
None(i) == "none-of-them " \o ToString(i)

Values(g, c, i) == c.sas[i] \cup (IF NeedsNone(g, c.sas[i]) THEN {None(i)} ELSE {})

(***************************************************************************)
(* Facts eliminated by duplication: in a strict mutex of two facts, one of *)
(* which is a value of a variable of more than two values, the other fact  *)
(* stands for the other values of that variable.  If it was one of two     *)
(* values of a variable itself, that variable goes too.                    *)
(***************************************************************************)
LargeGroupOf(g, c, f) == {i \in DOMAIN c.sas : f \in c.sas[i] /\ Cardinality(Values(g, c, i)) > 2}
SmallGroupOf(g, c, f) == {i \in DOMAIN c.sas : f \in c.sas[i] /\ Cardinality(Values(g, c, i)) <= 2}

StrictGroups(g, c) == SelectSeq(c.other, LAMBDA k : ~NeedsNone(g, k))

OtherValues(g, c, i, f) == Values(g, c, i) \ {f}

CoverPruned(g, c, negative) ==
  LET Cover(acc, k) ==
        LET large == {f \in k : LargeGroupOf(g, c, f) # {}}
            main == CHOOSE f \in large : TRUE
            i == CHOOSE j \in LargeGroupOf(g, c, main) : TRUE
            fact == CHOOSE f \in k : f # main
            values == OtherValues(g, c, i, main)
            small == SmallGroupOf(g, c, fact)
            second == (UNION {c.sas[j] : j \in small}) \ {fact}
        IN  IF \/ Cardinality(k) # 2 \/ k \cap g.goal # {} \/ Cardinality(large) # 1
               \/ fact \in DOMAIN acc.cover \/ fact \in g.pf
               \/ Cardinality(values) # 1 /\ ~negative
            THEN acc
            ELSE [cover |-> [f \in second |-> {main}] @@ (fact :> values) @@ acc.cover,
                  groups |-> acc.groups \cup small]
  IN  FoldLeft(Cover, [cover |-> <<>>, groups |-> {}], StrictGroups(g, c))

(***************************************************************************)
(* Effects are written on facts that are neither pruned nor eliminated.    *)
(* With the options on SAS+ deletes (mode "all" or "none") the deletes of  *)
(* values and the conditional effects on them are left out.                *)
(***************************************************************************)
ValueOf(g, c, p) == UNION {c.sas[i] : i \in DOMAIN c.sas \ p.groups}

Unpruned(g, p, facts) == facts \ (g.guards \cup g.pf \cup DOMAIN p.cover)

UnprunedInMode(g, c, p, facts, mode) ==
  IF mode = "input" THEN Unpruned(g, p, facts) ELSE Unpruned(g, p, facts) \ ValueOf(g, c, p)

(* The conditional effects of task t that are written.                     *)
WrittenGuarded(g, c, p, t, mode) ==
  {e \in Guarded(g, t) : UnprunedInMode(g, c, p, g.tasks[e].add \cup g.tasks[e].del, mode) # {}}

(* The ways to choose a value for each eliminated fact task t asks for.    *)
Asked(g, c, p, t, mode) ==
  DOMAIN p.cover \cap
    (g.tasks[t].pre
     \cup UNION {Condition(g, e) \ g.pf : e \in WrittenGuarded(g, c, p, t, mode)})

Assignments(g, c, p, t, mode) ==
  LET asked == Asked(g, c, p, t, mode) IN
  {a \in [asked -> UNION {p.cover[f] : f \in asked}] : \A f \in asked : a[f] \in p.cover[f]}

(* Facts as they are written; pruned conditions are left out.              *)
Chosen(g, facts, a) ==
  {IF f \in DOMAIN a THEN a[f] ELSE f : f \in facts \ g.pf}

GroupWithNone(g, c, p, f) ==
  {i \in DOMAIN c.sas \ p.groups : f \in c.sas[i] /\ NeedsNone(g, c.sas[i])}

(* The number of none-of-them of a variable that was dropped is never set: *)
(* it is 0, the number of the first value that is written.                 *)
NoneNumber(g, c, p, i) ==
  IF i \notin p.groups THEN None(i)
  ELSE CHOOSE f \in Values(g, c, CHOOSE j \in DOMAIN c.sas \ p.groups :
                                   \A k \in DOMAIN c.sas \ p.groups : j <= k) : TRUE

(***************************************************************************)
(* Adding a value deletes none-of-them of its variable; a task that        *)
(* empties a variable adds it.  Instead of the problem's own deletes of    *)
(* values (mode "input") there are those of all other values of a variable *)
(* that is set (mode "all") or none (mode "none").                         *)
(***************************************************************************)
DeletesOfOthers(variables, adds) ==
  UNION {{<<a[1], v>> : v \in UNION {k \in variables : a[2] \in k} \ {a[2]}} : a \in adds}

WrittenVariables(g, c, p) == {Values(g, c, i) : i \in DOMAIN c.sas \ p.groups}

WrittenTask(g, c, p, t, a, mode) ==
  LET x == g.tasks[t]
      ByMode(facts) == UnprunedInMode(g, c, p, facts, mode)
      When(e) == Chosen(g, Condition(g, e), a)
      adds == {<<{}, f>> : f \in Unpruned(g, p, x.add)}
              \cup UNION {{<<When(e), f>> : f \in ByMode(g.tasks[e].add)} :
                         e \in WrittenGuarded(g, c, p, t, mode)}
      emptied == {<<{}, NoneNumber(g, c, p, i)>> : i \in x.none}
      dels == {<<{}, f>> : f \in ByMode(x.del)}
              \cup UNION {{<<When(e), f>> : f \in ByMode(g.tasks[e].del)} :
                         e \in WrittenGuarded(g, c, p, t, mode)}
              \cup UNION {{<<e[1], None(i)>> : i \in GroupWithNone(g, c, p, e[2])} : e \in adds}
  IN  [name |-> x.name, prim |-> TRUE, pre |-> Chosen(g, x.pre, a), add |-> adds \cup emptied,
       del |-> dels \cup (IF mode = "all"
                          THEN DeletesOfOthers(WrittenVariables(g, c, p), adds \cup emptied) ELSE {})]

(* Abstract tasks, and one for each primitive that is written repeatedly.  *)
WrittenAbstracts(g, repeated) ==
  LET Named(name) == [name |-> name, prim |-> FALSE, pre |-> {}, add |-> {}, del |-> {}]
  IN  [id \in {<<t, {}>> : t \in repeated} |-> Named(Hidden("__sas"))]
      @@ [id \in {<<t, {}>> : t \in LiveTasks(g) \ LivePrims(g)} |-> Named(g.tasks[id[1]].name)]

(* Task t is one written task, or an abstract one with a method for each.  *)
WrittenTasks(g, c, p, mode) ==
  LET Copies(t) == Assignments(g, c, p, t, mode)
      Id(t, a) == IF Cardinality(Copies(t)) = 1 THEN <<t, {}>> ELSE <<t, {<<f, a[f]>> : f \in DOMAIN a}>>
      prims == {t \in LivePrims(g) : ~g.tasks[t].ce}
      copies == UNION {{[id |-> Id(t, a), task |-> WrittenTask(g, c, p, t, a, mode)] : a \in Copies(t)} : t \in prims}
  IN  [id \in {x.id : x \in copies} |-> (CHOOSE x \in copies : x.id = id).task]
      @@ WrittenAbstracts(g, {t \in prims : Cardinality(Copies(t)) # 1})

(***************************************************************************)
(* The subtasks of a method are written in their arrangement, and the      *)
(* orderings with the positions in it.                                     *)
(***************************************************************************)
WrittenMethod(method, noop) ==
  LET At(i) == CHOOSE k \in DOMAIN method.seqn : method.seqn[k] = i
  IN  [name |-> method.name, task |-> <<method.task, {}>>,
       sub |-> IF method.sub = <<>> THEN noop
               ELSE [k \in DOMAIN method.seqn |-> <<method.sub[method.seqn[k]], {}>>],
       ord |-> {<<At(o[1]), At(o[2])>> : o \in method.ord}]

NoopTask == <<-1, {}>>

WrittenMethods(g, tasks, noop) ==
  [m \in {<<"method", x, {}>> : x \in LiveMethods(g)} |-> WrittenMethod(g.methods[m[2]], noop)]
  @@ [m \in {<<"sas", id[1], id[2]>> : id \in {x \in DOMAIN tasks : x[2] # {}}} |->
        [name |-> Plain("sas_method"), task |-> <<m[2], {}>>, sub |-> <<<<m[2], m[3]>>>>, ord |-> {}]]

(***************************************************************************)
(* Mutexes: eliminated facts are replaced by what they stand for; what is  *)
(* one variable, or too small, is not written.  Invariants that mention a  *)
(* pruned fact or the negation of an eliminated one are dropped.           *)
(***************************************************************************)
Expanded(p, facts) == UNION {IF f \in DOMAIN p.cover THEN p.cover[f] ELSE {f} : f \in facts}

WrittenMutexes(g, c, p, groups) ==
  LET written == {Expanded(p, groups[i]) : i \in DOMAIN groups}
  IN  {k \in written : /\ Cardinality(k) >= 2
                       /\ \A i \in DOMAIN c.sas \ p.groups : k # Values(g, c, i)}

Writable(g, p, l) == l[2] \notin g.pf /\ (l[1] \/ l[2] \notin DOMAIN p.cover)

Trivial(g, c, p, clause) ==
  \/ \E l \in clause : <<~l[1], l[2]>> \in clause
  \/ \E i \in DOMAIN c.sas \ p.groups : clause = {<<TRUE, f>> : f \in Values(g, c, i)}

WrittenInvariants(g, c, p) ==
  LET Clause(inv) == UNION {{<<l[1], f>> : f \in Expanded(p, {l[2]})} : l \in inv}
  IN  {k \in {Clause(inv) : inv \in {i \in g.invariants : \A l \in i : Writable(g, p, l)}} :
         ~Trivial(g, c, p, k)}

(***************************************************************************)
(* The written problem.  A variable without a value starts with            *)
(* none-of-them.  A goal that was eliminated has the number -1, which ends *)
(* the list of goals (it is taken to come first).                          *)
(***************************************************************************)
WrittenGoal(g, p) == IF g.goal \cap DOMAIN p.cover = {} THEN g.goal \ g.pf ELSE {}

WrittenInit(g, c, p) ==
  (g.init \ (g.pf \cup DOMAIN p.cover))
  \cup {None(i) : i \in {j \in DOMAIN c.sas \ p.groups : c.sas[j] \cap g.init = {}}}

(* Facts that are no value of a written variable are variables of their    *)
(* own, unless they are guards of conditional effects or eliminated.       *)
OwnVariables(g, c, p) ==
  {f \in g.facts \ (g.pf \cup g.guards \cup DOMAIN p.cover) :
     \A i \in DOMAIN c.sas \ p.groups : f \notin c.sas[i]}

Write(g, c, o) ==
  LET p == CoverPruned(g, c, o.negative)
      empty == o.noop /\ \E m \in LiveMethods(g) : g.methods[m].sub = <<>>
      noop == IF empty THEN <<NoopTask>> ELSE <<>>
      tasks == WrittenTasks(g, c, p, o.mode)
               @@ (IF empty
                   THEN NoopTask :> [name |-> Hidden("_noop"), prim |-> TRUE,
                                     pre |-> {}, add |-> {}, del |-> {}]
                   ELSE <<>>)
  IN  [tasks |-> tasks, methods |-> WrittenMethods(g, tasks, noop), top |-> <<g.top, {}>>,
       init |-> WrittenInit(g, c, p), goal |-> WrittenGoal(g, p), neg |-> {}, bound |-> g.bound,
       variables |-> WrittenVariables(g, c, p),
       own |-> OwnVariables(g, c, p),
       strict |-> WrittenMutexes(g, c, p, StrictGroups(g, c)),
       nonStrict |-> WrittenMutexes(g, c, p, SelectSeq(c.other, LAMBDA k : NeedsNone(g, k))),
       invariants |-> WrittenInvariants(g, c, p)]
=============================================================================
