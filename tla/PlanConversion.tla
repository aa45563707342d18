---------------------------- MODULE PlanConversion ----------------------------
(***************************************************************************)
(* The plan converter of the PANDA parser: src/parser/src/plan.cpp.  It    *)
(* turns a plan for the problem that the grounder wrote back into one for  *)
(* the problem of the user, undoing what the names of tasks and methods    *)
(* tell was compiled.  convert_plan does one kind of work at a time and    *)
(* calls itself until nothing is left to do; here each call is an action.  *)
(*                                                                         *)
(* A plan being converted is a plan of GroundHTN with two more maps: pos   *)
(* (pos_in_primitive_plan) and contained (task_contained_in), the index of *)
(* the steps' parents, which is only brought up to date now and then.      *)
(***************************************************************************)
EXTENDS GroundHTN

VARIABLES
  steps,     \* the plan being converted
  progress,  \* "idle", "converting" or "converted"
  calls      \* how often convert_plan was called

conversion == <<steps, progress, calls>>

Root == -1   \* the parent of the root tasks in the index

Has(map, i) == i \in DOMAIN map
Without(map, S) == [i \in DOMAIN map \ S |-> map[i]]
Positions(seq) == [i \in ToSet(seq) |-> CHOOSE k \in DOMAIN seq : seq[k] = i]

(* parse_plan: the plan as printed, with the positions of its actions.     *)
ParsePlan(pl) ==
  [tasks |-> pl.tasks, prims |-> pl.prims, applied |-> pl.applied, subs |-> pl.subs,
   root |-> pl.root, pos |-> Positions(pl.prims), contained |-> <<>>]

NextFreeId(s) == 1 + (CHOOSE i \in DOMAIN s.tasks : \A j \in DOMAIN s.tasks : j <= i)

UpdateIndex(s) ==
  LET Parents(i) == {p \in DOMAIN s.subs : i \in ToSet(s.subs[p])}
  IN  [s EXCEPT !.contained =
         [i \in UNION {ToSet(s.subs[p]) : p \in DOMAIN s.subs} |->
            CHOOSE p \in Parents(i) : \A q \in Parents(i) : q <= p]]

Parent(s, i) == IF Has(s.contained, i) THEN s.contained[i] ELSE Root

Below(s, p) == IF p = Root THEN s.root ELSE IF Has(s.subs, p) THEN s.subs[p] ELSE <<>>

SetBelow(s, p, seq) ==
  IF p = Root THEN [s EXCEPT !.root = seq] ELSE [s EXCEPT !.subs = (p :> seq) @@ @]

Replace(seq, i, by) == FlattenSeq([k \in DOMAIN seq |-> IF seq[k] = i THEN by ELSE <<seq[k]>>])

(* Mutant: the step keeps its name. *)
EraseMethodOnly(s, i) ==
  [s EXCEPT !.applied = Without(@, {i}), !.subs = Without(@, {i})]

Erase(s, i) ==
  [s EXCEPT !.tasks = Without(@, {i}), !.applied = Without(@, {i}), !.subs = Without(@, {i})]

----------------------------------------------------------------------------
(* The steps in left now belong to p.                                      *)
(* Mutant: the index keeps their old parent. *)
AdoptWithoutIndex(s, p, left) == s

Adopt(s, p, left) == [s EXCEPT !.contained = [j \in ToSet(left) |-> p] @@ @]

(***************************************************************************)
(* compress_artificial_method: step i disappears and its subtasks take its *)
(* place with its parent, which becomes their parent in the index.         *)
(***************************************************************************)
CompressStep(s, i) ==
  LET below == IF s.tasks[i].prim THEN <<>> ELSE Below(s, i)
      p == Parent(s, i)
      left == Replace(Below(s, p), i, below)
      dropped == IF s.tasks[i].prim
                 THEN [s EXCEPT !.prims = SelectSeq(@, LAMBDA j : j # i),
                                !.pos = [j \in DOMAIN @ |-> IF @[j] > @[i] THEN @[j] - 1 ELSE @[j]]]
                 ELSE s
  IN  Erase(Adopt(SetBelow(dropped, p, left), p, left), i)

(***************************************************************************)
(* compress_artificial_primitives: the artificial actions all at once.  If *)
(* the positions do not agree the program gives up (exit(1)); here the     *)
(* conversion is stuck.                                                    *)
(***************************************************************************)
Removed(s, gone, j) == Cardinality({k \in gone : s.pos[k] < s.pos[j]})

PositionsAgree(s, gone) ==
  LET left == SelectSeq(s.prims, LAMBDA j : j \notin gone)
  IN  /\ gone \subseteq ToSet(s.prims)
      /\ \A k \in DOMAIN left : s.pos[left[k]] - Removed(s, gone, left[k]) = k

CompressActions(s, gone) ==
  LET left == SelectSeq(s.prims, LAMBDA j : j \notin gone)
      Leave(acc, i) ==
        LET p == Parent(acc, i)
        IN  Erase(SetBelow(acc, p, Replace(Below(acc, p), i, <<>>)), i)
  IN  FoldLeft(Leave, [s EXCEPT !.prims = left, !.pos = Positions(left)], SetToSortSeq(gone, <))

(* expand_compressed_action: an aggregate becomes the actions it stands for *)
ExpandAction(s, i) ==
  LET parts == s.tasks[i].name.parts
      new == [k \in DOMAIN parts |-> NextFreeId(s) + k - 1]
      prims == Replace(s.prims, i, new)
  IN  [s EXCEPT !.tasks = Without([j \in ToSet(new) |->
                            [name |-> parts[j - NextFreeId(s) + 1], prim |-> TRUE]] @@ @, {i}),
                !.subs = [p \in DOMAIN @ |-> Replace(s.subs[p], i, new)],
                !.prims = prims, !.pos = Positions(prims)]

(***************************************************************************)
(* expand_compressed_method: step i gets back the main method, and a new   *)
(* step, at the recorded position, the method that was applied in it.  The *)
(* assertion that every subtask has a position is not in release builds:   *)
(* the no-op of an empty method has none, and is left without a parent.    *)
(***************************************************************************)
InnerSteps(s, i) ==
  LET map == s.applied[i].map
      places == SetToSortSeq({k \in DOMAIN map : map[k] < 0}, LAMBDA k, l : map[k] > map[l])
  IN  [k \in DOMAIN places |-> s.subs[i][places[k]]]

MainSteps(s, i, new) ==
  LET name == s.applied[i]
      places == {k \in DOMAIN name.map : name.map[k] >= 0}
      step == [q \in {name.map[k] : k \in places} |-> s.subs[i][CHOOSE k \in places : name.map[k] = q]]
      all == (name.pos :> new) @@ step
      order == SetToSortSeq(DOMAIN all, <)
  IN  [k \in DOMAIN order |-> all[order[k]]]

ExpandMethod(s, i) ==
  LET name == s.applied[i]
      new == NextFreeId(s)
  IN  [s EXCEPT !.tasks = (new :> [name |-> name.task, prim |-> FALSE]) @@ @,
                !.applied = (new :> name.inner) @@ (i :> name.main) @@ @,
                !.subs = (new :> InnerSteps(s, i)) @@ (i :> MainSteps(s, i, new)) @@ @]

----------------------------------------------------------------------------
(* One call of convert_plan.  Steps are treated in the order of their ids. *)
Each(Op(_, _), s, S) == FoldLeft(Op, s, SetToSortSeq(S, <))

MethodsOfKind(k) == {i \in DOMAIN steps.applied : steps.applied[i].kind = k}
TasksOfKind(k) == {i \in DOMAIN steps.tasks : steps.tasks[i].name.kind = k}
HiddenMethods == {i \in DOMAIN steps.applied : Artificial(steps.applied[i])}
HiddenTasks == {i \in DOMAIN steps.tasks : Artificial(steps.tasks[i].name)}

Convert(s) == steps' = s /\ UNCHANGED progress

CompressPrefixMethods ==
  /\ MethodsOfKind("inter") # {}
  /\ Convert(Each(CompressStep, UpdateIndex(steps), MethodsOfKind("inter")))

ExpandNewTasks ==
  /\ MethodsOfKind("inter") = {}
  /\ TasksOfKind("inter") \cup TasksOfKind("agg") # {}
  /\ Convert(Each(ExpandAction, Each(CompressStep, UpdateIndex(steps), TasksOfKind("inter")),
                  TasksOfKind("agg")))

GrounderNamesLeft ==
  \/ MethodsOfKind("inter") # {}
  \/ TasksOfKind("inter") \cup TasksOfKind("agg") # {}

ExpandMethods ==
  /\ ~GrounderNamesLeft
  /\ MethodsOfKind("exp") # {}
  /\ Convert(Each(ExpandMethod, steps, MethodsOfKind("exp")))

CompressMethods ==
  /\ ~GrounderNamesLeft /\ MethodsOfKind("exp") = {}
  /\ HiddenMethods # {}
  /\ Convert(Each(CompressStep, UpdateIndex(steps), HiddenMethods))

CompressTasks ==
  LET prims == {i \in HiddenTasks : steps.tasks[i].prim}
  IN  /\ ~GrounderNamesLeft /\ MethodsOfKind("exp") = {} /\ HiddenMethods = {}
      /\ HiddenTasks # {}
      /\ PositionsAgree(steps, prims)
      /\ Convert(Each(CompressStep, UpdateIndex(CompressActions(steps, prims)), HiddenTasks \ prims))

(* Finally the names of the variants of an action are cut at the bar.      *)
Sanitise ==
  /\ ~GrounderNamesLeft /\ MethodsOfKind("exp") = {} /\ HiddenMethods = {} /\ HiddenTasks = {}
  /\ steps' = [steps EXCEPT !.tasks = [i \in DOMAIN @ |-> [@[i] EXCEPT !.name = Plain(@.base)]]]
  /\ progress' = "converted"

ConvertPlan ==
  /\ progress = "converting"
  /\ calls' = calls + 1
  /\ \/ CompressPrefixMethods \/ ExpandNewTasks \/ ExpandMethods \/ CompressMethods
     \/ CompressTasks \/ Sanitise
=============================================================================
