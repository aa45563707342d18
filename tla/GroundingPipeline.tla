--------------------------- MODULE GroundingPipeline ---------------------------
(***************************************************************************)
(* The second half of the grounder and the way back: run_grounding         *)
(* (src/grounder/src/grounding.cpp) from the lifted grounding's result to  *)
(* the written problem, a planner that prints some plan for it (external), *)
(* and the parser's converter, which should give a plan of the problem     *)
(* that was grounded.  Postprocessing, GroundOutput, GroundExports and     *)
(* PlanConversion describe the steps, this module their order.             *)
(***************************************************************************)
EXTENDS GroundExports, PlanConversion

CONSTANTS
  Cases,       \* pairs [g, o]: a ground problem and the options of the grounder
  MaxMutexes   \* how many of the mutexes it found the H2 library reports at most

VARIABLES
  case,     \* the problem and options at hand
  g,        \* the ground problem as transformed so far
  phase,    \* the step to come
  at,       \* the task that expandAbstractTasksWithSingleMethod is at
  again,    \* emptyExpanded
  first,    \* reachability is to run again in any case
  groups,   \* the SAS+ groups and the further mutex groups
  written   \* the problem a planner reads

vars == <<case, g, phase, at, again, first, groups, written, steps, progress, calls>>

NoGroups == [sas |-> <<>>, other |-> <<>>]
Options == case.o

Init ==
  /\ case \in Cases
  /\ g = case.g
  /\ phase = "priority"
  /\ at = -1 /\ again = FALSE /\ first = FALSE
  /\ groups = NoGroups
  /\ written = <<>>
  /\ steps = <<>> /\ progress = "idle" /\ calls = 0

(* One pass over the problem: h is what it leaves.                         *)
Pass(now, h, next) ==
  /\ phase = now
  /\ g' = h
  /\ phase' = IF h.status = "ok" THEN next ELSE "exited"
  /\ UNCHANGED <<case, at, again, groups, written, conversion>>

If(option, h) == IF option THEN h ELSE g

Prioritise == Pass("priority", ApplyEffectPriority(g), "reach") /\ UNCHANGED first
Reach == Pass("reach", RunGPG(g, FALSE), IF Options.h2 THEN "h2" ELSE "sort") /\ UNCHANGED first

(***************************************************************************)
(* H2 mutexes: postprocessing with most of it switched off, the groups of  *)
(* all facts, and reachability once more if the groups or the library rule *)
(* out a task.                                                             *)
(***************************************************************************)
Prepared == RemoveUnnecessaryFacts(SortSubtasks(g))

Reports(mutexes) == UNION {kSubset(n, mutexes) : n \in 0..MaxMutexes}

InferMutexes(order, complete) ==
  LET c == ComputeSasGroups(Prepared, order, TRUE)
      left == RecordNone(PruneMutexTasks(Prepared, c), c)
      answer == H2Finds(H2Task(left, c), H2Variables(left, c), complete)
  IN  /\ phase = "h2"
      /\ \E found \in Reports(answer.mutexes) :
           LET h == UseH2(left, c, answer, found)
           IN  g' = IF h.status = "ok" /\ h.pt # Prepared.pt THEN RunGPG(h, FALSE) ELSE h
      /\ phase' = IF Prepared.status = "ok" /\ answer.solvable THEN "sort" ELSE "exited"
      /\ UNCHANGED <<case, at, again, first, groups, written, conversion>>

Sort == Pass("sort", SortSubtasks(g), "facts") /\ UNCHANGED first
RemoveFacts ==
  Pass("facts", If(Options.facts, RemoveUnnecessaryFacts(g)), "preconditions") /\ UNCHANGED first
RemovePreconditions ==
  /\ Pass("preconditions", If(Options.preconditions, RemoveEmptyMethodPreconditions(g)),
          IF Options.expand THEN "expand" ELSE "contract")
  /\ UNCHANGED first

(* The loop over the tasks, which starts again after an empty method.      *)
ToExpand == {t \in LiveTasks(g) : t > at /\ Choiceless(g, t, Options.keepTwo)}

Expand ==
  LET t == CHOOSE x \in ToExpand : \A y \in ToExpand : x <= y
  IN  /\ phase = "expand" /\ ToExpand # {}
      /\ g' = ExpandTask(g, t)
      /\ at' = t
      /\ again' = (again \/ EmptyExpanded(g, t))
      /\ UNCHANGED <<case, phase, first, groups, written, conversion>>

ExpandAgain ==
  /\ phase = "expand" /\ ToExpand = {}
  /\ at' = -1 /\ again' = FALSE
  /\ phase' = IF again THEN "expand" ELSE "contract"
  /\ UNCHANGED <<case, g, first, groups, written, conversion>>

Contract ==
  /\ Pass("contract", If(Options.contract, ContractPrimitives(g)), "two")
  /\ first' = Options.contract

AtMostTwoTasks ==
  /\ Pass("two", If(Options.two, AtMostTwoTasksPerMethod(g)),
          IF Options.output = "planner" THEN "groups" ELSE "write")
  /\ UNCHANGED first

(***************************************************************************)
(* The output loop: as long as the mutex groups rule out tasks (and once   *)
(* after contracting), the reachability analysis runs again.               *)
(***************************************************************************)
Analyse(order) ==
  LET c == ComputeSasGroups(g, order, Options.variablesOnly)
      left == PruneMutexTasks(g, c)
  IN  /\ phase = "groups"
      /\ IF left.pt # g.pt \/ first
         THEN /\ g' = RunGPG(left, first)
              /\ UNCHANGED <<phase, groups>>
         ELSE /\ g' = RecordNone(g, c)
              /\ groups' = c
              /\ phase' = "duplicates"
      /\ first' = FALSE
      /\ UNCHANGED <<case, at, again, written, conversion>>

Unify == Pass("duplicates", If(Options.duplicates, UnifyDuplicates(g)), "write") /\ UNCHANGED first

(* Only what is written with methods is checked for goals that are lost.   *)
Output ==
  CASE Options.output = "planner" -> Write(g, groups, Options)
    [] Options.output = "hddl" -> WriteHDDL(g)
    [] Options.output = "sas+" -> WriteSasPlus(g)

WriteProblem ==
  /\ phase = "write"
  /\ IF Options.output = "sas+" \/ (g.goal \subseteq g.facts /\ g.goal \cap g.pf \subseteq g.init)
     THEN phase' = "written" /\ written' = Output /\ UNCHANGED g
     ELSE phase' = "exited" /\ g' = [g EXCEPT !.status = "unsolvable"] /\ UNCHANGED written
  /\ UNCHANGED <<case, at, again, first, groups, conversion>>

(* A planner prints a plan and numbers its steps as it likes.              *)
Renamed(pl, downwards) ==
  LET N == Cardinality(DOMAIN pl.tasks)
      New(i) == IF downwards THEN N - 1 - i ELSE i
      Map(f) == [i \in {New(j) : j \in DOMAIN f} |-> f[New(i)]]
      News(seq) == [k \in DOMAIN seq |-> New(seq[k])]
  IN  [tasks |-> Map(pl.tasks), applied |-> Map(pl.applied), prims |-> News(pl.prims),
       root |-> News(pl.root), subs |-> [i \in DOMAIN Map(pl.subs) |-> News(Map(pl.subs)[i])]]

(* Without deletes of values, a planner has to overwrite them itself.      *)
AsRead ==
  IF Options.output = "planner" /\ Options.mode = "none"
  THEN [written EXCEPT !.tasks = [t \in DOMAIN @ |->
          [@[t] EXCEPT !.del = @ \cup DeletesOfOthers(written.variables, written.tasks[t].add)]]]
  ELSE written

Plan(downwards) ==
  /\ phase = "written" /\ Options.output = "planner" /\ progress = "idle"
  /\ \E pl \in Solutions(AsRead) : steps' = ParsePlan(Renamed(pl, downwards))
  /\ progress' = "converting"
  /\ UNCHANGED <<calls, case, g, phase, at, again, first, groups, written>>

ConvertStep == ConvertPlan /\ UNCHANGED <<case, g, phase, at, again, first, groups, written>>

(* What is to be kept: the plans of the problem that was grounded.         *)
Given ==
  {LET plans == Solutions(AsProblem(p, p.neg))
   IN  [of |-> p, traces |-> {pl.seen : pl \in plans}, forests |-> {Forest(pl) : pl \in plans}]
   : p \in {c.g : c \in Cases}}

Kept == CHOOSE x \in Given : x.of = case.g

(* The grounder gave up, wrote for other programs, there is no plan, or a  *)
(* plan was converted.  Being stuck anywhere else is a deadlock, exit(1)   *)
(* in the converter among them.                                            *)
Finished ==
  /\ \/ phase = "exited"
     \/ phase = "written" /\ progress = "idle" /\ (Options.output # "planner" \/ Kept.traces = {})
     \/ progress = "converted"
  /\ UNCHANGED vars

Next ==
  \/ Prioritise \/ Reach
  \/ \E order \in (IF phase = "h2" THEN GroupOrders(Prepared) ELSE {}), complete \in BOOLEAN :
       InferMutexes(order, complete)
  \/ Sort \/ RemoveFacts \/ RemovePreconditions
  \/ Expand \/ ExpandAgain \/ Contract \/ AtMostTwoTasks
  \/ \E order \in (IF phase = "groups" THEN GroupOrders(g) ELSE {}) : Analyse(order)
  \/ Unify \/ WriteProblem
  \/ \E downwards \in BOOLEAN : Plan(downwards)
  \/ ConvertStep
  \/ Finished

Spec == Init /\ [][Next]_vars

----------------------------------------------------------------------------
Current ==
  CASE phase = "priority" -> AsProblem(g, g.neg)
    [] phase = "written" -> AsRead
    [] OTHER -> AsProblem(g, {})

(***************************************************************************)
(* What is pruned, is part of the problem; methods have tasks as subtasks  *)
(* and orderings between different ones of them.                           *)
(***************************************************************************)
TypeOK ==
  /\ g.pt \subseteq DOMAIN g.tasks /\ g.pm \subseteq DOMAIN g.methods /\ g.pf \subseteq g.facts
  /\ \A t \in DOMAIN g.tasks : g.tasks[t].pre \cup g.tasks[t].add \cup g.tasks[t].del \subseteq g.facts
  /\ \A m \in DOMAIN g.methods :
       LET x == g.methods[m]
       IN  /\ ToSet(x.sub) \cup {x.task} \subseteq DOMAIN g.tasks
           /\ x.ord \subseteq {o \in (DOMAIN x.sub) \X (DOMAIN x.sub) : o[1] # o[2]}
  /\ progress \in {"idle", "converting", "converted"}

(***************************************************************************)
(* What the writer asserts or relies on without asserting: a method that   *)
(* is written decomposes a task that is written into tasks that are, and   *)
(* its subtasks are arranged in a topological order of all of them.        *)
(***************************************************************************)
Arranged(x) ==
  /\ Len(x.seqn) = Len(x.sub) /\ ToSet(x.seqn) = DOMAIN x.sub
  /\ \A k, l \in DOMAIN x.seqn : <<x.seqn[k], x.seqn[l]>> \in x.ord => k < l

MethodsAreWritable ==
  phase \in {"contract", "two", "duplicates", "write"} =>
    \A m \in LiveMethods(g) : /\ Arranged(g.methods[m])
                              /\ ToSet(g.methods[m].sub) \subseteq LiveTasks(g)
                              /\ g.methods[m].task \in LiveTasks(g)

(***************************************************************************)
(* No pass changes what the plans look like: the sequences of visible      *)
(* actions that solve the problem stay the same up to the written problem, *)
(* and the grounder only says "Goal is unreachable" when there are none.   *)
(***************************************************************************)
HasMethods == phase = "written" => Options.output # "sas+"

PlansKept ==
  IF phase = "exited" THEN g.status = "unsolvable" => Kept.traces = {}
  ELSE progress = "idle" /\ HasMethods => Traces(Current) = Kept.traces

(***************************************************************************)
(* The SAS+ task made of the actions alone is a relaxation: whatever can   *)
(* be seen of a plan of the problem that was grounded, it admits as well.  *)
(***************************************************************************)
RelaxationKeepsPlans ==
  phase = "written" /\ ~HasMethods => \A trace \in Kept.traces : Admits(written, trace)

(***************************************************************************)
(* What the writer tells the planner about the facts is true in every      *)
(* state that the written tasks lead to: a variable has one value, of a    *)
(* further mutex at most one fact is true (exactly one, if it is strict),  *)
(* and the invariants hold.  Whatever fact is written has a number: it is  *)
(* the value of one variable, or a variable of its own.                    *)
(***************************************************************************)
WrittenFacts ==
  UNION ({written.init, written.goal} \cup written.strict \cup written.nonStrict)
  \cup UNION {{l[2] : l \in i} : i \in written.invariants}
  \cup UNION {t.pre \cup UNION {e[1] \cup {e[2]} : e \in t.add \cup t.del} :
               t \in {written.tasks[i] : i \in DOMAIN written.tasks}}

WrittenIsTrue ==
  phase = "written" /\ Options.output = "planner" /\ progress = "idle" =>
    /\ \A f \in WrittenFacts :
         Cardinality({v \in written.variables : f \in v}) = IF f \in written.own THEN 0 ELSE 1
    /\ \A s \in ReachableStates(AsRead) :
         /\ \A v \in written.variables \cup written.strict : Cardinality(v \cap s) = 1
         /\ \A v \in written.nonStrict : Cardinality(v \cap s) <= 1
         /\ \A i \in written.invariants : \E l \in i : l[1] = (l[2] \in s)

(***************************************************************************)
(* Whatever plan the planner finds for the written problem and however it  *)
(* numbers its steps, the converted plan is a decomposition of the problem *)
(* that was grounded, and nothing that a compilation made is left in it.   *)
(***************************************************************************)
ConvertedIsDecomposition ==
  progress = "converted" =>
    /\ \A i \in DOMAIN steps.subs : i \in DOMAIN steps.tasks => ToSet(steps.subs[i]) \subseteq DOMAIN steps.tasks
    /\ \A i \in DOMAIN steps.applied : steps.applied[i].kind = "plain"
    /\ Forest(steps) \in Kept.forests

(***************************************************************************)
(* convert_plan comes to an end: it calls itself at most once for every    *)
(* level to which the written names of methods are nested, and five times  *)
(* for everything else.                                                    *)
(***************************************************************************)
RECURSIVE Nesting(_)
Nesting(name) ==
  IF name.kind # "exp" THEN 0
  ELSE LET main == Nesting(name.main)
           inner == Nesting(name.inner)
       IN  1 + (IF main > inner THEN main ELSE inner)

ConversionEnds ==
  progress # "idle" =>
    \E m \in DOMAIN written.methods : calls <= 5 + Nesting(written.methods[m].name)
=============================================================================
