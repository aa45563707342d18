----------------------------- MODULE GroundedGPG -----------------------------
(***************************************************************************)
(* Reachability pruning of a ground HTN problem: grounder/src/groundedGPG. *)
(* cpp, iterated by run_grounded_HTN_GPG and called again by the output    *)
(* loop of grounding.cpp whenever its invariant analysis prunes tasks.     *)
(*                                                                         *)
(* Three passes alternate: a bottom-up relaxed planning graph over facts   *)
(* (PG), a bottom-up task decomposition graph over tasks (TDG), and a      *)
(* top-down traversal from the initial task (DFS).  The queues of the code *)
(* are sets here: every order of processing is explored.                   *)
(***************************************************************************)
EXTENDS Naturals, FiniteSets

CONSTANT
  Instances   \* the ground problems the lifted grounding may deliver

(***************************************************************************)
(* A ground problem.  guard holds the primitive tasks that were compiled   *)
(* from conditional effects, initialTasks the groundings of the initial    *)
(* abstract task.  Preconditions and subtasks are sets: a repeated entry   *)
(* is counted, listed and discounted twice by the code.                    *)
(***************************************************************************)
IsInstance(p) ==
  /\ p.init \subseteq p.facts
  /\ p.prim \cap p.abs = {}
  /\ p.guard \subseteq p.prim
  /\ p.initialTasks \subseteq p.abs
  /\ p.pre \in [p.prim -> SUBSET p.facts]
  /\ p.add \in [p.prim -> SUBSET p.facts]
  /\ p.head \in [p.methods -> p.abs]
  /\ p.sub \in [p.methods -> SUBSET (p.prim \cup p.abs)]

ASSUME InstanceAssumption == \A p \in Instances : IsInstance(p)

(* The tasks of a ground problem are counted. *)
ASSUME FiniteAssumption == \A p \in Instances : IsFiniteSet(p.prim)

VARIABLES
  p,              \* the problem (never changes)
  plan,           \* the tasks and methods of some executable refinement
  pc,             \* which pass runs
  first,          \* the postprocessing asked for one more run
  prunedTasks, prunedFacts, prunedMethods,
  alwaysRunDFS,   \* run TDG and DFS although the first PG prunes nothing
  remaining,      \* remainingPrimitiveTasks: how many the last pass left
  reached,        \* facts (PG) or tasks (TDG, DFS) reached by this pass
  queue,          \* those of them still to be processed
  unfulfilled,    \* per task (PG) or method (TDG): what is not yet reached
  visitedMethods  \* methods the DFS went through

pruned == <<prunedTasks, prunedFacts, prunedMethods>>
work == <<reached, queue, unfulfilled, visitedMethods>>
context == <<p, plan, first>>
vars == <<context, pc, pruned, alwaysRunDFS, remaining, work>>

Live(q, cut) == q.prim \ cut
LiveMethods == p.methods \ prunedMethods

----------------------------------------------------------------------------
(* groundedPg *)

(***************************************************************************)
(* Unpruned tasks wait for their preconditions; those without any are      *)
(* reached at once, and so are the initial facts.                          *)
(***************************************************************************)
(* Mutant: the tasks without preconditions are queued, not what they add. *)
PgStartQueuesTasks(q, cut) == q.init \cup {t \in Live(q, cut) : q.pre[t] = {}}

PgStart(q, cut) ==
  q.init \cup UNION {q.add[t] : t \in {u \in Live(q, cut) : q.pre[u] = {}}}

PgInit(q, cut) ==
  /\ unfulfilled' = [t \in Live(q, cut) |-> q.pre[t]]
  /\ reached' = PgStart(q, cut)
  /\ queue' = PgStart(q, cut)
  /\ visitedMethods' = {}

(* The tasks whose last missing precondition is fact f. *)
Completed(f) == {x \in DOMAIN unfulfilled : unfulfilled[x] = {f}}

PgProcess(f) ==
  LET new == (UNION {p.add[t] : t \in Completed(f)}) \ reached
  IN  /\ pc = "PG" /\ f \in queue
      /\ queue' = (queue \ {f}) \cup new
      /\ reached' = reached \cup new
      /\ unfulfilled' = [t \in DOMAIN unfulfilled |-> unfulfilled[t] \ {f}]
      /\ UNCHANGED <<context, pc, pruned, alwaysRunDFS, remaining, visitedMethods>>

Waiting == {x \in DOMAIN unfulfilled : unfulfilled[x] # {}}

(* What the PG leaves of the primitive tasks. *)
PgTasks == DOMAIN unfulfilled \ Waiting

PgPrune ==
  /\ prunedTasks' = prunedTasks \cup Waiting
  /\ prunedFacts' = prunedFacts \cup (p.facts \ reached)

(***************************************************************************)
(* The end of the PG inside run_grounded_HTN_GPG: stop when it left as     *)
(* many primitive tasks as there were, unless the DFS is asked for.        *)
(***************************************************************************)
(* Mutant: the counts are compared the wrong way round. *)
ConvergedOnLoss(count) == count < remaining

Converged(count) == count = remaining

PgStops ==
  /\ pc = "PG" /\ queue = {}
  /\ Converged(Cardinality(PgTasks)) /\ ~alwaysRunDFS
  /\ PgPrune
  /\ pc' = "Done"
  /\ UNCHANGED <<context, prunedMethods, alwaysRunDFS, remaining, work>>

----------------------------------------------------------------------------
(* groundedTdg *)

(* Unpruned methods wait for their subtasks, one without any is reached at *)
(* once; unpruned primitive tasks are reached to begin with.               *)
TdgInit(cutTasks) ==
  LET start == Live(p, cutTasks) \cup {p.head[m] : m \in {n \in LiveMethods : p.sub[n] = {}}}
  IN  /\ unfulfilled' = [m \in LiveMethods |-> p.sub[m]]
      /\ reached' = start
      /\ queue' = start
      /\ visitedMethods' = {}

PgContinues ==
  /\ pc = "PG" /\ queue = {}
  /\ ~Converged(Cardinality(PgTasks)) \/ alwaysRunDFS
  /\ PgPrune
  /\ remaining' = Cardinality(PgTasks)
  /\ alwaysRunDFS' = FALSE
  /\ pc' = "TDG"
  /\ TdgInit(prunedTasks')
  /\ UNCHANGED <<context, prunedMethods>>

TdgProcess(t) ==
  LET new == {p.head[m] : m \in Completed(t)} \ reached
  IN  /\ pc = "TDG" /\ t \in queue
      /\ queue' = (queue \ {t}) \cup new
      /\ reached' = reached \cup new
      /\ unfulfilled' = [m \in DOMAIN unfulfilled |-> unfulfilled[m] \ {t}]
      /\ UNCHANGED <<context, pc, pruned, alwaysRunDFS, remaining, visitedMethods>>

TdgPrune ==
  /\ prunedMethods' = prunedMethods \cup Waiting
  /\ prunedTasks' = prunedTasks \cup ((p.prim \cup p.abs) \ reached)

----------------------------------------------------------------------------
(* groundedTdgDfs *)

(* Mutant: the traversal starts in the initial task even when it is pruned. *)
DfsInitUnchecked(cutTasks) ==
  /\ queue' = p.initialTasks
  /\ reached' = p.initialTasks
  /\ visitedMethods' = {}
  /\ unfulfilled' = [m \in {} |-> {}]

(* The traversal starts in the unpruned groundings of the initial task. *)
DfsInit(cutTasks) ==
  /\ queue' = p.initialTasks \ cutTasks
  /\ reached' = p.initialTasks \ cutTasks
  /\ visitedMethods' = {}
  /\ unfulfilled' = [m \in {} |-> {}]

TdgEnds ==
  /\ pc = "TDG" /\ queue = {}
  /\ TdgPrune
  /\ pc' = "DFS"
  /\ DfsInit(prunedTasks')
  /\ UNCHANGED <<context, prunedFacts, alwaysRunDFS, remaining>>

(***************************************************************************)
(* groundedInnerTdgDfs: from a task to the subtasks of each of its         *)
(* unpruned methods.  The recursion is a worklist: only what is visited in *)
(* the end matters.  The code asserts that a visited task is not pruned.   *)
(***************************************************************************)
MethodsOf(t) == {m \in LiveMethods : p.head[m] = t}

DfsVisit(t) ==
  LET new == (UNION {p.sub[m] : m \in MethodsOf(t)}) \ reached
  IN  /\ pc = "DFS" /\ t \in queue
      /\ queue' = (queue \ {t}) \cup new
      /\ reached' = reached \cup new
      /\ visitedMethods' = visitedMethods \cup MethodsOf(t)
      /\ UNCHANGED <<context, pc, pruned, alwaysRunDFS, remaining, unfulfilled>>

(* Mutant: compiled conditional effects are pruned with the rest. *)
DfsKeptVisited == reached

(* Mutant: methods the traversal missed stay. *)
DfsPruneTasksOnly ==
  /\ prunedTasks' = prunedTasks \cup ((p.prim \cup p.abs) \ (reached \cup (p.guard \ prunedTasks)))
  /\ UNCHANGED prunedMethods

(* Compiled conditional effects are in no method: they stay unless pruned. *)
DfsKept == reached \cup (p.guard \ prunedTasks)
DfsCount == Cardinality(p.prim \cap DfsKept)

DfsPrune ==
  /\ prunedTasks' = prunedTasks \cup ((p.prim \cup p.abs) \ DfsKept)
  /\ prunedMethods' = p.methods \ (visitedMethods \ prunedMethods)

(***************************************************************************)
(* The end of the DFS inside run_grounded_HTN_GPG: stop when no primitive  *)
(* task was lost since the PG, otherwise run the three passes again.       *)
(***************************************************************************)
DfsStops ==
  /\ pc = "DFS" /\ queue = {}
  /\ Converged(DfsCount)
  /\ DfsPrune
  /\ pc' = "Done"
  /\ UNCHANGED <<context, prunedFacts, alwaysRunDFS, remaining, work>>

DfsContinues ==
  /\ pc = "DFS" /\ queue = {}
  /\ ~Converged(DfsCount)
  /\ DfsPrune
  /\ remaining' = DfsCount
  /\ pc' = "PG"
  /\ PgInit(p, prunedTasks')
  /\ UNCHANGED <<context, prunedFacts, alwaysRunDFS>>

----------------------------------------------------------------------------
(***************************************************************************)
(* run_grounding.  A refinement is what an executable decomposition of the *)
(* initial task uses: its primitive tasks apply one after the other when   *)
(* deletes are ignored, every abstract task is decomposed down to          *)
(* primitive ones, and every task descends from the initial one or is a    *)
(* compiled conditional effect.                                            *)
(***************************************************************************)
Executable(q, T) ==
  \A F \in SUBSET q.facts :
    (/\ q.init \subseteq F
     /\ \A t \in T \cap q.prim : q.pre[t] \subseteq F => q.add[t] \subseteq F)
    => \A t \in T \cap q.prim : q.pre[t] \subseteq F

Productive(q, T, M) ==
  \A S \in SUBSET (q.prim \cup q.abs) :
    (/\ T \cap q.prim \subseteq S
     /\ \A m \in M : q.sub[m] \subseteq S => q.head[m] \in S)
    => T \subseteq S

Descends(q, T, M) ==
  \A S \in SUBSET (q.prim \cup q.abs) :
    (/\ q.initialTasks \cap T \subseteq S
     /\ \A m \in M : q.head[m] \in S => q.sub[m] \subseteq S)
    => T \subseteq S \cup q.guard

IsRefinement(q, T, M) ==
  /\ T \subseteq q.prim \cup q.abs
  /\ M \subseteq q.methods
  /\ \A m \in M : q.head[m] \in T /\ q.sub[m] \subseteq T
  /\ Executable(q, T) /\ Productive(q, T, M) /\ Descends(q, T, M)

(***************************************************************************)
(* The first call comes after applyEffectPriority, which prunes compiled   *)
(* conditional effects; no executable refinement uses those.               *)
(***************************************************************************)
Init ==
  /\ p \in Instances
  /\ prunedTasks \in SUBSET p.guard
  /\ plan \in [tasks : SUBSET ((p.prim \cup p.abs) \ prunedTasks), methods : SUBSET p.methods]
  /\ IsRefinement(p, plan.tasks, plan.methods)
  /\ prunedFacts = {} /\ prunedMethods = {}
  /\ first \in BOOLEAN
  /\ alwaysRunDFS = FALSE
  /\ remaining = Cardinality(p.prim)
  /\ pc = "PG"
  /\ unfulfilled = [t \in Live(p, prunedTasks) |-> p.pre[t]]
  /\ reached = PgStart(p, prunedTasks)
  /\ queue = PgStart(p, prunedTasks)
  /\ visitedMethods = {}

(***************************************************************************)
(* The loop of run_grounding: the invariant analysis prunes the set lost   *)
(* of primitive tasks, which no executable plan uses.  The reachability    *)
(* analysis runs again when it did, or once when the postprocessing asked  *)
(* for it (first); otherwise the problem is written.                       *)
(***************************************************************************)
Rerun(lost) ==
  /\ pc = "Done"
  /\ lost \cap (prunedTasks \cup plan.tasks) = {}
  /\ lost # {} \/ first
  /\ prunedTasks' = prunedTasks \cup lost
  /\ alwaysRunDFS' = first
  /\ first' = FALSE
  /\ remaining' = Cardinality(p.prim)
  /\ pc' = "PG"
  /\ PgInit(p, prunedTasks')
  /\ UNCHANGED <<p, plan, prunedFacts, prunedMethods>>

Write ==
  /\ pc = "Done" /\ ~first
  /\ pc' = "Written"
  /\ UNCHANGED <<p, plan, first, pruned, alwaysRunDFS, remaining, work>>

PassStep ==
  \/ \E f \in queue : PgProcess(f) \/ TdgProcess(f) \/ DfsVisit(f)
  \/ PgStops \/ PgContinues \/ TdgEnds \/ DfsStops \/ DfsContinues

Next ==
  \/ PassStep
  \/ \E lost \in SUBSET p.prim : Rerun(lost)
  \/ Write

Spec == Init /\ [][Next]_vars

(* The pass is a sequential program: it runs while it has a step. *)
FairSpec == Spec /\ WF_vars(Next)

----------------------------------------------------------------------------
(***************************************************************************)
(* The problem keeps its shape, and what a pass works on stays within it.  *)
(***************************************************************************)
TypeOK ==
  /\ IsInstance(p)
  /\ pc \in {"PG", "TDG", "DFS", "Done", "Written"}
  /\ prunedTasks \subseteq p.prim \cup p.abs
  /\ prunedFacts \subseteq p.facts
  /\ prunedMethods \subseteq p.methods
  /\ reached \subseteq (IF pc = "PG" THEN p.facts ELSE p.facts \cup p.prim \cup p.abs)
  /\ queue \subseteq reached

(***************************************************************************)
(* No pass ever prunes a task or a method of an executable refinement      *)
(* that the other analyses kept, whatever the order in which its queues    *)
(* are processed: grounding loses no plan.                                 *)
(***************************************************************************)
NothingUsablePruned ==
  /\ plan.tasks \cap prunedTasks = {}
  /\ plan.methods \cap prunedMethods = {}

(***************************************************************************)
(* The assertion of groundedInnerTdgDfs: the traversal never enters a      *)
(* pruned task, so the passes before it have pruned every method that      *)
(* names one.                                                              *)
(***************************************************************************)
DfsEntersNoPrunedTask == pc = "DFS" => reached \cap prunedTasks = {}

(***************************************************************************)
(* When the counts say that the passes have converged, they have: once     *)
(* anything is pruned, what is left is itself a refinement, so a further   *)
(* round would prune nothing.                                              *)
(***************************************************************************)
ResultIsRefinement ==
  pc = "Done" /\ prunedTasks # {} =>
    IsRefinement(p, (p.prim \cup p.abs) \ prunedTasks, LiveMethods)

(* The rounds of the three passes, and the reruns, come to an end. *)
GroundingEnds == <>(pc = "Written")
=============================================================================
