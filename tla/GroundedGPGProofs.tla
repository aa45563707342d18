-------------------------- MODULE GroundedGPGProofs --------------------------
(***************************************************************************)
(* Proofs about GroundedGPG, for every ground problem, however long the    *)
(* passes alternate and in whatever order they process their queues.       *)
(*                                                                         *)
(* Grounding loses no plan: each pass computes a least set closed under    *)
(* the rules it propagates, and the tasks of a refinement lie in every     *)
(* closed set, so the set a pass has reached when its queue is empty       *)
(* contains them.  What makes this inductive is the bookkeeping of the     *)
(* pass while its queue is not empty.                                      *)
(***************************************************************************)
EXTENDS GroundedGPG, FiniteSetTheorems, TLAPS

Processed == reached \ queue

(***************************************************************************)
(* The graph over facts: a live task waits for the preconditions that are  *)
(* not processed, and when it waits for none its effects are reached.      *)
(***************************************************************************)
PgPass ==
  /\ reached \subseteq p.facts
  /\ p.init \subseteq reached
  /\ DOMAIN unfulfilled = Live(p, prunedTasks)
  /\ \A t \in Live(p, prunedTasks) : unfulfilled[t] = p.pre[t] \ Processed
  /\ \A t \in Live(p, prunedTasks) : p.pre[t] \subseteq Processed => p.add[t] \subseteq reached

(***************************************************************************)
(* The graph over tasks: likewise for the live methods and their subtasks, *)
(* and nothing pruned is reached.                                          *)
(***************************************************************************)
TdgPass ==
  /\ reached \subseteq (p.prim \cup p.abs) \ prunedTasks
  /\ Live(p, prunedTasks) \subseteq reached
  /\ DOMAIN unfulfilled = LiveMethods
  /\ \A m \in LiveMethods : unfulfilled[m] = p.sub[m] \ Processed
  /\ \A m \in LiveMethods : p.sub[m] \subseteq Processed => p.head[m] \in reached

(***************************************************************************)
(* The traversal: the methods of a processed task are visited and their    *)
(* subtasks reached.  The graph over tasks has left only methods whose     *)
(* subtasks all are unpruned.                                              *)
(***************************************************************************)
DfsPass ==
  /\ reached \subseteq (p.prim \cup p.abs) \ prunedTasks
  /\ p.initialTasks \ prunedTasks \subseteq reached
  /\ \A m \in LiveMethods : p.sub[m] \cap prunedTasks = {}
  /\ \A m \in LiveMethods : p.head[m] \in Processed => m \in visitedMethods
  /\ \A m \in visitedMethods :
       m \in LiveMethods /\ p.head[m] \in reached /\ p.sub[m] \subseteq reached

(* A live method decomposes an unpruned task, whichever pass runs. *)
HeadsKept == \A m \in LiveMethods : p.head[m] \notin prunedTasks

Problem ==
  /\ p \in Instances
  /\ IsRefinement(p, plan.tasks, plan.methods)

IInv ==
  /\ Problem
  /\ TypeOK
  /\ NothingUsablePruned
  /\ HeadsKept
  /\ pc = "PG" => PgPass
  /\ pc = "TDG" => TdgPass
  /\ pc = "DFS" => DfsPass

----------------------------------------------------------------------------
(***************************************************************************)
(* When the graph over facts is complete, no task of the plan waits.       *)
(***************************************************************************)
LEMMA PlanTasksDoNotWait ==
  ASSUME IInv, pc = "PG", queue = {}
  PROVE  plan.tasks \cap Waiting = {}
<1>1. /\ PgPass
      /\ Executable(p, plan.tasks)
      /\ plan.tasks \cap prunedTasks = {}
  BY DEF IInv, Problem, IsRefinement, NothingUsablePruned
<1>2. Processed = reached
  BY DEF Processed
<1>3. plan.tasks \cap p.prim \subseteq Live(p, prunedTasks)
  BY <1>1 DEF Live
<1>4. \A t \in plan.tasks \cap p.prim : p.pre[t] \subseteq reached
  BY <1>1, <1>2, <1>3 DEF PgPass, Executable
<1>5. \A t \in plan.tasks \cap p.prim : unfulfilled[t] = {}
  BY <1>1, <1>2, <1>3, <1>4 DEF PgPass
<1>6. Waiting \subseteq p.prim
  BY <1>1 DEF Waiting, PgPass, Live
<1> QED
  BY <1>5, <1>6 DEF Waiting

(***************************************************************************)
(* When the graph over tasks is complete, it has reached every task of the *)
(* plan, and no method of the plan waits.                                  *)
(***************************************************************************)
LEMMA PlanIsProductive ==
  ASSUME IInv, pc = "TDG", queue = {}
  PROVE  /\ plan.tasks \subseteq reached
         /\ plan.methods \cap Waiting = {}
<1>1. /\ TdgPass
      /\ IsRefinement(p, plan.tasks, plan.methods)
      /\ plan.tasks \cap prunedTasks = {}
      /\ plan.methods \cap prunedMethods = {}
  BY DEF IInv, Problem, NothingUsablePruned
<1>2. Processed = reached
  BY DEF Processed
<1>3. plan.methods \subseteq LiveMethods
  BY <1>1 DEF LiveMethods, IsRefinement
<1>4. plan.tasks \cap p.prim \subseteq reached
  BY <1>1 DEF TdgPass, Live
<1>5. \A m \in plan.methods : p.sub[m] \subseteq reached => p.head[m] \in reached
  BY <1>1, <1>2, <1>3 DEF TdgPass
<1>6. reached \in SUBSET (p.prim \cup p.abs)
  BY <1>1 DEF TdgPass
<1>7. plan.tasks \subseteq reached
  BY <1>1, <1>4, <1>5, <1>6 DEF IsRefinement, Productive
<1>8. \A m \in plan.methods : p.sub[m] \subseteq reached
  BY <1>1, <1>7 DEF IsRefinement
<1>9. \A m \in plan.methods : unfulfilled[m] = {}
  BY <1>1, <1>2, <1>3, <1>8 DEF TdgPass
<1> QED
  BY <1>7, <1>9 DEF Waiting

(***************************************************************************)
(* When the traversal is complete, it keeps every task of the plan and has *)
(* visited each of its methods.                                            *)
(***************************************************************************)
LEMMA PlanDescends ==
  ASSUME IInv, pc = "DFS", queue = {}
  PROVE  /\ plan.tasks \subseteq DfsKept
         /\ plan.methods \subseteq visitedMethods
<1>1. /\ DfsPass
      /\ IsRefinement(p, plan.tasks, plan.methods)
      /\ IsInstance(p)
      /\ plan.tasks \cap prunedTasks = {}
      /\ plan.methods \cap prunedMethods = {}
  BY DEF IInv, Problem, NothingUsablePruned, TypeOK
<1>2. Processed = reached
  BY DEF Processed
<1>3. plan.methods \subseteq LiveMethods
  BY <1>1 DEF LiveMethods, IsRefinement
<1>4. p.initialTasks \cap plan.tasks \subseteq reached
  BY <1>1 DEF DfsPass
<1>5. \A m \in plan.methods : p.head[m] \in reached => p.sub[m] \subseteq reached
  BY <1>1, <1>2, <1>3 DEF DfsPass
<1>6. reached \in SUBSET (p.prim \cup p.abs)
  BY <1>1 DEF DfsPass
<1>7. plan.tasks \subseteq reached \cup p.guard
  BY <1>1, <1>4, <1>5, <1>6 DEF IsRefinement, Descends
<1>8. plan.tasks \subseteq DfsKept
  BY <1>1, <1>7 DEF DfsKept
<1>9. \A m \in plan.methods : p.head[m] \in reached
  <2> SUFFICES ASSUME NEW m \in plan.methods
               PROVE  p.head[m] \in reached
    OBVIOUS
  <2>1. p.head[m] \in plan.tasks /\ m \in p.methods
    BY <1>1 DEF IsRefinement
  <2>2. p.head[m] \in p.abs
    BY <1>1, <2>1 DEF IsInstance
  <2> QED
    BY <1>1, <1>7, <2>1, <2>2 DEF IsInstance
<1> QED
  BY <1>1, <1>2, <1>3, <1>8, <1>9 DEF DfsPass

----------------------------------------------------------------------------
(* The start of the pass over facts, in either frame. *)
LEMMA PgStarts ==
  ASSUME p \in Instances, PgInit(p, prunedTasks'), p' = p
  PROVE  PgPass' /\ queue' \subseteq reached'
<1>1. IsInstance(p)
  BY InstanceAssumption
<1>2. Processed' = {}
  BY DEF PgInit, Processed
<1>3. Live(p, prunedTasks') \subseteq p.prim
  BY DEF Live
<1>4. PgStart(p, prunedTasks') \subseteq p.facts
  BY <1>1, <1>3 DEF PgStart, IsInstance
<1>5. \A t \in Live(p, prunedTasks') : p.pre[t] = {} => p.add[t] \subseteq reached'
  BY DEF PgInit, PgStart
<1> QED
  BY <1>2, <1>4, <1>5 DEF PgInit, PgPass, PgStart

LEMMA InitEstablishes == Init => IInv
<1> SUFFICES ASSUME Init
             PROVE  IInv
  OBVIOUS
<1>1. IsInstance(p)
  BY InstanceAssumption DEF Init
<1>2. Problem
  BY DEF Init, Problem
<1>3. NothingUsablePruned
  BY DEF Init, NothingUsablePruned
<1>4. HeadsKept
  BY <1>1 DEF Init, HeadsKept, LiveMethods, IsInstance
<1>5. PgPass /\ queue \subseteq reached
  <2>1. Processed = {}
    BY DEF Init, Processed
  <2>2. Live(p, prunedTasks) \subseteq p.prim
    BY DEF Live
  <2>3. PgStart(p, prunedTasks) \subseteq p.facts
    BY <1>1, <2>2 DEF PgStart, IsInstance
  <2>4. \A t \in Live(p, prunedTasks) : p.pre[t] = {} => p.add[t] \subseteq reached
    BY DEF Init, PgStart
  <2> QED
    BY <2>1, <2>3, <2>4 DEF Init, PgPass, PgStart
<1>6. TypeOK
  BY <1>1, <1>5 DEF Init, TypeOK, IsInstance, PgPass
<1> QED
  BY <1>2, <1>3, <1>4, <1>5, <1>6 DEF IInv, Init

----------------------------------------------------------------------------
(* One lemma for each action: it preserves the inductive invariant. *)

LEMMA PgProcessPreserves ==
  ASSUME IInv, NEW f \in queue, PgProcess(f)
  PROVE  IInv'
<1> DEFINE new == (UNION {p.add[t] : t \in Completed(f)}) \ reached
<1>1. /\ PgPass /\ IsInstance(p) /\ queue \subseteq reached
      /\ pc = "PG" /\ pc' = pc /\ p' = p /\ plan' = plan
      /\ prunedTasks' = prunedTasks /\ prunedFacts' = prunedFacts
      /\ prunedMethods' = prunedMethods
      /\ queue' = (queue \ {f}) \cup new
      /\ reached' = reached \cup new
      /\ unfulfilled' = [t \in DOMAIN unfulfilled |-> unfulfilled[t] \ {f}]
  BY DEF IInv, TypeOK, PgProcess, context, pruned
<1> HIDE DEF new
<1>2. new \cap reached = {}
  BY DEF new
<1>3. new \subseteq p.facts
  BY <1>1 DEF new, Completed, PgPass, IsInstance, Live
<1>4. Processed' = Processed \cup {f}
  BY <1>1, <1>2 DEF Processed
<1>5. \A t \in Live(p, prunedTasks) : p.pre[t] \subseteq Processed' => p.add[t] \subseteq reached'
  <2> SUFFICES ASSUME NEW t \in Live(p, prunedTasks), p.pre[t] \subseteq Processed'
               PROVE  p.add[t] \subseteq reached'
    OBVIOUS
  <2>1. CASE p.pre[t] \subseteq Processed
    BY <1>1, <2>1 DEF PgPass
  <2>2. CASE ~(p.pre[t] \subseteq Processed)
    <3>1. p.pre[t] \ Processed = {f}
      BY <1>4, <2>2
    <3>2. t \in Completed(f)
      BY <1>1, <3>1 DEF Completed, PgPass
    <3> QED
      BY <1>1, <3>2 DEF new
  <2> QED
    BY <2>1, <2>2
<1>6. PgPass'
  <2>1. DOMAIN unfulfilled' = Live(p, prunedTasks)
    BY <1>1 DEF PgPass
  <2>2. \A t \in Live(p, prunedTasks) : unfulfilled'[t] = p.pre[t] \ Processed'
    BY <1>1, <1>4 DEF PgPass
  <2> QED
    BY <1>1, <1>3, <1>5, <2>1, <2>2 DEF PgPass
<1>7. TypeOK'
  BY <1>1, <1>3, <1>6 DEF TypeOK, IInv, PgPass
<1> QED
  BY <1>1, <1>6, <1>7 DEF IInv, Problem, NothingUsablePruned, HeadsKept, LiveMethods

LEMMA TdgProcessPreserves ==
  ASSUME IInv, NEW u \in queue, TdgProcess(u)
  PROVE  IInv'
<1> DEFINE new == {p.head[m] : m \in Completed(u)} \ reached
<1>1. /\ TdgPass /\ IsInstance(p) /\ queue \subseteq reached /\ HeadsKept
      /\ pc = "TDG" /\ pc' = pc /\ p' = p /\ plan' = plan
      /\ prunedTasks' = prunedTasks /\ prunedFacts' = prunedFacts
      /\ prunedMethods' = prunedMethods
      /\ queue' = (queue \ {u}) \cup new
      /\ reached' = reached \cup new
      /\ unfulfilled' = [m \in DOMAIN unfulfilled |-> unfulfilled[m] \ {u}]
  BY DEF IInv, TypeOK, TdgProcess, context, pruned
<1> HIDE DEF new
<1>2. new \cap reached = {}
  BY DEF new
<1>3. new \subseteq p.abs \ prunedTasks
  BY <1>1 DEF new, Completed, TdgPass, IsInstance, LiveMethods, HeadsKept
<1>4. Processed' = Processed \cup {u}
  BY <1>1, <1>2 DEF Processed
<1>5. \A m \in LiveMethods : p.sub[m] \subseteq Processed' => p.head[m] \in reached'
  <2> SUFFICES ASSUME NEW m \in LiveMethods, p.sub[m] \subseteq Processed'
               PROVE  p.head[m] \in reached'
    OBVIOUS
  <2>1. CASE p.sub[m] \subseteq Processed
    BY <1>1, <2>1 DEF TdgPass
  <2>2. CASE ~(p.sub[m] \subseteq Processed)
    <3>1. p.sub[m] \ Processed = {u}
      BY <1>4, <2>2
    <3>2. m \in Completed(u)
      BY <1>1, <3>1 DEF Completed, TdgPass
    <3> QED
      BY <1>1, <3>2 DEF new
  <2> QED
    BY <2>1, <2>2
<1>6. TdgPass'
  <2>1. LiveMethods' = LiveMethods
    BY <1>1 DEF LiveMethods
  <2>2. \A m \in LiveMethods : unfulfilled'[m] = p.sub[m] \ Processed'
    BY <1>1, <1>4 DEF TdgPass
  <2> QED
    BY <1>1, <1>3, <1>5, <2>1, <2>2 DEF TdgPass
<1>7. TypeOK'
  BY <1>1, <1>3, <1>6 DEF TypeOK, IInv, TdgPass
<1> QED
  BY <1>1, <1>6, <1>7 DEF IInv, Problem, NothingUsablePruned, HeadsKept, LiveMethods

LEMMA DfsVisitPreserves ==
  ASSUME IInv, NEW t \in queue, DfsVisit(t)
  PROVE  IInv'
<1> DEFINE new == (UNION {p.sub[m] : m \in MethodsOf(t)}) \ reached
<1>1. /\ DfsPass /\ IsInstance(p) /\ queue \subseteq reached
      /\ pc = "DFS" /\ pc' = pc /\ p' = p /\ plan' = plan
      /\ prunedTasks' = prunedTasks /\ prunedFacts' = prunedFacts
      /\ prunedMethods' = prunedMethods
      /\ queue' = (queue \ {t}) \cup new
      /\ reached' = reached \cup new
      /\ visitedMethods' = visitedMethods \cup MethodsOf(t)
  BY DEF IInv, TypeOK, DfsVisit, context, pruned
<1> HIDE DEF new
<1>2. new \cap reached = {}
  BY DEF new
<1>3. new \subseteq (p.prim \cup p.abs) \ prunedTasks
  <2>1. \A m \in MethodsOf(t) : m \in LiveMethods /\ m \in p.methods
    BY DEF MethodsOf, LiveMethods
  <2>2. \A m \in MethodsOf(t) : p.sub[m] \subseteq p.prim \cup p.abs
    BY <1>1, <2>1 DEF IsInstance
  <2>3. \A m \in MethodsOf(t) : p.sub[m] \cap prunedTasks = {}
    BY <1>1, <2>1 DEF DfsPass
  <2> QED
    BY <2>2, <2>3 DEF new
<1>4. Processed' = Processed \cup {t}
  BY <1>1, <1>2 DEF Processed
<1>5. LiveMethods' = LiveMethods
  BY <1>1 DEF LiveMethods
<1>6. DfsPass'
  <2>1. \A m \in LiveMethods : p.head[m] \in Processed' => m \in visitedMethods'
    BY <1>1, <1>4 DEF DfsPass, MethodsOf
  <2>2. ASSUME NEW m \in visitedMethods'
        PROVE  m \in LiveMethods /\ p.head[m] \in reached' /\ p.sub[m] \subseteq reached'
    <3>1. CASE m \in visitedMethods
      BY <1>1, <3>1 DEF DfsPass
    <3>2. CASE m \in MethodsOf(t)
      <4>1. m \in LiveMethods /\ p.head[m] = t
        BY <3>2 DEF MethodsOf
      <4>2. p.sub[m] \subseteq reached'
        BY <1>1, <3>2 DEF new
      <4> QED
        BY <1>1, <4>1, <4>2
    <3> QED
      BY <1>1, <2>2, <3>1, <3>2
  <2> QED
    BY <1>1, <1>3, <1>5, <2>1, <2>2 DEF DfsPass
<1>7. TypeOK'
  BY <1>1, <1>3, <1>6 DEF TypeOK, IInv, DfsPass
<1> QED
  BY <1>1, <1>6, <1>7 DEF IInv, Problem, NothingUsablePruned, HeadsKept, LiveMethods

(* What the graph over facts prunes, whichever way run_grounded_HTN_GPG    *)
(* goes on.                                                                *)
LEMMA PgPruneKeepsPlan ==
  ASSUME IInv, pc = "PG", queue = {}, PgPrune, context' = context,
         prunedMethods' = prunedMethods
  PROVE  /\ Problem' /\ NothingUsablePruned' /\ HeadsKept'
         /\ p' = p /\ IsInstance(p)
         /\ prunedTasks' \subseteq p.prim \cup p.abs
         /\ prunedFacts' \subseteq p.facts
<1>1. /\ p' = p /\ plan' = plan
      /\ PgPass /\ IsInstance(p)
      /\ prunedTasks \subseteq p.prim \cup p.abs /\ prunedFacts \subseteq p.facts
  BY DEF context, IInv, TypeOK
<1>2. Waiting \subseteq p.prim
  BY <1>1 DEF Waiting, PgPass, Live
<1>3. Problem'
  BY <1>1 DEF IInv, Problem
<1>4. NothingUsablePruned'
  BY <1>1, PlanTasksDoNotWait DEF IInv, NothingUsablePruned, PgPrune
<1>5. HeadsKept'
  <2> SUFFICES ASSUME NEW m \in LiveMethods
               PROVE  p.head[m] \notin prunedTasks'
    BY <1>1 DEF HeadsKept, LiveMethods
  <2>1. p.head[m] \in p.abs
    BY <1>1 DEF LiveMethods, IsInstance
  <2>2. p.head[m] \notin Waiting
    BY <1>1, <1>2, <2>1 DEF IsInstance
  <2> QED
    BY <2>2 DEF IInv, HeadsKept, PgPrune
<1> QED
  BY <1>1, <1>2, <1>3, <1>4, <1>5 DEF PgPrune

LEMMA PgStopsPreserves ==
  ASSUME IInv, PgStops
  PROVE  IInv'
<1>1. /\ pc = "PG" /\ queue = {} /\ PgPrune /\ pc' = "Done"
      /\ context' = context /\ prunedMethods' = prunedMethods
      /\ reached' = reached /\ queue' = queue
  BY DEF PgStops, work
<1>2. TypeOK'
  BY <1>1, PgPruneKeepsPlan DEF TypeOK, IInv
<1> QED
  BY <1>1, <1>2, PgPruneKeepsPlan DEF IInv

LEMMA PgContinuesPreserves ==
  ASSUME IInv, PgContinues
  PROVE  IInv'
<1> DEFINE start == Live(p, prunedTasks') \cup {p.head[m] : m \in {n \in LiveMethods : p.sub[n] = {}}}
<1>1. /\ pc = "PG" /\ queue = {} /\ PgPrune /\ pc' = "TDG"
      /\ context' = context /\ prunedMethods' = prunedMethods
      /\ unfulfilled' = [m \in LiveMethods |-> p.sub[m]]
      /\ reached' = start /\ queue' = start
  BY DEF PgContinues, TdgInit
<1>2. /\ Problem' /\ NothingUsablePruned' /\ HeadsKept'
      /\ p' = p /\ IsInstance(p)
      /\ prunedTasks' \subseteq p.prim \cup p.abs
      /\ prunedFacts' \subseteq p.facts
  BY <1>1, PgPruneKeepsPlan
<1>3. LiveMethods' = LiveMethods
  BY <1>1, <1>2 DEF LiveMethods
<1>4. start \subseteq (p.prim \cup p.abs) \ prunedTasks'
  <2>1. Live(p, prunedTasks') \subseteq p.prim \ prunedTasks'
    BY DEF Live
  <2>2. \A m \in LiveMethods : p.head[m] \in p.abs \ prunedTasks'
    BY <1>2, <1>3 DEF HeadsKept, LiveMethods, IsInstance
  <2> QED
    BY <2>1, <2>2
<1>5. Processed' = {}
  BY <1>1 DEF Processed
<1>6. TdgPass'
  <2>1. \A m \in LiveMethods : p.sub[m] \subseteq Processed' => p.head[m] \in reached'
    BY <1>1, <1>5
  <2>2. Live(p, prunedTasks') \subseteq reached'
    BY <1>1
  <2> HIDE DEF start
  <2>3. \A m \in LiveMethods : unfulfilled'[m] = p.sub[m] \ Processed'
    BY <1>1, <1>5
  <2> QED
    BY <1>1, <1>2, <1>3, <1>4, <2>1, <2>2, <2>3 DEF TdgPass
<1> HIDE DEF start
<1>7. TypeOK'
  BY <1>1, <1>2, <1>4 DEF TypeOK, IInv
<1> QED
  BY <1>1, <1>2, <1>6, <1>7 DEF IInv

LEMMA TdgEndsPreserves ==
  ASSUME IInv, TdgEnds
  PROVE  IInv'
<1>1. /\ pc = "TDG" /\ queue = {} /\ pc' = "DFS"
      /\ p' = p /\ plan' = plan /\ prunedFacts' = prunedFacts
      /\ prunedMethods' = prunedMethods \cup Waiting
      /\ prunedTasks' = prunedTasks \cup ((p.prim \cup p.abs) \ reached)
      /\ reached' = p.initialTasks \ prunedTasks' /\ queue' = reached'
      /\ visitedMethods' = {}
      /\ TdgPass /\ IsInstance(p) /\ TypeOK
  BY DEF TdgEnds, TdgPrune, DfsInit, context, IInv, TypeOK
<1>2. Processed = reached /\ Processed' = {}
  BY <1>1 DEF Processed
<1>3. LiveMethods' = LiveMethods \ Waiting
  BY <1>1 DEF LiveMethods
<1>4. \A m \in LiveMethods' : p.sub[m] \subseteq reached /\ p.head[m] \in reached
  <2> SUFFICES ASSUME NEW m \in LiveMethods, m \notin Waiting
               PROVE  p.sub[m] \subseteq reached /\ p.head[m] \in reached
    BY <1>3
  <2>1. unfulfilled[m] = {} /\ unfulfilled[m] = p.sub[m] \ reached
    BY <1>1, <1>2 DEF Waiting, TdgPass
  <2> QED
    BY <1>1, <1>2, <2>1 DEF TdgPass
<1>5. reached \cap prunedTasks' = {}
  BY <1>1 DEF TdgPass
<1>6. NothingUsablePruned'
  <2>1. plan.tasks \subseteq reached /\ plan.methods \cap Waiting = {}
    BY <1>1, PlanIsProductive
  <2>2. plan.tasks \cap prunedTasks' = {}
    BY <1>5, <2>1
  <2>3. plan.methods \cap prunedMethods = {}
    BY DEF IInv, NothingUsablePruned
  <2> QED
    BY <1>1, <2>1, <2>2, <2>3 DEF NothingUsablePruned
<1>7. HeadsKept'
  BY <1>1, <1>4, <1>5 DEF HeadsKept
<1>8. DfsPass'
  <2>1. reached' \subseteq (p.prim \cup p.abs) \ prunedTasks'
    BY <1>1 DEF IsInstance
  <2>2. \A m \in LiveMethods' : p.sub[m] \cap prunedTasks' = {}
    BY <1>4, <1>5
  <2> QED
    BY <1>1, <1>2, <2>1, <2>2 DEF DfsPass
<1>9. TypeOK'
  <2>1. Waiting \subseteq p.methods
    BY <1>1 DEF Waiting, TdgPass, LiveMethods
  <2> QED
    BY <1>1, <1>8, <2>1 DEF TypeOK, DfsPass
<1> QED
  BY <1>1, <1>6, <1>7, <1>8, <1>9 DEF IInv, Problem

(* What the traversal prunes, whichever way run_grounded_HTN_GPG goes on. *)
LEMMA DfsPruneKeepsPlan ==
  ASSUME IInv, pc = "DFS", queue = {}, DfsPrune, context' = context
  PROVE  /\ Problem' /\ NothingUsablePruned' /\ HeadsKept'
         /\ p' = p /\ IsInstance(p)
         /\ prunedTasks' \subseteq p.prim \cup p.abs
         /\ prunedMethods' \subseteq p.methods
<1>1. /\ p' = p /\ plan' = plan
      /\ DfsPass /\ IsInstance(p) /\ NothingUsablePruned
      /\ prunedTasks \subseteq p.prim \cup p.abs
      /\ plan.methods \subseteq p.methods
  BY DEF context, IInv, TypeOK, Problem, IsRefinement
<1>2. visitedMethods \subseteq p.methods \ prunedMethods
  BY <1>1 DEF DfsPass, LiveMethods
<1>3. LiveMethods' = visitedMethods
  BY <1>1, <1>2 DEF DfsPrune, LiveMethods
<1>4. DfsKept \cap prunedTasks' = {}
  BY <1>1 DEF DfsKept, DfsPrune, DfsPass
<1>5. Problem'
  BY <1>1 DEF IInv, Problem
<1>6. NothingUsablePruned'
  BY <1>1, <1>3, <1>4, PlanDescends DEF NothingUsablePruned, LiveMethods
<1>7. HeadsKept'
  <2> SUFFICES ASSUME NEW m \in visitedMethods
               PROVE  p.head[m] \notin prunedTasks'
    BY <1>1, <1>3 DEF HeadsKept
  <2>1. p.head[m] \in DfsKept
    BY <1>1 DEF DfsPass, DfsKept
  <2> QED
    BY <1>4, <2>1
<1> QED
  BY <1>1, <1>5, <1>6, <1>7 DEF DfsPrune

LEMMA DfsStopsPreserves ==
  ASSUME IInv, DfsStops
  PROVE  IInv'
<1>1. /\ pc = "DFS" /\ queue = {} /\ DfsPrune /\ pc' = "Done"
      /\ context' = context /\ prunedFacts' = prunedFacts
      /\ reached' = reached /\ queue' = queue
  BY DEF DfsStops, work
<1>2. TypeOK'
  BY <1>1, DfsPruneKeepsPlan DEF TypeOK, IInv
<1> QED
  BY <1>1, <1>2, DfsPruneKeepsPlan DEF IInv

LEMMA DfsContinuesPreserves ==
  ASSUME IInv, DfsContinues
  PROVE  IInv'
<1>1. /\ pc = "DFS" /\ queue = {} /\ DfsPrune /\ pc' = "PG"
      /\ context' = context /\ prunedFacts' = prunedFacts
      /\ PgInit(p, prunedTasks') /\ p \in Instances
  BY DEF DfsContinues, IInv, Problem
<1>2. PgPass' /\ queue' \subseteq reached'
  BY <1>1, PgStarts DEF context
<1>3. TypeOK'
  BY <1>1, <1>2, DfsPruneKeepsPlan DEF TypeOK, IInv, PgPass
<1> QED
  BY <1>1, <1>2, <1>3, DfsPruneKeepsPlan DEF IInv

LEMMA RerunPreserves ==
  ASSUME IInv, NEW lost \in SUBSET p.prim, Rerun(lost)
  PROVE  IInv'
<1>1. /\ pc' = "PG" /\ p' = p /\ plan' = plan
      /\ prunedFacts' = prunedFacts /\ prunedMethods' = prunedMethods
      /\ prunedTasks' = prunedTasks \cup lost
      /\ lost \cap plan.tasks = {}
      /\ PgInit(p, prunedTasks') /\ p \in Instances /\ IsInstance(p) /\ TypeOK
  BY DEF Rerun, IInv, Problem, TypeOK
<1>2. PgPass' /\ queue' \subseteq reached'
  BY <1>1, PgStarts
<1>3. NothingUsablePruned'
  BY <1>1 DEF IInv, NothingUsablePruned
<1>4. HeadsKept'
  <2> SUFFICES ASSUME NEW m \in LiveMethods
               PROVE  p.head[m] \notin prunedTasks'
    BY <1>1 DEF HeadsKept, LiveMethods
  <2>1. p.head[m] \in p.abs
    BY <1>1 DEF LiveMethods, IsInstance
  <2>2. p.head[m] \notin lost
    BY <1>1, <2>1 DEF IsInstance
  <2> QED
    BY <1>1, <2>2 DEF IInv, HeadsKept
<1>5. TypeOK'
  BY <1>1, <1>2 DEF TypeOK, PgPass
<1> QED
  BY <1>1, <1>2, <1>3, <1>4, <1>5 DEF IInv, Problem

LEMMA IdlePreserves ==
  ASSUME IInv, Write \/ UNCHANGED vars
  PROVE  IInv'
<1>1. /\ p' = p /\ plan' = plan
      /\ prunedTasks' = prunedTasks /\ prunedFacts' = prunedFacts
      /\ prunedMethods' = prunedMethods
      /\ reached' = reached /\ queue' = queue /\ unfulfilled' = unfulfilled
      /\ visitedMethods' = visitedMethods
      /\ pc' = pc \/ (pc = "Done" /\ pc' = "Written")
  BY DEF Write, vars, context, pruned, work
<1>2. Problem' /\ NothingUsablePruned' /\ HeadsKept'
  BY <1>1 DEF IInv, Problem, NothingUsablePruned, HeadsKept, LiveMethods
<1>3. TypeOK'
  BY <1>1 DEF IInv, TypeOK
<1>4. CASE pc' = pc
  <2>1. Processed' = Processed /\ LiveMethods' = LiveMethods
    BY <1>1 DEF Processed, LiveMethods
  <2>2. (PgPass => PgPass') /\ (TdgPass => TdgPass') /\ (DfsPass => DfsPass')
    BY <1>1, <2>1 DEF PgPass, TdgPass, DfsPass
  <2> QED
    BY <1>2, <1>3, <1>4, <2>2 DEF IInv
<1>5. CASE pc' = "Written"
  BY <1>2, <1>3, <1>5 DEF IInv
<1> QED
  BY <1>1, <1>4, <1>5

LEMMA NextPreserves == IInv /\ [Next]_vars => IInv'
<1> SUFFICES ASSUME IInv, [Next]_vars
             PROVE  IInv'
  OBVIOUS
<1>1. CASE \E f \in queue : PgProcess(f) \/ TdgProcess(f) \/ DfsVisit(f)
  BY <1>1, PgProcessPreserves, TdgProcessPreserves, DfsVisitPreserves
<1>2. CASE PgStops
  BY <1>2, PgStopsPreserves
<1>3. CASE PgContinues
  BY <1>3, PgContinuesPreserves
<1>4. CASE TdgEnds
  BY <1>4, TdgEndsPreserves
<1>5. CASE DfsStops
  BY <1>5, DfsStopsPreserves
<1>6. CASE DfsContinues
  BY <1>6, DfsContinuesPreserves
<1>7. CASE \E lost \in SUBSET p.prim : Rerun(lost)
  BY <1>7, RerunPreserves
<1>8. CASE Write \/ UNCHANGED vars
  BY <1>8, IdlePreserves
<1> QED
  BY <1>1, <1>2, <1>3, <1>4, <1>5, <1>6, <1>7, <1>8 DEF Next, PassStep

LEMMA IInvHolds == Spec => []IInv
<1>1. Init => IInv
  BY InitEstablishes
<1>2. IInv /\ [Next]_vars => IInv'
  BY NextPreserves
<1> QED
  BY <1>1, <1>2, PTL DEF Spec

----------------------------------------------------------------------------
(***************************************************************************)
(* The problem keeps its shape through any number of passes of             *)
(* run_grounded_HTN_GPG, and what a pass works on stays within it.         *)
(***************************************************************************)
THEOREM TypeCorrect == Spec => []TypeOK
<1>1. IInv => TypeOK
  BY DEF IInv
<1> QED
  BY <1>1, IInvHolds, PTL

(***************************************************************************)
(* Grounding loses no plan: no pass of groundedPg, groundedTdg and         *)
(* groundedTdgDfs, and no rerun of them, prunes a task or a method of an   *)
(* executable refinement.                                                  *)
(***************************************************************************)
THEOREM GroundingLosesNoPlan == Spec => []NothingUsablePruned
<1>1. IInv => NothingUsablePruned
  BY DEF IInv
<1> QED
  BY <1>1, IInvHolds, PTL

(***************************************************************************)
(* The assertion of groundedInnerTdgDfs never fails: the traversal does    *)
(* not enter a pruned task.                                                *)
(***************************************************************************)
THEOREM TraversalAssertionHolds == Spec => []DfsEntersNoPrunedTask
<1>1. IInv => DfsEntersNoPrunedTask
  BY DEF IInv, DfsPass, DfsEntersNoPrunedTask
<1> QED
  BY <1>1, IInvHolds, PTL

----------------------------------------------------------------------------
(***************************************************************************)
(* Counting is enough to see that the passes have converged.  A set a pass *)
(* has reached is the least one closed under the rules used so far, so     *)
(* what a complete pass keeps satisfies its part of the definition of a    *)
(* refinement.  The counts of primitive tasks tell which of the parts      *)
(* still hold: a pass that lost no primitive task has left the work of the *)
(* earlier passes intact.                                                  *)
(***************************************************************************)
Kept == (p.prim \cup p.abs) \ prunedTasks

LeastFacts ==
  \A F \in SUBSET p.facts :
    (/\ p.init \subseteq F
     /\ \A t \in Live(p, prunedTasks) :
          p.pre[t] \subseteq Processed /\ p.pre[t] \subseteq F => p.add[t] \subseteq F)
    => reached \subseteq F

LeastTasks ==
  \A S \in SUBSET (p.prim \cup p.abs) :
    (/\ Live(p, prunedTasks) \subseteq S
     /\ \A m \in LiveMethods :
          p.sub[m] \subseteq Processed /\ p.sub[m] \subseteq S => p.head[m] \in S)
    => reached \subseteq S

LeastDescent ==
  \A S \in SUBSET (p.prim \cup p.abs) :
    (/\ p.initialTasks \cap Kept \subseteq S
     /\ \A m \in visitedMethods : p.head[m] \in S => p.sub[m] \subseteq S)
    => reached \subseteq S

(* The graph over tasks and the traversal have nothing left to prune. *)
TasksSettled ==
  /\ \A m \in LiveMethods : p.head[m] \in Kept /\ p.sub[m] \subseteq Kept
  /\ Productive(p, Kept, LiveMethods)
  /\ Descends(p, Kept, LiveMethods)

(***************************************************************************)
(* What the count stands for when the graph over facts runs: a forced      *)
(* round; all tasks, while some primitive task or none at all is pruned;   *)
(* or the live tasks, after a traversal.                                   *)
(***************************************************************************)
PgCount ==
  \/ alwaysRunDFS
  \/ /\ remaining = Cardinality(p.prim)
     /\ p.prim \cap prunedTasks # {} \/ prunedTasks = {}
  \/ /\ remaining = Cardinality(Live(p, prunedTasks))
     /\ TasksSettled

(* In the other passes it is the number of live tasks, which are the tasks *)
(* the graph over facts found executable.                                  *)
FactsSettled ==
  /\ remaining = Cardinality(Live(p, prunedTasks))
  /\ Executable(p, Live(p, prunedTasks))

CInv ==
  /\ pc = "PG" => LeastFacts /\ PgCount
  /\ pc = "TDG" => LeastTasks /\ FactsSettled
  /\ pc = "DFS" => LeastDescent /\ FactsSettled /\ Productive(p, Kept, LiveMethods)
  /\ ResultIsRefinement

(* Only the primitive tasks matter to executability. *)
LEMMA ExecutablePrims ==
  ASSUME NEW q, NEW T, NEW U, T \cap q.prim = U \cap q.prim, Executable(q, T)
  PROVE  Executable(q, U)
BY DEF Executable

(* Two sets of primitive tasks, one in the other, with the same count. *)
LEMMA SameCount ==
  ASSUME p \in Instances, NEW S \in SUBSET p.prim, NEW T \in SUBSET S,
         Cardinality(T) = Cardinality(S)
  PROVE  T = S
<1>1. IsFiniteSet(p.prim)
  BY FiniteAssumption
<1>2. IsFiniteSet(S)
  BY <1>1, FS_Subset
<1> QED
  BY <1>2, FS_Subset

LEMMA LivePrims == Live(p, prunedTasks) = Kept \cap p.prim
BY DEF Live, Kept

----------------------------------------------------------------------------
(* A complete graph over facts keeps an executable set of tasks. *)
LEMMA PgTasksExecutable ==
  ASSUME IInv, LeastFacts, pc = "PG", queue = {}
  PROVE  Executable(p, PgTasks)
<1>1. PgPass /\ Processed = reached
  BY DEF IInv, Processed
<1>2. \A t \in Live(p, prunedTasks) : t \in PgTasks <=> p.pre[t] \subseteq reached
  BY <1>1 DEF PgPass, PgTasks, Waiting
<1>3. PgTasks \subseteq Live(p, prunedTasks) /\ PgTasks \subseteq p.prim
  BY <1>1 DEF PgPass, PgTasks, Live
<1> SUFFICES ASSUME NEW F \in SUBSET p.facts, p.init \subseteq F,
                    \A t \in PgTasks : p.pre[t] \subseteq F => p.add[t] \subseteq F
             PROVE  \A t \in PgTasks : p.pre[t] \subseteq F
  BY <1>3 DEF Executable
<1>4. reached \subseteq F
  BY <1>1, <1>2 DEF LeastFacts
<1> QED
  BY <1>2, <1>3, <1>4

LEMMA LeastFactsStarts ==
  ASSUME PgInit(p, prunedTasks'), p' = p
  PROVE  LeastFacts'
<1>1. Processed' = {}
  BY DEF PgInit, Processed
<1>2. reached' = PgStart(p, prunedTasks')
  BY DEF PgInit
<1> SUFFICES ASSUME NEW F \in SUBSET p.facts, p.init \subseteq F,
                    \A t \in Live(p, prunedTasks') :
                      p.pre[t] \subseteq {} /\ p.pre[t] \subseteq F => p.add[t] \subseteq F
             PROVE  PgStart(p, prunedTasks') \subseteq F
  BY <1>1, <1>2 DEF LeastFacts
<1> QED
  BY DEF PgStart

LEMMA LeastFactsGrow ==
  ASSUME IInv, LeastFacts, NEW f \in queue, PgProcess(f)
  PROVE  LeastFacts'
<1> DEFINE new == (UNION {p.add[t] : t \in Completed(f)}) \ reached
<1>1. /\ PgPass /\ queue \subseteq reached
      /\ p' = p /\ prunedTasks' = prunedTasks
      /\ queue' = (queue \ {f}) \cup new
      /\ reached' = reached \cup new
  BY DEF IInv, TypeOK, PgProcess, context, pruned
<1> SUFFICES ASSUME NEW F \in SUBSET p.facts, p.init \subseteq F,
                    \A t \in Live(p, prunedTasks) :
                      p.pre[t] \subseteq Processed' /\ p.pre[t] \subseteq F => p.add[t] \subseteq F
             PROVE  reached' \subseteq F
  BY <1>1 DEF LeastFacts
<1>2. Processed' = Processed \cup {f}
  BY <1>1 DEF Processed
<1>3. reached \subseteq F
  BY <1>2 DEF LeastFacts
<1>4. \A t \in Completed(f) : p.add[t] \subseteq F
  <2> SUFFICES ASSUME NEW t \in Completed(f)
               PROVE  p.add[t] \subseteq F
    OBVIOUS
  <2>1. t \in Live(p, prunedTasks) /\ p.pre[t] \ Processed = {f}
    BY <1>1 DEF Completed, PgPass
  <2>2. p.pre[t] \subseteq Processed' /\ p.pre[t] \subseteq F
    BY <1>1, <1>2, <1>3, <2>1 DEF Processed
  <2> QED
    BY <2>1, <2>2
<1> QED
  BY <1>1, <1>3, <1>4

----------------------------------------------------------------------------
(* The graph over tasks starts with a least set, and keeps it least. *)
LEMMA LeastTasksStarts ==
  ASSUME TdgInit(prunedTasks'), p' = p, prunedMethods' = prunedMethods
  PROVE  LeastTasks'
<1>1. /\ reached' = Live(p, prunedTasks') \cup {p.head[m] : m \in {n \in LiveMethods : p.sub[n] = {}}}
      /\ queue' = reached' /\ LiveMethods' = LiveMethods
  BY DEF TdgInit, LiveMethods
<1>2. Processed' = {}
  BY <1>1 DEF Processed
<1> SUFFICES ASSUME NEW S \in SUBSET (p.prim \cup p.abs), Live(p, prunedTasks') \subseteq S,
                    \A m \in LiveMethods :
                      p.sub[m] \subseteq {} /\ p.sub[m] \subseteq S => p.head[m] \in S
             PROVE  reached' \subseteq S
  BY <1>1, <1>2 DEF LeastTasks
<1> QED
  BY <1>1

LEMMA LeastTasksGrow ==
  ASSUME IInv, LeastTasks, NEW u \in queue, TdgProcess(u)
  PROVE  LeastTasks'
<1> DEFINE new == {p.head[m] : m \in Completed(u)} \ reached
<1>1. /\ TdgPass /\ queue \subseteq reached
      /\ p' = p /\ prunedTasks' = prunedTasks /\ LiveMethods' = LiveMethods
      /\ queue' = (queue \ {u}) \cup new
      /\ reached' = reached \cup new
  BY DEF IInv, TypeOK, TdgProcess, context, pruned, LiveMethods
<1> SUFFICES ASSUME NEW S \in SUBSET (p.prim \cup p.abs), Live(p, prunedTasks) \subseteq S,
                    \A m \in LiveMethods :
                      p.sub[m] \subseteq Processed' /\ p.sub[m] \subseteq S => p.head[m] \in S
             PROVE  reached' \subseteq S
  BY <1>1 DEF LeastTasks
<1>2. Processed' = Processed \cup {u}
  BY <1>1 DEF Processed
<1>3. reached \subseteq S
  BY <1>2 DEF LeastTasks
<1>4. \A m \in Completed(u) : p.head[m] \in S
  <2> SUFFICES ASSUME NEW m \in Completed(u)
               PROVE  p.head[m] \in S
    OBVIOUS
  <2>1. m \in LiveMethods /\ p.sub[m] \ Processed = {u}
    BY <1>1 DEF Completed, TdgPass
  <2>2. p.sub[m] \subseteq Processed' /\ p.sub[m] \subseteq S
    BY <1>1, <1>2, <1>3, <2>1 DEF Processed
  <2> QED
    BY <2>1, <2>2
<1> QED
  BY <1>1, <1>3, <1>4

(* So does the traversal. *)
LEMMA LeastDescentGrows ==
  ASSUME IInv, LeastDescent, NEW t \in queue, DfsVisit(t)
  PROVE  LeastDescent'
<1>1. /\ queue \subseteq reached
      /\ p' = p /\ Kept' = Kept
      /\ reached' = reached \cup UNION {p.sub[m] : m \in MethodsOf(t)}
      /\ visitedMethods' = visitedMethods \cup MethodsOf(t)
  BY DEF IInv, TypeOK, DfsVisit, context, pruned, Kept
<1> SUFFICES ASSUME NEW S \in SUBSET (p.prim \cup p.abs), p.initialTasks \cap Kept \subseteq S,
                    \A m \in visitedMethods' : p.head[m] \in S => p.sub[m] \subseteq S
             PROVE  reached' \subseteq S
  BY <1>1 DEF LeastDescent
<1>2. reached \subseteq S
  BY <1>1 DEF LeastDescent
<1>3. \A m \in MethodsOf(t) : p.sub[m] \subseteq S
  BY <1>1, <1>2 DEF MethodsOf
<1> QED
  BY <1>1, <1>2, <1>3

----------------------------------------------------------------------------
LEMMA CInitEstablishes == Init => CInv
<1> SUFFICES ASSUME Init
             PROVE  CInv
  OBVIOUS
<1>1. IsInstance(p)
  BY InstanceAssumption DEF Init
<1>2. LeastFacts
  <2>1. Processed = {} /\ reached = PgStart(p, prunedTasks)
    BY DEF Init, Processed
  <2> QED
    BY <2>1 DEF LeastFacts, PgStart
<1>3. PgCount
  BY <1>1 DEF Init, PgCount, IsInstance
<1> QED
  BY <1>2, <1>3 DEF CInv, Init, ResultIsRefinement

LEMMA PgProcessConverges ==
  ASSUME IInv, CInv, NEW f \in queue, PgProcess(f)
  PROVE  CInv'
<1>1. /\ pc = "PG" /\ pc' = pc /\ p' = p /\ prunedTasks' = prunedTasks
      /\ alwaysRunDFS' = alwaysRunDFS /\ remaining' = remaining
      /\ prunedMethods' = prunedMethods
  BY DEF PgProcess, context, pruned
<1>2. LeastFacts'
  BY <1>1, LeastFactsGrow DEF CInv
<1>3. PgCount'
  BY <1>1 DEF CInv, PgCount, TasksSettled, Kept, LiveMethods
<1> QED
  BY <1>1, <1>2, <1>3 DEF CInv, ResultIsRefinement

LEMMA TdgProcessConverges ==
  ASSUME IInv, CInv, NEW u \in queue, TdgProcess(u)
  PROVE  CInv'
<1>1. /\ pc = "TDG" /\ pc' = pc /\ p' = p /\ prunedTasks' = prunedTasks
      /\ remaining' = remaining
  BY DEF TdgProcess, context, pruned
<1>2. LeastTasks'
  BY <1>1, LeastTasksGrow DEF CInv
<1>3. FactsSettled'
  BY <1>1 DEF CInv, FactsSettled
<1> QED
  BY <1>1, <1>2, <1>3 DEF CInv, ResultIsRefinement

LEMMA DfsVisitConverges ==
  ASSUME IInv, CInv, NEW t \in queue, DfsVisit(t)
  PROVE  CInv'
<1>1. /\ pc = "DFS" /\ pc' = pc /\ p' = p /\ prunedTasks' = prunedTasks
      /\ remaining' = remaining /\ prunedMethods' = prunedMethods
  BY DEF DfsVisit, context, pruned
<1>2. LeastDescent'
  BY <1>1, LeastDescentGrows DEF CInv
<1>3. FactsSettled' /\ Productive(p, Kept, LiveMethods)'
  BY <1>1 DEF CInv, FactsSettled, Kept, LiveMethods
<1> QED
  BY <1>1, <1>2, <1>3 DEF CInv, ResultIsRefinement

LEMMA PgStopsConverges ==
  ASSUME IInv, CInv, PgStops
  PROVE  CInv'
<1>1. /\ pc = "PG" /\ queue = {} /\ pc' = "Done" /\ p' = p
      /\ prunedTasks' = prunedTasks \cup Waiting
      /\ prunedMethods' = prunedMethods
      /\ Cardinality(PgTasks) = remaining /\ ~alwaysRunDFS
      /\ PgPass /\ LeastFacts /\ PgCount /\ p \in Instances
  BY DEF PgStops, PgPrune, Converged, IInv, CInv, Problem, context
<1>2. /\ PgTasks \subseteq Live(p, prunedTasks) /\ Live(p, prunedTasks) \subseteq p.prim
      /\ Live(p, prunedTasks) = PgTasks \cup Waiting /\ PgTasks \cap Waiting = {}
  BY <1>1 DEF PgTasks, Waiting, PgPass, Live
<1>3. CASE /\ remaining = Cardinality(p.prim)
           /\ p.prim \cap prunedTasks # {} \/ prunedTasks = {}
  <2>1. PgTasks = p.prim
    BY <1>1, <1>2, <1>3, SameCount
  <2>2. Waiting = {} /\ Live(p, prunedTasks) = p.prim
    BY <1>2, <2>1
  <2>3. prunedTasks' = {}
    BY <1>1, <1>3, <2>2 DEF Live
  <2> QED
    BY <1>1, <2>3 DEF CInv, ResultIsRefinement
<1>4. CASE remaining = Cardinality(Live(p, prunedTasks)) /\ TasksSettled
  <2>1. PgTasks = Live(p, prunedTasks)
    BY <1>1, <1>2, <1>4, SameCount
  <2>2. prunedTasks' = prunedTasks
    BY <1>1, <1>2, <2>1
  <2>3. Kept' = Kept /\ LiveMethods' = LiveMethods
    BY <1>1, <2>2 DEF Kept, LiveMethods
  <2>4. Executable(p, Kept)
    <3>1. Executable(p, Live(p, prunedTasks))
      BY <1>1, <2>1, PgTasksExecutable
    <3>2. Live(p, prunedTasks) \cap p.prim = Kept \cap p.prim
      BY LivePrims
    <3> QED
      BY <3>1, <3>2, ExecutablePrims
  <2>5. IsRefinement(p, Kept, LiveMethods)
    BY <1>4, <2>4 DEF IsRefinement, TasksSettled, Kept, LiveMethods
  <2> QED
    BY <1>1, <2>2, <2>3, <2>5 DEF CInv, ResultIsRefinement, Kept
<1> QED
  BY <1>1, <1>3, <1>4 DEF PgCount

LEMMA PgContinuesConverges ==
  ASSUME IInv, CInv, PgContinues
  PROVE  CInv'
<1>1. /\ pc = "PG" /\ queue = {} /\ pc' = "TDG" /\ p' = p
      /\ prunedTasks' = prunedTasks \cup Waiting
      /\ prunedMethods' = prunedMethods
      /\ remaining' = Cardinality(PgTasks)
      /\ TdgInit(prunedTasks') /\ PgPass /\ LeastFacts
  BY DEF PgContinues, PgPrune, IInv, CInv, context
<1>2. Live(p, prunedTasks') = PgTasks
  BY <1>1 DEF Live, PgTasks, Waiting, PgPass
<1>3. FactsSettled'
  BY <1>1, <1>2, PgTasksExecutable DEF FactsSettled
<1>4. LeastTasks'
  BY <1>1, LeastTasksStarts
<1> QED
  BY <1>1, <1>3, <1>4 DEF CInv, ResultIsRefinement

LEMMA TdgEndsConverges ==
  ASSUME IInv, CInv, TdgEnds
  PROVE  CInv'
<1>1. /\ pc = "TDG" /\ queue = {} /\ pc' = "DFS" /\ p' = p /\ remaining' = remaining
      /\ prunedMethods' = prunedMethods \cup Waiting
      /\ prunedTasks' = prunedTasks \cup ((p.prim \cup p.abs) \ reached)
      /\ reached' = p.initialTasks \ prunedTasks'
      /\ visitedMethods' = {}
      /\ TdgPass /\ LeastTasks /\ FactsSettled /\ IsInstance(p)
  BY DEF TdgEnds, TdgPrune, DfsInit, context, IInv, CInv, TypeOK
<1>2. Processed = reached
  BY <1>1 DEF Processed
<1>3. Kept' = reached
  BY <1>1 DEF Kept, TdgPass
<1>4. Live(p, prunedTasks') = Live(p, prunedTasks)
  BY <1>1 DEF Live, TdgPass
<1>5. LiveMethods' = LiveMethods \ Waiting
  BY <1>1 DEF LiveMethods
<1>6. FactsSettled'
  BY <1>1, <1>4 DEF FactsSettled
<1>7. LeastDescent'
  BY <1>1 DEF LeastDescent, Kept, IsInstance
<1>8. Productive(p, reached, LiveMethods \ Waiting)
  <2> SUFFICES ASSUME NEW S \in SUBSET (p.prim \cup p.abs), reached \cap p.prim \subseteq S,
                      \A m \in LiveMethods \ Waiting : p.sub[m] \subseteq S => p.head[m] \in S
               PROVE  reached \subseteq S
    BY DEF Productive
  <2>1. Live(p, prunedTasks) \subseteq S
    BY <1>1 DEF Live, TdgPass
  <2>2. \A m \in LiveMethods : p.sub[m] \subseteq reached => m \notin Waiting
    BY <1>1, <1>2 DEF Waiting, TdgPass
  <2> QED
    BY <1>1, <1>2, <2>1, <2>2 DEF LeastTasks
<1> QED
  BY <1>1, <1>3, <1>5, <1>6, <1>7, <1>8 DEF CInv, ResultIsRefinement

(* What a complete traversal keeps is settled. *)
LEMMA DfsSettles ==
  ASSUME IInv, CInv, pc = "DFS", queue = {}, DfsPrune, p' = p
  PROVE  /\ TasksSettled'
         /\ Live(p, prunedTasks') = p.prim \cap DfsKept
         /\ p.prim \cap DfsKept \subseteq Live(p, prunedTasks)
<1>1. /\ DfsPass /\ LeastDescent /\ Productive(p, Kept, LiveMethods) /\ IsInstance(p)
      /\ Processed = reached
  BY DEF IInv, CInv, TypeOK, Processed
<1>2. DfsKept \subseteq Kept /\ reached \subseteq DfsKept
  BY <1>1 DEF DfsKept, DfsPass, Kept, IsInstance
<1>3. Kept' = DfsKept
  BY <1>2 DEF Kept, DfsPrune
<1>4. LiveMethods' = visitedMethods
  BY <1>1 DEF DfsPrune, LiveMethods, DfsPass
<1>5. \A m \in visitedMethods : p.head[m] \in DfsKept /\ p.sub[m] \subseteq DfsKept
  BY <1>1, <1>2 DEF DfsPass
<1>6. Descends(p, DfsKept, visitedMethods)
  <2> SUFFICES ASSUME NEW S \in SUBSET (p.prim \cup p.abs),
                      p.initialTasks \cap DfsKept \subseteq S,
                      \A m \in visitedMethods : p.head[m] \in S => p.sub[m] \subseteq S
               PROVE  DfsKept \subseteq S \cup p.guard
    BY DEF Descends
  <2>1. p.initialTasks \cap Kept \subseteq S
    BY <1>1, <1>2 DEF DfsPass, Kept
  <2>2. reached \subseteq S
    BY <1>1, <2>1 DEF LeastDescent
  <2> QED
    BY <2>2 DEF DfsKept
<1>7. Productive(p, DfsKept, visitedMethods)
  <2> SUFFICES ASSUME NEW S \in SUBSET (p.prim \cup p.abs),
                      DfsKept \cap p.prim \subseteq S,
                      \A m \in visitedMethods : p.sub[m] \subseteq S => p.head[m] \in S
               PROVE  DfsKept \subseteq S
    BY DEF Productive
  <2> DEFINE U == S \cup ((p.prim \cup p.abs) \ reached)
  <2>1. U \in SUBSET (p.prim \cup p.abs)
    OBVIOUS
  <2>2. Kept \cap p.prim \subseteq U
    BY <1>2
  <2>3. ASSUME NEW m \in LiveMethods, p.sub[m] \subseteq U
        PROVE  p.head[m] \in U
    <3>1. CASE p.head[m] \in reached
      <4>1. m \in visitedMethods /\ p.sub[m] \subseteq reached
        BY <1>1, <3>1 DEF DfsPass
      <4>2. p.sub[m] \subseteq S
        BY <2>3, <4>1
      <4> QED
        BY <4>1, <4>2
    <3>2. CASE p.head[m] \notin reached
      <4>1. p.head[m] \in p.abs
        BY <1>1 DEF LiveMethods, IsInstance
      <4> QED
        BY <3>2, <4>1
    <3> QED
      BY <3>1, <3>2
  <2>4. Kept \subseteq U
    <3> HIDE DEF U
    <3> QED
      BY <1>1, <2>1, <2>2, <2>3 DEF Productive
  <2>5. reached \subseteq S
    BY <1>2, <2>4
  <2>6. p.guard \subseteq p.prim
    BY <1>1 DEF IsInstance
  <2> QED
    BY <2>5, <2>6 DEF DfsKept
<1>8. TasksSettled'
  BY <1>3, <1>4, <1>5, <1>6, <1>7 DEF TasksSettled
<1>9. Live(p, prunedTasks') = p.prim \cap DfsKept
  BY <1>3 DEF Live, Kept
<1> QED
  BY <1>2, <1>8, <1>9 DEF Live, Kept

LEMMA DfsStopsConverges ==
  ASSUME IInv, CInv, DfsStops
  PROVE  CInv'
<1>1. /\ pc = "DFS" /\ queue = {} /\ DfsPrune /\ p' = p /\ pc' = "Done"
      /\ Cardinality(p.prim \cap DfsKept) = remaining
      /\ FactsSettled /\ p \in Instances
  BY DEF DfsStops, Converged, DfsCount, context, IInv, CInv, Problem
<1>2. /\ TasksSettled'
      /\ Live(p, prunedTasks') = p.prim \cap DfsKept
      /\ p.prim \cap DfsKept \subseteq Live(p, prunedTasks)
  BY <1>1, DfsSettles
<1>3. Live(p, prunedTasks') = Live(p, prunedTasks)
  <2>1. Live(p, prunedTasks) \in SUBSET p.prim
    BY DEF Live
  <2> QED
    BY <1>1, <1>2, <2>1, SameCount DEF FactsSettled
<1>4. Executable(p, Kept')
  <2>1. Executable(p, Live(p, prunedTasks'))
    BY <1>1, <1>3 DEF FactsSettled
  <2>2. Live(p, prunedTasks') \cap p.prim = Kept' \cap p.prim
    BY <1>1 DEF Live, Kept
  <2> QED
    BY <2>1, <2>2, ExecutablePrims
<1>5. IsRefinement(p, Kept', LiveMethods')
  <2>1. Kept' \subseteq p.prim \cup p.abs /\ LiveMethods' \subseteq p.methods
    BY <1>1 DEF Kept, LiveMethods
  <2> QED
    BY <1>1, <1>2, <1>4, <2>1 DEF IsRefinement, TasksSettled
<1> QED
  BY <1>1, <1>5 DEF CInv, ResultIsRefinement, Kept

LEMMA DfsContinuesConverges ==
  ASSUME IInv, CInv, DfsContinues
  PROVE  CInv'
<1>1. /\ pc = "DFS" /\ queue = {} /\ DfsPrune /\ p' = p /\ pc' = "PG"
      /\ remaining' = Cardinality(p.prim \cap DfsKept)
      /\ PgInit(p, prunedTasks')
  BY DEF DfsContinues, DfsCount, context
<1>2. TasksSettled' /\ Live(p, prunedTasks') = p.prim \cap DfsKept
  BY <1>1, DfsSettles
<1>3. PgCount'
  BY <1>1, <1>2 DEF PgCount
<1>4. LeastFacts'
  BY <1>1, LeastFactsStarts
<1> QED
  BY <1>1, <1>3, <1>4 DEF CInv, ResultIsRefinement

LEMMA RerunConverges ==
  ASSUME NEW lost \in SUBSET p.prim, Rerun(lost)
  PROVE  CInv'
<1>1. /\ pc' = "PG" /\ p' = p
      /\ lost # {} \/ first
      /\ prunedTasks' = prunedTasks \cup lost
      /\ alwaysRunDFS' = first /\ remaining' = Cardinality(p.prim)
      /\ PgInit(p, prunedTasks')
  BY DEF Rerun
<1>2. LeastFacts'
  BY <1>1, LeastFactsStarts
<1>3. PgCount'
  <2>1. CASE first
    BY <1>1, <2>1 DEF PgCount
  <2>2. CASE lost # {}
    <3>1. p.prim \cap prunedTasks' # {}
      BY <1>1, <2>2
    <3> QED
      BY <1>1, <3>1 DEF PgCount
  <2> QED
    BY <1>1, <2>1, <2>2
<1> QED
  BY <1>1, <1>2, <1>3 DEF CInv, ResultIsRefinement

LEMMA IdleConverges ==
  ASSUME CInv, Write \/ UNCHANGED vars
  PROVE  CInv'
<1>1. CASE Write
  BY <1>1 DEF Write, CInv, ResultIsRefinement
<1>2. CASE UNCHANGED vars
  <2>1. /\ p' = p /\ pc' = pc /\ prunedTasks' = prunedTasks
        /\ prunedMethods' = prunedMethods /\ alwaysRunDFS' = alwaysRunDFS
        /\ remaining' = remaining /\ reached' = reached /\ queue' = queue
        /\ visitedMethods' = visitedMethods
    BY <1>2 DEF vars, context, pruned, work
  <2>2. Kept' = Kept /\ Processed' = Processed /\ LiveMethods' = LiveMethods
    BY <2>1 DEF Kept, Processed, LiveMethods
  <2>3. /\ LeastFacts => LeastFacts'
        /\ LeastTasks => LeastTasks'
        /\ LeastDescent => LeastDescent'
    BY <2>1, <2>2 DEF LeastFacts, LeastTasks, LeastDescent
  <2>4. /\ PgCount => PgCount'
        /\ FactsSettled => FactsSettled'
        /\ ResultIsRefinement => ResultIsRefinement'
    BY <2>1, <2>2 DEF PgCount, FactsSettled, TasksSettled, ResultIsRefinement
  <2> QED
    BY <2>1, <2>2, <2>3, <2>4 DEF CInv
<1> QED
  BY <1>1, <1>2

LEMMA NextConverges == IInv /\ CInv /\ [Next]_vars => CInv'
<1> SUFFICES ASSUME IInv, CInv, [Next]_vars
             PROVE  CInv'
  OBVIOUS
<1>1. CASE \E f \in queue : PgProcess(f) \/ TdgProcess(f) \/ DfsVisit(f)
  BY <1>1, PgProcessConverges, TdgProcessConverges, DfsVisitConverges
<1>2. CASE PgStops
  BY <1>2, PgStopsConverges
<1>3. CASE PgContinues
  BY <1>3, PgContinuesConverges
<1>4. CASE TdgEnds
  BY <1>4, TdgEndsConverges
<1>5. CASE DfsStops
  BY <1>5, DfsStopsConverges
<1>6. CASE DfsContinues
  BY <1>6, DfsContinuesConverges
<1>7. CASE \E lost \in SUBSET p.prim : Rerun(lost)
  BY <1>7, RerunConverges
<1>8. CASE Write \/ UNCHANGED vars
  BY <1>8, IdleConverges
<1> QED
  BY <1>1, <1>2, <1>3, <1>4, <1>5, <1>6, <1>7, <1>8 DEF Next, PassStep

(***************************************************************************)
(* run_grounded_HTN_GPG stops by comparing counts of primitive tasks only, *)
(* and it is right to: once anything is pruned, what it leaves is itself a *)
(* refinement, so that further rounds would prune nothing.                 *)
(***************************************************************************)
THEOREM CountsDetectConvergence == Spec => []ResultIsRefinement
<1>1. Init => CInv
  BY CInitEstablishes
<1>2. IInv /\ CInv /\ [Next]_vars => CInv'
  BY NextConverges
<1>3. CInv => ResultIsRefinement
  BY DEF CInv
<1> QED
  BY <1>1, <1>2, <1>3, IInvHolds, PTL DEF Spec

=============================================================================
