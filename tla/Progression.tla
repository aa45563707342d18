---------------------------- MODULE Progression ----------------------------
(***************************************************************************)
(* Progression search steps: planner/src/search/progression.rs on the      *)
(* networks of TaskNetwork, with the actions of                            *)
(* task_structs/primitive_action.rs.                                       *)
(*                                                                         *)
(* A behaviour is one branch of what the search algorithms explore: a      *)
(* search node is a network and a state, progress() lists its expansions,  *)
(* and the environment picks one outcome of an executed action.            *)
(***************************************************************************)
EXTENDS TaskNetwork, Sequences

CONSTANTS
  Primitive,   \* primitive tasks
  Compound,    \* compound tasks
  Fact,        \* ground facts
  Action,      \* Primitive -> [pre, effects], effects a sequence of [add, del]
  Method,      \* Compound -> set of methods, each the network of its subtasks
  InitNet,     \* the initial task network
  InitState    \* the initial state

IsAction(a) ==
  /\ a = [pre |-> a.pre, effects |-> a.effects]
  /\ a.pre \subseteq Fact
  /\ a.effects \in Seq([add : SUBSET Fact, del : SUBSET Fact])

(***************************************************************************)
(* Method networks come from the grounder: finitely many subtasks, at      *)
(* least one (decompose unwraps the largest id of a method), orderings     *)
(* acyclic.                                                                *)
(***************************************************************************)
IsMethod(m) == IsNetwork(m) /\ Acyclic(m) /\ m.nodes # {}

ASSUME TaskAssumption ==
  /\ Task = Primitive \cup Compound
  /\ Primitive \cap Compound = {}

ASSUME ActionAssumption ==
  /\ DOMAIN Action = Primitive
  /\ \A p \in Primitive : IsAction(Action[p])

ASSUME MethodAssumption ==
  /\ DOMAIN Method = Compound
  /\ \A c \in Compound : \A m \in Method[c] : IsMethod(m)

ASSUME InitAssumption ==
  /\ IsNetwork(InitNet) /\ Acyclic(InitNet)
  /\ InitState \subseteq Fact

VARIABLES
  tn,      \* the task network of the search node
  state    \* the state of the search node

vars == <<tn, state>>

Init ==
  /\ tn = InitNet
  /\ state = InitState

----------------------------------------------------------------------------
(* PrimitiveAction::is_applicable *)
IsApplicable(a, s) == a.pre \subseteq s

(***************************************************************************)
(* PrimitiveAction::transition: one successor state per outcome, deletes   *)
(* before adds; an action without effects leaves the state as it is.       *)
(***************************************************************************)
Transition(a, s) ==
  IF a.effects = <<>>
  THEN <<s>>
  ELSE [k \in DOMAIN a.effects |-> (s \ a.effects[k].del) \cup a.effects[k].add]

(* HTN::separate_tasks over the unconstrained tasks. *)
ReadyPrimitive == {n \in Unconstrained(tn) : tn.task[n] \in Primitive}
ReadyCompound  == {n \in Unconstrained(tn) : tn.task[n] \in Compound}

(* An Execution expansion of progress() and one of its outcomes. *)
Execute(p) ==
  /\ p \in ReadyPrimitive
  /\ IsApplicable(Action[tn.task[p]], state)
  /\ tn' = ApplyAction(tn, p)
  /\ \E k \in DOMAIN Transition(Action[tn.task[p]], state) :
        state' = Transition(Action[tn.task[p]], state)[k]

(* A Decomposition expansion of progress(). *)
Decompose(c, m) ==
  /\ c \in ReadyCompound
  /\ m \in Method[tn.task[c]]
  /\ IdsLeft(tn, m)
  /\ tn' = DecomposeNode(tn, c, m)
  /\ UNCHANGED state

Next ==
  \/ \E p \in tn.nodes : Execute(p)
  \/ \E c \in tn.nodes : \E m \in UNION {Method[t] : t \in Compound} :
        Decompose(c, m)

Spec == Init /\ [][Next]_vars

----------------------------------------------------------------------------
(***************************************************************************)
(* Type invariant: the network stays a network over u32 ids whose nodes    *)
(* all have a task (get_task never meets a node without a mapping).        *)
(***************************************************************************)
TypeOK ==
  /\ IsNetwork(tn)
  /\ state \subseteq Fact

(***************************************************************************)
(* Decomposing never closes a cycle of orderings, whatever methods are     *)
(* spliced in and whatever ids are used again.                             *)
(***************************************************************************)
OrderingsAcyclic == Acyclic(tn)

(***************************************************************************)
(* A search node is a dead end only because no precondition holds or no    *)
(* method exists, never because the orderings block every task: a network  *)
(* that is not a goal has an unconstrained task for progress() to expand.  *)
(***************************************************************************)
SomeTaskReady == ~EmptyNetwork(tn) => Unconstrained(tn) # {}

(***************************************************************************)
(* add_subgraph panics when ids collide.  Ids are used again once their    *)
(* task is gone, so that the ids of a method never collide with those of   *)
(* the network depends on how the first new id is computed.                *)
(***************************************************************************)
NewIdsDisjoint ==
  \A c \in ReadyCompound : \A m \in Method[tn.task[c]] :
     Disjoint(RemoveNode(tn, c), RelabelNodes(m, FirstNewId(tn, m)))

(***************************************************************************)
(* Ready compound tasks can be decomposed in either order: the networks    *)
(* that result differ only in the ids of the new nodes.  This is what lets *)
(* a search decompose before it executes, or explore one order only.       *)
(***************************************************************************)
RenamedTo(tn1, tn2, ren) ==
  /\ tn2.nodes = {ren[n] : n \in tn1.nodes}
  /\ \A n1, n2 \in tn1.nodes : ren[n1] = ren[n2] => n1 = n2
  /\ tn2.edges = {<<ren[e[1]], ren[e[2]]>> : e \in tn1.edges}
  /\ \A n \in tn1.nodes : tn2.task[ren[n]] = tn1.task[n]

DecompositionsCommute ==
  \A c, d \in ReadyCompound :
  \A m \in Method[tn.task[c]], k \in Method[tn.task[d]] :
     LET afterC == DecomposeNode(tn, c, m)
         afterD == DecomposeNode(tn, d, k)
         cd == DecomposeNode(afterC, d, k)
         dc == DecomposeNode(afterD, c, m)
         \* how far the ids of each method move between the two orders
         shiftM == FirstNewId(afterD, m) - FirstNewId(tn, m)
         shiftK == FirstNewId(tn, k) - FirstNewId(afterC, k)
         ren == [n \in cd.nodes |->
                   IF n \in tn.nodes THEN n
                   ELSE IF n \in afterC.nodes THEN n + shiftM ELSE n + shiftK]
     IN  c # d => RenamedTo(cd, dc, ren)

----------------------------------------------------------------------------
(***************************************************************************)
(* The edge surgery implements the semantics of HTN decomposition on the   *)
(* transitive closure of the orderings: no ordering is lost and none is    *)
(* invented, however decompositions and executions interleave.             *)
(***************************************************************************)
HTN == INSTANCE HTNSemantics WITH
         Instance <- NodeId,
         pending  <- tn.nodes,
         task     <- tn.task,
         before   <- Order(tn)

ImplementsSemantics == HTN!Spec

=============================================================================
