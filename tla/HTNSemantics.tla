---------------------------- MODULE HTNSemantics ----------------------------
(***************************************************************************)
(* What progression promises: the semantics of a FOND HTN problem.         *)
(*                                                                         *)
(* The tasks still to be done are a set of instances under a strict        *)
(* partial order, kept transitively closed.  A primitive instance that     *)
(* nothing pending precedes may be executed when its precondition holds,   *)
(* and the environment chooses the outcome.  A compound instance may be    *)
(* refined at any time into fresh instances: they are ordered among        *)
(* themselves as the method says, and each of them stands to every other   *)
(* pending instance exactly as the refined one did.                        *)
(***************************************************************************)
EXTENDS Integers, Sequences

CONSTANTS
  Instance,   \* names for task instances
  Compound,   \* compound tasks
  Method,     \* compound task -> set of methods
  Action,     \* primitive task -> [pre, effects]
  InitNet,    \* the initial tasks, their orderings and what they stand for
  InitState   \* the initial state

VARIABLES
  pending,    \* the instances still to be done
  task,       \* the task of each of them
  before,     \* the strict partial order over them
  state       \* the facts that hold

vars == <<pending, task, before, state>>

(* The smallest transitive relation over S that contains R. *)
Closure(R, S) ==
  {p \in S \X S :
     \A C \in SUBSET S :
        (/\ \A e \in R : e[1] = p[1] => e[2] \in C
         /\ \A e \in R : e[1] \in C => e[2] \in C) => p[2] \in C}

Init ==
  /\ pending = InitNet.nodes
  /\ task = InitNet.task
  /\ before = Closure(InitNet.edges, InitNet.nodes)
  /\ state = InitState

(* Primitive instance i is executed and its k-th outcome happens. *)
Execute(i) ==
  /\ task[i] \in DOMAIN Action
  /\ \A j \in pending : <<j, i>> \notin before
  /\ Action[task[i]].pre \subseteq state
  /\ IF Action[task[i]].effects = <<>>
     THEN state' = state
     ELSE \E k \in DOMAIN Action[task[i]].effects :
            state' = (state \ Action[task[i]].effects[k].del)
                       \cup Action[task[i]].effects[k].add
  /\ pending' = pending \ {i}
  /\ before' = {p \in before : p[1] # i /\ p[2] # i}
  /\ task' = [j \in pending \ {i} |-> task[j]]

(* Compound instance i is refined by method m; name gives m's subtasks     *)
(* their instance names.                                                   *)
Refine(i, m, name) ==
  LET new == {name[n] : n \in m.nodes} IN
  /\ task[i] \in Compound
  /\ m \in Method[task[i]]
  /\ \A n1, n2 \in m.nodes : name[n1] = name[n2] => n1 = n2
  /\ pending' = (pending \ {i}) \cup new
  /\ before' = {p \in before : p[1] # i /\ p[2] # i}
                 \cup {<<name[p[1]], name[p[2]]>> : p \in Closure(m.edges, m.nodes)}
                 \cup {p \in pending \X new : <<p[1], i>> \in before}
                 \cup {p \in new \X pending : <<i, p[2]>> \in before}
  /\ \A j \in pending \ {i} : task'[j] = task[j]
  /\ \A n \in m.nodes : task'[name[n]] = m.task[n]
  /\ DOMAIN task' = pending'
  /\ UNCHANGED state

Next ==
  \E i \in pending :
     \/ Execute(i)
     \/ \E m \in UNION {Method[c] : c \in Compound} :
          \E name \in [m.nodes -> Instance \ pending] : Refine(i, m, name)

Spec == Init /\ [][Next]_vars

=============================================================================
