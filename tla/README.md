# Koala in TLA+

Koala solves fully observable nondeterministic (FOND) hierarchical task network (HTN) planning
problems: a policy says, for every situation it may get into, which action to execute or how to
refine a compound task, and a *strong* policy reaches the empty network whatever the outcomes of
the actions. This directory models the core algorithms of the planner, of the grounder before it
and of the plan verifier and plan converter beside it in TLA+, checks them with TLC on small
instances and proves theorems about them with TLAPS. Paths below are relative to `src/`, and
`planner/`, `grounder/` and `parser/` stand for the directories `src` below them.

## 1. The system

```
solve.py -> prob_preprocessor.py -> PANDA parser -> PANDA grounder -> htn_parser.py -> planner
            (probabilities out)       (C++)           (C++)           htn_serializer.py  (Rust)
                                                                      fond_merger.py
```

`solve.py` runs one process after another; they communicate through files with fixed names
(`grounder/parsed.htn`, `serializer/result.sas+`, `serializer/prob_map.json`,
`planner/result.json`). The planner is one single-threaded process that reads `result.json`, runs
one of three searches and prints its result.

| Component | State it keeps | Operations | Hard behaviour | What makes it correct |
|---|---|---|---|---|
| Graph library, networks (`graph_lib/graph.rs`, `task_network/network.rs`) | nodes, orderings, the task of each node | remove_node, add_subgraph, change_ids, decompose, apply_action | ids are used again, splicing keeps the partial order only implicitly | orderings stay a partial order over the nodes; decomposition is HTN decomposition |
| Progression (`search/progression.rs`, `primitive_action.rs`) | none; maps a network and a state to their expansions | progress, is_applicable, transition | interleavings of decomposition and execution | implements the semantics of FOND HTN problems |
| Isomorphism (`graph_lib/vf2.rs`, `network.rs`) | a stack of partial matchings | vf2_isomorphism, to_layers, is_isomorphic | matching by labels only | true exactly for isomorphic networks |
| AO\* (`search/search_graph/*`, `acyclic_plan/*`) | search nodes with label, cost, probability, depth, parent, connectors with marks | find_a_tip_node, expand, backward_cost_revision, StrongPolicy::new | merging by HashMap order, stale labels, RefCell borrows, recursion | labels sound and final, strong policy, an answer |
| Fixed-method A\* (`search/fixed_method/*`) | search space, open list, g and h values | successors, install_successors, goal check that deorders a path and solves the primitive network | keys that change while queued, ids used again along a path | the network rebuilt from a path is the path's |
| HTN-AND\* (`search/htn_andstar/*`) | heap of partial policies, signatures seen | compute_reach, value iteration, expand first unresolved node | deduplication, early termination of the iteration | the policy found is one of greatest success probability |
| Relaxation and heuristics (`relaxation/*`, `heuristics/*`) | determinized domain, classical encoding, planning graph, TDG | compute_relaxed_state, compute_goal_state, h_add, h_max, h_ff | order dependence inside a sweep | an infinite value means a dead end |
| Domain description (`domain_description/*`) | facts, tasks, methods, initial network | read_json_domain, FONDProblem::new, collapse_tn | indices | the problem read is the one written |
| Serializer, FOND merger (`serializer/*`, the `oneof` rule of `parser/src/hddl.y`) | dictionaries of actions, methods and tasks | compile `oneof` into actions `fond_act__<name>_<i>of<n>`, run, extract_actions, prune, inject_probabilities | actions of which the grounder removed outcomes | the merged actions are the original nondeterministic ones |
| Lifted grounding (`grounder/gpg.h`, `gpg.cpp`, `liftedGPG.cpp`, `hierarchy-typing.cpp`, `conditional_effects.cpp`) | typings, numbered atoms, a queue, the groundings found | expand conditional effects, taskDfs, gpgMatchPrecondition, runGpg, tdgDfs | joins in the order of a queue, pruning by lookahead and by typings, recursion cut off | no ground task or method that a plan can use is lost, none is found twice |
| Grounded reachability (`grounder/groundedGPG.cpp`, the loop of `grounding.cpp`) | pruned flags, per pass a queue and counters | groundedPg, groundedTdg, groundedTdgDfs, run_grounded_HTN_GPG | passes that feed each other, convergence by counts | prunes nothing usable, leaves nothing useless, ends |
| Postprocessing (`grounder/postprocessing.cpp`, `duplicate.cpp`) | the ground problem | effect priority, unnecessary facts, empty preconditions, expansion of choiceless tasks, contraction, methods of two, duplicates | positions and orderings that shift, names that encode what was done | the same plans |
| SAS+ variables and output (`grounder/sasinvariants.cpp`, `output.cpp`, `h2mutexes.cpp`, `sasplus.cpp`) | mutex groups, values none-of-them, facts eliminated by duplication | compute_sas_groups, ground_invariant_analysis, compute_h2_mutexes, write_grounded_HTN, write_grounded_HTN_to_HDDL, write_sasplus | groups that overlap, pruning that changes them | what is written is true, and the same plans |
| Plan converter (`parser/plan.cpp`) | the steps of a plan, an index of containing steps | compress and expand artificial actions and methods, recursively | rewriting while iterating, names of names | a decomposition of the problem given |
| Plan verifier (`parser/verify.cpp`) | matchings, choices, forbidden choices, a graph with counters | generateAssignments, findLinearisation, executeDAG | two backtracking searches, one inside the other | accepts exactly the valid plans, ends |
| Parser front end and writers (`parser/domain.cpp`, `hddl.y`, `cmdline.c`, the writers) | the lifted problem | parse HDDL, compile, write | - | not modelled |
| Pipeline (`solve.py`, `batch_solve.py`) | intermediate files | run the stages, time limit | a stage that fails, a run that is killed, two runs at once | the problem solved is the one given |

How they interact: the three searches call `progress` on the network and state of a node; AO\* and
A\* test new networks for isomorphism with known ones; AO\* and AND\* call the heuristics on the
relaxation built once per problem. `main.rs` passes the problem as read: the grounder's initial
abstract task is already a single task, which is why "the initial TN is assumed to be in collapsed
format" (`acyclic_space/cf.rs:11`) holds; the goal check of A\* and the tests call `collapse_tn`.

The grounder runs its parts in this order: conditional effects are expanded, the lifted problem is
grounded, effect priority, reachability, optionally H2 mutexes (which choose SAS+ variables of their own,
ask a library and run reachability again), postprocessing; then SAS+ variables are chosen, tasks that
violate a mutex are pruned and reachability runs again until nothing changes; duplicates are
unified and the problem is written. For HDDL and for SAS+, which has no methods, it is written at once. A planner's plan for the written problem is converted back by
the parser (`-c`), which can also verify a plan (`-V`).

There is no concurrency inside any of these programs. What is hard to test is order (HashMap iteration with a
random seed decides which outcomes merge, so one run in a few may go differently), staleness (labels
and costs that are not propagated, an index computed once), long legal sequences (ids used again,
simplifications on top of each other), termination, and, around the programs, the files. `PROJECT.json` lists each hazard at its line with the property that covers
it or the module that is planned to.

## 2. Modules

| Module | Models |
|---|---|
| `TaskNetwork` | networks and their surgery: `graph.rs` and `network.rs` as operators on records `[nodes, edges, task]` |
| `Progression` | `progress()` and one outcome of an executed action, as the steps of one branch of a search |
| `Isomorphism` | `is_isomorphic`: task frequencies, layers and the search for a matching |
| `HTNSemantics` | abstract: pending task instances under a strict partial order, executed or refined |
| `MCProgression` | a domain with the method shapes that make splicing hard |
| `StrongPlanning` | abstract: a graph of configurations, the solvable ones as a least fixpoint, one answer |
| `AOStar` | the AO\* search, one step per iteration of its innermost loops |
| `MCAOStar` | families of small problems for `AOStar` |
| `LiftedGPG`, `MCLiftedGPG` | lifted grounding, and the problems it runs on |
| `NaiveGrounding` | naive grounding, and what of it no plan can do without: the reference for `LiftedGPG` |
| `GroundedGPG`, `MCGroundedGPG` | reachability pruning of a ground problem, every order of its queues |
| `GroundHTN` | ground problems, the names compilations give, executions and decompositions: what the modules below share, and the planner between them |
| `Postprocessing` | the simplifications of a ground problem, as operators |
| `GroundOutput` | SAS+ variables, reachability in one step, and what is written |
| `GroundExports` | the HDDL and SAS+ writers, and the task that the H2 library is asked about with its answer |
| `PlanConversion` | `convert_plan` |
| `GroundingPipeline`, `MCGroundingPipeline` | the order of all of these, with a planner between output and conversion |
| `Verifier`, `MCVerifier` | the plan verifier |
| `ProgressionProofs` | lemmas about the operators of `TaskNetwork`, the inductive invariant of `Progression`, and that it refines `HTNSemantics` |
| `IsomorphismProofs` | `Isomorphism` recognises networks with a single first task |
| `AOStarProofs` | the inductive invariant of `AOStar`: sound and final labels, a right answer |
| `AOStarPolicyProofs` | the marks of `AOStar`: a strong policy, no panic outside revisions |
| `AOStarValueProofs` | the costs and probabilities of `AOStar`: types, sure success, no panic without recursion |
| `GroundedGPGProofs` | the inductive invariants of `GroundedGPG`: no plan is lost, counting detects convergence |
| `LiftedGPGProofs` | the inductive invariant of the join of `LiftedGPG`: it is complete and free of duplicates; subtasks keep their order |
| `NaiveGroundingProofs` | the inductive invariants of hierarchy typing and of both graphs: lifted grounding keeps all that `NaiveGrounding` needs |

### TaskNetwork, Progression

`Graph { nodes, edges }` is a set of ids and a set of pairs; `HTN` adds the task of each node
(`mappings`). `AddSubgraph` connects what came before the decomposed node to the sources of the
method and the sinks of the method to what came after it, as `add_subgraph` does; `RelabelNodes` gives the nodes
of a method, smallest first, the ids from `FirstNewId` on (`change_ids`). `Execute` and `Decompose`
are the two kinds of `NodeExpansion`; `progress` lists all of them, so the module may take any.
Searches that take only some (AND\*, A\*) are restrictions of it. `collapse_tn` is covered by
`InitNet`: the model starts from any acyclic network.

`ImplementsSemantics` is the refinement: `pending <- tn.nodes`, `before <- Order(tn)`, the
transitive closure of the stored orderings. The semantics knows nothing of edges, sources and
sinks: a refined instance's successors inherit exactly its relations. `Order`, the closure, is
defined without recursion (least closed set).

### Isomorphism

`IsIsomorphic` is the test by which AO\* and A\* recognise networks. A partial matching is a set of pairs instead of
a list, since neither its order nor the order of the stack changes whether some matching is completed. `Candidates` are the pairs
that may be added (successors of what is matched, else predecessors, else anything), `Fits` compares neighbours as
sets of tasks. The test is exact in neither direction. It always recognises a network below one first task
(`KnownNetworkRecognised`, proved); where two first tasks are ordered before a third, no matching can
be completed, and the network counts as a new one each time it is met, which costs work and keeps recursive
problems from ending. It also identifies networks that differ (`MergedNetworksAreSame`, a finding), since a node may be matched
more than once.

### AOStar

A search node is a record `[config, parent, connections, cost, status, depth, prob]`. Its
configuration stands for the network and the state, up to isomorphism: the test of `visited()` is
taken to be exact, although it is not for every domain (see Isomorphism); what is shown of the search holds for domains for which it is. A problem gives every
configuration its expansions, the list `progress()` returns, so that the family of problems ranges
over AND/OR graphs instead of over domains; `h` is a table because `h_val` is a pure function of
the configuration.

`pc` is the phase of `AOStarSearch::run`: `find` (the walk of `find_a_tip_node`, one node per step),
`expand` and `outcomes` (one outcome per step, because an outcome may merge with a node inserted
for the previous one), `revise` (one node per step). `front` is the node a HashMap iteration yields
first; `visited` compares with that one only, since every branch of its loop returns. An
insertion may put the new node first; when the table grows (`TableGrowsAt`: the standard library's
table holds 3 entries, then 7/8 of a power of two) any node may come first. `Parents` has the creator of a node only, since
`add_parent` writes back what it read. When the root is solved, `extract` is the loop of
`StrongPolicy::new`, one node per step; `policy` is the set of nodes it has visited. The makespan and the
success probability of the policy are functions of it and of `nodes`, and are not stored.
A borrow that would make RefCell panic, an empty connection, merging into the root and the missing
tip are steps to `pc = "panic"`. That a merge meets the root is excluded by the problems (the
collapsed root is a task that no method has), and the branch is kept because the code has it.

`StrongPlanning` states the promise: the search answers once, "Success" exactly if the root is in
the least set that holds the goals and every configuration with an expansion into the set.

### LiftedGPG

Objects are integers, sorts sets of them, atoms (facts, ground tasks) records of a head and
arguments. `TaskDfs` is one call of `taskDfs`, with the calls still to be made on `stack`;
`Intersect` and `FromStatic` keep the quirks of the merge and of the lazily expanded sorts. A planning graph is
run twice by the same actions: over facts and primitive tasks (`StartPG`), over tasks and methods
(`StartTDG`). `ProcessAtom` is one turn of the loop of `runGpg`; `Matches` are the assignments that
`gpgMatchPrecondition` and `gpgAssignVariables` find for it, `MayUseNew` their elimination of
duplicates. The lookahead may be given up at any time (`DropPrediction`), as the code does by its own
statistics. What is found in one turn is numbered and put out in an order that `Emit` leaves open (`SetToSeq`), since it
depends on hash tables. The reference is `NaiveGrounding`: everything, pruned to a fixpoint
(`Needed`: what has reachable preconditions, can be refined to such tasks, and descends from the initial task). The loops of the code are
the function `Iterate`, so that they can be proved about.

### GroundedGPG

The three passes share `reached`, `queue` and `unfulfilled`, as they have the same shape. Queues are sets
of which any element comes next, which covers the order of the hash sets. `plan` is a ghost: some
executable refinement, that is, a set of tasks and methods closed under the three things the passes
look for (`Executable`, `Productive`, `Descends`, each stated as "every closed set contains it").
`Rerun` is the loop of the writer, whose invariant analysis may prune any tasks that no executable plan
uses.

### GroundingPipeline

One behaviour grounds one problem with one set of options: a step per simplification (a step per
task for the expansion of choiceless tasks), the writer's loop, a planner that prints any plan it has, its steps numbered
upwards or downwards, and one step per call of `convert_plan`. The operators of `Postprocessing`, `GroundOutput`, `GroundExports` and `PlanConversion` are the functions of
the code; a name is a record that says which compilation gave it, and what it is about. `Finished` is the
end; any other stop, the converter's `exit(1)` among them, would be a deadlock.

`InferMutexes` is the H2 section. The library is not in the repository (a submodule) and is modelled by what may be
asked of it: either it completes, and then it drops what no reachable state of *its* task allows and reports any
choice of up to `MaxMutexes` of the mutexes of these states, which are all that a sound library may claim, or its
time limit cuts it short and it has found nothing. What is checked is the use of the answer: tasks and facts
pruned in a problem that the library did not see as the planner does, mutexes with none-of-them turned into
clauses.

`Options.output` is the format. The HDDL problem has the plans of the original (`PlansKept`; different tasks are taken to have
different HDDL names). The SAS+ task admits the visible actions of every plan (`RelaxationKeepsPlans`); it
may admit more, since it has no methods. `Options.mode` is how deletes of values are written:
as they are in the input, of all other values, or not at all. In the last case the planner has to overwrite values by itself,
which is what `AsRead` adds to the written problem.

Restrictions of the instances, where the code by design or by accident does something else:

* contraction only for totally ordered problems without conditional effects;
* methods of two only where every method is totally ordered or not ordered at all (others are left out of the
  output);
* no opposite conditional effects under different conditions, none shared by two actions, none on members of mutex
  groups;
* tasks ask for the values that they delete (otherwise none-of-them is added although another value may be
  true, `output.cpp:571`);
* no goal on the second fact of a variable that was eliminated: only the facts of the mutex are compared with the goal
  (`output.cpp:97`), the other value of a two-valued variable is eliminated too (line 153), its number -1 is
  written among the goals (line 837) and ends their list, so that the written problem has more plans; no eliminated variable that
  can be without a value, and no negative facts together with dropped one-fact variables (the none-of-them of a
  dropped variable has number 0);
* H2 and SAS+ output only without conditional effects (a compiled effect whose condition its own action
  deletes is impossible in these tasks) and with an action in every plan (their artificial goal needs one);
* a visible action on every recursion (plans are bounded by the number of visible actions); the lifted mutex groups given with a
  problem are true ones.

Debug asserts are compiled out of the release build, which is what is modelled.

### Verifier

`Check` is the first half of `verify_plan`, `MatchMethods` the instantiation of every method that is
applied, `PickSucceeds` and `Refute` are `findLinearisation`, and `Progress`, `Branch` and `Backtrack` are
`executeDAG`, whose recursion is a stack of the calls that branched. `Valid`, the reference, asks
for one choice of matchings and one linearisation that is executable and reaches the goal. Lenient mode is
not modelled, and matchings come in one fixed order. No instance leaves out subtasks that a method declares: the code
matches what is listed (`verify.cpp:490`) and accepts such a plan, and what it is a plan for is open.

## 3. Runs

| Run | Configuration | Shows |
|---|---|---|
| `progression` | 3 primitive and 3 compound tasks, 7 methods, `MaxId = 13` | type correctness, acyclic orderings, some task always ready, ids of methods never collide, ready decompositions commute up to renaming, networks below one first task are recognised under other ids, refinement of `HTNSemantics` |
| `progression_similar` | the same domain with two similar methods | **violated**: `MergedNetworksAreSame` |
| `aostar` | 300 acyclic problems over 4 configurations, `FairSpec` | soundness of both labels, strong policy, no panic, success probability 1, labels final, and that the search answers (refinement of `StrongPlanning`, with liveness) |
| `aostar_recursive` | 360 problems with cycles, at most 9 search nodes | the safety properties where the search need not end; the walk never borrows a node twice |
| `aostar_duplicate_outcomes` | problems with two outcomes that lead to one configuration | **violated**: `SolvedSucceedsSurely` |
| `aostar_marked_cycle` | the recursive problems, at most 6 search nodes, `FairSpec` | **violated**: `WalkEnds` |
| `grounded_gpg` | 72 ground problems, all refinements, `FairSpec` | nothing usable is pruned, the search enters no pruned task, what is left is a refinement, the rounds end |
| `lifted_gpg` | 18 problems with recursion, repeated variables, constraints, a conditional effect | no useful ground task or method is lost, each is found once, subtasks keep their order |
| `grounding_pipeline` | 55 pairs of a ground problem and options, `MaxMutexes = 2` | writable methods, the same visible action sequences after every simplification, after H2 and in HDDL, true variables, mutexes and invariants and a number for every fact, SAS+ tasks that admit every plan, plans converted to decompositions, the conversion ends |
| `verifier` | some 850 plans, `FairSpec` | accepted exactly when valid, only refuted choices are forbidden, the verifier ends |
| `verifier_root` | two tickets below an unordered root | **violated**: `AcceptedPlansAreValid` |
| `verifier_one_forbidden` | an open variable and an ambiguous step | **violated**: `ValidPlansAreAccepted` |

Bounds. `MaxId` limits the size of networks in `progression` (`IdsLeft` cuts off decompositions that need larger ids; the code has no such
check, its ids are u32): the methods have a diamond whose two
middle tasks are compound, two compound sources joined by a compound sink, a chain whose ids run
against its ordering, an unordered pair, two chains that fork and both kinds of recursion, and 13 leaves room for each of
them to be spliced into each other and for ids to be used again after tasks are gone. Four configurations are
the fewest in which a node is shared by two parents, one of them with another connector, below a
root with a choice; a search over them grows the table at 4 and 8 nodes, so the iteration order is
shuffled while the search still expands. `MaxNodes = 20` is never reached in `aostar` (an acyclic problem is
unfolded to at most that size), so its liveness does not depend on the bound; in `aostar_recursive` it cuts
searches off, and only safety is checked. `Inf = 50` is above every finite cost that occurs and `One = 8` makes
the halves of three coin flips exact.

The problems of the grounder and the verifier are written by hand so that each feature of the code matters in one
of them; the comments in the MC modules say which. `grounding_pipeline` reaches every way in which a
simplification applies, applies again after another one, or gives up: preconditions in the middle of
a method, expansion of methods that were expanded, from inside and from outside, empty methods with and without a
noop, blocks of actions that can and cannot be executed, variables with and without none-of-them, a fact
that stands for the other values of a variable, alone and with its own, tasks pruned by a mutex and others that depended
on them, H2 answers with and without mutexes and for a problem that has no plan. `bound` limits the visible actions of a plan, with room for two turns of each recursion. The library reports
`MaxMutexes = 2` mutexes at most: each is taken over on its own,
and two let one act on what another leaves.

Deadlock is not checked where programs end: in `GroundedGPG`, `LiftedGPG` and `Verifier` the last
phase has no step; in `progression` a branch ends in a goal or a dead end,
in `AOStar` the search ends in `done` or `panic`.

Fairness. `FairSpec` (of `AOStar`, `GroundedGPG` and `Verifier`) assumes weak fairness of the whole
next-state relation: each is one thread that nothing else schedules, so while it can take a step it
takes one. Nothing is assumed about choices (which node, fact or method comes first). In
`GroundedGPG` each rerun of the writer prunes another task or is the first, so the loop ends without more. The pipeline states
no liveness: its steps are long computations, for which TLC's evaluation of ENABLED is out of reach.
That it ends is shown by safety instead: it never deadlocks before `Finished`, no phase comes twice save the
writer's loop, which shrinks the problem, and the conversion calls itself no more often than the names
of methods are nested (`ConversionEnds`).

Every property of a passing run is paired in `PROJECT.json` with a mutant: a seeded fault in a
definition that models code (marked "seeded fault" in the modules) under which TLC finds the
property violated. They are mistakes one could make in that code: removing only incoming edges,
joining sources instead of sinks, counting instead of maximising ids, taking one solved outcome for
all, preferring the cheapest connector to a solved one.

### Findings

* `progression_similar`: a matching of `vf2_isomorphism` may match a node several times and is complete when
  it has as many pairs as there are nodes (`vf2.rs:65`). Two methods, one with two independent chains after a common start,
  one where the last tasks of both chains wait for the middle ones of both, are taken for the same network, and a search keeps the node of whichever came
  first. `find_isomorphic` is to find "an isomorphic node" (`search_space.rs:47`).
* `aostar_duplicate_outcomes`: `expand` keeps outcome probabilities in a map by child, and
  `outcome_probs.insert` (`search_graph.rs:183`) overwrites the first when two outcomes merge. A
  solved node whose outcomes all succeed then has probability 1/2, although
  `cost_revision.rs:25` defines the probability of an arc as the sum over the outcomes. The label
  and the policy are right; the printed success probability is not.
* `aostar_marked_cycle`: when two compound tasks decompose into each other, an occurrence may merge
  into its own ancestor; the marks then close a cycle, and `find_a_tip_node`, which does not
  remember visited nodes, never returns. It depends on the hash seed. A task that decomposes into itself at once
  does not loop: the revision that follows panics first (`WalkBorrowsOnce`).
* `verifier_root`: when every matching of a step is forbidden, `findLinearisation` returns success
  with an empty graph, to have the choices before it forbidden (`verify.cpp:1218`); at the root there
  are none, and `verify_plan` accepts a plan that has no execution.
* `verifier_one_forbidden`: it goes back only when all matchings of a step are forbidden
  (`verify.cpp:1222`); with one forbidden and one in the wrong order it rejects a plan that has an
  execution.

## 4. Proofs

TLAPS proves, for all domains, methods, initial networks and bounds on ids
(`ProgressionProofs`):

* `TypeCorrect`: `Spec => []TypeOK`
* `AlwaysAcyclic`: `Spec => []OrderingsAcyclic`
* `AlwaysSomeTaskReady`: `Spec => []SomeTaskReady`
* `IdsNeverCollide`: `Spec => []NewIdsDisjoint`
* `EitherOrder`: `Spec => []DecompositionsCommute`

Assumptions (named in `TaskNetwork` and `Progression`, evaluated by TLC on every run of these
modules): `MaxId` is a natural; tasks are primitive or compound and not both; actions have sets of
facts; the network of a method is a well-formed, acyclic, non-empty network; so is the initial one
(it may be empty).

Argument. The inductive invariant is `TypeOK /\ OrderingsAcyclic`. Neither half is
inductive alone: that a decomposed network has orderings over its nodes only needs that the
decomposed task does not precede itself (`DecomposedIsNetwork`), and acyclicity needs that edges stay
within the nodes. Acyclicity is stated as every non-empty set of nodes having a member without a
predecessor in the set, which avoids paths and induction on them. For a decomposition
(`DecomposedIsAcyclic`) a set S is projected to the old network, the new nodes standing for the
decomposed task; its minimal member there is minimal in S, or it is the decomposed task and a
minimal new node of the method is. Ids: `FirstNewId` is above every id of the network and of the
method (`FirstNewIdFacts`), the new ids are an interval from it on and pairwise different
(`NewIdFacts`, by cardinality of sets of smaller ids), hence the first four theorems.
`EitherOrder` rests on the second of two decompositions finding the orderings of its task as they were:
nothing precedes either task, so the first one adds no ordering to it (`DecomposedTwice`). Both
orders then give the same three parts, which lie one above the other, each method's in one interval of new ids
(`Apart`); the other order moves an interval as a block (`RelabelledMoves`), and with it the
orderings inside it and the sinks that orderings leave it from. This needs neither acyclic methods nor ids left over.

And, in the same module and from the same assumptions, the refinement that TLC checks on a small domain:

* `ProgressionImplements`: `Spec => ImplementsSemantics`

Argument. Under the inductive invariant every execution is an `Execute` of `HTNSemantics`, and every
decomposition a `Refine` under the names that `decompose` gives. What has to be shown is that the
surgery on single edges does to their closure what the semantics says. The closure is defined by closed
sets, so each inclusion is shown by exhibiting one (`After`, `AfterLeast`), never by induction on paths.
Where two networks agree on nodes that they do not leave, so do their closures (`SameAfter`: execution, and the
old nodes of a decomposition); renaming a method renames its closure (`RenamedAfter`); and a new node precedes
what the decomposed task preceded because a terminal node of the method can be reached from it
(`TerminalReachable`, where finiteness and acyclicity are needed), which is where `decompose` adds its edges.
The proof uses that only unconstrained tasks are decomposed, as `progress()` does.

`IsomorphismProofs` proves of `is_isomorphic`, from the same assumptions and the same inductive invariant:

* `KnownAlwaysRecognised`: `Spec => []KnownNetworkRecognised`

Argument. It rests on `RenamingRecognised`: two networks that are the same up to ids (`Renaming`) pass the test if they
are acyclic and have a single first task. Frequencies agree since a bijection of nodes keeps them, layers since the
nodes of each layer of one are the images of those of the other. For `vf2_isomorphism`, take a partial matching made of pairs
of the renaming, the pair of first tasks among them. If it is not complete, some ordering leaves its nodes: the orderings being
acyclic, one of the tasks outside comes after none of the others outside, and as it is not the first task it comes after one inside
(`SomeOrderingLeaves`). So the first rule of the code applies, its pairs include one more of the renaming, and the
neighbours of that pair stand for the same tasks (`SomePairFits`). A largest matching of this kind that could not be
completed would therefore have an extension that can (`MatchingCompleted`). The layers and `Completed` are
recursive functions, of which it is first shown that they exist: layers one after the other (`LayersExist`), `Completed` as
membership in the least set of matchings closed under its equation (`CompletableUnfolds`). The proof uses that a set of pairs is
extended in every possible way, as the stack of the code does; with several first tasks the lemma is false.

And, for all sets of problems, with cycles or without, all heuristics, all orders of HashMap
iteration and all bounds on search nodes (`AOStarProofs`):

* `SolvedAlwaysSound`: `Spec => []SolvedSound`
* `FailedAlwaysSound`: `Spec => []FailedSound`
* `LabelsAlwaysFinal`: `Spec => LabelsAreFinal`
* `AnswersRightly`: if no problem has an infinite heuristic value on a solvable configuration,
  `Spec => Planning!Init /\ [][Planning!Answer]_Planning!vars`, the safety part of `SearchAnswers`

Assumptions: `BoundsAssumption` and `ProblemsAssumption` of `AOStar` (a problem is a graph of
configurations, a goal has no expansions, no expansion leads back to the root).

Argument. The labels are right only because the connectors of a node are the expansions of its
configuration, so the inductive invariant `IInv` says so of every expanded node (`Expanded`): one
connector per expansion, whose children have exactly the configurations of its outcomes. It holds
while outcomes merge and nodes are inserted because the connectors under construction cover
exactly the outcomes that have been added (`BuiltOK`). A node without a label must have been
expanded when it is revised, otherwise `children_status` would be read off an empty list and fail
it; this rests on every creator of a node having been expanded, save the node that is being
expanded (`RevisesExpanded`), and on the candidate of `find_a_tip_node` still being unlabelled
(`ControlOK`). Costs, probabilities, depths and marks do not occur in the invariant: whichever connector
is marked, the labels stay right. That solvability is a fixpoint in both directions
(`SolvableIf`, `SolvableOnlyIf`) is proved from its definition as a least set. There is one lemma
per action (`...Keeps`); what changes in a graph when a node changes or is added is stated once
(`NodeChanged`, `NodeAdded`), and so is a revision (`NodeRevised`).

And, for all ground problems and all orders in which the passes process their queues
(`GroundedGPGProofs`):

* `TypeCorrect`: `Spec => []TypeOK`
* `GroundingLosesNoPlan`: `Spec => []NothingUsablePruned`
* `TraversalAssertionHolds`: `Spec => []DfsEntersNoPrunedTask`
* `CountsDetectConvergence`: `Spec => []ResultIsRefinement`

Assumptions: `InstanceAssumption` and `FiniteAssumption` of `GroundedGPG` (the parts of a problem
refer to its own facts and tasks, and its primitive tasks can be counted).

Argument. A pass computes a least closed set, and the two halves of that have an invariant each. What
it has reached is closed up to its queue (`PgPass`, `TdgPass`, `DfsPass`: an entry waits exactly
for what is not processed, and one that waits for nothing has had its effect); a refinement lies in every
closed set, so when the queue is empty nothing of the plan is pruned (`PlanTasksDoNotWait`,
`PlanIsProductive`, `PlanDescends`), and this is `IInv`. Beside them `HeadsKept` is needed: a live method has an unpruned
head, so that the graph over tasks does not reach a pruned task again; the assertion of the traversal
rests on it. Conversely, what is reached lies in every set closed under the rules used so far
(`LeastFacts`, `LeastTasks`, `LeastDescent`), so what a complete pass keeps is executable,
productive or descends from the initial task. `CInv` adds what the count `remaining` stands for when a pass
starts (`PgCount`, `FactsSettled`): two sets of primitive tasks, one in the other, are equal when
their counts are (`SameCount`), so a pass that did not change the count has left the results of the
other two passes as they were.

On top of `IInv`, the marks (`AOStarPolicyProofs`), from the same assumptions, recursion included:

* `PolicyAlwaysStrong`: `Spec => []PolicyIsStrong`
* `WalkAlwaysBorrowsOnce`: `Spec => []WalkBorrowsOnce`
* `PanicsOnlyInRevision`: `Spec => OnlyRevisionPanics`

Argument. A node is solved when the children of the connector it marks are, hence after them, and its
mark does not move afterwards. So the marks of solved nodes close no cycle, which the invariant says
without an order in time: every non-empty set of solved nodes has a member whose marked children are
outside the set (`NoMarkedCycle`). A node that becomes solved has all its marked children among the nodes
that are solved already, none of which has it as a marked child, since their marked children are solved. For the walk: a node without a
label never marks a connector to itself, because looking at one is a panic first (`ReviseOnGoing` needs
`SelfArcs(x) = {}`), except behind a solved sibling, in which case the node is solved instead. The other panics are unreachable because the walk always has an unlabelled node
left until it finds a candidate (`WalkGoesOn`), because only the root has no parent and no expansion
leads back to its configuration (`OneRoot`), and because a solved node that was expanded has exactly
one mark (`ChoiceOK`).

And the values (`AOStarValueProofs`):

* `TypeCorrect`: `Spec => []TypeOK`, if no action has probabilities of more than 1 in total (`AtMostSure`)
* `SolvedAlwaysSucceeds`: `Spec => []SolvedSucceedsSurely`, if they are 1 in total, of outcomes that all
  differ (`Exhaustive`)
* `WithoutRecursionNeverPanics`: `Spec => []NeverPanics`, if costs below a configuration have a finite bound
  (`Bounded`)

These hypotheses are about the input, and are needed: the code neither checks nor normalises
probabilities, two equal outcomes overwrite each other's probability (run `aostar_duplicate_outcomes`), and a
node that is its own child, or costs that reach infinity, panic (run `aostar_recursive`, where
`NeverPanics` is no property for that reason). `Bounded` gives each configuration a bound that is at least its
heuristic value, if that is finite, and at least 1 more than the sum of the bounds of any expansion: an
acyclic problem has one unless its costs overflow. The problems of the run `aostar` satisfy all three.

Argument. Costs and probabilities are sums over sets of children, of which a recursion says nothing to the
prover. The module first makes a sum the cardinality of the set of its units, shows that the fold the
model uses computes it (`SumFunctionSums`), and what the theorems of finite sets then say of subsets, of one more
term and of multiples. The invariant `VInv` measures every connector against the outcomes it was made from (`Measured`): the
probabilities of its children are at most those of the outcomes, and equal if the outcomes differ; the bounds of
its children are at most those of the outcomes, whatever bounds are taken. Children may be fewer than outcomes, when some merge
into the same node, and this is what makes both inequalities. Then a revision keeps costs within bounds
(`ArcCosts`) and probabilities within 1 (`ArcProbabilities`); a connector that could still be
solved has no failed child, so its cost is finite, and the best one costs no more (`OnGoingCosts`).

And, for all lifted problems, initial facts and options of the typing (`LiftedGPGProofs`):

* `JoinAlwaysExact`: `Spec => []JoinIsExact`
* `SubtaskOrderAlwaysKept`: `Spec => SubtaskOrderKept`

Assumption: `DomainsAssumption` of `LiftedGPG` (sorts are finite, literals use the variables of their task or
method, orderings relate subtasks that exist, tasks for conditional effects have names of their own), which the parser ensures.

Argument. `JoinInv` says what the output is between two turns of the loop: it lists, each once, the groundings all of whose antecedents are
among the atoms processed so far (`Groundings(done)`). A turn for atom number n adds those that have atom n as an
antecedent and no later atom (`FoundAreNew`). Such a grounding may have it as several antecedents, when subtasks or
preconditions are equal under its values; it is found at the last of them and at no other, since only antecedents before the one
matched first may be the new atom (`MayUseNew`). Atoms are numbered once each (`Distinct`, `Emitted`), so the atom of an antecedent is
either n or earlier. Neither the test that each antecedent has an atom nor the lookahead rejects
any of these (`MatchesAre`): what fulfils an antecedent also fits it, and agrees with what is assigned. So it does not matter when the lookahead is given
up, nor in what order groundings found together are put out. That the invariant holds when a graph
starts needs the problem to stay well-formed: compiled conditional effects are tasks over variables of their own
(`ProblemExpanded`), and sorting subtasks renumbers them one to one (`SubtasksListed`, `SortingKeeps`), which is also the second theorem.

And that lifted grounding loses nothing, from the same assumption (`NaiveGroundingProofs`):

* `GroundingAlwaysKeepsRefinements`: `Spec => []GroundingKeepsRefinements`

Further parts of `DomainsAssumption` are used here (`IsHierarchy`): methods decompose abstract tasks, a subtask has an argument for each
variable of its task, constraints are between variables, and the initial task has no variables, as the parser makes it.

Argument. The four stages have an invariant each, and the reference meets them one after the other.

* Hierarchy typing (`HierarchyInv`): if a typing of its task admits the parameters of a method's valuation, and the valuation
  satisfies all constraints and the static preconditions of its subtasks (`Usable`), then a typing of the method admits it, and each of its
  subtasks is admitted by a typing that is recorded *or by a call that is still to be made*. The second alternative makes it
  inductive, and is gone when the stack is empty. It rests on every step of the computation of a typing keeping a
  valuation that is in it (`Around`, `MethodTypingKeeps`): propagating constraints, the merge that keeps too much (`Intersect`),
  and the static preconditions with their lazily expanded sorts. A call that is cut off because a recorded typing includes it leaves everything
  admitted that was (`KnownCallKeeps`); that is where a recursive hierarchy is closed.
* Both graphs (`LabelsInv`, `TasksInv`): the output carries the numbers of its antecedents and of what it adds, and when the graph of facts is done,
  every primitive task over its facts that the typings admit is among its output and an atom of the graph of tasks. This is
  `JoinInv` at the end of the queue.
* The final search (`DoneInv`): what it has reached is closed under the methods put out (`Climbs`: a set that only
  grows, within n members, is closed after n rounds, which is the bound of the loop).

The reference is a fixpoint (`NeededIsFixed`: a set that only shrinks stops within as many steps as it has members), and so
each of its tasks and methods passes every part of a further round (`NeededLayers`). Its three closures lie in every closed
set (`ReachFactsWithin`, `ProduceWithin`, `ReachWithin`), which the invariants supply: what descends is admitted (`DescendingAdmitted`), so the reachable facts
are found (`NeededFactsFound`), so the primitive tasks are put out and all tasks composed of them are atoms
(`NeededTasksFound`), and the search comes down to them, or to the task that adds the guard of a conditional effect
(`NeededKept`). That static preconditions may prune at all is because a reachable fact of a predicate that no task adds is
initial (`StaticFactsInitial`). Loops are functions of which it is shown first that they exist (`LoopExists`), then that they stay
within a set (`LoopStays`).

Only model-checked: the properties of `Verifier` and `GroundingPipeline` (both use RECURSIVE operators), and all
liveness. Out of the prover's reach: liveness under fairness, ENABLED, and what recursive
definitions compute (no induction over data; loops of a bounded number of rounds are proved about by
counting rounds).

## 5. Plan

In order; each with its runs, mutants and hazards.

1. `TaskNetwork`, `Progression`, `HTNSemantics`, `AOStar`, `StrongPlanning`: done, as above.
2. `AOStarProofs`, `AOStarPolicyProofs`, `AOStarValueProofs`: done, as above.
3. `LiftedGPG`, `GroundedGPG`, `Postprocessing`, `GroundOutput`, `GroundExports`, `PlanConversion`,
   `GroundingPipeline`, `Verifier`: done, as above.
4. `GroundedGPGProofs`, `IsomorphismProofs`, `LiftedGPGProofs`, `NaiveGroundingProofs`: done, as above. More proofs: the
   types of `GroundingPipeline`, whose operators would have to be rewritten without RECURSIVE.
5. `AndStar`: reach graph, value iteration, deduplication; abstract specification: the best policy.
6. `Isomorphism`: done, as above; still to be stated there: which of its answers AO\* may act on, as a merge test of `AOStar`.
7. `FixedMethod` and `Deorder`: open list with changing keys (an entry is removed by the key it had
   when it was inserted, `fixed_method/astar.rs:136`), the network rebuilt from a path.
8. `Heuristics`, `Relaxation`: infinite values are safe on small domains (an action without preconditions is never
   scheduled, `graphplan.rs:49`; facts enter during a sweep, `classical/add.rs:22`).
9. `Serializer`: the FOND merger against the determinization it inverts, the naming of outcomes by the `oneof` rule.
10. `Pipeline`: stages, files, crashes, time limits, two runs at once.

Not modelled, and why: the parser's front end and its other writers (parsing, generated code,
text output); how FAM groups are found (`FAMmutexes.cpp`, a mixed-integer program solved by a library), whose results are given with
a problem; the H2 library itself, which is not in the repository; the verifier's
lenient mode; `cyclic_space/cfc_rev.rs` is not compiled; printing, statistics and argument parsing carry no state; benchmark domains are data.
