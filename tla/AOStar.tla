------------------------------- MODULE AOStar -------------------------------
(***************************************************************************)
(* The flexible planner: AO* over the graph of search nodes                *)
(* (planner/src/search/search_graph/search_graph.rs, connectors.rs,        *)
(* search_node.rs; acyclic_plan/acyclic_space/cf.rs, cost_revision.rs;     *)
(* acyclic_plan/policy/strong_policy.rs).                                  *)
(*                                                                         *)
(* AOStarSearch::run repeats three phases until the root is labelled: it   *)
(* finds a tip of the marked part of the graph, expands it, and revises    *)
(* costs, labels and marks from the tip backwards.  Then search_result     *)
(* extracts the policy from the marks.  A step of this module is one       *)
(* iteration of the innermost loop of a phase.                             *)
(*                                                                         *)
(* A search node carries a configuration (see StrongPlanning) in place of  *)
(* its task network and state, so that the isomorphism test of visited()   *)
(* is taken to be exact; the heuristic is a table of the problem.          *)
(* Probabilities are in units of 1/One and costs are naturals below Inf.   *)
(***************************************************************************)
EXTENDS Integers, Sequences, FiniteSets, FiniteSetsExt, Functions

CONSTANTS
  Config,     \* configurations
  Problems,   \* the problems to be solved
  Inf,        \* f32::INFINITY
  One,        \* probability 1.0
  MaxNodes    \* bound on the search nodes, for problems with cycles

ASSUME BoundsAssumption ==
  /\ Inf \in Nat \ {0}
  /\ One \in Nat \ {0}
  /\ MaxNodes \in Nat \ {0}

(***************************************************************************)
(* A problem gives each configuration the expansions progress() returns    *)
(* for it, in order: an expansion is a sequence of outcomes [to, p].  A    *)
(* goal has no expansions; a configuration that is no goal and has none is *)
(* a dead end.  h is the heuristic value of each configuration.  The root  *)
(* is a task of its own that no method has ("the initial TN is assumed to  *)
(* be in collapsed format").                                               *)
(***************************************************************************)
Expansion == Seq([to : Config, p : 1..One]) \ {<<>>}

IsProblem(prob) ==
  /\ prob.root \in Config
  /\ prob.goal \subseteq Config
  /\ prob.h \in [Config -> 0..Inf]
  /\ prob.expansions \in [Config -> Seq(Expansion)]
  /\ \A c \in Config :
       /\ c \in prob.goal => prob.expansions[c] = <<>>
       /\ \A i \in DOMAIN prob.expansions[c] :
            \A k \in DOMAIN prob.expansions[c][i] :
               prob.expansions[c][i][k].to # prob.root

ASSUME ProblemsAssumption == \A prob \in Problems : IsProblem(prob)

VARIABLES
  problem,   \* the problem being solved
  nodes,     \* SearchGraph::ids: the search nodes, by id (cursor is one more)
  front,     \* the id a HashMap iteration over ids yields first
  pc,        \* the phase the search is in
  work,      \* the working set of the loop that is running
  tip,       \* the candidate, then the node that is expanded
  built,     \* the connectors of the expansion so far, the last one incomplete
  next,      \* the outcome to add to the last connector
  policy     \* StrongPolicy::new: the nodes visited so far

vars == <<problem, nodes, front, pc, work, tip, built, next, policy>>

Id == DOMAIN nodes
root == 1
NoParent == 0

(* A connector before any outcome has been added to it. *)
EmptyConnector == [children |-> {}, outcomeProbs |-> <<>>, marked |-> FALSE]

Init ==
  /\ problem \in Problems
  /\ nodes = <<[config |-> problem.root, parent |-> NoParent, connections |-> <<>>,
                cost |-> 0, status |-> "OnGoing", depth |-> 0, prob |-> 0]>>
  /\ front = root
  /\ pc = "loop"
  /\ work = {}
  /\ tip = 0
  /\ built = <<>>
  /\ next = 1
  /\ policy = {}

----------------------------------------------------------------------------
(***************************************************************************)
(* Node and connector queries.  connections is None exactly when it is     *)
(* empty: expand() never stores an empty list.                             *)
(***************************************************************************)
IsFailed(x) == nodes[x].status = "Failed"   \* seeded fault in IsTerminal

IsTerminal(x) == nodes[x].status \in {"Solved", "Failed"}

(* arc_status *)
ArcStatusAnySolved(arc) ==   \* seeded fault: one solved outcome is enough
  IF \E k \in arc.children : nodes[k].status = "Solved" THEN "Solved"
  ELSE IF \E k \in arc.children : nodes[k].status = "Failed" THEN "Failed"
  ELSE "OnGoing"

ArcStatus(arc) ==
  IF \E k \in arc.children : nodes[k].status = "Failed" THEN "Failed"
  ELSE IF \E k \in arc.children : nodes[k].status = "OnGoing" THEN "OnGoing"
  ELSE "Solved"

(* children_status *)
ChildrenStatusAnyFailed(arcs) ==   \* seeded fault: one failed arc is enough
  IF \E i \in DOMAIN arcs : ArcStatus(arcs[i]) = "Solved" THEN "Solved"
  ELSE IF \E i \in DOMAIN arcs : ArcStatus(arcs[i]) = "Failed" THEN "Failed"
  ELSE "OnGoing"

ChildrenStatusNeverFails(arcs) ==   \* seeded fault: all_failed is not looked at
  IF \E i \in DOMAIN arcs : ArcStatus(arcs[i]) = "Solved" THEN "Solved" ELSE "OnGoing"

ChildrenStatus(arcs) ==
  IF \E i \in DOMAIN arcs : ArcStatus(arcs[i]) = "Solved" THEN "Solved"
  ELSE IF \A i \in DOMAIN arcs : ArcStatus(arcs[i]) = "Failed" THEN "Failed"
  ELSE "OnGoing"

MarkedArcs(x) == {i \in DOMAIN nodes[x].connections : nodes[x].connections[i].marked}

(* get_marked_connection: the first marked one, if there is one. *)
FirstMarked(x) == {i \in MarkedArcs(x) : \A j \in MarkedArcs(x) : i <= j}

(* A connector costs 1 on top of its children; f32 sums stick at infinity. *)
ArcCost(arc) ==
  LET sum == 1 + SumFunction([k \in arc.children |-> nodes[k].cost])
  IN  IF sum < Inf THEN sum ELSE Inf

(***************************************************************************)
(* compute_min_cost: the first connector whose children are all solved,    *)
(* whatever it costs, else the first one of least cost.                    *)
(***************************************************************************)
CheapestArc(arcs) ==   \* seeded fault: solved connectors do not come first
  Min({i \in DOMAIN arcs :
         \A j \in DOMAIN arcs : ArcCost(arcs[i]) <= ArcCost(arcs[j])})

BestArc(arcs) ==
  LET solved   == {i \in DOMAIN arcs : ArcStatus(arcs[i]) = "Solved"}
      cheapest == {i \in DOMAIN arcs :
                     \A j \in DOMAIN arcs : ArcCost(arcs[i]) <= ArcCost(arcs[j])}
  IN  IF solved # {} THEN Min(solved) ELSE Min(cheapest)

(* arc_success_probability *)
ArcProbability(arc) ==
  SumFunction([k \in arc.children |-> arc.outcomeProbs[k] * nodes[k].prob]) \div One

Mark(arcs, i) == [j \in DOMAIN arcs |-> [arcs[j] EXCEPT !.marked = (j = i)]]

ClearMarks(arcs) == Mark(arcs, 0)

(***************************************************************************)
(* Reading the label of a child panics when the child is the node itself,  *)
(* which is mutably borrowed.  Connectors are read in order up to the      *)
(* first solved one; a failed sibling met first hides the node itself.     *)
(***************************************************************************)
NoSelfArcs(x) == {}   \* seeded fault: the borrows do not exclude each other

SelfArcs(x) ==
  LET arcs == nodes[x].connections IN
  {i \in DOMAIN arcs : /\ x \in arcs[i].children
                      /\ \A j \in 1..(i-1) : ArcStatus(arcs[j]) # "Solved"}

----------------------------------------------------------------------------
(***************************************************************************)
(* find_a_tip_node walks the marked connectors from the root, smallest id  *)
(* first, and stops at the first node that is not expanded.  A node that   *)
(* is expanded but whose marks lead nowhere is remembered: its label is    *)
(* stale, and revising it is the next thing to do.  (The depth and cost    *)
(* the code compares with are never updated, so that the last such node    *)
(* wins.)  The walk borrows the node it looks at mutably while it reads    *)
(* the labels of the marked children: see WalkBorrowsOnce.                 *)
(***************************************************************************)
BeginIteration ==
  /\ pc = "loop"
  /\ ~IsTerminal(root)
  /\ pc' = "find"
  /\ work' = {root}
  /\ tip' = 0
  /\ UNCHANGED <<problem, nodes, front, built, next, policy>>

FindSkipsTerminal(x) ==
  /\ IsTerminal(x)
  /\ work' = work \ {x}
  /\ UNCHANGED <<tip, pc>>

FindReturns(x) ==
  /\ ~IsTerminal(x)
  /\ nodes[x].connections = <<>>
  /\ tip' = x
  /\ pc' = "expand"
  /\ work' = {}

FindFollowsMark(x) ==
  /\ ~IsTerminal(x)
  /\ \E i \in FirstMarked(x) :
       /\ ArcStatus(nodes[x].connections[i]) = "OnGoing"
       /\ work' = (work \ {x}) \cup nodes[x].connections[i].children
  /\ UNCHANGED <<tip, pc>>

FindForgets(x) ==   \* seeded fault: no candidate, as if every mark led to a tip
  /\ ~IsTerminal(x)
  /\ nodes[x].connections # <<>>
  /\ \A i \in FirstMarked(x) : ArcStatus(nodes[x].connections[i]) # "OnGoing"
  /\ work' = work \ {x}
  /\ UNCHANGED <<tip, pc>>

FindRemembers(x) ==
  /\ ~IsTerminal(x)
  /\ nodes[x].connections # <<>>
  /\ \A i \in FirstMarked(x) : ArcStatus(nodes[x].connections[i]) # "OnGoing"
  /\ tip' = x
  /\ work' = work \ {x}
  /\ UNCHANGED pc

FindStep ==
  /\ pc = "find"
  /\ \E x \in work :
       /\ \A y \in work : x <= y
       /\ \/ FindSkipsTerminal(x)
          \/ FindReturns(x)
          \/ FindFollowsMark(x)
          \/ FindRemembers(x)
  /\ UNCHANGED <<problem, nodes, front, built, next, policy>>

FindEnds ==
  /\ pc = "find"
  /\ work = {}
  /\ pc' = IF tip = 0 THEN "panic" ELSE "expand"
  /\ UNCHANGED <<problem, nodes, front, work, tip, built, next, policy>>

----------------------------------------------------------------------------
(***************************************************************************)
(* expand: nothing for a node that has connections; a label for a node     *)
(* without successors; otherwise one connector per expansion, filled one   *)
(* outcome at a time.                                                      *)
(***************************************************************************)
Expansions == problem.expansions[nodes[tip].config]

BeginRevision == pc' = "revise" /\ work' = {tip}

ExpandSkips ==
  /\ pc = "expand"
  /\ nodes[tip].connections # <<>>
  /\ BeginRevision
  /\ UNCHANGED <<problem, nodes, front, tip, built, next, policy>>

(* mark_as_terminal *)
ExpandTerminal ==
  /\ pc = "expand"
  /\ nodes[tip].connections = <<>>
  /\ Expansions = <<>>
  /\ nodes' = [nodes EXCEPT ![tip] =
                 IF @.config \in problem.goal
                 THEN [@ EXCEPT !.status = "Solved", !.cost = 0, !.prob = One]
                 ELSE [@ EXCEPT !.status = "Failed", !.cost = Inf, !.prob = 0]]
  /\ BeginRevision
  /\ UNCHANGED <<problem, front, tip, built, next, policy>>

ExpandBegins ==
  /\ pc = "expand"
  /\ nodes[tip].connections = <<>>
  /\ Expansions # <<>>
  /\ built' = <<EmptyConnector>>
  /\ next' = 1
  /\ pc' = "outcomes"
  /\ UNCHANGED <<problem, nodes, front, work, tip, policy>>

(* children and outcome_probs of the last connector gain id; an id that is *)
(* there already has its probability overwritten.                          *)
AddChildOnly(id, p) ==   \* seeded fault: the probability is not recorded
  built' = [built EXCEPT ![Len(built)].children = @ \cup {id}]

AddChild(id, p) ==
  LET last  == built[Len(built)]
      probs == [k \in last.children \cup {id} |->
                  IF k = id THEN p ELSE last.outcomeProbs[k]]
  IN  built' = [built EXCEPT ![Len(built)] =
                  [children     |-> last.children \cup {id},
                   outcomeProbs |-> probs,
                   marked       |-> last.marked]]

(* visited() looks at one node only, the first of the iteration. *)
Visited(config) == nodes[front].config = config

Outcome == Expansions[Len(built)][next]

(***************************************************************************)
(* The outcome is the configuration of the first node: that node becomes a *)
(* child.  add_parent records nothing, and panics on the root.             *)
(***************************************************************************)
OutcomeMerges ==
  /\ pc = "outcomes"
  /\ next \in DOMAIN Expansions[Len(built)]
  /\ Visited(Outcome.to)
  /\ IF nodes[front].parent = NoParent
     THEN pc' = "panic" /\ UNCHANGED <<built, next>>
     ELSE AddChild(front, Outcome.p) /\ next' = next + 1 /\ UNCHANGED pc
  /\ UNCHANGED <<problem, nodes, front, work, tip, policy>>

(* The label, cost and probability a new node starts with. *)
NewNodeNoChance(config) ==   \* seeded fault: a new goal keeps probability 0
  [config |-> config, parent |-> tip, connections |-> <<>>,
   depth  |-> nodes[tip].depth + 1, cost |-> problem.h[config], prob |-> 0,
   status |-> IF config \in problem.goal THEN "Solved"
              ELSE IF problem.h[config] = Inf THEN "Failed" ELSE "OnGoing"]

NewNode(config) ==
  LET h == problem.h[config] IN
  [config |-> config, parent |-> tip, connections |-> <<>>,
   depth  |-> nodes[tip].depth + 1,
   cost   |-> IF config \in problem.goal THEN 0 ELSE h,
   status |-> IF config \in problem.goal THEN "Solved"
              ELSE IF h = Inf THEN "Failed" ELSE "OnGoing",
   prob   |-> IF config \in problem.goal THEN One ELSE 0]

(***************************************************************************)
(* Otherwise a node is inserted.  It may come first in the iteration, or   *)
(* the first node stays; when the table grows, any node may come first.    *)
(* The table has room for 3 entries, then for 7/8 of a power of two: it    *)
(* grows with entries 4, 8, 15, 29, 57, ...                                *)
(***************************************************************************)
TableGrowsAt(id) == id = 4 \/ \E k \in 0..(id \div 7) : id = 7 * 2^k + 1

OutcomeInserts ==
  LET id == Len(nodes) + 1 IN
  /\ pc = "outcomes"
  /\ next \in DOMAIN Expansions[Len(built)]
  /\ ~Visited(Outcome.to)
  /\ id <= MaxNodes
  /\ nodes' = Append(nodes, NewNode(Outcome.to))
  /\ front' \in IF TableGrowsAt(id) THEN 1..id ELSE {front, id}
  /\ AddChild(id, Outcome.p)
  /\ next' = next + 1
  /\ UNCHANGED <<problem, pc, work, tip, policy>>

NextConnector ==
  /\ pc = "outcomes"
  /\ next \notin DOMAIN Expansions[Len(built)]
  /\ Len(built) < Len(Expansions)
  /\ built' = Append(built, EmptyConnector)
  /\ next' = 1
  /\ UNCHANGED <<problem, nodes, front, pc, work, tip, policy>>

ExpandEnds ==
  /\ pc = "outcomes"
  /\ next \notin DOMAIN Expansions[Len(built)]
  /\ Len(built) = Len(Expansions)
  /\ nodes' = [nodes EXCEPT ![tip].connections = built]
  /\ built' = <<>>
  /\ next' = 1
  /\ BeginRevision
  /\ UNCHANGED <<problem, front, tip, policy>>

----------------------------------------------------------------------------
(***************************************************************************)
(* backward_cost_revision takes the deepest node of its working set, the   *)
(* one with the smallest id among those, revises it, and goes on with its  *)
(* parents.  parents holds only the node that created it.                  *)
(***************************************************************************)
IsDeepest(x) ==
  \A y \in work : \/ nodes[y].depth < nodes[x].depth
                  \/ nodes[y].depth = nodes[x].depth /\ x <= y

Parents(x) == {nodes[x].parent} \ {NoParent}

(* revise_node_cost on a node that has its label already. *)
ReviseTerminal(x) ==
  /\ IsTerminal(x)
  /\ nodes' = [nodes EXCEPT ![x] =
                 IF @.status = "Solved"
                 THEN [@ EXCEPT !.cost = 0, !.prob = One]
                 ELSE [@ EXCEPT !.cost = Inf, !.prob = 0]]
  /\ work' = (work \ {x}) \cup Parents(x)
  /\ UNCHANGED pc

ReviseFails(x) ==
  /\ ~IsTerminal(x)
  /\ ChildrenStatus(nodes[x].connections) = "Failed"
  /\ nodes' = [nodes EXCEPT ![x] =
                 [@ EXCEPT !.status = "Failed", !.cost = Inf, !.prob = 0,
                           !.connections = ClearMarks(nodes[x].connections)]]
  /\ work' = (work \ {x}) \cup Parents(x)
  /\ UNCHANGED pc

ReviseSolves(x) ==
  LET arcs == nodes[x].connections
      best == BestArc(arcs)
  IN  /\ ~IsTerminal(x)
      /\ SelfArcs(x) = {}
      /\ ChildrenStatus(arcs) = "Solved"
      /\ nodes' = [nodes EXCEPT ![x] =
                     [@ EXCEPT !.status = "Solved", !.cost = ArcCost(arcs[best]),
                               !.prob = ArcProbability(arcs[best]),
                               !.connections = Mark(arcs, best)]]
      /\ work' = (work \ {x}) \cup Parents(x)
      /\ UNCHANGED pc

(* Neither: mark the best connector, and tell the parents what changed. *)
ReviseOnGoing(x) ==
  LET arcs == nodes[x].connections
      best == BestArc(arcs)
      cost == ArcCost(arcs[best])
      prob == ArcProbability(arcs[best])
      changed == nodes[x].cost # cost \/ nodes[x].prob # prob
  IN  /\ ~IsTerminal(x)
      /\ SelfArcs(x) = {}
      /\ ChildrenStatus(arcs) = "OnGoing"
      /\ cost # Inf
      /\ nodes' = [nodes EXCEPT ![x] =
                     [@ EXCEPT !.cost = cost, !.prob = prob,
                               !.connections = Mark(arcs, best)]]
      /\ work' = (work \ {x}) \cup (IF changed THEN Parents(x) ELSE {})
      /\ UNCHANGED pc

(* Reading itself as a child, or no connector of finite cost. *)
RevisePanics(x) ==
  LET arcs == nodes[x].connections IN
  /\ ~IsTerminal(x)
  /\ \/ SelfArcs(x) # {}
     \/ /\ ChildrenStatus(arcs) = "OnGoing"
        /\ ArcCost(arcs[BestArc(arcs)]) = Inf
  /\ pc' = "panic"
  /\ UNCHANGED <<nodes, work>>

ReviseStep ==
  /\ pc = "revise"
  /\ \E x \in work :
       /\ IsDeepest(x)
       /\ \/ ReviseTerminal(x)
          \/ ReviseFails(x)
          \/ ReviseSolves(x)
          \/ ReviseOnGoing(x)
          \/ RevisePanics(x)
  /\ UNCHANGED <<problem, front, tip, built, next, policy>>

ReviseEnds ==
  /\ pc = "revise"
  /\ work = {}
  /\ pc' = "loop"
  /\ UNCHANGED <<problem, nodes, front, work, tip, built, next, policy>>

(* is_terminated, and search_result: a policy is extracted if there is one. *)
Terminate ==
  /\ pc = "loop"
  /\ IsTerminal(root)
  /\ IF nodes[root].status = "Solved"
     THEN pc' = "extract" /\ work' = {root}
     ELSE pc' = "done" /\ UNCHANGED work
  /\ UNCHANGED <<problem, nodes, front, tip, built, next, policy>>

----------------------------------------------------------------------------
(***************************************************************************)
(* StrongPolicy::new visits each node below the root once, following the   *)
(* marked connectors.  The children of a connector come in the order of a  *)
(* HashSet, so any node of the working set may be next.  That an expanded  *)
(* node has no mark is unreachable!().  (The transitions of the policy are *)
(* the visited nodes that have connections; its makespan is the greatest   *)
(* depth of these.)                                                        *)
(***************************************************************************)
ExtractSkips(x) ==
  /\ x \in policy
  /\ work' = work \ {x}
  /\ UNCHANGED <<policy, pc>>

ExtractVisits(x) ==
  /\ x \notin policy
  /\ policy' = policy \cup {x}
  /\ work' = (work \ {x}) \cup
               UNION {nodes[x].connections[i].children : i \in FirstMarked(x)}
  /\ pc' = IF nodes[x].connections # <<>> /\ MarkedArcs(x) = {} THEN "panic" ELSE pc

ExtractStep ==
  /\ pc = "extract"
  /\ \E x \in work : ExtractSkips(x) \/ ExtractVisits(x)
  /\ UNCHANGED <<problem, nodes, front, tip, built, next>>

ExtractEnds ==
  /\ pc = "extract"
  /\ work = {}
  /\ pc' = "done"
  /\ UNCHANGED <<problem, nodes, front, work, tip, built, next, policy>>

----------------------------------------------------------------------------
Find   == BeginIteration \/ FindStep \/ FindEnds
Expand == \/ ExpandSkips \/ ExpandTerminal \/ ExpandBegins \/ OutcomeMerges
          \/ OutcomeInserts \/ NextConnector \/ ExpandEnds
Revise == ReviseStep \/ ReviseEnds
Extract == ExtractStep \/ ExtractEnds

Next == Find \/ Expand \/ Revise \/ Terminate \/ Extract

Spec == Init /\ [][Next]_vars

(* The search is one thread that nothing else schedules: it keeps running. *)
FairSpec == Spec /\ WF_vars(Next)

----------------------------------------------------------------------------
(***************************************************************************)
(* Type invariant.                                                         *)
(***************************************************************************)
IsConnector(arc) ==
  /\ arc = [children |-> arc.children, outcomeProbs |-> arc.outcomeProbs,
            marked |-> arc.marked]
  /\ arc.children \subseteq Id
  /\ arc.outcomeProbs \in [arc.children -> 1..One]
  /\ arc.marked \in BOOLEAN

TypeOK ==
  /\ IsProblem(problem)
  /\ \A x \in Id :
       /\ nodes[x].config \in Config
       /\ nodes[x].parent \in {NoParent} \cup Id
       /\ nodes[x].status \in {"OnGoing", "Solved", "Failed"}
       /\ nodes[x].cost \in 0..Inf
       /\ nodes[x].prob \in 0..One
       /\ \A i \in DOMAIN nodes[x].connections : IsConnector(nodes[x].connections[i])
  /\ front \in Id
  /\ pc \in {"loop", "find", "expand", "outcomes", "revise", "extract", "done", "panic"}
  /\ work \subseteq Id
  /\ policy \subseteq Id
  /\ tip \in {0} \cup Id
  /\ \A i \in DOMAIN built : IsConnector(built[i])

Planning ==
  INSTANCE StrongPlanning WITH
    verdict <- IF pc # "done" THEN "none"
               ELSE IF nodes[root].status = "Solved" THEN "Success" ELSE "NoSolution"

(***************************************************************************)
(* A node is labelled Solved only if a strong policy exists from it,       *)
(* although parents merge nodes, labels go stale, and a solved node is     *)
(* never looked at again.                                                  *)
(***************************************************************************)
ConfigsLabelled(status) == {nodes[x].config : x \in {y \in Id : nodes[y].status = status}}

SolvedSound == ConfigsLabelled("Solved") \subseteq Planning!Solvable(problem)

(***************************************************************************)
(* A node is labelled Failed only if no strong policy exists from it, when *)
(* the heuristic is infinite only on such configurations.                  *)
(***************************************************************************)
SafeHeuristic(prob) ==
  {c \in Config : prob.h[c] = Inf} \cap Planning!Solvable(prob) = {}

FailedSound ==
  SafeHeuristic(problem) =>
    ConfigsLabelled("Failed") \cap Planning!Solvable(problem) = {}

(***************************************************************************)
(* The policy that search_result extracts once the root is solved is       *)
(* strong: each node it visits has one marked connector, all of whose      *)
(* children it visits too (StrongPolicy::new calls the absence of a mark   *)
(* unreachable), or is a goal; and it cannot be followed for ever.         *)
(***************************************************************************)
MarkedChildren(x) ==
  UNION {nodes[x].connections[i].children : i \in MarkedArcs(x)}

PolicyIsStrong ==
  /\ pc = "extract" =>
       \A x \in work : nodes[x].connections # <<>> => MarkedArcs(x) # {}
  /\ pc = "done" /\ nodes[root].status = "Solved" =>
       /\ root \in policy
       /\ \A x \in policy :
            IF nodes[x].connections = <<>>
            THEN nodes[x].config \in problem.goal
            ELSE Cardinality(MarkedArcs(x)) = 1 /\ MarkedChildren(x) \subseteq policy
       /\ \A S \in SUBSET policy :
            S # {} => \E x \in S : MarkedChildren(x) \cap S = {}

(***************************************************************************)
(* None of the panics of the search can happen: "empty node connection",   *)
(* when all connectors of an unlabelled node cost infinity, a borrow of a  *)
(* node by itself, no tip node.  ("Attempting to add parent to root" is    *)
(* excluded by IsProblem: no expansion leads back to the root.)            *)
(***************************************************************************)
NeverPanics == pc # "panic"

(***************************************************************************)
(* Recursion is to blame if one does, and then a revision met it: the walk *)
(* to a tip always finds a node, extraction finds every mark it needs, and *)
(* a configuration other than the root's never merges into the root.       *)
(***************************************************************************)
OnlyRevisionPanics == [][pc' = "panic" => pc \in {"revise", "panic"}]_vars

(***************************************************************************)
(* find_a_tip_node never meets a node whose marked connector has the node  *)
(* itself as a child, which it has borrowed: expanding a configuration     *)
(* into itself ends the search in the revision that follows at once.       *)
(***************************************************************************)
WalkBorrowsOnce ==
  pc = "find" =>
    \A x \in Id : nodes[x].status = "OnGoing" => x \notin MarkedChildren(x)

(***************************************************************************)
(* find_a_tip_node returns.  (It need not when the marks close a cycle:    *)
(* the walk does not remember which nodes it has seen.)                    *)
(***************************************************************************)
WalkEnds == (pc = "find") ~> (pc # "find")

(***************************************************************************)
(* A label is for good: no later revision takes back Solved or Failed, or  *)
(* moves the mark of a solved node, which the policy relies on.            *)
(***************************************************************************)
LabelsAreFinal ==
  [][\A x \in Id : nodes[x].status # "OnGoing" =>
        /\ nodes'[x].status = nodes[x].status
        /\ nodes'[x].connections = nodes[x].connections]_vars

(***************************************************************************)
(* The success probability of a solved node is 1: a strong policy succeeds *)
(* surely.                                                                 *)
(***************************************************************************)
SolvedSucceedsSurely ==
  \A x \in Id : nodes[x].status = "Solved" => nodes[x].prob = One

(***************************************************************************)
(* The search implements its promise: it ends, with "Success" if and only  *)
(* if the initial configuration has a strong policy.                       *)
(***************************************************************************)
SearchAnswers == Planning!Spec

=============================================================================
