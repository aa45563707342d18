--------------------------- MODULE StrongPlanning ---------------------------
(***************************************************************************)
(* What a search for a strong policy promises.                             *)
(*                                                                         *)
(* A planning problem is a graph of configurations: a configuration is a   *)
(* task network and a state up to isomorphism, a goal is a configuration   *)
(* whose network is empty.  In a configuration the planner chooses one of  *)
(* the expansions of progress(), and the environment one of its outcomes.  *)
(* A configuration is solvable when some choice reaches a goal whatever    *)
(* the outcomes, in a bounded number of steps.                             *)
(***************************************************************************)
EXTENDS Integers, Sequences

CONSTANT Config   \* configurations

(* The configurations an expansion may lead to. *)
Targets(expansion) == {expansion[k].to : k \in DOMAIN expansion}

(* S holds the goals and every configuration with an expansion into S. *)
ClosedBackwards(prob, S) ==
  /\ prob.goal \subseteq S
  /\ \A c \in Config :
       (\E i \in DOMAIN prob.expansions[c] : Targets(prob.expansions[c][i]) \subseteq S)
       => c \in S

(* The least such set. *)
Solvable(prob) ==
  {c \in Config : \A S \in SUBSET Config : ClosedBackwards(prob, S) => c \in S}

----------------------------------------------------------------------------
VARIABLES
  problem,   \* the problem, fixed
  verdict    \* "none" until the search answers

vars == <<problem, verdict>>

Init == verdict = "none"

(* The search answers once, and rightly. *)
Answer ==
  /\ verdict = "none"
  /\ verdict' = IF problem.root \in Solvable(problem) THEN "Success" ELSE "NoSolution"
  /\ UNCHANGED problem

Spec == Init /\ [][Answer]_vars /\ WF_vars(Answer)

=============================================================================
