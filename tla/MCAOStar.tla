------------------------------ MODULE MCAOStar ------------------------------
(***************************************************************************)
(* Small families of problems for AOStar.  A problem is acyclic when every *)
(* expansion leads to a higher configuration; configuration 1 is the root. *)
(***************************************************************************)
EXTENDS AOStar, TLC

Half == One \div 2

(* An expansion to one configuration, and one to two with equal odds. *)
Sure(c)    == <<[to |-> c, p |-> One]>>
Coin(c, d) == <<[to |-> c, p |-> Half], [to |-> d, p |-> One - Half]>>

Problem(exps, goals, h) ==
  [root |-> 1, expansions |-> exps, goal |-> goals, h |-> h]

(***************************************************************************)
(* Four configurations.  The root has one or two expansions, the second up *)
(* to two, the third perhaps one, to the fourth; the third and the fourth  *)
(* may be goals or dead ends.  The heuristic is blind, or informed (and    *)
(* inadmissible), or detects that the fourth is a dead end.                *)
(***************************************************************************)
Roots ==
  {<<Coin(2, 3)>>, <<Sure(2), Sure(3)>>, <<Coin(2, 4), Sure(3)>>,
   <<Coin(3, 2), Coin(2, 4)>>, <<Coin(2, 3), Sure(2)>>}

Seconds ==
  {<<>>, <<Sure(3)>>, <<Coin(3, 4)>>, <<Sure(4), Sure(3)>>, <<Coin(4, 3), Sure(3)>>}

Thirds == {<<>>, <<Sure(4)>>}

Heuristics(goals) ==
  {<<0, 0, 0, 0>>, <<0, 1, 3, IF 4 \in goals THEN 0 ELSE Inf>>}

MCProblems ==
  UNION {{Problem(<<r, s, t, <<>>>>, g, h) : h \in Heuristics(g)} :
           <<r, s, t, g>> \in {q \in Roots \X Seconds \X Thirds \X (SUBSET {3, 4}) :
                                3 \in q[4] => q[3] = <<>>}}

(***************************************************************************)
(* Recursion: the second and the third configuration lead to themselves or *)
(* to each other, with or without a way out through the fourth, or the     *)
(* third is a dead end.                                                    *)
(***************************************************************************)
Recursions(c, d) ==
  {<<Sure(d)>>, <<Sure(4), Sure(c)>>, <<Sure(c), Sure(4)>>, <<Coin(d, 4)>>,
   <<Coin(c, 4), Sure(4)>>}

MCCyclicProblems ==
  {Problem(<<q[1], q[2], q[3], <<>>>>, q[4], q[5]) :
     q \in {<<Sure(2)>>, <<Coin(2, 3)>>, <<Sure(2), Coin(3, 4)>>}
          \X Recursions(2, 3) \X ({<<>>} \cup Recursions(3, 2)) \X {{}, {4}}
          \X {<<0, 0, 0, 0>>, <<0, 3, 1, 0>>}}

(***************************************************************************)
(* An action both of whose outcomes lead to one configuration, as happens  *)
(* when the effects they differ in hold already.                           *)
(***************************************************************************)
MCDuplicateProblems ==
  {Problem(<<r, s, t, <<>>>>, {4}, <<0, 0, 0, 0>>) :
     <<r, s, t>> \in {<<Coin(2, 3)>>, <<Sure(2), Sure(3)>>}
                    \X {<<Coin(3, 3)>>, <<Coin(4, 4)>>, <<Sure(3), Coin(4, 4)>>}
                    \X {<<Coin(4, 4)>>, <<Sure(4)>>}}

=============================================================================
