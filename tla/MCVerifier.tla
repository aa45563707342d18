----------------------------- MODULE MCVerifier -----------------------------
(***************************************************************************)
(* Plans for Verifier.  A parcel is taken and put down (move), looked at   *)
(* (check) or handed to a person that the method leaves open (give);       *)
(* tickets are punched twice and shown once (ride), in an order that the   *)
(* method leaves partly open.  MCPlans varies the order of the primitive   *)
(* plan, the subtasks, arguments, methods, numbers and the problem.        *)
(***************************************************************************)
EXTENDS Verifier

True == [op |-> "true"]
At(p, args) == [op |-> "atom", pred |-> p, args |-> args, pos |-> TRUE]
Not(p, args) == [op |-> "atom", pred |-> p, args |-> args, pos |-> FALSE]
All(subs) == [op |-> "and", subs |-> subs]
When(c, e) == [op |-> "when", cond |-> c, body |-> e]
OfSort(v, s) == [op |-> "sort", var |-> v, sort |-> s, pos |-> TRUE]
Differ(v, w) == [op |-> "eq", left |-> v, right |-> w, pos |-> FALSE]
Some(v, s, f) == [op |-> "exists", var |-> v, sort |-> s, body |-> f]
Each(v, s, f) == [op |-> "forall", var |-> v, sort |-> s, body |-> f]

X == <<"?x", "o">>
Prim(vs, prec, eff) == [vars |-> vs, prec |-> prec, eff |-> eff]

Primitives ==
  [n \in {"take", "put", "look", "punch", "show"} |->
     CASE n = "take" -> Prim(<<X>>, Not("held", <<"?x">>), At("held", <<"?x">>))
       [] n = "put" -> Prim(<<X>>, At("held", <<"?x">>),
                            All(<<Not("held", <<"?x">>), At("there", <<"?x">>)>>))
       [] n = "look" -> Prim(<<>>, Some("?z", "o", At("held", <<"?z">>)), True)
       [] n = "punch" -> Prim(<<>>, True, All(<<When(At("one", <<>>), At("two", <<>>)), At("one", <<>>)>>))
       [] n = "show" -> Prim(<<>>, At("one", <<>>), Each("?z", "o", Not("there", <<"?z">>)))]

T(task, args) == [task |-> task, args |-> args]
Method(name, at, atArgs, vs, prec, eff, constraint, tasks, order) ==
  [name |-> name, at |-> at, atArgs |-> atArgs, vars |-> vs, prec |-> prec, eff |-> eff,
   constraint |-> constraint, tasks |-> tasks, order |-> order]

Methods(top, order) ==
  {Method("__top_method", "__top", <<>>, "?x" :> "o" @@ "?y" :> "o", True, True, True, top, order),
   Method("carry", "move", <<"?x">>, "?x" :> "o", True, True, True,
          <<T("take", <<"?x">>), T("put", <<"?x">>)>>, {<<1, 2>>}),
   Method("swap", "move", <<"?x">>, "?x" :> "o" @@ "?y" :> "o", True, True, Differ("?x", "?y"),
          <<T("take", <<"?x">>), T("take", <<"?y">>)>>, {}),
   Method("stay", "move", <<"?x">>, "?x" :> "o", At("there", <<"?x">>), True, True, <<>>, {}),
   Method("glance", "check", <<>>, "?w" :> "o", At("held", <<"?w">>), True, True,
          <<T("look", <<>>)>>, {}),
   Method("sign", "check", <<>>, "?w" :> "o" @@ "?u" :> "none", True, At("signed", <<>>), True, <<>>, {}),
   Method("mark", "check", <<>>, <<>>, True, At("signed", <<>>), True, <<>>, {}),
   Method("hand", "give", <<>>, "?y" :> "o", At("held", <<"?y">>), True, OfSort("?y", "o"), <<>>, {}),
   Method("ticket", "ride", <<>>, <<>>, True, True, True,
          <<T("punch", <<>>), T("punch", <<>>), T("show", <<>>)>>, {<<1, 3>>})}

Abstract == [n \in {"__top", "move", "check", "give", "ride"} |-> IF n = "move" THEN <<X>> ELSE <<>>]

Problem(top, order, init, goal, p) ==
  [sorts |-> "o" :> {"a", "b"} @@ "none" :> {}, primitive |-> Primitives, abstract |-> Abstract,
   methods |-> Methods(top, order), init |-> init, goal |-> goal, plan |-> p]

P(name, args) == [name |-> name, args |-> args, primitive |-> TRUE]
A(name, args) == [name |-> name, args |-> args, primitive |-> FALSE]
Plan(tasks, prims, roots, applied, subs) ==
  [tasks |-> tasks, prims |-> prims, roots |-> roots, applied |-> applied, subs |-> subs]

Orders(S) == SetToSeqs(S)

(* move a and check in either order, with the methods, the subtasks and    *)
(* the arguments of the primitive steps varying: most plans are wrong.     *)
MoveCases ==
  {Problem(<<T("move", <<"?x">>), T("check", <<>>)>>, order, init, goal,
     Plan(0 :> P("take", <<"a">>) @@ 1 :> P(second, <<y>>) @@ 2 :> P("look", <<>>)
            @@ 3 :> A("move", <<"a">>) @@ 4 :> A("check", <<>>),
          prims, <<3, 4>>, 3 :> m @@ 4 :> "glance", 3 :> sub @@ 4 :> <<2>>)) :
     order \in {{}, {<<1, 2>>}}, init \in {{}, {<<"held", <<"b">>>>}},
     goal \in {True, At("there", <<"a">>)}, y \in {"a", "b"}, second \in {"take", "put"},
     prims \in SetToSeqs({0, 1, 2}), m \in {"carry", "swap"}, sub \in {<<0, 1>>, <<1, 0>>}}

(* Methods without subtasks: mark has an effect, sign one that is never    *)
(* instantiated, stay a precondition.                                      *)
EmptyCases ==
  {Problem(<<T("move", <<"?x">>), T("check", <<>>), T("take", <<"?y">>)>>, order, init, goal,
     Plan(0 :> P("take", <<y>>) @@ 3 :> A("move", <<"a">>) @@ 4 :> A("check", <<>>),
          <<0>>, <<3, 4, 0>>, 3 :> "stay" @@ 4 :> c, 3 :> <<>> @@ 4 :> <<>>)) :
     order \in {{}, {<<1, 2>>}, {<<3, 1>>}}, init \in {{}, {<<"there", <<"a">>>>}},
     goal \in {True, At("signed", <<>>)}, y \in {"a", "b"}, c \in {"mark", "sign"}}

(* give leaves its person open, ride can punch in two ways. With both, the *)
(* ticket is shown last, so that no matching of ride is in a wrong order.  *)
Give(give, ride, init, goal, prims) ==
  Problem(IF give /\ ride THEN <<T("give", <<>>), T("ride", <<>>)>>
          ELSE IF give THEN <<T("give", <<>>)>> ELSE <<T("ride", <<>>)>>, {}, init, goal,
    Plan((IF ride THEN 0 :> P("punch", <<>>) @@ 1 :> P("punch", <<>>) @@ 2 :> P("show", <<>>)
                       @@ 4 :> A("ride", <<>>) ELSE <<>>)
           @@ (IF give THEN 3 :> A("give", <<>>) ELSE <<>>),
         IF ride THEN prims ELSE <<>>,
         (IF give THEN <<3>> ELSE <<>>) \o (IF ride THEN <<4>> ELSE <<>>),
         (IF give THEN 3 :> "hand" ELSE <<>>) @@ (IF ride THEN 4 :> "ticket" ELSE <<>>),
         (IF give THEN 3 :> <<>> ELSE <<>>) @@ (IF ride THEN 4 :> <<0, 1, 2>> ELSE <<>>)))

HeldInits == {{}, {<<"held", <<"a">>>>}, {<<"held", <<"b">>>>}}
TicketGoals == {At("two", <<>>), At("there", <<"a">>)}

ChoiceCases ==
  {Give(TRUE, FALSE, init, True, <<>>) : init \in HeldInits}
  \cup {Give(FALSE, TRUE, {}, goal, prims) : goal \in TicketGoals, prims \in SetToSeqs({0, 1, 2})}
  \cup {Give(TRUE, TRUE, init, goal, prims) :
          init \in HeldInits, goal \in TicketGoals, prims \in {<<0, 1, 2>>, <<1, 0, 2>>}}

(* The root's subtasks can be matched in two ways.                         *)
Twice(tasks, prims, goal) ==
  Problem(<<T("punch", <<>>), T("punch", <<>>)>>, {}, {}, goal,
          Plan(tasks, prims, <<0, 1>>, <<>>, <<>>))
Punched == 0 :> P("punch", <<>>) @@ 1 :> P("punch", <<>>)

RootCases ==
  {Twice(Punched, <<0, 1>>, At("two", <<>>)), Twice(Punched, <<1, 0>>, At("one", <<>>)),
   Twice(Punched @@ 3 :> P("punch", <<>>), <<0, 1, 3>>, At("there", <<"a">>))}

(* A plan that is right, and the damages that the checks are there for; a  *)
(* step between two others without subtasks of its own, with the two in    *)
(* the wrong order.                                                        *)
Right == Plan(0 :> P("take", <<"a">>) @@ 1 :> P("put", <<"a">>) @@ 2 :> A("move", <<"a">>)
                @@ 3 :> A("__top", <<>>),
              <<0, 1>>, <<3>>, 2 :> "carry" @@ 3 :> "__top_method", 2 :> <<0, 1>> @@ 3 :> <<2>>)

Damaged ==
  {Right, [Right EXCEPT !.subs[2] = <<0, 7>>], [Right EXCEPT !.subs[2] = <<0, 2>>],
   [Right EXCEPT !.subs[2] = <<0, 0>>], [Right EXCEPT !.roots = <<2>>],
   [Right EXCEPT !.roots = <<>>], [Right EXCEPT !.tasks[0].primitive = FALSE],
   [Right EXCEPT !.tasks[0].name = "drop"], [Right EXCEPT !.tasks[0].args = <<>>],
   [Right EXCEPT !.tasks[0].args = <<"c">>], [Right EXCEPT !.tasks[0].args = <<"b">>],
   [Right EXCEPT !.tasks[0].args = <<"a", "b">>], [Right EXCEPT !.applied[2] = "mark"], [Right EXCEPT !.applied[2] = "none"],
   [Right EXCEPT !.tasks = 4 :> P("look", <<>>) @@ @, !.prims = <<0, 4, 1>>],
   [Right EXCEPT !.subs[2] = <<0, 1, 1>>]}

DamageCases == {Problem(<<T("move", <<"?x">>)>>, {}, {}, True, p) : p \in Damaged}

MiddleCases ==
  {Problem(<<T("take", <<"?x">>), T("check", <<>>), T("put", <<"?x">>)>>, {<<1, 2>>, <<2, 3>>}, {}, True,
     Plan(0 :> P("take", <<"a">>) @@ 1 :> P("put", <<"a">>) @@ 2 :> A("check", <<>>),
          prims, <<0, 2, 1>>, 2 :> "mark", 2 :> <<>>)) : prims \in {<<0, 1>>, <<1, 0>>}}

MCPlans ==
  MoveCases \cup EmptyCases \cup ChoiceCases \cup RootCases \cup DamageCases \cup MiddleCases

(* All matchings of the root are refuted; a step with a forbidden and a    *)
(* wrongly ordered matching follows a choice.                              *)
MCRefutedRoot == {Twice(Punched, <<0, 1>>, At("there", <<"a">>))}
MCOneForbidden == {Give(TRUE, TRUE, init, True, <<0, 2, 1>>) : init \in HeldInits}
=============================================================================
