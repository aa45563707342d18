--------------------------- MODULE MCGroundingPipeline ---------------------------
(***************************************************************************)
(* Small ground problems for GroundingPipeline, each with the options that *)
(* make its features matter: see the comment at each.                      *)
(***************************************************************************)
EXTENDS GroundingPipeline

Abstract(name) ==
  [name |-> name, prim |-> FALSE, pre |-> {}, add |-> {}, del |-> {}, ce |-> FALSE, none |-> {}]
Effect(name, pre, add, del) == [Primitive(name, pre, add, del) EXCEPT !.ce = TRUE]
Method(name, task, sub, ord) ==
  [name |-> name, task |-> task, sub |-> sub, ord |-> ord, seqn |-> <<>>]
InOrder(sub) == {<<i, i + 1>> : i \in 1..(Len(sub) - 1)}
Ordered(name, task, sub) == Method(name, task, sub, InOrder(sub))
Top(sub, ord) == Method(Hidden("__top_method"), 0, sub, ord)
Numbered(seq) == [i \in 0..(Len(seq) - 1) |-> seq[i + 1]]

Problem(tasks, methods, facts, init, goal, bound) ==
  [tasks |-> Numbered(<<Abstract(Hidden("__top"))>> \o tasks), methods |-> Numbered(methods),
   facts |-> facts, guards |-> {}, neg |-> {}, init |-> init, goal |-> goal, top |-> 0,
   fams |-> {}, atoms |-> <<>>, known |-> {}, invariants |-> {}, pt |-> {}, pm |-> {}, pf |-> {}, status |-> "ok",
   bound |-> bound]

Defaults ==
  [facts |-> TRUE, preconditions |-> TRUE, expand |-> TRUE, keepTwo |-> FALSE, contract |-> FALSE,
   two |-> FALSE, duplicates |-> TRUE, noop |-> TRUE, variablesOnly |-> FALSE, negative |-> FALSE,
   h2 |-> FALSE, mode |-> "input", output |-> "planner"]

(* A method whose precondition on a static fact orders its other subtasks, *)
(* used twice; a choice between an empty method and guarded ones; of three *)
(* method preconditions two become one task.                               *)
Deliver ==
  Problem(<<Abstract(Plain("do")), Abstract(Plain("opt")),
            Primitive(MethodPrecondition("do"), {"s"}, {}, {}),
            Primitive(Plain("a"), {"p"}, {"q"}, {}),
            Primitive(Plain("b"), {}, {"r"}, {"q"}),
            Primitive(Plain("c"), {"q"}, {"u"}, {}),
            Primitive(MethodPrecondition("opt1"), {"q"}, {}, {}),
            Primitive(MethodPrecondition("opt2"), {"q"}, {}, {}),
            Primitive(MethodPrecondition("opt3"), {"r"}, {}, {})>>,
          <<Top(<<2, 1, 1>>, {<<2, 1>>}),
            Method(Plain("m-do"), 1, <<3, 5, 4>>, {<<3, 1>>, <<1, 2>>}),
            Method(Plain("m-skip"), 2, <<>>, {}),
            Ordered(Plain("m-opt"), 2, <<7, 6>>),
            Ordered(Plain("m-opt2"), 2, <<8, 6>>),
            Ordered(Plain("m-opt3"), 2, <<9, 5>>)>>,
          {"p", "q", "r", "s", "u"}, {"p", "s"}, {"r", "s"}, 5)

(* Methods that are expanded inside one another, from the outside and from *)
(* the inside; a single empty method; a recursive task; an action the      *)
(* parser compiled into variants, and a plain task with hidden methods.    *)
Nested ==
  Problem(<<Abstract(Plain("w")), Abstract(Plain("x")), Abstract(Plain("y")), Abstract(Plain("e")),
            Abstract(Plain("rec")), Abstract(Plain("v")),
            Primitive(Plain("a"), {}, {"p"}, {}),
            Primitive(Plain("b"), {"p"}, {"q"}, {"p"}),
            Primitive(Variant("v"), {"q"}, {"r"}, {}),
            Primitive(Variant("v"), {"p"}, {"r"}, {})>>,
          <<Top(<<6, 1, 4>>, {<<2, 1>>}),
            Method(Plain("m-w"), 1, <<8, 3, 4>>, {<<2, 1>>}),
            Method(Plain("m-y"), 3, <<5, 2>>, {}),
            Ordered(Plain("m-x"), 2, <<7, 4>>),
            Method(Plain("m-e"), 4, <<>>, {}),
            Ordered(Plain("m-rec"), 5, <<7, 5>>),
            Method(Plain("m-stop"), 5, <<>>, {}),
            Ordered(Hidden("_method_for_multiple_expansions_of_v1"), 6, <<9>>),
            Ordered(Hidden("_method_for_multiple_expansions_of_v2"), 6, <<10>>)>>,
          {"p", "q", "r"}, {}, {"r"}, 4)

(* Long methods, with an unexecutable and an executable block of actions.  *)
Long ==
  Problem(<<Abstract(Plain("t")), Abstract(Plain("n")),
            Primitive(Plain("a"), {"p"}, {"q"}, {"p"}),
            Primitive(Plain("b"), {"q"}, {"r"}, {}),
            Primitive(Plain("c"), {"p"}, {"r"}, {}),
            Primitive(Hidden("__noop"), {}, {}, {}),
            Primitive(Plain("d"), {"r"}, {"p"}, {"r"}), Abstract(Plain("pair"))>>,
          <<Top(<<1, 7, 2>>, InOrder(<<1, 2, 3>>)),
            Ordered(Plain("m-long"), 1, <<3, 4, 6, 7, 2, 5>>),
            Ordered(Plain("m-dead"), 1, <<3, 5>>),
            Ordered(Plain("m-short"), 1, <<5, 6>>),
            Ordered(Plain("m-n"), 2, <<8, 2>>),
            Ordered(Plain("m-pair"), 8, <<5, 7>>),
            Method(Plain("m-end"), 2, <<>>, {})>>,
          {"p", "q", "r"}, {"p"}, {"p"}, 6)

LongOptions ==
  {[Defaults EXCEPT !.contract = c, !.two = w, !.keepTwo = k, !.expand = x, !.duplicates = k] :
     c, w, k \in BOOLEAN, x \in {TRUE, FALSE}}

(* Methods without any order are split as well.                            *)
Unordered ==
  Problem(<<Abstract(Plain("t")),
            Primitive(Plain("a"), {}, {"p"}, {}),
            Primitive(Plain("b"), {"p"}, {"q"}, {}),
            Primitive(Plain("c"), {}, {}, {"p"})>>,
          <<Top(<<1>>, {}),
            Method(Plain("m-bag"), 1, <<2, 3, 4, 3>>, {}),
            Ordered(Plain("m-one"), 1, <<2>>)>>,
          {"p", "q"}, {}, {"q"}, 4)

(* Conditional effects, and effects on a fact and on its negation.         *)
Conditional ==
  [Problem(<<Abstract(Plain("t")),
             Primitive(Plain("a"), {}, {"g1", "p"}, {"p", "not-p"}),
             Effect(Plain("a-1"), {"g1", "q"}, {"r"}, {}),
             Effect(Plain("a-2"), {"g1", "not-p"}, {}, {"r"}),
             Effect(Plain("a-3"), {"g1", "q"}, {}, {"r"}),
             Primitive(Plain("b"), {}, {"g2", "q", "not-p"}, {"p", "not-p"}),
             Effect(Plain("b-1"), {"g2", "p"}, {}, {"q"}),
             Effect(Plain("b-2"), {"g2", "p"}, {"not-p"}, {}),
             Primitive(Plain("c"), {"not-p"}, {}, {"q"})>>,
           <<Top(<<1, 1, 9>>, {<<1, 2>>}),
             Ordered(Plain("m-a"), 1, <<2>>),
             Ordered(Plain("m-b"), 1, <<6>>),
             Ordered(Plain("m-ab"), 1, <<6, 2>>)>>,
           {"p", "not-p", "q", "r", "g1", "g2"}, {"not-p"}, {"r"}, 5)
   EXCEPT !.guards = {"g1", "g2"}, !.neg = {"not-p"}]

(* A conditional effect that cannot win against an unconditional one.      *)
Unsupported ==
  [Problem(<<Primitive(Plain("a"), {}, {"g1"}, {"r"}),
             Effect(Plain("a-1"), {"g1", "q"}, {"r"}, {})>>,
           <<Top(<<1>>, {})>>, {"q", "r", "g1"}, {"q"}, {"r"}, 2)
   EXCEPT !.guards = {"g1"}]

(* The methods with which plan verification is encoded.                    *)
Prefix ==
  Problem(<<Abstract(Plain("t")), Abstract(Hidden("_rest")),
            Primitive(Plain("a"), {}, {"p"}, {}), Primitive(Hidden("__check"), {"p"}, {"q"}, {})>>,
          <<Top(<<1, 2>>, {<<1, 2>>}),
            Ordered(Plain("m-t"), 1, <<3>>), Ordered(Plain("m-t2"), 1, <<3, 1>>),
            Ordered([kind |-> "inter", base |-> "m_prefix_0"], 2, <<4>>),
            Ordered([kind |-> "inter", base |-> "m_prefix_1"], 2, <<1, 4>>)>>,
          {"p", "q"}, {}, {"q"}, 3)

(* Goals that cannot be reached, or are not a fact at all.                 *)
Unreachable(goal) ==
  Problem(<<Primitive(Plain("a"), {}, {"p"}, {"q"}), Primitive(Plain("b"), {"z"}, {"r"}, {})>>,
          <<Top(<<1>>, {})>>, {"p", "q", "r", "z"}, {"q"}, goal, 2)

(* The lifted groups of Places: one place; of each device one value; the   *)
(* place a or away.                                                        *)
Var(x) == [var |-> TRUE, name |-> x]
Object(x) == [var |-> FALSE, name |-> x]
At(args) == [pred |-> "at", args |-> args]
Val(args) == [pred |-> "val", args |-> args]

PlacesAtoms ==
  [f \in {"at-a", "at-b", "at-c", "away", "lit", "dark", "l1", "l2"} |->
     CASE f = "at-a" -> At(<<"a">>) [] f = "at-b" -> At(<<"b">>) [] f = "at-c" -> At(<<"c">>)
       [] f = "lit" -> Val(<<"lamp", "on">>) [] f = "dark" -> Val(<<"lamp", "off">>)
       [] f = "l1" -> Val(<<"load", "one">>) [] f = "l2" -> Val(<<"load", "two">>)
       [] f = "away" -> [pred |-> "away", args |-> <<>>]]

PlacesFams ==
  {[lits |-> {At(<<Var("p")>>)}, sort |-> [v \in {"p"} |-> {"a", "b", "c"}], free |-> {}],
   [lits |-> {Val(<<Var("d"), Var("v")>>)}, free |-> {"d"},
    sort |-> [v \in {"d", "v"} |-> IF v = "d" THEN {"lamp", "load"} ELSE {"on", "off", "one", "two"}]],
   [lits |-> {At(<<Object("a")>>), [pred |-> "away", args |-> <<>>]}, sort |-> <<>>, free |-> {}]}

(* Mutex groups: at most one place; at most one load, or none; a fact that *)
(* stands for all places but one, alone or with a second fact; an action   *)
(* that asks for two places, and another that only it enables.             *)
Places ==
  [Problem(<<Abstract(Plain("go")), Abstract(Plain("trip")),
             Primitive(Plain("ab"), {"at-a"}, {"at-b", "away", "dark"}, {"at-a", "home", "lit"}),
             Primitive(Plain("bc"), {"at-b"}, {"at-c"}, {"at-b"}),
             Primitive(Plain("ba"), {"away", "at-b"}, {"at-a", "home", "lit"}, {"at-b", "away", "dark"}),
             Primitive(Plain("load"), {"home"}, {"l1"}, {"l2"}),
             Primitive(Plain("drop"), {"l1", "away"}, {"done"}, {"l1", "l2"}),
             Primitive(Plain("both"), {"at-a", "at-b"}, {"magic"}, {}),
             Primitive(Plain("cast"), {"magic"}, {"done"}, {}),
             Primitive(Plain("look"), {"dark"}, {"l2"}, {"l1"})>>,
           <<Top(<<6, 1, 2, 1>>, {<<2, 3>>, <<3, 4>>}),
             Ordered(Plain("m-ab"), 1, <<3>>),
             Ordered(Plain("m-drop"), 1, <<7>>),
             Method(Plain("m-look"), 1, <<10, 4>>, {}),
             Method(Plain("m-stay"), 2, <<>>, {}),
             Ordered(Plain("m-trip"), 2, <<4>>),
             Ordered(Plain("m-ba"), 2, <<5>>),
             Ordered(Plain("m-magic"), 2, <<8, 9>>)>>,
           {"at-a", "at-b", "at-c", "home", "away", "lit", "dark", "l1", "l2", "done", "magic"},
           {"at-a", "home", "lit"}, {"done"}, 6)
   EXCEPT !.fams = PlacesFams, !.atoms = PlacesAtoms]

(* Which mutexes there are besides the lifted groups is left to H2.  Not   *)
(* both negative and variablesOnly: a variable that is dropped may then be *)
(* one that a task empties, see NoneNumber.                                *)
PlacesOptions ==
  {o \in {[Defaults EXCEPT !.negative = n, !.variablesOnly = v, !.facts = f] : n, v, f \in BOOLEAN} :
     ~(o.negative /\ o.variablesOnly)}
  \cup {[Defaults EXCEPT !.negative = TRUE, !.h2 = TRUE]}
  \cup {[Defaults EXCEPT !.negative = n, !.mode = d] : n \in BOOLEAN, d \in {"all", "none"}}

MCCases ==
  {[g |-> Deliver, o |-> [Defaults EXCEPT !.preconditions = p, !.noop = n]] : p, n \in BOOLEAN}
  \cup {[g |-> Nested, o |-> [Defaults EXCEPT !.noop = n]] : n \in BOOLEAN}
  \cup {[g |-> Long, o |-> o] : o \in LongOptions}
  \cup {[g |-> Unordered, o |-> [Defaults EXCEPT !.two = TRUE]]}
  \cup {[g |-> h, o |-> Defaults] : h \in {Conditional, Unsupported, Prefix,
                                           Unreachable({"r"}), Unreachable({"x"})}}
  \cup {[g |-> Places, o |-> o] : o \in PlacesOptions}
  \cup {[g |-> h, o |-> [Defaults EXCEPT !.h2 = TRUE]] : h \in {Deliver, Unordered, Unreachable({"r"})}}
  \cup {[g |-> h, o |-> [Defaults EXCEPT !.output = w]] : w \in {"hddl", "sas+"},
           h \in {Deliver, Nested, Unordered, Places, Unreachable({"r"})}}
  \cup {[g |-> Long, o |-> [Defaults EXCEPT !.contract = TRUE, !.output = w]] : w \in {"hddl", "sas+"}}
  \cup {[g |-> Conditional, o |-> [Defaults EXCEPT !.output = "hddl"]]}
=============================================================================
