---------------------------- MODULE MCLiftedGPG ----------------------------
(***************************************************************************)
(* Lifted problems for LiftedGPG: a traveller on a road map of three       *)
(* places.  go is decomposed recursively, by a method whose parameters     *)
(* repeat a variable, and by one without subtasks; take has a conditional  *)
(* effect; mark has no precondition; the initial method has the subtask    *)
(* go twice.  The road map, constraint, sorts and options vary.            *)
(***************************************************************************)
EXTENDS NaiveGrounding

L(h, a) == [head |-> h, args |-> a]
All == {1, 2, 3}

Travel(roads, init, z, constraint, typed, static) ==
  [prim |-> {"move", "take", "mark"}, abs |-> {"top", "go"}, top |-> "top",
   sort |-> [x \in {"move", "take", "mark", "top", "go", "mTop", "mStep", "mMove", "mStay"} |->
               CASE x \in {"move", "go"} -> <<All, All>> [] x = "take" -> <<z>> [] x = "mark" -> <<{2, 3}>>
                 [] x = "top" -> <<>> [] x = "mTop" -> <<{1}, All>> [] x = "mStep" -> <<All, All, All>>
                 [] x = "mMove" -> <<All, All>> [] x = "mStay" -> <<All>>],
   con |-> [x \in {"move", "take", "mark", "top", "go", "mTop", "mStep", "mMove", "mStay"} |->
              IF x = "mStep" THEN constraint ELSE {}],
   pre |-> [t \in {"move", "take", "mark"} |->
              CASE t = "move" -> <<L("road", <<1, 2>>), L("at", <<1>>)>>
                [] t = "take" -> <<L("at", <<1>>), L("marked", <<1>>)>> [] t = "mark" -> <<>>],
   add |-> [t \in {"move", "take", "mark"} |->
              CASE t = "move" -> <<L("at", <<2>>)>> [] t = "take" -> <<L("has", <<1>>)>>
                [] t = "mark" -> <<L("marked", <<1>>)>>],
   del |-> [t \in {"move", "take", "mark"} |-> IF t = "move" THEN <<L("at", <<1>>)>> ELSE <<>>],
   cond |-> [t \in {"move", "take", "mark"} |->
               IF t = "take" THEN <<[task |-> "take_ce", guard |-> "guard", cond |-> <<L("road", <<1, 1>>)>>,
                                     eff |-> L("loop", <<1>>), adds |-> TRUE]>> ELSE <<>>],
   meth |-> {"mTop", "mStep", "mMove", "mStay"},
   of |-> [m \in {"mTop", "mStep", "mMove", "mStay"} |-> IF m = "mTop" THEN "top" ELSE "go"],
   par |-> [m \in {"mTop", "mStep", "mMove", "mStay"} |->
              CASE m = "mTop" -> <<>> [] m = "mStep" -> <<1, 3>> [] m = "mMove" -> <<1, 2>> [] m = "mStay" -> <<1, 1>>],
   sub |-> [m \in {"mTop", "mStep", "mMove", "mStay"} |->
              CASE m = "mTop" -> <<L("mark", <<2>>), L("go", <<1, 2>>), L("take", <<2>>), L("go", <<1, 2>>)>>
                [] m = "mStep" -> <<L("move", <<1, 2>>), L("go", <<2, 3>>)>>
                [] m = "mMove" -> <<L("move", <<1, 2>>)>> [] m = "mStay" -> <<>>],
   ord |-> [m \in {"mTop", "mStep", "mMove", "mStay"} |->
              CASE m = "mTop" -> {<<1, 2>>, <<2, 3>>, <<4, 3>>} [] m = "mStep" -> {<<1, 2>>} [] OTHER -> {}],
   init |-> init \o [k \in DOMAIN roads |-> L("road", roads[k])],
   typed |-> typed, static |-> static]

MCDomains ==
  {Travel(roads, <<L("at", <<1>>)>>, z, constraint, opt[1], opt[2]) :
     roads \in {<<<<1, 2>>, <<2, 3>>>>, <<<<1, 3>>, <<3, 3>>>>, <<<<2, 2>>, <<1, 2>>, <<2, 1>>>>},
     z \in {All, {1, 2}}, constraint \in {{}, {<<FALSE, 1, 2>>}},
     opt \in {<<TRUE, FALSE>>, <<TRUE, TRUE>>, <<FALSE, FALSE>>}}
=============================================================================
