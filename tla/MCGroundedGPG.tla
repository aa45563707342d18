--------------------------- MODULE MCGroundedGPG ---------------------------
(***************************************************************************)
(* Small ground problems for GroundedGPG: three facts, three primitive     *)
(* tasks and a compiled conditional effect, an initial task T0, abstract   *)
(* tasks A and B, and five methods.  The methods are fixed up to the       *)
(* subtasks of the last three (recursion, mutual recursion and an empty    *)
(* method among them), the preconditions and effects vary.                 *)
(***************************************************************************)
EXTENDS GroundedGPG

MCInstances ==
  {[facts |-> {"f1", "f2", "f3"}, init |-> {"f1"},
    prim |-> {"a", "b", "c", "ce"}, abs |-> {"T0", "A", "B"}, guard |-> {"ce"},
    initialTasks |-> {"T0"},
    pre |-> [t \in {"a", "b", "c", "ce"} |->
               CASE t = "a" -> pa [] t = "b" -> {"f2"} [] t = "c" -> {"f3"} [] t = "ce" -> {"f2"}],
    add |-> [t \in {"a", "b", "c", "ce"} |->
               CASE t = "a" -> {"f2"} [] t = "b" -> eb [] t = "c" -> {} [] t = "ce" -> {"f3"}],
    methods |-> 1..5,
    head |-> [m \in 1..5 |-> CASE m \in {1, 2} -> "T0" [] m \in {3, 4} -> "A" [] m = 5 -> "B"],
    sub |-> [m \in 1..5 |-> CASE m = 1 -> {"a", "A"} [] m = 2 -> {"B"}
                              [] m = 3 -> s3 [] m = 4 -> s4 [] m = 5 -> s5]]
   : pa \in {{}, {"f1"}, {"f3"}}, eb \in {{"f1"}, {"f3"}},
     s3 \in {{"b"}, {"A", "b"}}, s4 \in {{"c"}, {"B"}},
     s5 \in {{}, {"c"}, {"A"}}}
=============================================================================
