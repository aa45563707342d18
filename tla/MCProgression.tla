--------------------------- MODULE MCProgression ---------------------------
(***************************************************************************)
(* A small domain for Progression.  Its methods have the shapes that make  *)
(* the surgery hard: a diamond whose middle tasks are compound, a chain    *)
(* whose ids run against its orderings, an unordered pair, a tail          *)
(* recursion and a head recursion.                                         *)
(***************************************************************************)
EXTENDS Isomorphism, TLC

MCPrimitive == {"flip", "use", "reset"}
MCCompound  == {"top", "left", "right"}
MCTask      == MCPrimitive \cup MCCompound
MCFact      == {"heads", "used"}

MCAction ==
  [flip  |-> [pre |-> {},
              effects |-> <<[add |-> {"heads"}, del |-> {}],
                            [add |-> {}, del |-> {"heads"}]>>],
   use   |-> [pre |-> {"heads"},
              effects |-> <<[add |-> {"used"}, del |-> {"heads", "used"}]>>],
   reset |-> [pre |-> {}, effects |-> <<>>]]

Diamond ==
  [nodes |-> 0..3,
   edges |-> {<<0, 1>>, <<0, 2>>, <<1, 3>>, <<2, 3>>},
   task  |-> 0 :> "flip" @@ 1 :> "left" @@ 2 :> "right" @@ 3 :> "use"]

Fork ==
  [nodes |-> 0..2,
   edges |-> {<<0, 2>>, <<1, 2>>},
   task  |-> 0 :> "left" @@ 1 :> "right" @@ 2 :> "right"]

Backwards ==
  [nodes |-> 0..1, edges |-> {<<1, 0>>},
   task  |-> 0 :> "use" @@ 1 :> "flip"]

Single ==
  [nodes |-> {0}, edges |-> {}, task |-> 0 :> "reset"]

Recursive ==
  [nodes |-> 0..1, edges |-> {<<0, 1>>},
   task  |-> 0 :> "flip" @@ 1 :> "left"]

Unordered ==
  [nodes |-> 0..1, edges |-> {},
   task  |-> 0 :> "flip" @@ 1 :> "use"]

Pairwise ==
  [nodes |-> 0..4, edges |-> {<<0, 1>>, <<0, 2>>, <<1, 3>>, <<2, 4>>},
   task  |-> 0 :> "reset" @@ 1 :> "flip" @@ 2 :> "flip" @@ 3 :> "use" @@ 4 :> "use"]

MCMethod ==
  [top   |-> {Diamond, Fork, Pairwise},
   left  |-> {Backwards, Recursive},
   right |-> {Single, Unordered}]

(* The root of a problem is one node whose id is its task's id; the ids of *)
(* the three primitive tasks come first.                                   *)
MCInitNet ==
  [nodes |-> {3}, edges |-> {}, task |-> 3 :> "top"]

(* A method that differs from Pairwise only in what has to wait for what:  *)
(* there each flip can be used before the next one, here both come first,  *)
(* and what the second shows is used up by the first use.                  *)
Together == [Pairwise EXCEPT !.edges = @ \cup {<<1, 4>>, <<2, 3>>}]

MCMethodSimilar == [MCMethod EXCEPT !["top"] = {Pairwise, Together}]

=============================================================================
