---------------------------- MODULE MCFindInPage ----------------------------
(* FindInPage with two windows, three tabs, two texts and two pages, in one *)
(* of which the search script fails.                                       *)
EXTENDS FindInPage, TLC

MCContents == {[q \in Query |-> IF q = "a" THEN 2 ELSE 1],
               [q \in Query |-> IF q = "a" THEN 0 ELSE 3]}
MCMute == {[q \in Query |-> IF q = "a" THEN 0 ELSE 3]}

(* No window and no tab is distinguished in Init or in a step. *)
Symmetry == Permutations(Window) \cup Permutations(Tab)
=============================================================================
