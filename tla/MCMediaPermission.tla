------------------------- MODULE MCMediaPermission -------------------------
(* Two requests, in one window or in two, and three calls of the portal.   *)
EXTENDS MediaPermission, TLC

(* No request and no window is distinguished in Init or Next.              *)
Symmetry == Permutations(Prompts) \cup Permutations(Windows)
=============================================================================
