----------------------------- MODULE MCPageLoad -----------------------------
(* PageLoad with two web pages and two pages of the shell.                 *)
EXTENDS PageLoad, TLC

(* No web page is distinguished in Init or Next. *)
Symmetry == Permutations(Web)
=============================================================================
