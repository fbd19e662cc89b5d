---------------------------- MODULE MCDownloads ----------------------------
(* Two browser processes, one profile.                                     *)
EXTENDS Downloads, TLC

(* No process and no download is distinguished in Init or Next.            *)
Symmetry == Permutations(Procs) \cup Permutations(Downloads)
=============================================================================
