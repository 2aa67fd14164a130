---------------------------- MODULE MCUploadQueue ----------------------------
(***************************************************************************)
(* Instances of UploadQueue for TLC.                                       *)
(***************************************************************************)
EXTENDS UploadQueue, TLC

CONSTANTS p1, d1, d2, s1, w1, w2

\* Every schedule routes to every destination (dest_filter NULL).
AllDests == [j \in Jobs |-> Dests]

Symmetry == Permutations(Workers)
==============================================================================
