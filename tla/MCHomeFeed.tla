----------------------------- MODULE MCHomeFeed -----------------------------
(* HomeFeed on small instances. *)
EXTENDS HomeFeed, TLC

Symmetry == Permutations(Cells)
=============================================================================
