---------------------------- MODULE MCVideoCache ----------------------------
(* VideoCache on small instances. *)
EXTENDS VideoCache, TLC

Symmetry == Permutations(Keys)
=============================================================================
