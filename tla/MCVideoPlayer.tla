--------------------------- MODULE MCVideoPlayer ---------------------------
(* VideoPlayer on small instances. *)
EXTENDS VideoPlayer, TLC

Symmetry == Permutations(Urls) \cup Permutations(Requests)
=============================================================================
