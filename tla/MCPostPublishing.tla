-------------------------- MODULE MCPostPublishing --------------------------
(* PostPublishing on small instances. *)
EXTENDS PostPublishing, TLC
=============================================================================
