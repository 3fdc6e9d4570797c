------------------------- MODULE MCFirestoreWrites -------------------------
(* FirestoreWrites on small instances. *)
EXTENDS FirestoreWrites
=============================================================================
