--------------------------- MODULE MCMediaCapture ---------------------------
(* MediaCapture on small instances. *)
EXTENDS MediaCapture, TLC
=============================================================================
