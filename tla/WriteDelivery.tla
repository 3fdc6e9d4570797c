--------------------------- MODULE WriteDelivery ---------------------------
(***************************************************************************)
(* What Firestore promises whoever writes a document, with no batches, no  *)
(* stream and no pipeline: a write waits on the device until the server    *)
(* has answered it, whatever becomes of the process; the writer hears at   *)
(* most one answer.  A success is true; a failure says only that the write *)
(* waits no more, since the server may have taken it first.  PostPublishing*)
(* is written over this; FirestoreWrites implements it.                    *)
(***************************************************************************)

CONSTANT Writes  \* the writes there may be

VARIABLES
  asked,      \* writes given to Firestore
  queued,     \* writes waiting on the device
  committed,  \* writes the server has taken
  told        \* answers heard: [write |-> w, ok |-> whether it was taken]

deliveryVars == <<asked, queued, committed, told>>

Heard(w) == \E answer \in told : answer.write = w

Init == asked = {} /\ queued = {} /\ committed = {} /\ told = {}

Ask(w) ==
  /\ w \in Writes \ asked
  /\ asked' = asked \cup {w}
  /\ queued' = queued \cup {w}
  /\ UNCHANGED <<committed, told>>

\* The server takes a write that waits, once or again.
Commit(w) ==
  /\ w \in queued
  /\ committed' = committed \cup {w}
  /\ UNCHANGED <<asked, queued, told>>

\* A write stops waiting: it, or a write taken for it, was answered.
Leave(w) ==
  /\ w \in queued
  /\ queued' = queued \ {w}
  /\ UNCHANGED <<asked, committed, told>>

Hear(w, ok) ==
  /\ w \in asked /\ ~Heard(w)
  /\ IF ok THEN w \in committed ELSE w \notin queued
  /\ told' = told \cup {[write |-> w, ok |-> ok]}
  /\ UNCHANGED <<asked, queued, committed>>

Next ==
  \/ \E w \in Writes : Ask(w)
  \/ \E w \in asked : Commit(w) \/ Leave(w)
  \/ \E w \in asked, ok \in BOOLEAN : Hear(w, ok)

Spec == Init /\ [][Next]_deliveryVars
=============================================================================
