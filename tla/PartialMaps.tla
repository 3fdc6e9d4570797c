---------------------------- MODULE PartialMaps ----------------------------
(***************************************************************************)
(* Finite maps as functions whose domain is the set of keys present: the   *)
(* model of a directory (path -> contents) and of an NSCache.              *)
(***************************************************************************)

\* f maps some elements of S to elements of T.
IsMap(f, S, T) == DOMAIN f \subseteq S /\ f \in [DOMAIN f -> T]

\* The map with no key.
NoEntries == [x \in {} |-> x]

\* f with x bound to v, whether or not x was bound before.
Put(f, x, v) == [y \in DOMAIN f \cup {x} |-> IF y = x THEN v ELSE f[y]]

\* f without the keys of S.
Drop(f, S) == [y \in DOMAIN f \ S |-> f[y]]
=============================================================================
