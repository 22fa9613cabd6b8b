----------------------------- MODULE Documents -----------------------------
(***************************************************************************)
(* Decoded JSON values: an object, a list, null, or an atom (a string or a *)
(* number).  A tag tells them apart.                                       *)
(***************************************************************************)

Map(f) == [map |-> f]
List(s) == [list |-> s]
Atom(a) == [atom |-> a]
Null == [null |-> TRUE]

IsMap(v) == "map" \in DOMAIN v
IsList(v) == "list" \in DOMAIN v
=============================================================================
