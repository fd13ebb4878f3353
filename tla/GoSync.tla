------------------------------- MODULE GoSync --------------------------------
(***************************************************************************)
(* The parts of the Go runtime the library is built on: sync.Map, as a     *)
(* function whose DOMAIN is the set of keys present.                       *)
(***************************************************************************)
EXTENDS Naturals, Sequences

NoEntries == [k \in {} |-> k]

MapStore(m, k, v) == [x \in DOMAIN m \cup {k} |-> IF x = k THEN v ELSE m[x]]

MapDelete(m, k) == [x \in DOMAIN m \ {k} |-> m[x]]
=============================================================================
