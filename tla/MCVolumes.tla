----------------------------- MODULE MCVolumes -----------------------------
(***************************************************************************)
(* A directory in the root with two files, the name of one beginning with  *)
(* that of the other.                                                      *)
(***************************************************************************)
EXTENDS Volumes, TLC

CONSTANTS p1, p2, d1, l1, root, sub, cat, catalog

RootOf     == root :> root @@ sub :> root
AncestorsOf == root :> {root} @@ sub :> {root, sub}
WhereOf    == cat :> sub @@ catalog :> sub
LongerOf   == cat :> {catalog} @@ catalog :> {} @@ sub :> {}

Twins == Permutations({p1, p2})
=============================================================================
