---------------------------- MODULE MCSearchTree ----------------------------
(***************************************************************************)
(* A directory in the root with two files, the name of one beginning with  *)
(* that of the other, and two files in the root: one whose name begins the *)
(* directory's, and one that is hidden.                                    *)
(***************************************************************************)
EXTENDS SearchTree, TLC

CONSTANTS a1, a2, a3, a4, root, sub, cat, catalog, s, secret, meow

ParentOf    == root :> root @@ sub :> root
AncestorsOf == root :> {root} @@ sub :> {root, sub}
WhereOf     == cat :> sub @@ catalog :> sub @@ s :> root @@ secret :> root
LongerOf    == cat :> {catalog} @@ catalog :> {} @@ s :> {cat, catalog, secret}
               @@ secret :> {}

Asks == Permutations(Ask)
=============================================================================
