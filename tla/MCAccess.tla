------------------------------ MODULE MCAccess ------------------------------
(* A directory in the root, with a picture in it, and two users.           *)
EXTENDS Access, TLC

CONSTANTS q1, q2, u1, u2, root, sub

TwoDirParent    == root :> root @@ sub :> root
TwoDirAncestors == root :> {root} @@ sub :> {root, sub}

Cat    == [dir |-> sub, name |-> "cat.jpg"]
Files  == {RegoFile(root), RegoFile(sub), Cat}

\* Policies of the directories and of the picture.
Outer == {root, sub, Cat}

\* Those below the root.
Inner == {sub, Cat}

All  == [u \in User |-> Right]
One  == [u \in User |-> IF u = u1 THEN Right ELSE {"read"}]
Both == {All, One}

\* A policy for a directory that takes what it does not show.
Drop == [u \in User |-> {"write"}]
AllOrDrop == {All, Drop}
=============================================================================
