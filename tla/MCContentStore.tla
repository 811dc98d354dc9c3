--------------------------- MODULE MCContentStore ---------------------------
(***************************************************************************)
(* Small volumes for ContentStore.                                         *)
(***************************************************************************)
EXTENDS ContentStore, TLC

CONSTANTS
  p1, p2, r1, r2, d1,         \* requests
  i1, i2, i3, i4, i5, i6,
  a, b,                            \* chunks
  root, sub                        \* directories

N(stem, ext) == [stem |-> stem, ext |-> ext]

OneDirParent    == root :> root
OneDirAncestors == root :> {root}
TwoDirParent    == root :> root @@ sub :> root
TwoDirAncestors == root :> {root} @@ sub :> {root, sub}

\* One text file, that two clients write.
Note      == [dir |-> root, name |-> <<N("note", "txt")>>]
NoteFiles == {Note}
NoteBodies == {<<a>>, <<b, a>>}

\* A document in a directory and a text file beside it.
Report       == [dir |-> sub, name |-> <<N("report", "doc")>>]
Memo          == [dir |-> root, name |-> <<N("memo", "txt")>>]
ReportFiles   == {Report, Memo} \cup Derived(Report)
ReportUploads == {Report, Memo}

\* A picture whose labels come from Rekognition, and a client's own labels.
Cat      == [dir |-> root, name |-> <<N("cat", "jpg")>>]
Custom   == [dir |-> root, name |-> <<N("cat", "jpg"), N("custom", "json")>>]
CatFiles   == {Cat, Custom} \cup Derived(Cat)
CatUploads == {Cat, Custom}

OneChunk == {<<a>>}

\* Requests of a kind are alike (inodes are not: Create chooses one).
Twins == Permutations({p1, p2}) \cup Permutations({r1, r2})
=============================================================================
