----------------------------- MODULE WalkProofs -----------------------------
(***************************************************************************)
(* Why the walk of a reindex in ContentStore ends, whatever is uploaded    *)
(* and deleted under it: what it has ahead only shrinks, it enters a       *)
(* directory and visits a file at most once, and each of its own steps     *)
(* shortens it.  What it has ahead is read off the directories and files   *)
(* it has listed and not visited, so this rests on their being apart from  *)
(* the directories the walk is in ("Apart").                               *)
(***************************************************************************)
EXTENDS ContentStoreProofs

\* The directories a reindex has still to enter.
DirsAhead(r) ==
  {d \in Dir : Ancestors[d] \cap dirs[r] # {}}
    \cup IF stage[r] = "list" THEN {d \in Dir \ {here[r]} : here[r] \in Ancestors[d]} ELSE {}

\* No directory that is still to be entered is one the walk is in.
Apart == \A r \in Reindex : dirs[r] \cap Ancestors[here[r]] = {}

WalkInv == Pending /\ Apart

\* What r has ahead after a step it had ahead before.
Narrows(r) == Ahead(r)' \subseteq Ahead(r) /\ DirsAhead(r)' \subseteq DirsAhead(r)

\* A step brings the end of r's walk nearer: a directory less to enter; or else a file
\* less to visit, a directory that is listed, or one that is left.
Shortens(r) ==
  /\ Narrows(r)
  /\ \/ DirsAhead(r)' # DirsAhead(r)
     \/ /\ Ancestors[here'[r]] \subseteq Ancestors[here[r]]
        /\ stage'[r] # "list"
        /\ \/ stage[r] = "list"
           \/ Ahead(r)' # Ahead(r)
           \/ Ancestors[here'[r]] # Ancestors[here[r]]

-----------------------------------------------------------------------------
(* The steps of a reindex.                                                 *)

\* A directory does not lie in the one that lies in it.
LEMMA ChildrenApart ==
  ASSUME NEW d \in Dir, NEW c \in Dir \ {Root}, Parent[c] = d
  PROVE  /\ c \notin Ancestors[d] /\ d \in Ancestors[c]
         /\ \A e \in Dir : c \in Ancestors[e] => d \in Ancestors[e] /\ e # d
         /\ Ancestors[c] = {c} \cup Ancestors[d]
<1>1. d \in Ancestors[c] /\ Parent[c] # c /\ Ancestors[c] = {c} \cup Ancestors[d]
  BY AncestorFacts, DirAssumption
<1>2. c \notin Ancestors[d]
  BY <1>1, DirAssumption
<1>. QED
  BY <1>1, <1>2, AncestorFacts

\* The directory a file is in.
LEMMA DirOfFile == \A f \in File : f.dir \in Dir
  BY FileAssumption

\* Listing a directory puts in its place what is in it.
LEMMA ListShortens ==
  ASSUME TypeInv, WalkInv, NEW r \in Reindex, ListDir(r)
  PROVE  Shortens(r) /\ dirs'[r] \cap Ancestors[here'[r]] = {}
<1>. USE DEF TypeInv, TypeOK, Request
<1>1. PICK ds \in SUBSET {d \in Dir \ {Root} : Parent[d] = here[r]} :
        dirs' = [dirs EXCEPT ![r] = @ \cup ds]
  BY DEF ListDir
<1>2. /\ stage[r] = "list" /\ stage'[r] = "walk" /\ here' = here
      /\ files'[r] \subseteq files[r] \cup {f \in File : f.dir = here[r]}
      /\ dirs'[r] = dirs[r] \cup ds /\ here[r] \in Dir
  BY <1>1 DEF ListDir, Goto
<1>3. \A d \in ds : /\ d \notin Ancestors[here[r]]
                    /\ \A e \in Dir : d \in Ancestors[e] => here[r] \in Ancestors[e] /\ e # here[r]
  BY <1>2, ChildrenApart
<1>4. Ahead(r)' \subseteq Ahead(r)
  <2>. SUFFICES ASSUME NEW f \in Ahead(r)', f \notin Ahead(r)  PROVE FALSE
    OBVIOUS
  <2>1. f \in File /\ f.dir \in Dir
    BY <1>2, DirOfFile DEF Ahead, Beneath
  <2>2. here[r] \notin Ancestors[f.dir] /\ f \notin files[r] /\ Ancestors[f.dir] \cap dirs[r] = {}
    BY <1>2, <2>1 DEF Ahead, Under, Beneath
  <2>3. f.dir # here[r]
    BY <2>2, <1>2, AncestorFacts
  <2>4. Ancestors[f.dir] \cap ds # {}
    BY <1>2, <2>1, <2>2, <2>3 DEF Ahead, Beneath
  <2>. QED  BY <1>3, <2>1, <2>2, <2>4
<1>5. DirsAhead(r)' \subseteq DirsAhead(r)
  BY <1>2, <1>3 DEF DirsAhead
<1>6. dirs'[r] \cap Ancestors[here'[r]] = {}
  BY <1>2, <1>3 DEF WalkInv, Apart
<1>. QED
  BY <1>2, <1>4, <1>5, <1>6 DEF Shortens, Narrows

\* A directory that is entered is not ahead any more.
LEMMA VisitDirShortens ==
  ASSUME TypeInv, WalkInv, NEW r \in Reindex, VisitDir(r)
  PROVE  /\ Narrows(r) /\ here'[r] \in DirsAhead(r) \ DirsAhead(r)'
         /\ dirs'[r] \cap Ancestors[here'[r]] = {}
<1>. USE DEF TypeInv, TypeOK, Request
<1>1. PICK d \in dirs[r] : /\ d # Root /\ Parent[d] = here[r]
                           /\ here' = [here EXCEPT ![r] = d]
                           /\ dirs' = [dirs EXCEPT ![r] = @ \ {d}]
  BY DEF VisitDir
<1>2. /\ stage[r] = "walk" /\ stage'[r] = "list" /\ here'[r] = d /\ files'[r] = files[r]
      /\ dirs'[r] = dirs[r] \ {d} /\ d \in Dir \ {Root} /\ here[r] \in Dir
  BY <1>1 DEF VisitDir, Goto
<1>3. Ancestors[d] = {d} \cup Ancestors[here[r]] /\ d \in Ancestors[d]
  BY <1>1, <1>2, ChildrenApart
<1>4. dirs'[r] \cap Ancestors[d] = {}
  BY <1>2, <1>3 DEF WalkInv, Apart
<1>5. Ahead(r)' \subseteq Ahead(r)
  BY <1>2 DEF Ahead, Beneath, Under
<1>6. DirsAhead(r)' \subseteq DirsAhead(r)
  BY <1>2 DEF DirsAhead
<1>7. d \in DirsAhead(r) /\ d \notin DirsAhead(r)'
  BY <1>2, <1>3, <1>4 DEF DirsAhead
<1>. QED
  BY <1>2, <1>4, <1>5, <1>6, <1>7 DEF Narrows

\* A file that is visited is not ahead any more: it is in no directory that is.
LEMMA VisitFileShortens ==
  ASSUME TypeInv, WalkInv, NEW r \in Reindex, VisitFile(r)
  PROVE  /\ Shortens(r) /\ cur'[r] \in Ahead(r) \ Ahead(r)'
         /\ dirs'[r] = dirs[r] /\ here'[r] = here[r]
<1>. USE DEF TypeInv, TypeOK, Request
<1>1. PICK f \in files[r] : /\ f.dir = here[r]
                            /\ files' = [files EXCEPT ![r] = @ \ {f}]
                            /\ cur' = [cur EXCEPT ![r] = f]
                            /\ Goto(r, IF ~IsDerived(f) THEN "name"
                                       ELSE IF IsTextFile(f) THEN "open" ELSE "walk")
  BY DEF VisitFile
<1>2. /\ stage[r] = "walk" /\ stage'[r] # "list" /\ cur'[r] = f
      /\ here' = here /\ dirs' = dirs /\ files'[r] = files[r] \ {f}
  BY <1>1 DEF VisitFile, Goto
<1>3. Ancestors[f.dir] \cap dirs[r] = {}
  BY <1>1 DEF WalkInv, Apart
<1>4. f \in Ahead(r) /\ f \notin Ahead(r)'
  BY <1>2, <1>3 DEF Ahead, Beneath
<1>5. Narrows(r)
  BY <1>2 DEF Narrows, Ahead, Beneath, DirsAhead
<1>. QED
  BY <1>2, <1>4, <1>5 DEF Shortens

\* From a directory that is done with, the walk goes up, or ends in the root.
LEMMA LeaveShortens ==
  ASSUME TypeInv, WalkInv, NEW r \in Reindex, Leave(r)
  PROVE  /\ Narrows(r) /\ (stage'[r] \in Ended \/ Shortens(r))
         /\ dirs'[r] \cap Ancestors[here'[r]] = {}
<1>. USE DEF TypeInv, TypeOK, Request
<1>1. stage[r] = "walk" /\ files' = files /\ dirs' = dirs
  BY DEF Leave
<1>2. CASE here[r] = Root
  <2>1. stage'[r] = "ok" /\ here' = here
    BY <1>2 DEF Leave, Goto
  <2>. QED  BY <1>1, <2>1 DEF Narrows, Ahead, Beneath, DirsAhead, Ended, WalkInv, Apart
<1>3. CASE here[r] # Root
  <2>1. here'[r] = Parent[here[r]] /\ stage' = stage /\ here[r] \in Dir \ {Root}
        /\ Parent[here[r]] \in Dir
    BY <1>3, DirTypes DEF Leave
  <2>2. /\ here[r] \notin Ancestors[Parent[here[r]]]
        /\ Ancestors[here[r]] = {here[r]} \cup Ancestors[Parent[here[r]]]
    BY <2>1, ChildrenApart
  <2>3. Narrows(r)
    BY <1>1, <2>1 DEF Narrows, Ahead, Beneath, DirsAhead
  <2>. QED  BY <1>1, <2>1, <2>2, <2>3 DEF Shortens, WalkInv, Apart
<1>. QED  BY <1>2, <1>3

\* So it does from one that was cut short.
LEMMA CutShortens ==
  ASSUME TypeInv, WalkInv, NEW r \in Reindex, stage[r] \in WalkStages, CutShort(r)
  PROVE  /\ Narrows(r) /\ (stage'[r] \in Ended \/ Shortens(r))
         /\ dirs'[r] \cap Ancestors[here'[r]] = {}
<1>. USE DEF TypeInv, TypeOK, Request
<1>1. files'[r] \subseteq files[r] /\ dirs'[r] \subseteq dirs[r]
  BY DEF CutShort
<1>2. CASE here[r] = Root
  <2>1. stage'[r] = "error" /\ here' = here
    BY <1>2 DEF CutShort, Goto
  <2>. QED  BY <1>1, <2>1 DEF Narrows, Ahead, Beneath, DirsAhead, Ended, WalkInv, Apart
<1>3. CASE here[r] # Root
  <2>1. here'[r] = Parent[here[r]] /\ stage'[r] = "walk" /\ here[r] \in Dir \ {Root}
        /\ Parent[here[r]] \in Dir
    BY <1>3, DirTypes DEF CutShort, Goto
  <2>2. /\ here[r] \notin Ancestors[Parent[here[r]]] /\ here[r] \in Ancestors[here[r]]
        /\ Ancestors[here[r]] = {here[r]} \cup Ancestors[Parent[here[r]]]
    BY <2>1, ChildrenApart, AncestorFacts
  <2>3. Narrows(r)
    BY <1>1, <2>1 DEF Narrows, Ahead, Beneath, DirsAhead
  <2>. QED  BY <1>1, <2>1, <2>2, <2>3 DEF Shortens, WalkInv, Apart
<1>. QED  BY <1>2, <1>3

-----------------------------------------------------------------------------
(* Any step.                                                               *)

Kept(r) == /\ stage[r] # "new" => Narrows(r)
           /\ dirs'[r] \cap Ancestors[here'[r]] = {}

\* A walk that a step leaves alone has the same ahead.
LEMMA SameKept ==
  ASSUME WalkInv, NEW r \in Reindex, Same(r)
  PROVE  Kept(r)
  BY DEF WalkInv, Apart, Same, Kept, Narrows, Ahead, DirsAhead, Beneath, Under

\* What a walk's own step does to it, its beginning apart.
LEMMA OwnKept ==
  ASSUME TypeInv, WalkInv, NEW r \in Reindex, ReindexStep(r)
  PROVE  /\ Kept(r)
         /\ stage[r] # "new" => stage'[r] \in Ended \/ Shortens(r)
<1>1. CASE ReindexFails(r)
  BY <1>1 DEF TypeInv, TypeOK, Request, Goto, ReindexFails, walking, Kept, WalkInv, Apart
<1>2. CASE Wipe(r)
  <2>1. stage[r] = "new" /\ dirs'[r] = dirs[r]
    BY <1>2 DEF Wipe
  <2>2. dirs[r] = {}
    BY <2>1 DEF WalkInv, Pending, WalkStages
  <2>. QED  BY <2>1, <2>2 DEF Kept
<1>3. CASE ListDir(r)
  BY <1>3, ListShortens DEF Kept, Shortens
<1>4. CASE ListFails(r)
  <2>1. CutShort(r) /\ stage[r] \in WalkStages
    BY <1>4 DEF ListFails, WalkStages
  <2>. QED  BY <2>1, CutShortens DEF Kept
<1>5. CASE VisitDir(r)
  BY <1>5, VisitDirShortens DEF Kept, Shortens
<1>6. CASE VisitFile(r)
  <2>1. Shortens(r) /\ dirs'[r] = dirs[r] /\ here'[r] = here[r]
    BY <1>6, VisitFileShortens
  <2>. QED  BY <2>1 DEF Kept, Shortens, WalkInv, Apart
<1>7. CASE Leave(r)
  BY <1>7, LeaveShortens DEF Kept
<1>. QED
  BY <1>1, <1>2, <1>3, <1>4, <1>5, <1>6, <1>7 DEF ReindexStep

\* While a walk indexes a file it stays where it is, or is cut short.
LEMMA IndexKept ==
  ASSUME TypeInv, WalkInv, NEW r \in Reindex, IndexStep(r)
  PROVE  Kept(r)
<1>1. CASE Fails(r)
  <2>1. CutShort(r) /\ stage[r] \in WalkStages
    BY <1>1, RequestAssumption DEF Fails, WalkStages, WalkInv, Pending
  <2>. QED  BY <2>1, CutShortens DEF Kept
<1>2. CASE ~Fails(r)
  <2>1. UNCHANGED walking
    BY <1>2 DEF IndexStep, IndexName, Open, ReadChunk, ReadFails, InsertRow, ReadEnd
  <2>2. stage'[r] # "list"
    BY <1>2, RequestAssumption
    DEF TypeInv, TypeOK, Request, IndexStep, IndexName, Open, ReadChunk, ReadFails, InsertRow,
        ReadEnd, AfterNameOf, AfterTextOf, Goto
  <2>. QED  BY <2>1, <2>2 DEF walking, Kept, WalkInv, Apart, Narrows, Ahead, DirsAhead,
                              Beneath, Under
<1>. QED  BY <1>1, <1>2

\* A step is one request's, and leaves the others alone, or it is the crash.
LEMMA OneAtATime ==
  ASSUME TypeInv, [Next]_vars
  PROVE  \/ Crash
         \/ \A q \in Request : Same(q)
         \/ \E q \in Request :
              /\ Others(q)
              /\ q \in Reindex => ReindexStep(q) \/ IndexStep(q)
<1>1. ASSUME NEW q \in Post, PostStep(q)
      PROVE  Others(q) /\ q \in Request /\ q \notin Reindex
  <2>1. q \in Request /\ q \notin Reindex
    BY RequestAssumption DEF Request
  <2>2. CASE Create(q)
    BY <2>1, <2>2 DEF TypeInv, TypeOK, Create, Others, Same, walking, Goto
  <2>3. CASE WriteChunk(q)
    BY <2>1, <2>3 DEF TypeInv, TypeOK, WriteChunk, Others, Same, walking
  <2>4. CASE ~Create(q) /\ ~WriteChunk(q)
    BY <1>1, <2>1, <2>4, PostQuiet, PostWriteEnd DEF PostStep
  <2>. QED  BY <2>1, <2>2, <2>3, <2>4
<1>2. ASSUME NEW r \in Reindex, ReindexStep(r)  PROVE Others(r) /\ r \in Request
  <2>1. CASE Wipe(r)
    BY <2>1 DEF TypeInv, TypeOK, Wipe, Goto, reading, Others, Same, Request
  <2>2. CASE ~Wipe(r)
    BY <1>2, <2>2, ReindexFrame DEF ReindexStep, Request
  <2>. QED  BY <2>1, <2>2 DEF Request
<1>3. ASSUME NEW q \in Post \cup Reindex, IndexStep(q)  PROVE Others(q) /\ q \in Request
  BY <1>3, FailsHandover, IndexFrame DEF IndexStep, Request
<1>4. ASSUME NEW q \in Delete, DeleteFile(q) \/ DeleteFails(q)
      PROVE  Others(q) /\ q \in Request /\ q \notin Reindex
  BY <1>4, DeleteHandover, RequestAssumption DEF Request
<1>5. CASE UNCHANGED vars
  BY <1>5 DEF vars, reading, walking, Same
<1>. QED
  BY <1>1, <1>2, <1>3, <1>4, <1>5 DEF Next

\* No step lengthens a walk, and none puts ahead of it a directory that it is in.
LEMMA NothingLengthens ==
  ASSUME TypeInv, WalkInv, [Next]_vars, NEW r \in Reindex
  PROVE  Kept(r)
<1>1. CASE Crash
  <2>1. files'[r] = {} /\ dirs'[r] = {} /\ stage'[r] # "list"
    BY <1>1 DEF Crash, Active, WalkStages, Request
  <2>. QED  BY <2>1 DEF Kept, Narrows, Ahead, DirsAhead, Beneath
<1>2. CASE Same(r)
  BY <1>2, SameKept
<1>3. CASE ReindexStep(r) \/ IndexStep(r)
  BY <1>3, OwnKept, IndexKept
<1>. QED
  BY <1>1, <1>2, <1>3, OneAtATime DEF Others, Request

\* Nothing is ahead at first.
LEMMA WalkInit == Init => WalkInv
  BY DEF Init, WalkInv, Pending, Apart, WalkStages, Request

\* Every step keeps what is ahead apart from where the walk is.
LEMMA WalkNext == TypeInv /\ WalkInv /\ [Next]_vars => WalkInv'
  BY PendingNext, NothingLengthens DEF WalkInv, Apart, Kept

\* A walk comes to a file at most once and enters a directory at most once, and what it
\* has ahead never grows: uploads into the tree do not keep it going (get.go:17-63).
THEOREM WalkComesOnce ==
  Spec => [][\A r \in Reindex : stage[r] # "new" =>
               /\ Ahead(r)' \subseteq Ahead(r) /\ DirsAhead(r)' \subseteq DirsAhead(r)
               /\ VisitFile(r) => cur'[r] \in Ahead(r) \ Ahead(r)'
               /\ VisitDir(r) => here'[r] \in DirsAhead(r) \ DirsAhead(r)']_vars
<1>1. ASSUME TypeInv, WalkInv, [Next]_vars, NEW r \in Reindex, stage[r] # "new"
      PROVE  /\ Ahead(r)' \subseteq Ahead(r) /\ DirsAhead(r)' \subseteq DirsAhead(r)
             /\ VisitFile(r) => cur'[r] \in Ahead(r) \ Ahead(r)'
             /\ VisitDir(r) => here'[r] \in DirsAhead(r) \ DirsAhead(r)'
  BY <1>1, NothingLengthens, VisitFileShortens, VisitDirShortens DEF Kept, Narrows
<1>2. TypeInv /\ WalkInv /\ [Next]_vars =>
        [\A r \in Reindex : stage[r] # "new" =>
           /\ Ahead(r)' \subseteq Ahead(r) /\ DirsAhead(r)' \subseteq DirsAhead(r)
           /\ VisitFile(r) => cur'[r] \in Ahead(r) \ Ahead(r)'
           /\ VisitDir(r) => here'[r] \in DirsAhead(r) \ DirsAhead(r)']_vars
  BY <1>1
<1>. QED  BY InvInit, InvNext, WalkInit, WalkNext, <1>2, PTL DEF Spec

\* Every step of a walk ends it or shortens it, whatever the requests beside it do to the
\* tree: of finitely many directories and files there is an end (get.go:17-63).
THEOREM WalkShortens ==
  Spec => [][\A r \in Reindex : ReindexStep(r) /\ stage[r] # "new" =>
               stage'[r] \in Ended \/ Shortens(r)]_vars
<1>1. TypeInv /\ WalkInv /\ [Next]_vars =>
        [\A r \in Reindex : ReindexStep(r) /\ stage[r] # "new" =>
           stage'[r] \in Ended \/ Shortens(r)]_vars
  BY OwnKept
<1>. QED  BY InvInit, InvNext, WalkInit, WalkNext, <1>1, PTL DEF Spec
=============================================================================
