------------------------- MODULE ContentStoreProofs -------------------------
(***************************************************************************)
(* NoLostIndex of ContentStore, for any requests, files, directories and   *)
(* bodies.  It is not inductive: it says nothing of a file while a request *)
(* is at it.  IndexInv does.  Every part of a file on disk is a row, or is *)
(* what some request will still index, or was abandoned by a failure; and  *)
(* a step that takes a part out of one of these puts it in another.        *)
(*                                                                         *)
(* A request answers for what it has in hand.  So a step of request q that *)
(* keeps the rows and the other requests ("Steady", "Others") need only be *)
(* looked at for what q hands over ("Handover").  The steps that change    *)
(* the disk or empty the index (Create, WriteChunk, Wipe) and the crash    *)
(* are looked at one by one.                                               *)
(***************************************************************************)
EXTENDS ContentStore, TLAPS

\* The types, and what a request at work is working on.
TypeInv == TypeOK /\ Held /\ Frame

\* What may be derived from a file.
DerivationsOf(f) ==
  {Derivation(f, ExtractTxt, TRUE, FALSE), Derivation(f, ThumbnailPng, FALSE, FALSE),
   Derivation(f, LabelsJson, TRUE, FALSE), Derivation(f, CelebsJson, TRUE, TRUE),
   Derivation(f, ModerationJson, TRUE, FALSE)}

\* The derivations of a file are a sequence of these.
LEMMA DerivationsType ==
  ASSUME NEW f
  PROVE  Derivations(f) \in Seq(DerivationsOf(f))
<1>. DEFINE Extract    == Derivation(f, ExtractTxt, TRUE, FALSE)
            Thumbnail  == Derivation(f, ThumbnailPng, FALSE, FALSE)
            Labels     == Derivation(f, LabelsJson, TRUE, FALSE)
            Celebs     == Derivation(f, CelebsJson, TRUE, TRUE)
            Moderation == Derivation(f, ModerationJson, TRUE, FALSE)
            D == DerivationsOf(f)
<1>1. /\ Extract \in D /\ Thumbnail \in D /\ Labels \in D
      /\ Celebs \in D /\ Moderation \in D
  BY DEF DerivationsOf
<1>. HIDE DEF D, Extract, Thumbnail, Labels, Celebs, Moderation
<1>2. /\ <<>> \in Seq(D) /\ <<Extract>> \in Seq(D) /\ <<Thumbnail>> \in Seq(D)
      /\ <<Labels, Celebs, Moderation>> \in Seq(D)
  BY <1>1
<1>3. \A s, t \in Seq(D) : s \o t \in Seq(D)
  OBVIOUS
<1>4. DocDerivations(f) \in Seq(D)
  <2>1. DocDerivations(f) = <<Extract>> \o IF LastExt(f) = "pdf" THEN <<Thumbnail>> ELSE <<>>
    BY DEF DocDerivations, Extract, Thumbnail
  <2>. QED  BY <1>2, <1>3, <2>1
<1>5. ImageDerivations(f) \in Seq(D)
  <2>1. ImageDerivations(f) = <<Thumbnail>> \o IF Rekognition
                                THEN <<Labels, Celebs, Moderation>> ELSE <<>>
    BY DEF ImageDerivations, Thumbnail, Labels, Celebs, Moderation
  <2>. QED  BY <1>2, <1>3, <2>1
<1>6. Derivations(f) \in Seq(D)
  BY <1>2, <1>4, <1>5 DEF Derivations
<1>. QED
  BY <1>6 DEF D

\* What a cascade derives is a file with a "--" in its name, and it is text exactly
\* when it is indexed; neither documents nor images are derived from it.
LEMMA DerivationsLemma ==
  ASSUME NEW f \in Upload, NEW n \in DOMAIN Derivations(f)
  PROVE  /\ Derivations(f)[n].file \in File
         /\ IsDerived(Derivations(f)[n].file)
         /\ ~IsDoc(Derivations(f)[n].file)
         /\ Derivations(f)[n].cascade =>
              IsTextFile(Derivations(f)[n].file) /\ ~IsImage(Derivations(f)[n].file)
         /\ ~Derivations(f)[n].cascade => ~IsTextFile(Derivations(f)[n].file)
<1>1. f \in File /\ f.name \in Seq(Piece) /\ Len(f.name) > 0
  BY FileAssumption
<1>2. Derivations(f)[n].file \in File
  BY FileAssumption DEF Derived
<1>. DEFINE Extract    == Derivation(f, ExtractTxt, TRUE, FALSE)
            Thumbnail  == Derivation(f, ThumbnailPng, FALSE, FALSE)
            Labels     == Derivation(f, LabelsJson, TRUE, FALSE)
            Celebs     == Derivation(f, CelebsJson, TRUE, TRUE)
            Moderation == Derivation(f, ModerationJson, TRUE, FALSE)
<1>3. Derivations(f)[n] \in {Extract, Thumbnail, Labels, Celebs, Moderation}
  <2>1. Derivations(f) \in Seq(DerivationsOf(f))
    BY DerivationsType
  <2>2. Derivations(f)[n] \in DerivationsOf(f)
    BY <2>1
  <2>. QED  BY <2>2 DEF DerivationsOf
<1>4. ASSUME NEW piece
      PROVE  /\ IsDerived(DerivedFile(f, piece))
             /\ LastExt(DerivedFile(f, piece)) = piece.ext
  <2>1. DerivedFile(f, piece).name = Append(f.name, piece)
    BY FileAssumption DEF DerivedFile
  <2>2. f.name \in Seq(Piece \cup {piece}) /\ piece \in Piece \cup {piece}
    BY <1>1
  <2>. QED  BY <2>1, <2>2, <1>1 DEF IsDerived, LastExt, Last
<1>5. /\ ExtractTxt.ext = "txt" /\ LabelsJson.ext = "json" /\ CelebsJson.ext = "json"
      /\ ModerationJson.ext = "json" /\ ThumbnailPng.ext = "png"
  BY DEF ExtractTxt, LabelsJson, CelebsJson, ModerationJson, ThumbnailPng
<1>6. CASE Derivations(f)[n] = Thumbnail
  <2>1. /\ Derivations(f)[n].file = DerivedFile(f, ThumbnailPng)
        /\ Derivations(f)[n].cascade = FALSE
    BY <1>6 DEF Derivation
  <2>2. LastExt(Derivations(f)[n].file) = "png" /\ IsDerived(Derivations(f)[n].file)
    BY <2>1, <1>4, <1>5
  <2>. QED  BY <1>2, <2>1, <2>2 DEF IsDoc, IsTextFile
<1>7. CASE Derivations(f)[n] \in {Extract, Labels, Celebs, Moderation}
  <2>1. PICK piece \in {ExtractTxt, LabelsJson, CelebsJson, ModerationJson} :
          /\ Derivations(f)[n].file = DerivedFile(f, piece)
          /\ Derivations(f)[n].cascade = TRUE
    BY <1>7 DEF Derivation
  <2>2. /\ LastExt(Derivations(f)[n].file) \in {"txt", "json"}
        /\ IsDerived(Derivations(f)[n].file)
    BY <2>1, <1>4, <1>5
  <2>. QED  BY <1>2, <2>1, <2>2 DEF IsDoc, IsImage, IsTextFile
<1>. QED
  BY <1>3, <1>6, <1>7

\* What a write leaves in a file is text: the chunk, what was there, or holes.
LEMMA WrittenType ==
  ASSUME NEW s \in Seq(Text), NEW p \in Nat \ {0}, NEW c \in Text
  PROVE  Written(s, p, c) \in Seq(Text)
<1>. DEFINE n == IF p > Len(s) THEN p ELSE Len(s)
            v(k) == IF k = p THEN c ELSE IF k \in DOMAIN s THEN s[k] ELSE Zeros
<1>1. n \in Nat
  OBVIOUS
<1>2. \A k \in 1 .. n : v(k) \in Text
  BY DEF Text
<1>. HIDE DEF n, v
<1>3. [k \in 1 .. n |-> v(k)] \in Seq(Text)
  BY <1>1, <1>2
<1>4. Written(s, p, c) = [k \in 1 .. n |-> v(k)]
  BY DEF Written, n, v
<1>. QED
  BY <1>3, <1>4 DEF v

\* The root is a directory, and so is every directory's parent.
LEMMA DirTypes == Root \in Dir /\ Parent \in [Dir -> Dir]
  BY DirAssumption

\* The directories between a directory and the root.
LEMMA AncestorFacts ==
  /\ Ancestors[Root] = {Root}
  /\ \A d \in Dir : d \in Ancestors[d] /\ Root \in Ancestors[d]
  /\ \A d \in Dir \ {Root} : Ancestors[d] = {d} \cup Ancestors[Parent[d]]
  /\ \A d \in Dir \ {Root} : Parent[d] \in Ancestors[d]
  /\ \A d, e \in Dir : d \in Ancestors[e] => Ancestors[d] \subseteq Ancestors[e]
<1>1. \A d \in Dir \ {Root} : Parent[d] \in Dir
  BY DirAssumption
<1>. QED
  BY <1>1, DirAssumption

\* None is neither an inode nor a file.
LEMMA FileTypes == TarMax \in Nat /\ None \notin Inode /\ None \notin File
  BY FileAssumption

\* The volume and the index are empty at first, and no request has begun.
LEMMA TypeInit == Init => TypeInv
<1>. SUFFICES ASSUME Init  PROVE TypeInv
  OBVIOUS
<1>. USE DEF Init
<1>1. /\ dirent \in [File -> Inode \cup {None}]
      /\ rows \subseteq Row
      /\ stage \in [Request -> Stage]
      /\ cur \in [Request -> File \cup {None}]
      /\ fd \in [Request -> Inode \cup {None}]
      /\ off \in [Request -> Nat]
      /\ buf \in [Request -> Text]
  BY DEF Stage, Text
<1>2. /\ job \in [Post -> Upload \cup {None}]
      /\ nth \in [Post -> Nat]
      /\ left \in [Post -> 0..TarMax]
  BY FileTypes
<1>3. /\ here \in [Reindex -> Dir]
      /\ files \in [Reindex -> SUBSET File]
      /\ dirs \in [Reindex -> SUBSET Dir]
      /\ wiper \in Reindex \cup {None}
      /\ abandoned \subseteq File /\ touched \subseteq File
  BY DirTypes
<1>4. <<>> \in Seq(Text) /\ <<>> \in Seq(Chunk)
  OBVIOUS
<1>5. data \in [Inode -> Seq(Text)] /\ body \in [Post -> Seq(Chunk)]
  BY <1>4
<1>6. TypeOK
  BY <1>1, <1>2, <1>3, <1>5 DEF TypeOK
<1>7. Held /\ Frame
  BY DEF Held, Frame, Request, IndexStages
<1>. QED
  BY <1>6, <1>7 DEF TypeInv

\* An error in a directory's walk ends the request or takes it up one directory.
LEMMA CutShortType ==
  ASSUME TypeInv, NEW r \in Reindex, CutShort(r)
  PROVE  /\ stage' = [stage EXCEPT ![r] = IF here[r] = Root THEN "error" ELSE "walk"]
         /\ here' \in [Reindex -> Dir]
         /\ files' \in [Reindex -> SUBSET File]
         /\ dirs' \in [Reindex -> SUBSET Dir]
         /\ abandoned' \subseteq File
<1>. USE DEF TypeInv, TypeOK, CutShort
<1>1. stage' = [stage EXCEPT ![r] = IF here[r] = Root THEN "error" ELSE "walk"]
  BY DEF Goto
<1>2. here' \in [Reindex -> Dir]
  <2>1. CASE here[r] = Root  BY <2>1
  <2>2. CASE here[r] # Root
    <3>1. here' = [here EXCEPT ![r] = Parent[here[r]]]  BY <2>2
    <3>. QED  BY <3>1, DirTypes
  <2>. QED  BY <2>1, <2>2
<1>3. Under(here[r]) \subseteq File /\ Owed(r) \cap InHand(r) \subseteq File
  BY DEF Under, InHand, Held, Request
<1>4. abandoned' \subseteq File
  BY <1>3
<1>. QED
  BY <1>1, <1>2, <1>4

\* Every step keeps the types, the file and the inode a request works on, and where
\* a post is in its cascade.
LEMMA TypeNext == TypeInv /\ [Next]_vars => TypeInv'
<1>. SUFFICES ASSUME TypeInv, [Next]_vars  PROVE TypeInv'
  OBVIOUS
<1>. USE DEF TypeInv, TypeOK, Held, Frame, Stage, Active, Ended, IndexStages, WalkStages,
         Goto, store, reading, posting, walking, history, Request
<1>1. ASSUME NEW q \in Post, PostEntry(q)  PROVE TypeInv'
  BY <1>1, RequestAssumption, FileAssumption DEF PostEntry
<1>2. ASSUME NEW q \in Post, PostDone(q)  PROVE TypeInv'
  BY <1>2, RequestAssumption DEF PostDone
<1>3. ASSUME NEW q \in Post, BadArchive(q)  PROVE TypeInv'
  BY <1>3, RequestAssumption DEF BadArchive
<1>4. ASSUME NEW q \in Post, CreateFails(q)  PROVE TypeInv'
  BY <1>4, RequestAssumption DEF CreateFails
<1>5. ASSUME NEW q \in Post, Create(q)  PROVE TypeInv'
  <2>1. InodeFor(cur[q]) \in Inode
    BY <1>5 DEF Create, InodeFor, Unused
  <2>2. cur[q] \in File
    BY <1>5 DEF Create
  <2>3. <<>> \in Seq(Text)
    OBVIOUS
  <2>. QED  BY <1>5, <2>1, <2>2, <2>3, RequestAssumption, FileTypes DEF Create
<1>6. ASSUME NEW q \in Post, WriteChunk(q)  PROVE TypeInv'
  <2>1. fd[q] \in Inode /\ off[q] + 1 \in Nat \ {0} /\ off[q] \in Nat
    BY <1>6 DEF WriteChunk
  <2>2. body[q][off[q] + 1] \in Text
    BY <1>6, <2>1 DEF WriteChunk, Text
  <2>3. Written(data[fd[q]], off[q] + 1, body[q][off[q] + 1]) \in Seq(Text)
    BY <2>1, <2>2, WrittenType
  <2>. QED  BY <1>6, <2>1, <2>3, RequestAssumption DEF WriteChunk
<1>7. ASSUME NEW q \in Post, WriteEnd(q)  PROVE TypeInv'
  BY <1>7, RequestAssumption DEF WriteEnd, Close, AfterWrite, AfterName, Return, Text
<1>8. ASSUME NEW q \in Post, Derive(q)  PROVE TypeInv'
  <2>1. job[q] \in Upload /\ nth[q] + 1 \in DOMAIN Derivations(job[q]) /\ q \in Request
    <3>1. job[q] \in Upload /\ nth[q] \in Nat /\ nth[q] < Len(Derivations(job[q]))
      BY <1>8 DEF Derive
    <3>2. Derivations(job[q]) \in Seq(DerivationsOf(job[q]))
      BY DerivationsType
    <3>. QED  BY <3>1, <3>2
  <2>2. /\ Derivations(job[q])[nth[q] + 1].file \in File
        /\ IsDerived(Derivations(job[q])[nth[q] + 1].file)
    BY <2>1, DerivationsLemma
  <2>3. /\ cur' = [cur EXCEPT ![q] = Derivations(job[q])[nth[q] + 1].file]
        /\ nth' = [nth EXCEPT ![q] = @ + 1]
        /\ stage[q] = "derive" /\ stage' = [stage EXCEPT ![q] = "create"]
        /\ body' \in [Post -> Seq(Chunk)]
        /\ UNCHANGED <<store, fd, off, buf, job, left, walking, history>>
    BY <1>8, FileAssumption DEF Derive
  <2>4. TypeOK'
    <3>1. cur' \in [Request -> File \cup {None}] /\ nth' \in [Post -> Nat]
      BY <2>1, <2>2, <2>3
    <3>2. \A p \in Request : fd'[p] # None <=> stage'[p] \in {"write", "read", "insert"}
      BY <2>3
    <3>. QED  BY <2>1, <2>3, <3>1, <3>2
  <2>5. Held'
    BY <2>1, <2>2, <2>3
  <2>6. Frame'
    BY <2>1, <2>2, <2>3
  <2>. QED  BY <2>4, <2>5, <2>6
<1>9. ASSUME NEW q \in Post, DeriveNot(q)  PROVE TypeInv'
  BY <1>9, RequestAssumption DEF DeriveNot
<1>10. ASSUME NEW q \in Post, DeriveFails(q)  PROVE TypeInv'
  BY <1>10, RequestAssumption DEF DeriveFails
<1>11. ASSUME NEW q \in Post, DeriveEnd(q)  PROVE TypeInv'
  BY <1>11, RequestAssumption DEF DeriveEnd
<1>12. ASSUME NEW r \in Reindex, ReindexFails(r)  PROVE TypeInv'
  BY <1>12, RequestAssumption DEF ReindexFails
<1>13. ASSUME NEW r \in Reindex, Wipe(r)  PROVE TypeInv'
  BY <1>13, RequestAssumption, DirTypes DEF Wipe
<1>14. ASSUME NEW r \in Reindex, ListDir(r)  PROVE TypeInv'
  BY <1>14, RequestAssumption DEF ListDir
<1>15. ASSUME NEW r \in Reindex, ListFails(r)  PROVE TypeInv'
  <2>1. CutShort(r)
    BY <1>15 DEF ListFails
  <2>2. /\ stage' = [stage EXCEPT ![r] = IF here[r] = Root THEN "error" ELSE "walk"]
        /\ here' \in [Reindex -> Dir]
        /\ files' \in [Reindex -> SUBSET File]
        /\ dirs' \in [Reindex -> SUBSET Dir]
        /\ abandoned' \subseteq File
    BY <2>1, CutShortType
  <2>. QED  BY <1>15, <2>2, RequestAssumption DEF ListFails
<1>16. ASSUME NEW r \in Reindex, VisitDir(r)  PROVE TypeInv'
  <2>1. /\ stage[r] = "walk" /\ stage' = [stage EXCEPT ![r] = "list"]
        /\ here' \in [Reindex -> Dir] /\ dirs' \in [Reindex -> SUBSET Dir]
        /\ UNCHANGED <<store, reading, posting, files, history>>
    BY <1>16 DEF VisitDir
  <2>. QED  BY <2>1, RequestAssumption
<1>17. ASSUME NEW r \in Reindex, VisitFile(r)  PROVE TypeInv'
  BY <1>17, RequestAssumption DEF VisitFile
<1>18. ASSUME NEW r \in Reindex, Leave(r)  PROVE TypeInv'
  <2>1. here' \in [Reindex -> Dir]
    <3>1. here' = here \/ here' = [here EXCEPT ![r] = Parent[here[r]]]
      BY <1>18 DEF Leave
    <3>. QED  BY <3>1, DirTypes
  <2>2. stage[r] = "walk" /\ (stage' = stage \/ stage' = [stage EXCEPT ![r] = "ok"])
    BY <1>18 DEF Leave
  <2>3. UNCHANGED <<store, reading, posting, files, dirs, history>>
    BY <1>18 DEF Leave
  <2>. QED  BY <2>1, <2>2, <2>3, RequestAssumption
<1>19. ASSUME NEW q \in Post \cup Reindex, IndexName(q)  PROVE TypeInv'
  BY <1>19, RequestAssumption DEF IndexName, AfterNameOf, AfterName, Return, Row, Text
<1>20. ASSUME NEW q \in Post \cup Reindex, Open(q)  PROVE TypeInv'
  BY <1>20, RequestAssumption DEF Open
<1>21. ASSUME NEW q \in Post \cup Reindex, ReadChunk(q)  PROVE TypeInv'
  BY <1>21, RequestAssumption DEF ReadChunk
<1>22. ASSUME NEW q \in Post \cup Reindex, ReadFails(q)  PROVE TypeInv'
  BY <1>22, RequestAssumption DEF ReadFails, Text
<1>23. ASSUME NEW q \in Post \cup Reindex, InsertRow(q)  PROVE TypeInv'
  BY <1>23, RequestAssumption, FileAssumption DEF InsertRow, Original, Row
<1>24. ASSUME NEW q \in Post \cup Reindex, ReadEnd(q)  PROVE TypeInv'
  BY <1>24, RequestAssumption DEF ReadEnd, Close, AfterTextOf, Return, Text
<1>25. ASSUME NEW q \in Post \cup Reindex, Fails(q)  PROVE TypeInv'
  <2>1. CASE q \in Post
    <3>1. abandoned' = abandoned \cup InHand(q) /\ InHand(q) \subseteq File
      BY <1>25, <2>1, RequestAssumption DEF Fails, Owed, InHand
    <3>2. stage' = [stage EXCEPT ![q] = "error"] /\ UNCHANGED <<walking, wiper, touched>>
      BY <1>25, <2>1 DEF Fails
    <3>3. /\ fd' = [fd EXCEPT ![q] = None] /\ off' = [off EXCEPT ![q] = 0]
          /\ buf' = [buf EXCEPT ![q] = Nothing]
          /\ UNCHANGED <<store, cur, posting, wiper, touched>>
      BY <1>25 DEF Fails, Close
    <3>. QED  BY <2>1, <3>1, <3>2, <3>3, RequestAssumption DEF Text
  <2>2. CASE q \in Reindex
    <3>1. CutShort(q)
      BY <1>25, <2>2, RequestAssumption DEF Fails
    <3>2. /\ stage' = [stage EXCEPT ![q] = IF here[q] = Root THEN "error" ELSE "walk"]
          /\ here' \in [Reindex -> Dir]
          /\ files' \in [Reindex -> SUBSET File]
          /\ dirs' \in [Reindex -> SUBSET Dir]
          /\ abandoned' \subseteq File
      BY <2>2, <3>1, CutShortType
    <3>3. /\ fd' = [fd EXCEPT ![q] = None] /\ off' = [off EXCEPT ![q] = 0]
          /\ buf' = [buf EXCEPT ![q] = Nothing]
          /\ UNCHANGED <<store, cur, posting, wiper, touched>>
      BY <1>25 DEF Fails, Close
    <3>. QED  BY <2>2, <3>2, <3>3, RequestAssumption DEF Text
  <2>. QED  BY <2>1, <2>2
<1>26. ASSUME NEW q \in Delete, DeleteFile(q)  PROVE TypeInv'
  BY <1>26, RequestAssumption DEF DeleteFile
<1>27. ASSUME NEW q \in Delete, DeleteFails(q)  PROVE TypeInv'
  BY <1>27, RequestAssumption DEF DeleteFails
<1>28. CASE Crash
  BY <1>28, RequestAssumption DEF Crash, Owed, Ahead, Under, Beneath, InHand, Text
<1>29. CASE UNCHANGED vars
  BY <1>29 DEF vars
<1>. QED
  BY <1>1, <1>2, <1>3, <1>4, <1>5, <1>6, <1>7, <1>8, <1>9, <1>10, <1>11, <1>12, <1>13,
     <1>14, <1>15, <1>16, <1>17, <1>18, <1>19, <1>20, <1>21, <1>22, <1>23, <1>24, <1>25,
     <1>26, <1>27, <1>28, <1>29 DEF Next, PostStep, ReindexStep, IndexStep

\* No step gives an inode a second name, or a request another file's inode: a create
\* takes an unused inode or the file's own, an open the file's own.
LEMMA OneNameNext == TypeInv /\ OneName /\ [Next]_vars => OneName'
<1>. SUFFICES ASSUME TypeInv, OneName, [Next]_vars  PROVE OneName'
  OBVIOUS
<1>. USE RequestAssumption, FileTypes
     DEF TypeInv, TypeOK, Held, OneName, OnDisk, Goto, IndexStages, Active, WalkStages,
         store, reading, posting, walking, history, Request
<1>1. ASSUME NEW q \in Post, PostEntry(q)  PROVE OneName'
  BY <1>1 DEF PostEntry
<1>2. ASSUME NEW q \in Post, PostDone(q)  PROVE OneName'
  BY <1>2 DEF PostDone
<1>3. ASSUME NEW q \in Post, BadArchive(q)  PROVE OneName'
  BY <1>3 DEF BadArchive
<1>4. ASSUME NEW q \in Post, CreateFails(q)  PROVE OneName'
  BY <1>4 DEF CreateFails
<1>5. ASSUME NEW q \in Post, Create(q)  PROVE OneName'
  <2>. DEFINE f == cur[q]
              i == InodeFor(f)
  <2>1. f \in File
    BY <1>5 DEF Create, Frame
  <2>2. (i = dirent[f] /\ dirent[f] # None) \/ i \in Unused
    BY <1>5 DEF Create, InodeFor
  <2>3. /\ dirent' = [dirent EXCEPT ![f] = i]
        /\ fd' = [fd EXCEPT ![q] = i]
        /\ stage' = [stage EXCEPT ![q] = "write"]
        /\ UNCHANGED cur
    BY <1>5 DEF Create
  <2>. HIDE DEF i
  <2>4. i \in Inode
    BY <2>1, <2>2 DEF Unused
  <2>5. \A g \in File \ {f} : dirent[g] # i
    BY <2>1, <2>2 DEF Unused
  <2>6. \A p \in Post \cup Reindex :
          p # q /\ stage[p] \in {"write", "read", "insert"} /\ fd[p] = i => cur[p] = f
    BY <2>1, <2>2 DEF Unused
  <2>. HIDE DEF f
  <2>7. \A g, h \in File : dirent'[g] # None /\ dirent'[g] = dirent'[h] => g = h
    BY <2>1, <2>3, <2>4, <2>5
  <2>8. ASSUME NEW p \in Post \cup Reindex, stage'[p] \in {"write", "read", "insert"},
               NEW g \in File, dirent'[g] = fd'[p]
        PROVE  g = cur'[p]
    <3>1. CASE p = q
      BY <3>1, <2>1, <2>3, <2>4, <2>5, <2>8 DEF f
    <3>2. CASE p # q /\ g = f
      BY <3>2, <2>1, <2>3, <2>6, <2>8
    <3>3. CASE p # q /\ g # f
      BY <3>3, <2>1, <2>3, <2>8
    <3>. QED  BY <3>1, <3>2, <3>3
  <2>. QED  BY <2>7, <2>8
<1>6. ASSUME NEW q \in Post, WriteChunk(q)  PROVE OneName'
  BY <1>6 DEF WriteChunk
<1>7. ASSUME NEW q \in Post, WriteEnd(q)  PROVE OneName'
  BY <1>7 DEF WriteEnd, Close, AfterWrite, AfterName, Return
<1>8. ASSUME NEW q \in Post, Derive(q)  PROVE OneName'
  BY <1>8 DEF Derive
<1>9. ASSUME NEW q \in Post, DeriveNot(q)  PROVE OneName'
  BY <1>9 DEF DeriveNot
<1>10. ASSUME NEW q \in Post, DeriveFails(q)  PROVE OneName'
  BY <1>10 DEF DeriveFails
<1>11. ASSUME NEW q \in Post, DeriveEnd(q)  PROVE OneName'
  BY <1>11 DEF DeriveEnd
<1>12. ASSUME NEW r \in Reindex, ReindexFails(r)  PROVE OneName'
  BY <1>12 DEF ReindexFails
<1>13. ASSUME NEW r \in Reindex, Wipe(r)  PROVE OneName'
  BY <1>13 DEF Wipe
<1>14. ASSUME NEW r \in Reindex, ListDir(r)  PROVE OneName'
  BY <1>14 DEF ListDir
<1>15. ASSUME NEW r \in Reindex, ListFails(r)  PROVE OneName'
  <2>1. /\ UNCHANGED <<dirent, fd, cur>>
        /\ \A p \in Post \cup Reindex : stage'[p] \in {"write", "read", "insert"} =>
             stage'[p] = stage[p]
    BY <1>15 DEF ListFails, CutShort
  <2>. QED  BY <2>1
<1>16. ASSUME NEW r \in Reindex, VisitDir(r)  PROVE OneName'
  BY <1>16 DEF VisitDir
<1>17. ASSUME NEW r \in Reindex, VisitFile(r)  PROVE OneName'
  BY <1>17 DEF VisitFile
<1>18. ASSUME NEW r \in Reindex, Leave(r)  PROVE OneName'
  <2>1. /\ UNCHANGED <<dirent, fd, cur>>
        /\ \A p \in Post \cup Reindex : stage'[p] \in {"write", "read", "insert"} =>
             stage'[p] = stage[p]
    BY <1>18 DEF Leave
  <2>. QED  BY <2>1
<1>19. ASSUME NEW q \in Post \cup Reindex, IndexName(q)  PROVE OneName'
  BY <1>19 DEF IndexName, AfterNameOf, AfterName, Return
<1>20. ASSUME NEW q \in Post \cup Reindex, Open(q)  PROVE OneName'
  BY <1>20 DEF Open
<1>21. ASSUME NEW q \in Post \cup Reindex, ReadChunk(q)  PROVE OneName'
  BY <1>21 DEF ReadChunk
<1>22. ASSUME NEW q \in Post \cup Reindex, ReadFails(q)  PROVE OneName'
  BY <1>22 DEF ReadFails
<1>23. ASSUME NEW q \in Post \cup Reindex, InsertRow(q)  PROVE OneName'
  BY <1>23 DEF InsertRow
<1>24. ASSUME NEW q \in Post \cup Reindex, ReadEnd(q)  PROVE OneName'
  BY <1>24 DEF ReadEnd, Close, AfterTextOf, Return
<1>25. ASSUME NEW q \in Post \cup Reindex, Fails(q)  PROVE OneName'
  BY <1>25 DEF Fails, Close, CutShort
<1>26. ASSUME NEW q \in Delete, DeleteFile(q)  PROVE OneName'
  BY <1>26 DEF DeleteFile
<1>27. ASSUME NEW q \in Delete, DeleteFails(q)  PROVE OneName'
  BY <1>27 DEF DeleteFails
<1>28. CASE Crash
  BY <1>28 DEF Crash
<1>29. CASE UNCHANGED vars
  BY <1>29 DEF vars
<1>. QED
  BY <1>1, <1>2, <1>3, <1>4, <1>5, <1>6, <1>7, <1>8, <1>9, <1>10, <1>11, <1>12, <1>13,
     <1>14, <1>15, <1>16, <1>17, <1>18, <1>19, <1>20, <1>21, <1>22, <1>23, <1>24, <1>25,
     <1>26, <1>27, <1>28, <1>29 DEF Next, PostStep, ReindexStep, IndexStep

\* A walk cut short leaves nothing pending in the directory it was in.
LEMMA CutShortPending ==
  ASSUME TypeInv, Pending, NEW r \in Reindex, stage[r] \in WalkStages, CutShort(r)
  PROVE  Pending'
<1>. USE DEF TypeInv, TypeOK, Pending
<1>. DEFINE over == here[r] = Root
<1>1. /\ stage' = [stage EXCEPT ![r] = IF over THEN "error" ELSE "walk"]
      /\ here' = IF over THEN here ELSE [here EXCEPT ![r] = Parent[here[r]]]
      /\ files' = [files EXCEPT ![r] = @ \ Under(here[r])]
      /\ dirs' = [dirs EXCEPT ![r] = {d \in dirs[r] : here[r] \notin Ancestors[d]}]
  BY DEF CutShort, Goto
<1>2. ASSUME over  PROVE files'[r] = {} /\ dirs'[r] = {}
  <2>1. files[r] \subseteq Under(Root)
    BY AncestorFacts, FileAssumption DEF Under
  <2>2. \A d \in dirs[r] : Root \in Ancestors[d]
    BY AncestorFacts
  <2>. QED  BY <1>1, <1>2, <2>1, <2>2
<1>3. ASSUME ~over
      PROVE  /\ \A f \in files'[r] : f.dir \in Ancestors[Parent[here[r]]]
             /\ \A d \in dirs'[r] : d # Root /\ Parent[d] \in Ancestors[Parent[here[r]]]
  <2>1. here[r] \in Dir \ {Root}
    BY <1>3
  <2>2. Ancestors[here[r]] = {here[r]} \cup Ancestors[Parent[here[r]]]
    BY <2>1, AncestorFacts
  <2>3. \A f \in files'[r] : f \in files[r] /\ f.dir # here[r]
    <3>. SUFFICES ASSUME NEW f \in files[r], f.dir = here[r]  PROVE f \in Under(here[r])
      BY <1>1
    <3>. QED  BY AncestorFacts DEF Under
  <2>4. \A d \in dirs'[r] : d \in dirs[r] /\ here[r] \notin Ancestors[d]
    BY <1>1
  <2>5. \A d \in dirs[r] : Parent[d] \in Ancestors[d]
    <3>. TAKE d \in dirs[r]
    <3>1. d \in Dir \ {Root}
      OBVIOUS
    <3>. QED  BY <3>1, AncestorFacts
  <2>6. \A f \in files'[r] : f.dir \in Ancestors[Parent[here[r]]]
    BY <2>2, <2>3
  <2>7. ASSUME NEW d \in dirs'[r]  PROVE d # Root /\ Parent[d] \in Ancestors[Parent[here[r]]]
    <3>1. d \in dirs[r] /\ Parent[d] \in Ancestors[here[r]] /\ Parent[d] # here[r] /\ d # Root
      BY <2>4, <2>5
    <3>. QED  BY <3>1, <2>2
  <2>. QED  BY <2>6, <2>7
<1>. QED
  <2>1. CASE over
    BY <2>1, <1>1, <1>2 DEF WalkStages
  <2>2. CASE ~over
    BY <2>2, <1>1, <1>3 DEF WalkStages
  <2>. QED  BY <2>1, <2>2

\* No step leaves anything pending outside the directories a reindex is walking.
LEMMA PendingNext == TypeInv /\ Pending /\ [Next]_vars => Pending'
<1>. SUFFICES ASSUME TypeInv, Pending, [Next]_vars  PROVE Pending'
  OBVIOUS
<1>. USE RequestAssumption
     DEF TypeInv, TypeOK, Held, Frame, Pending, Goto, IndexStages, Active, WalkStages,
         store, reading, posting, walking, history, Request
<1>1. ASSUME NEW q \in Post, PostEntry(q)  PROVE Pending'
  BY <1>1 DEF PostEntry
<1>2. ASSUME NEW q \in Post, PostDone(q)  PROVE Pending'
  BY <1>2 DEF PostDone
<1>3. ASSUME NEW q \in Post, BadArchive(q)  PROVE Pending'
  BY <1>3 DEF BadArchive
<1>4. ASSUME NEW q \in Post, CreateFails(q)  PROVE Pending'
  BY <1>4 DEF CreateFails
<1>5. ASSUME NEW q \in Post, Create(q)  PROVE Pending'
  BY <1>5 DEF Create, InodeFor, Unused
<1>6. ASSUME NEW q \in Post, WriteChunk(q)  PROVE Pending'
  BY <1>6 DEF WriteChunk
<1>7. ASSUME NEW q \in Post, WriteEnd(q)  PROVE Pending'
  BY <1>7 DEF WriteEnd, Close, AfterWrite, AfterName, Return
<1>8. ASSUME NEW q \in Post, Derive(q)  PROVE Pending'
  BY <1>8 DEF Derive
<1>9. ASSUME NEW q \in Post, DeriveNot(q)  PROVE Pending'
  BY <1>9 DEF DeriveNot
<1>10. ASSUME NEW q \in Post, DeriveFails(q)  PROVE Pending'
  BY <1>10 DEF DeriveFails
<1>11. ASSUME NEW q \in Post, DeriveEnd(q)  PROVE Pending'
  BY <1>11 DEF DeriveEnd
<1>12. ASSUME NEW r \in Reindex, ReindexFails(r)  PROVE Pending'
  BY <1>12 DEF ReindexFails
<1>13. ASSUME NEW r \in Reindex, Wipe(r)  PROVE Pending'
  BY <1>13 DEF Wipe
<1>14. ASSUME NEW r \in Reindex, ListDir(r)  PROVE Pending'
  <2>1. PICK ds \in SUBSET {d \in Dir \ {Root} : Parent[d] = here[r]} :
          dirs' = [dirs EXCEPT ![r] = @ \cup ds]
    BY <1>14 DEF ListDir
  <2>2. here[r] \in Ancestors[here[r]]
    BY AncestorFacts
  <2>. QED  BY <1>14, <2>1, <2>2 DEF ListDir
<1>15. ASSUME NEW r \in Reindex, ListFails(r)  PROVE Pending'
  BY <1>15, CutShortPending DEF ListFails
<1>16. ASSUME NEW r \in Reindex, VisitDir(r)  PROVE Pending'
  <2>1. PICK d \in dirs[r] : /\ d # Root /\ Parent[d] = here[r]
                             /\ here' = [here EXCEPT ![r] = d]
                             /\ dirs' = [dirs EXCEPT ![r] = @ \ {d}]
    BY <1>16 DEF VisitDir
  <2>2. Ancestors[here[r]] \subseteq Ancestors[d]
    BY <2>1, AncestorFacts
  <2>. QED  BY <1>16, <2>1, <2>2 DEF VisitDir
<1>17. ASSUME NEW r \in Reindex, VisitFile(r)  PROVE Pending'
  BY <1>17 DEF VisitFile
<1>18. ASSUME NEW r \in Reindex, Leave(r)  PROVE Pending'
  <2>1. CASE here[r] = Root
    <3>1. files[r] = {} /\ dirs[r] = {}
      BY <1>18, <2>1, AncestorFacts DEF Leave
    <3>. QED  BY <1>18, <2>1, <3>1 DEF Leave
  <2>2. CASE here[r] # Root
    <3>1. /\ here' = [here EXCEPT ![r] = Parent[here[r]]]
          /\ UNCHANGED <<stage, cur, files, dirs>>
      BY <1>18, <2>2 DEF Leave
    <3>2. /\ \A f \in files[r] : f.dir \in Ancestors[Parent[here[r]]]
          /\ \A d \in dirs[r] : Parent[d] \in Ancestors[Parent[here[r]]]
      <4>1. here[r] \in Dir \ {Root}
        BY <2>2
      <4>2. Ancestors[here[r]] = {here[r]} \cup Ancestors[Parent[here[r]]]
        BY <4>1, AncestorFacts
      <4>3. /\ \A f \in files[r] : f.dir # here[r]
            /\ \A d \in dirs[r] : Parent[d] # here[r]
        BY <1>18 DEF Leave
      <4>. QED  BY <4>2, <4>3
    <3>. QED  BY <3>1, <3>2
  <2>. QED  BY <2>1, <2>2
<1>19. ASSUME NEW q \in Post \cup Reindex, IndexName(q)  PROVE Pending'
  BY <1>19 DEF IndexName, AfterNameOf, AfterName, Return
<1>20. ASSUME NEW q \in Post \cup Reindex, Open(q)  PROVE Pending'
  BY <1>20 DEF Open
<1>21. ASSUME NEW q \in Post \cup Reindex, ReadChunk(q)  PROVE Pending'
  BY <1>21 DEF ReadChunk
<1>22. ASSUME NEW q \in Post \cup Reindex, ReadFails(q)  PROVE Pending'
  BY <1>22 DEF ReadFails
<1>23. ASSUME NEW q \in Post \cup Reindex, InsertRow(q)  PROVE Pending'
  BY <1>23 DEF InsertRow
<1>24. ASSUME NEW q \in Post \cup Reindex, ReadEnd(q)  PROVE Pending'
  BY <1>24 DEF ReadEnd, Close, AfterTextOf, Return
<1>25. ASSUME NEW q \in Post \cup Reindex, Fails(q)  PROVE Pending'
  <2>1. CASE q \in Post
    <3>1. stage' = [stage EXCEPT ![q] = "error"] /\ UNCHANGED <<here, files, dirs>>
      BY <1>25, <2>1 DEF Fails
    <3>. QED  BY <2>1, <3>1
  <2>2. CASE q \in Reindex
    <3>1. CutShort(q)
      BY <1>25, <2>2 DEF Fails
    <3>2. stage[q] \in {"write", "name", "open", "insert"}
      BY <1>25 DEF Fails
    <3>3. stage[q] \in WalkStages
      BY <2>2, <3>2
    <3>. QED  BY <2>2, <3>1, <3>3, CutShortPending
  <2>. QED  BY <2>1, <2>2
<1>26. ASSUME NEW q \in Delete, DeleteFile(q)  PROVE Pending'
  BY <1>26 DEF DeleteFile
<1>27. ASSUME NEW q \in Delete, DeleteFails(q)  PROVE Pending'
  BY <1>27 DEF DeleteFails
<1>28. CASE Crash
  BY <1>28 DEF Crash
<1>29. CASE UNCHANGED vars
  BY <1>29 DEF vars
<1>. QED
  BY <1>1, <1>2, <1>3, <1>4, <1>5, <1>6, <1>7, <1>8, <1>9, <1>10, <1>11, <1>12, <1>13,
     <1>14, <1>15, <1>16, <1>17, <1>18, <1>19, <1>20, <1>21, <1>22, <1>23, <1>24, <1>25,
     <1>26, <1>27, <1>28, <1>29 DEF Next, PostStep, ReindexStep, IndexStep

(***************************************************************************)
(* NameKept and TextKept.  Most steps leave the other requests and the     *)
(* volume alone; what is left to show of them is that the request that     *)
(* takes the step does what it still had to do, or still will.             *)
(***************************************************************************)
Same(q) ==
  /\ stage'[q] = stage[q] /\ cur'[q] = cur[q]
  /\ fd'[q] = fd[q] /\ off'[q] = off[q] /\ buf'[q] = buf[q]
  /\ q \in Reindex => /\ here'[q] = here[q]
                      /\ files'[q] = files[q] /\ dirs'[q] = dirs[q]

Others(q) == \A p \in Request \ {q} : Same(p)

\* No file comes into being or changes, and no row is lost.
Steady ==
  /\ rows \subseteq rows' /\ abandoned \subseteq abandoned'
  /\ wiper' = wiper /\ data' = data
  /\ \A f \in File : dirent'[f] \in {dirent[f], None}

NameDone(q, f) == f \in abandoned' \/ HasRow(f, Name)' \/ WillName(q, f)'

TextDone(q, f, k) ==
  f \in abandoned' \/ HasRow(f, data[dirent[f]][k])' \/ WillText(q, f, k)'

Handover(q) ==
  /\ \A f \in File : ~IsDerived(f) /\ OnDisk(f) /\ WillName(q, f) => NameDone(q, f)
  /\ \A f \in File : IsTextFile(f) /\ OnDisk(f) /\ dirent'[f] = dirent[f] =>
       \A k \in DOMAIN data[dirent[f]] : WillText(q, f, k) => TextDone(q, f, k)

\* A row stays while the index only grows.
LEMMA HasRowMono ==
  ASSUME rows \subseteq rows', NEW f, NEW t
  PROVE  HasRow(f, t) => HasRow(f, t)'
  BY DEF HasRow

\* A reindex goes on having ahead what its step leaves alone.
LEMMA AheadMono ==
  ASSUME NEW r \in Reindex, files'[r] = files[r], dirs'[r] = dirs[r], here'[r] = here[r],
         stage[r] = "list" => stage'[r] = "list"
  PROVE  Ahead(r) \subseteq Ahead(r)'
  BY DEF Ahead, Beneath, Under

\* A reindex whose walk stands still will visit what it would have visited.
LEMMA VisitMono ==
  ASSUME NEW q, NEW f, wiper' = wiper,
         q \in Reindex => /\ files'[q] = files[q] /\ dirs'[q] = dirs[q]
                          /\ here'[q] = here[q]
                          /\ stage[q] = "list" => stage'[q] = "list"
  PROVE  WillVisit(q, f) => WillVisit(q, f)'
  BY AheadMono DEF WillVisit

\* A request that a step leaves alone will index what it would have indexed.
LEMMA WillSame ==
  ASSUME NEW q \in Request, NEW f \in File, Same(q), wiper' = wiper
  PROVE  /\ WillName(q, f) => WillName(q, f)'
         /\ \A k : /\ dirent'[f] = dirent[f]
                   /\ data'[dirent[f]][k] = data[dirent[f]][k]
                   /\ WillText(q, f, k)
                   => WillText(q, f, k)'
<1>1. WillVisit(q, f) => WillVisit(q, f)'
  BY VisitMono DEF Same
<1>2. WillName(q, f) => WillName(q, f)'
  BY <1>1 DEF WillName, Responsible, Same
<1>3. ASSUME NEW k, dirent'[f] = dirent[f], data'[dirent[f]][k] = data[dirent[f]][k],
             WillText(q, f, k)
      PROVE  WillText(q, f, k)'
  BY <1>1, <1>3 DEF WillText, Responsible, Same
<1>. QED
  BY <1>2, <1>3

\* A step that keeps the stores, gives up nothing silently and hands over what its
\* request had in hand keeps both invariants.
LEMMA SteadyStep ==
  ASSUME NameKept, TextKept, NEW q \in Request, Steady, Others(q), Handover(q)
  PROVE  NameKept' /\ TextKept'
<1>1. ASSUME NEW f \in File, OnDisk(f)', f \notin abandoned'
      PROVE  OnDisk(f) /\ f \notin abandoned /\ dirent'[f] = dirent[f]
  BY <1>1 DEF Steady, OnDisk
<1>2. ASSUME NEW f \in File, OnDisk(f)', f \notin abandoned', ~IsDerived(f)
      PROVE  HasRow(f, Name)' \/ \E p \in Request : WillName(p, f)'
  <2>1. CASE HasRow(f, Name)
    BY <2>1, HasRowMono DEF Steady
  <2>2. ASSUME NEW p \in Request, WillName(p, f)
        PROVE  HasRow(f, Name)' \/ \E o \in Request : WillName(o, f)'
    <3>1. CASE p = q
      BY <1>1, <1>2, <2>2, <3>1 DEF Handover, NameDone
    <3>2. CASE p # q
      BY <2>2, <3>2, WillSame DEF Others, Steady
    <3>. QED  BY <3>1, <3>2
  <2>. QED  BY <1>1, <1>2, <2>1, <2>2 DEF NameKept
<1>3. ASSUME NEW f \in File, OnDisk(f)', f \notin abandoned', IsTextFile(f),
             NEW k \in DOMAIN data[dirent[f]]
      PROVE  \/ HasRow(f, data[dirent[f]][k])'
             \/ \E p \in Request : WillText(p, f, k)'
  <2>1. OnDisk(f) /\ f \notin abandoned /\ dirent'[f] = dirent[f]
    BY <1>1, <1>3
  <2>2. CASE HasRow(f, data[dirent[f]][k])
    <3>1. data'[dirent'[f]][k] = data[dirent[f]][k]
      BY <2>1 DEF Steady
    <3>. QED  BY <2>2, <3>1 DEF HasRow, Steady
  <2>3. ASSUME NEW p \in Request, WillText(p, f, k)
        PROVE  \/ HasRow(f, data[dirent[f]][k])'
               \/ \E o \in Request : WillText(o, f, k)'
    <3>1. CASE p = q
      BY <1>3, <2>1, <2>3, <3>1 DEF Handover, TextDone
    <3>2. CASE p # q
      BY <2>1, <2>3, <3>2, WillSame DEF Others, Steady
    <3>. QED  BY <3>1, <3>2
  <2>. QED  BY <2>1, <1>3, <2>2, <2>3 DEF TextKept
<1>. QED
  <2>1. NameKept'
    BY <1>2 DEF NameKept
  <2>2. TextKept'
    BY <1>1, <1>3 DEF TextKept, Steady
  <2>. QED  BY <2>1, <2>2

\* The steps of a post that has nothing to index at the moment.
LEMMA PostQuiet ==
  ASSUME TypeInv, NEW q \in Post,
         PostEntry(q) \/ PostDone(q) \/ BadArchive(q) \/ CreateFails(q)
           \/ Derive(q) \/ DeriveNot(q) \/ DeriveFails(q) \/ DeriveEnd(q)
  PROVE  Steady /\ Others(q) /\ Handover(q)
<1>1. Steady
  BY DEF PostEntry, PostDone, BadArchive, CreateFails, Derive, DeriveNot, DeriveFails,
         DeriveEnd, Steady, store, history
<1>2. Others(q)
  BY RequestAssumption DEF TypeInv, TypeOK, Request, PostEntry, PostDone, BadArchive,
     CreateFails, Derive, DeriveNot, DeriveFails,
         DeriveEnd, Others, Same, reading, walking, Goto
<1>3. stage[q] \in {"new", "next", "create", "derive"} /\ q \notin Reindex
  BY RequestAssumption DEF PostEntry, PostDone, BadArchive, CreateFails, Derive,
     DeriveNot, DeriveFails,
         DeriveEnd
<1>4. Handover(q)
  BY <1>3 DEF Handover, WillName, WillText, WillVisit
<1>. QED  BY <1>1, <1>2, <1>4

\* A post that has written its file goes on to its name or its text.
LEMMA PostWriteEnd ==
  ASSUME TypeInv, NEW q \in Post, WriteEnd(q)
  PROVE  Steady /\ Others(q) /\ Handover(q)
<1>1. Steady
  BY DEF WriteEnd, Steady, store, history
<1>2. Others(q)
  BY RequestAssumption DEF TypeInv, TypeOK, Request, WriteEnd, Close, Others, Same, walking, Goto
<1>3. /\ cur[q] \in File /\ q \notin Reindex /\ job[q] \in Upload
      /\ stage'[q] = AfterWrite(q) /\ cur'[q] = cur[q]
  BY RequestAssumption DEF WriteEnd, TypeInv, TypeOK, Frame, IndexStages, Goto, Request
<1>4. /\ nth[q] # 0 => IsDerived(cur[q])
      /\ nth[q] # 0 /\ IsTextFile(cur[q]) => Cascade(q)
  BY DerivationsLemma DEF WriteEnd, TypeInv, Frame, Cascade, IndexStages
<1>5. ~IsDerived(cur[q]) => AfterWrite(q) = "name"
  BY <1>4 DEF AfterWrite, Cascade
<1>6. IsTextFile(cur[q]) => ~IsDoc(cur[q]) /\ ~IsImage(cur[q])
  BY DEF IsTextFile, IsDoc, IsImage
<1>7. IsTextFile(cur[q]) => AfterWrite(q) \in {"name", "open"}
  BY <1>4, <1>6 DEF AfterWrite, AfterName, Cascade
<1>8. Handover(q)
  BY <1>3, <1>5, <1>7 DEF Handover, WillName, WillText, WillVisit, NameDone, TextDone, Responsible
<1>. QED  BY <1>1, <1>2, <1>8

\* IndexName, Open, ReadChunk, ReadFails, InsertRow and ReadEnd.
LEMMA IndexFrame ==
  ASSUME TypeInv, NEW q \in Post \cup Reindex,
         IndexName(q) \/ Open(q) \/ ReadChunk(q) \/ ReadFails(q) \/ InsertRow(q) \/ ReadEnd(q)
  PROVE  /\ Steady /\ Others(q)
         /\ cur[q] \in File /\ cur'[q] = cur[q] /\ dirent' = dirent
         /\ \A f \in File : WillVisit(q, f) => WillVisit(q, f)'
         /\ Responsible(q) => Responsible(q)'
<1>. USE DEF IndexName, Open, ReadChunk, ReadFails, InsertRow, ReadEnd
<1>1. Steady /\ dirent' = dirent
  BY DEF Steady, store, history
<1>2. Others(q)
  <2>. USE RequestAssumption DEF TypeInv, TypeOK, Request, Close, Others, Same, walking,
           reading, Goto
  <2>1. CASE IndexName(q)  BY <2>1
  <2>2. CASE Open(q)       BY <2>2
  <2>3. CASE ReadChunk(q)  BY <2>3
  <2>4. CASE ReadFails(q)  BY <2>4
  <2>5. CASE InsertRow(q)  BY <2>5
  <2>6. CASE ReadEnd(q)    BY <2>6
  <2>. QED  BY <2>1, <2>2, <2>3, <2>4, <2>5, <2>6
<1>3. cur[q] \in File /\ cur'[q] = cur[q]
  BY DEF TypeInv, Held, IndexStages, reading
<1>4. stage[q] # "list" /\ UNCHANGED <<files, dirs, here, wiper>>
  BY DEF walking, history
<1>5. \A f \in File : WillVisit(q, f) => WillVisit(q, f)'
  BY <1>4, VisitMono
<1>6. Responsible(q) => Responsible(q)'
  BY <1>4 DEF Responsible
<1>. QED  BY <1>1, <1>2, <1>3, <1>5, <1>6

\* Each of these leaves in the index, or still in hand, all that was in hand before:
\* a chunk read and not inserted stays in hand, one that was inserted is a row.
LEMMA IndexHandover ==
  ASSUME TypeInv, NEW q \in Post \cup Reindex,
         IndexName(q) \/ Open(q) \/ ReadChunk(q) \/ ReadFails(q) \/ InsertRow(q) \/ ReadEnd(q)
  PROVE  Steady /\ Others(q) /\ Handover(q)
<1>1. /\ Steady /\ Others(q) /\ cur[q] \in File /\ cur'[q] = cur[q] /\ dirent' = dirent
      /\ \A f \in File : WillVisit(q, f) => WillVisit(q, f)'
      /\ Responsible(q) => Responsible(q)'
  BY IndexFrame
<1>. DEFINE f == cur[q]
<1>2. ASSUME ~IsDerived(f), stage[q] \in {"write", "name"}, Responsible(q)
      PROVE  NameDone(q, f)
  <2>1. [file |-> f, orig |-> f, text |-> Name] \in rows'
    BY <1>2 DEF IndexName, Open, ReadChunk, ReadFails, InsertRow, ReadEnd
  <2>. QED  BY <1>1, <2>1 DEF NameDone, HasRow
<1>3. ASSUME IsTextFile(f), OnDisk(f), NEW k \in DOMAIN data[dirent[f]], Responsible(q),
             stage[q] \in {"write", "name", "open"}
                \/ /\ stage[q] \in {"read", "insert"} /\ fd[q] = dirent[f]
                   /\ k > off[q] \/ (stage[q] = "insert" /\ buf[q] = data[dirent[f]][k])
      PROVE  TextDone(q, f, k)
  <2>. USE DEF TypeInv, TypeOK
  <2>0. q \in Request /\ dirent[f] \in Inode /\ data[dirent[f]] \in Seq(Text) /\ off[q] \in Nat
        /\ k \in 1 .. Len(data[dirent[f]]) /\ Len(data[dirent[f]]) \in Nat
    BY <1>1, <1>3 DEF Request, OnDisk
  <2>1. CASE IndexName(q)
    <3>1. stage'[q] = "open"
      <4>1. stage'[q] = AfterNameOf(q) /\ stage[q] = "name"
        BY <2>1, <2>0 DEF IndexName, Goto
      <4>2. ~IsDoc(f) /\ ~IsImage(f)
        BY <1>3 DEF IsTextFile, IsDoc, IsImage
      <4>3. CASE q \in Post
        <5>1. nth[q] # 0 => IsDerived(f)
          <6>1. /\ job[q] \in Upload
                /\ nth[q] # 0 => /\ nth[q] \in DOMAIN Derivations(job[q])
                                 /\ f = Derivations(job[q])[nth[q]].file
            BY <4>1, <4>3 DEF Frame, IndexStages
          <6>. QED  BY <6>1, DerivationsLemma
        <5>2. ~IsDerived(f)
          BY <4>1, <4>3 DEF Frame
        <5>. QED  BY <1>3, <4>1, <4>2, <4>3, <5>1, <5>2 DEF AfterNameOf, AfterName, Cascade
      <4>. QED  BY <1>3, <4>1, <4>3 DEF AfterNameOf
    <3>. QED  BY <1>1, <1>3, <3>1 DEF TextDone, WillText
  <2>2. CASE Open(q)
    <3>1. stage'[q] = "read" /\ fd'[q] = dirent[f] /\ off'[q] = 0
      BY <2>2, <2>0 DEF Open, Goto
    <3>. QED  BY <1>1, <1>3, <2>0, <3>1 DEF TextDone, WillText
  <2>3. CASE ReadChunk(q)
    <3>1. /\ stage'[q] = "insert" /\ fd'[q] = fd[q] /\ off'[q] = off[q] + 1
          /\ buf'[q] = data[fd[q]][off[q] + 1] /\ data' = data /\ stage[q] = "read"
      BY <2>3, <2>0 DEF ReadChunk, Goto, store
    <3>2. k > off[q] /\ fd[q] = dirent[f]
      BY <1>3, <3>1
    <3>3. k > off'[q] \/ buf'[q] = data'[dirent'[f]][k]
      BY <1>1, <2>0, <3>1, <3>2
    <3>. QED  BY <1>1, <1>3, <3>1, <3>2, <3>3 DEF TextDone, WillText
  <2>4. CASE ReadFails(q)
    <3>1. /\ stage'[q] = "insert" /\ fd'[q] = fd[q] /\ off'[q] = off[q] /\ stage[q] = "read"
      BY <2>4, <2>0 DEF ReadFails, Goto
    <3>. QED  BY <1>1, <1>3, <3>1 DEF TextDone, WillText
  <2>5. CASE InsertRow(q)
    <3>1. /\ stage'[q] = "read" /\ fd'[q] = fd[q] /\ off'[q] = off[q] /\ stage[q] = "insert"
          /\ data' = data /\ [file |-> f, orig |-> Original(q), text |-> buf[q]] \in rows'
      BY <2>5, <2>0 DEF InsertRow, Goto, reading
    <3>2. CASE k > off[q]
      BY <1>1, <1>3, <3>1, <3>2 DEF TextDone, WillText
    <3>3. CASE buf[q] = data[dirent[f]][k]
      <4>1. Original(q) \in File
        BY FileAssumption, <1>1, <3>1 DEF Original, Frame, IndexStages
      <4>. QED  BY <1>1, <3>1, <3>3, <4>1 DEF TextDone, HasRow
    <3>. QED  BY <1>3, <3>1, <3>2, <3>3
  <2>6. CASE ReadEnd(q)
    <3>1. stage[q] = "read" /\ off[q] >= Len(data[fd[q]])
      BY <2>6 DEF ReadEnd
    <3>2. k > off[q] /\ fd[q] = dirent[f]
      BY <1>3, <3>1
    <3>. QED  BY <2>0, <3>1, <3>2
  <2>. QED  BY <2>1, <2>2, <2>3, <2>4, <2>5, <2>6
<1>4. ASSUME NEW g \in File, ~IsDerived(g), WillName(q, g)  PROVE NameDone(q, g)
  BY <1>1, <1>2, <1>4 DEF WillName, NameDone
<1>5. ASSUME NEW g \in File, IsTextFile(g), OnDisk(g), NEW k \in DOMAIN data[dirent[g]],
             WillText(q, g, k)
      PROVE  TextDone(q, g, k)
  <2>1. CASE WillVisit(q, g)
    BY <1>1, <2>1 DEF TextDone, WillText
  <2>2. CASE ~WillVisit(q, g)
    <3>1. /\ g = f /\ Responsible(q)
          /\ \/ stage[q] \in {"write", "name", "open"}
             \/ /\ stage[q] \in {"read", "insert"} /\ fd[q] = dirent[f]
                /\ k > off[q] \/ (stage[q] = "insert" /\ buf[q] = data[dirent[f]][k])
      BY <1>5, <2>2 DEF WillText
    <3>. QED  BY <1>3, <1>5, <3>1
  <2>. QED  BY <2>1, <2>2
<1>. QED
  BY <1>1, <1>4, <1>5 DEF Handover

\* A reindex's own steps leave the stores and the other requests alone.
LEMMA ReindexFrame ==
  ASSUME TypeInv, NEW r \in Reindex,
         ReindexFails(r) \/ ListDir(r) \/ VisitDir(r) \/ VisitFile(r) \/ Leave(r) \/ ListFails(r)
  PROVE  /\ Steady /\ Others(r) /\ dirent' = dirent /\ r \notin Post
         /\ stage[r] \in {"new", "list", "walk"}
<1>. USE RequestAssumption DEF TypeInv, TypeOK, Request, Goto
<1>. USE DEF Steady, Others, Same, store, reading, history
<1>1. CASE ReindexFails(r)  BY <1>1 DEF ReindexFails, walking
<1>2. CASE ListDir(r)       BY <1>2 DEF ListDir
<1>3. CASE VisitDir(r)      BY <1>3 DEF VisitDir
<1>4. CASE VisitFile(r)     BY <1>4 DEF VisitFile
<1>5. CASE Leave(r)
  <2>1. CASE here[r] = Root  BY <1>5, <2>1 DEF Leave
  <2>2. CASE here[r] # Root  BY <1>5, <2>2 DEF Leave
  <2>. QED  BY <2>1, <2>2
<1>6. CASE ListFails(r)
  <2>1. CutShort(r) /\ stage[r] = "list"
        /\ UNCHANGED <<store, reading, posting, wiper, touched>>
    BY <1>6 DEF ListFails
  <2>2. CASE here[r] = Root  BY <2>1, <2>2 DEF CutShort
  <2>3. CASE here[r] # Root  BY <2>1, <2>3 DEF CutShort
  <2>. QED  BY <2>2, <2>3
<1>. QED  BY <1>1, <1>2, <1>3, <1>4, <1>5, <1>6

\* What a directory's walk leaves undone when it is cut short is abandoned.
LEMMA CutShortKeeps ==
  ASSUME TypeInv, NEW r \in Reindex, CutShort(r), wiper' = wiper, NEW f \in File,
         WillVisit(r, f) \/ (r = wiper /\ f \in InHand(r))
  PROVE  f \in abandoned' \/ WillVisit(r, f)'
<1>. USE DEF TypeInv, TypeOK
<1>1. r = wiper /\ Owed(r) = InHand(r) \cup Ahead(r)
  BY RequestAssumption DEF Owed, WillVisit
<1>2. f \in Owed(r) /\ f.dir \in Dir /\ here[r] \in Dir
  BY <1>1, FileAssumption DEF WillVisit
<1>3. CASE f \in InHand(r) \/ f \in Under(here[r])
  BY <1>2, <1>3 DEF CutShort
<1>4. CASE f \notin InHand(r) /\ f \notin Under(here[r])
  <2>1. f \in files[r] \cup Beneath(dirs[r])
    BY <1>1, <1>2, <1>4 DEF Ahead
  <2>2. CASE f \in files[r]
    <3>1. f \in files'[r]
      BY <2>2, <1>4 DEF CutShort
    <3>. QED  BY <1>1, <3>1 DEF WillVisit, Ahead
  <2>3. CASE f \in Beneath(dirs[r])
    <3>1. PICK d \in dirs[r] : d \in Ancestors[f.dir]
      BY <2>3 DEF Beneath
    <3>2. d \in Dir /\ (here[r] \in Ancestors[d] => here[r] \in Ancestors[f.dir])
      BY <1>2, <3>1, AncestorFacts
    <3>3. here[r] \notin Ancestors[d]
      BY <1>4, <3>2 DEF Under
    <3>4. d \in dirs'[r]
      BY <3>1, <3>3 DEF CutShort
    <3>5. f \in Beneath(dirs'[r])
      BY <3>1, <3>4 DEF Beneath
    <3>6. f \in Ahead(r)'
      BY <3>5 DEF Ahead, Beneath
    <3>. QED  BY <1>1, <3>6 DEF WillVisit
  <2>. QED  BY <2>1, <2>2, <2>3
<1>. QED  BY <1>3, <1>4

\* A listing takes over everything under the directory it lists that is on disk, and
\* each visit takes what it visits from what is pending.
LEMMA ReindexHandover ==
  ASSUME TypeInv, Pending, NEW r \in Reindex,
         ReindexFails(r) \/ ListDir(r) \/ VisitDir(r) \/ VisitFile(r) \/ Leave(r) \/ ListFails(r)
  PROVE  Steady /\ Others(r) /\ Handover(r)
<1>1. /\ Steady /\ Others(r) /\ dirent' = dirent /\ r \notin Post /\ wiper' = wiper
      /\ stage[r] \in {"new", "list", "walk"}
  BY ReindexFrame DEF Steady
<1>2. ASSUME NEW f \in File, WillVisit(r, f), OnDisk(f)
      PROVE  \/ f \in abandoned' \/ WillVisit(r, f)'
             \/ /\ r = wiper' /\ cur'[r] = f
                /\ ~IsDerived(f) => stage'[r] = "name"
                /\ IsTextFile(f) => stage'[r] \in {"name", "open"}
  <2>. USE DEF TypeInv, TypeOK
  <2>0. r = wiper /\ f \in Ahead(r) /\ f.dir \in Dir /\ r \in Request /\ here[r] \in Dir
    BY <1>2, FileAssumption DEF WillVisit, Request
  <2>1. CASE ReindexFails(r)
    <3>1. files[r] = {} /\ dirs[r] = {} /\ stage[r] = "new"
      BY <2>1 DEF ReindexFails, Pending, WalkStages
    <3>. QED  BY <2>0, <3>1 DEF Ahead, Beneath
  <2>2. CASE ListDir(r)
    <3>1. PICK ds \in SUBSET {d \in Dir \ {Root} : Parent[d] = here[r]} :
            /\ \A d \in Dir \ {Root} : /\ Parent[d] = here[r]
                                       /\ \E g \in Under(d) : dirent[g] # None
                                       => d \in ds
            /\ dirs' = [dirs EXCEPT ![r] = @ \cup ds]
      BY <2>2 DEF ListDir
    <3>2. /\ dirs'[r] = dirs[r] \cup ds
          /\ files'[r] = files[r] \cup {g \in File : g.dir = here[r] /\ dirent[g] # None}
      BY <2>2, <3>1 DEF ListDir
    <3>3. f \in files'[r] \cup Beneath(dirs'[r])
      <4>1. CASE f \in files[r] \cup Beneath(dirs[r])
        BY <3>2, <4>1 DEF Beneath
      <4>2. CASE f.dir = here[r]
        BY <1>2, <3>2, <4>2 DEF OnDisk
      <4>3. CASE f \in Under(here[r]) /\ f.dir # here[r]
        <5>1. PICK c \in Ancestors[f.dir] : c # Root /\ Parent[c] = here[r]
          BY <2>0, <4>3, DirAssumption DEF Under
        <5>2. c \in Dir \ {Root} /\ f \in Under(c)
          BY <2>0, <5>1, DirAssumption DEF Under
        <5>3. c \in ds
          BY <1>2, <3>1, <5>1, <5>2 DEF OnDisk
        <5>. QED  BY <3>2, <5>1, <5>3 DEF Beneath
      <4>. QED  BY <2>0, <2>2, <4>1, <4>2, <4>3 DEF Ahead, ListDir
    <3>4. f \in Ahead(r)'
      BY <3>3 DEF Ahead, Beneath
    <3>. QED  BY <1>1, <2>0, <3>4 DEF WillVisit
  <2>3. CASE VisitDir(r)
    <3>1. PICK d \in dirs[r] : /\ here' = [here EXCEPT ![r] = d]
                              /\ dirs' = [dirs EXCEPT ![r] = @ \ {d}]
      BY <2>3 DEF VisitDir
    <3>2. stage[r] = "walk" /\ stage'[r] = "list" /\ files' = files
      BY <2>0, <2>3 DEF VisitDir, Goto
    <3>3. f \in files[r] \cup Beneath(dirs[r])
      BY <2>0, <3>2 DEF Ahead
    <3>4. f \in files'[r] \cup Beneath(dirs'[r]) \cup Under(here'[r])
      BY <3>1, <3>2, <3>3 DEF Beneath, Under
    <3>5. f \in Ahead(r)'
      BY <3>2, <3>4 DEF Ahead, Beneath, Under
    <3>. QED  BY <1>1, <2>0, <3>5 DEF WillVisit
  <2>4. CASE VisitFile(r)
    <3>1. PICK g \in files[r] :
            /\ files' = [files EXCEPT ![r] = @ \ {g}]
            /\ cur' = [cur EXCEPT ![r] = g]
            /\ Goto(r, IF ~IsDerived(g) THEN "name"
                       ELSE IF IsTextFile(g) THEN "open" ELSE "walk")
      BY <2>4 DEF VisitFile
    <3>2. stage[r] = "walk" /\ dirs' = dirs
      BY <2>4 DEF VisitFile
    <3>3. CASE f = g
      BY <1>1, <2>0, <3>1, <3>3 DEF Goto
    <3>4. CASE f # g
      <4>1. f \in files'[r] \cup Beneath(dirs'[r])
        BY <2>0, <3>1, <3>2, <3>4 DEF Ahead
      <4>2. f \in Ahead(r)'
        BY <4>1 DEF Ahead, Beneath
      <4>. QED  BY <1>1, <2>0, <4>2 DEF WillVisit
    <3>. QED  BY <3>3, <3>4
  <2>5. CASE Leave(r)
    <3>1. stage[r] = "walk" /\ UNCHANGED <<files, dirs>>
      BY <2>5 DEF Leave
    <3>2. f \in files[r] \cup Beneath(dirs[r])
      BY <2>0, <3>1 DEF Ahead
    <3>3. f \in files'[r] \cup Beneath(dirs'[r])
      BY <3>1, <3>2
    <3>4. f \in Ahead(r)'
      BY <3>3 DEF Ahead, Beneath
    <3>. QED  BY <1>1, <2>0, <3>4 DEF WillVisit
  <2>6. CASE ListFails(r)
    BY <1>1, <1>2, <2>6, CutShortKeeps DEF ListFails
  <2>. QED  BY <2>1, <2>2, <2>3, <2>4, <2>5, <2>6
<1>3. ASSUME NEW f \in File, ~IsDerived(f), OnDisk(f), WillName(r, f)  PROVE NameDone(r, f)
  <2>1. WillVisit(r, f)
    BY <1>1, <1>3 DEF WillName
  <2>. QED  BY <1>2, <1>3, <2>1 DEF NameDone, WillName, Responsible
<1>4. ASSUME NEW f \in File, IsTextFile(f), OnDisk(f), NEW k \in DOMAIN data[dirent[f]],
             WillText(r, f, k)
      PROVE  TextDone(r, f, k)
  <2>1. WillVisit(r, f)
    BY <1>1, <1>4 DEF WillText
  <2>. QED  BY <1>2, <1>4, <2>1 DEF TextDone, WillText, Responsible
<1>. QED
  BY <1>1, <1>3, <1>4 DEF Handover

\* What a failing request had in hand is abandoned.
LEMMA FailsHandover ==
  ASSUME TypeInv, NEW q \in Post \cup Reindex, Fails(q)
  PROVE  Steady /\ Others(q) /\ Handover(q)
<1>. USE RequestAssumption DEF TypeInv, TypeOK, Request
<1>1. /\ stage[q] \in {"write", "name", "open", "insert"} /\ wiper' = wiper
      /\ UNCHANGED <<store, cur, posting, wiper, touched>>
      /\ fd' = [fd EXCEPT ![q] = None] /\ off' = [off EXCEPT ![q] = 0]
      /\ buf' = [buf EXCEPT ![q] = Nothing]
  BY DEF Fails, Close
<1>2. CASE q \in Post
  <2>1. /\ stage' = [stage EXCEPT ![q] = "error"] /\ UNCHANGED walking
        /\ abandoned' = abandoned \cup Owed(q)
    BY <1>2 DEF Fails, Goto
  <2>2. Owed(q) = {cur[q]} /\ q \notin Reindex
    BY <1>1, <1>2 DEF Owed, InHand, IndexStages
  <2>3. Steady
    BY <1>1, <2>1 DEF Steady, store
  <2>4. Others(q)
    BY <1>1, <1>2, <2>1 DEF Others, Same, walking
  <2>5. Handover(q)
    BY <2>1, <2>2 DEF Handover, WillName, WillText, WillVisit, NameDone, TextDone
  <2>. QED  BY <2>3, <2>4, <2>5
<1>3. CASE q \in Reindex
  <2>1. CutShort(q)
    BY <1>3 DEF Fails
  <2>2. Steady
    BY <1>1, <2>1 DEF Steady, store, CutShort
  <2>3. Others(q)
    <3>1. CASE here[q] = Root  BY <1>1, <1>3, <2>1, <3>1 DEF CutShort, Goto, Others, Same
    <3>2. CASE here[q] # Root  BY <1>1, <1>3, <2>1, <3>2 DEF CutShort, Goto, Others, Same
    <3>. QED  BY <3>1, <3>2
  <2>4. ASSUME NEW f \in File, WillVisit(q, f) \/ (Responsible(q) /\ cur[q] = f)
        PROVE  f \in abandoned' \/ WillVisit(q, f)'
    <3>1. WillVisit(q, f) \/ (q = wiper /\ f \in InHand(q))
      BY <1>1, <1>3, <2>4 DEF Responsible, InHand, IndexStages
    <3>. QED  BY <1>1, <1>3, <2>1, <3>1, CutShortKeeps
  <2>5. Handover(q)
    BY <2>4 DEF Handover, WillName, WillText, NameDone, TextDone
  <2>. QED  BY <2>2, <2>3, <2>5
<1>. QED  BY <1>2, <1>3

\* A delete takes a file off the disk and nothing else.
LEMMA DeleteHandover ==
  ASSUME TypeInv, NEW q \in Delete, DeleteFile(q) \/ DeleteFails(q)
  PROVE  Steady /\ Others(q) /\ Handover(q)
<1>1. Steady
  BY DEF DeleteFile, DeleteFails, Steady, TypeInv, TypeOK, store, history
<1>2. Others(q)
  BY DEF DeleteFile, DeleteFails, TypeInv, TypeOK, Request, Others, Same, Goto, reading, walking
<1>3. Handover(q)
  BY RequestAssumption DEF Handover, WillName, WillText, WillVisit, Responsible
<1>. QED  BY <1>1, <1>2, <1>3

\* A post that has just created or written its file has all of it to index.
LEMMA WritingStep ==
  ASSUME TypeInv', NameKept, TextKept, NEW q \in Post, NEW f \in File,
         Others(q), rows' = rows, wiper' = wiper,
         stage'[q] = "write", cur'[q] = f,
         \A g \in File \ {f} :
           /\ dirent'[g] = dirent[g] /\ data'[dirent[g]] = data[dirent[g]]
           /\ g \in abandoned => g \in abandoned'
           /\ ~WillName(q, g) /\ \A k : ~WillText(q, g, k)
  PROVE  NameKept' /\ TextKept'
<1>1. q \in Request /\ WillName(q, f)' /\ \A k : WillText(q, f, k)'
  BY DEF Request, WillName, WillText, Responsible
<1>2. ASSUME NEW g \in File, OnDisk(g)', g \notin abandoned', ~IsDerived(g)
      PROVE  HasRow(g, Name)' \/ \E p \in Request : WillName(p, g)'
  <2>1. CASE g = f
    BY <1>1, <2>1
  <2>2. CASE g # f
    <3>1. OnDisk(g) /\ g \notin abandoned
      BY <1>2, <2>2 DEF OnDisk
    <3>2. CASE HasRow(g, Name)
      BY <3>2 DEF HasRow
    <3>3. ASSUME NEW p \in Request, WillName(p, g)  PROVE WillName(p, g)'
      BY <2>2, <3>3, WillSame DEF Others
    <3>. QED  BY <1>2, <3>1, <3>2, <3>3 DEF NameKept
  <2>. QED  BY <2>1, <2>2
<1>3. ASSUME NEW g \in File, OnDisk(g)', g \notin abandoned', IsTextFile(g),
             NEW k \in DOMAIN data'[dirent'[g]]
      PROVE  \/ HasRow(g, data[dirent[g]][k])'
             \/ \E p \in Request : WillText(p, g, k)'
  <2>1. CASE g = f
    BY <1>1, <2>1
  <2>2. CASE g # f
    <3>1. /\ OnDisk(g) /\ g \notin abandoned /\ k \in DOMAIN data[dirent[g]]
          /\ data'[dirent'[g]][k] = data[dirent[g]][k]
      BY <1>3, <2>2 DEF OnDisk
    <3>2. CASE HasRow(g, data[dirent[g]][k])
      BY <3>1, <3>2 DEF HasRow
    <3>3. ASSUME NEW p \in Request, WillText(p, g, k)  PROVE WillText(p, g, k)'
      BY <2>2, <3>1, <3>3, WillSame DEF Others
    <3>. QED  BY <1>3, <3>1, <3>2, <3>3 DEF TextKept
  <2>. QED  BY <2>1, <2>2
<1>. QED
  BY <1>2, <1>3 DEF NameKept, TextKept

\* Creating a file empties it, and makes the post responsible for it.
LEMMA CreateStep ==
  ASSUME TypeInv, TypeInv', OneName, NameKept, TextKept, NEW q \in Post, Create(q)
  PROVE  NameKept' /\ TextKept'
<1>. DEFINE f == cur[q]
            i == InodeFor(f)
<1>1. /\ q \in Request /\ q \notin Reindex /\ stage[q] = "create"
      /\ f \in File /\ i \in Inode
      /\ dirent' = [dirent EXCEPT ![f] = i] /\ data' = [data EXCEPT ![i] = <<>>]
      /\ abandoned' = abandoned \ {f} /\ rows' = rows /\ wiper' = wiper
      /\ stage' = [stage EXCEPT ![q] = "write"] /\ cur' = cur
  BY RequestAssumption DEF TypeInv, TypeOK, Create, Frame, InodeFor, Unused, Request, Goto
<1>2. Others(q)
  BY <1>1 DEF TypeInv, TypeOK, Create, Others, Same, walking
<1>3. \A g \in File \ {f} : dirent[g] # i
  BY <1>1 DEF Create, InodeFor, Unused, OneName, OnDisk
<1>4. stage'[q] = "write" /\ cur'[q] = f
  BY <1>1 DEF TypeInv, TypeOK
<1>. HIDE DEF f, i
<1>5. ASSUME NEW g \in File \ {f}
      PROVE  dirent'[g] = dirent[g] /\ data'[dirent[g]] = data[dirent[g]]
  BY <1>1, <1>3 DEF TypeInv, TypeOK
<1>6. \A g \in File : ~WillName(q, g) /\ \A k : ~WillText(q, g, k)
  BY <1>1 DEF WillName, WillText, WillVisit
<1>. QED
  BY <1>1, <1>2, <1>4, <1>5, <1>6, WritingStep

\* A write puts a chunk at a place the post has still to read.
LEMMA WriteStep ==
  ASSUME TypeInv, TypeInv', OneName, NameKept, TextKept, NEW q \in Post, WriteChunk(q)
  PROVE  NameKept' /\ TextKept'
<1>. DEFINE f == cur[q]
            i == fd[q]
<1>1. /\ q \in Request /\ q \notin Reindex /\ stage[q] = "write"
      /\ f \in File /\ i \in Inode
      /\ data' = [data EXCEPT ![i] = Written(@, off[q] + 1, body[q][off[q] + 1])]
      /\ UNCHANGED <<dirent, rows, stage, cur, wiper, abandoned>>
  BY RequestAssumption
  DEF TypeInv, TypeOK, Held, WriteChunk, IndexStages, Request, history
<1>2. Others(q)
  BY <1>1 DEF TypeInv, TypeOK, WriteChunk, Others, Same, walking
<1>3. \A g \in File \ {f} : dirent[g] # i
  BY <1>1 DEF OneName
<1>4. \A g \in File \ {f} : ~WillName(q, g) /\ \A k : ~WillText(q, g, k)
  BY <1>1 DEF WillName, WillText, WillVisit
<1>5. stage'[q] = "write" /\ cur'[q] = f
  BY <1>1
<1>. HIDE DEF f, i
<1>6. ASSUME NEW g \in File \ {f}
      PROVE  dirent'[g] = dirent[g] /\ data'[dirent[g]] = data[dirent[g]]
  BY <1>1, <1>3 DEF TypeInv, TypeOK
<1>. QED
  BY <1>1, <1>2, <1>4, <1>5, <1>6, WritingStep

\* After a wipe every file is ahead of the reindex that wiped.
LEMMA WipeStep ==
  ASSUME TypeInv, NEW r \in Reindex, Wipe(r)
  PROVE  NameKept' /\ TextKept'
<1>1. r \in Request /\ wiper' = r /\ stage'[r] = "list" /\ here'[r] = Root
  BY DEF TypeInv, TypeOK, Wipe, Goto, Request
<1>2. \A f \in File : f \in Under(Root)
  BY FileAssumption, AncestorFacts DEF Under
<1>3. \A f \in File : WillVisit(r, f)'
  BY <1>1, <1>2 DEF WillVisit, Ahead, Under
<1>. QED
  BY <1>1, <1>3 DEF NameKept, TextKept, WillName, WillText

\* What a request will still do it owes.
LEMMA WillOwed ==
  ASSUME NEW q \in Request, NEW f \in File, NEW k, WillName(q, f) \/ WillText(q, f, k)
  PROVE  f \in Owed(q)
  BY RequestAssumption
  DEF WillName, WillText, WillVisit, Responsible, Owed, InHand, IndexStages, Request

\* What the requests that die in a crash still had to do is abandoned.
LEMMA CrashStep ==
  ASSUME NameKept, TextKept, Crash
  PROVE  NameKept' /\ TextKept'
<1>1. /\ UNCHANGED <<dirent, data, rows>>
      /\ abandoned' = abandoned \cup {f \in File : \E q \in Request : f \in Owed(q)}
  BY DEF Crash, store
<1>2. ASSUME NEW f \in File, OnDisk(f), f \notin abandoned'
      PROVE  /\ f \notin abandoned
             /\ \A q \in Request : ~WillName(q, f) /\ \A k : ~WillText(q, f, k)
  BY <1>1, <1>2, WillOwed
<1>3. NameKept'
  BY <1>1, <1>2 DEF NameKept, OnDisk, HasRow
<1>4. TextKept'
  BY <1>1, <1>2 DEF TextKept, OnDisk, HasRow
<1>. QED  BY <1>3, <1>4

\* A step that changes nothing keeps everything.
LEMMA StutterStep ==
  ASSUME NameKept, TextKept, UNCHANGED vars
  PROVE  NameKept' /\ TextKept'
  BY DEF NameKept, TextKept, OnDisk, HasRow, WillName, WillText, WillVisit, Responsible,
         Ahead, Beneath, Under, vars, store, reading, walking, history

\* Every step keeps the name and the text of every file on disk in the index, in
\* hand or abandoned.
LEMMA KeptNext ==
  ASSUME TypeInv, TypeInv', OneName, Pending, NameKept, TextKept, [Next]_vars
  PROVE  NameKept' /\ TextKept'
<1>1. ASSUME NEW q \in Post, PostStep(q)  PROVE NameKept' /\ TextKept'
  <2>. q \in Request
    BY DEF Request
  <2>1. CASE Create(q)      BY <2>1, CreateStep
  <2>2. CASE WriteChunk(q)  BY <2>2, WriteStep
  <2>3. CASE WriteEnd(q)    BY <2>3, PostWriteEnd, SteadyStep
  <2>4. CASE \/ PostEntry(q) \/ PostDone(q) \/ BadArchive(q) \/ CreateFails(q)
             \/ Derive(q) \/ DeriveNot(q) \/ DeriveFails(q) \/ DeriveEnd(q)
    BY <2>4, PostQuiet, SteadyStep
  <2>. QED  BY <1>1, <2>1, <2>2, <2>3, <2>4 DEF PostStep
<1>2. ASSUME NEW r \in Reindex, ReindexStep(r)  PROVE NameKept' /\ TextKept'
  <2>. r \in Request
    BY DEF Request
  <2>1. CASE Wipe(r)
    BY <2>1, WipeStep
  <2>2. CASE \/ ReindexFails(r) \/ ListDir(r) \/ VisitDir(r) \/ VisitFile(r)
             \/ Leave(r) \/ ListFails(r)
    BY <2>2, ReindexHandover, SteadyStep
  <2>. QED  BY <1>2, <2>1, <2>2 DEF ReindexStep
<1>3. ASSUME NEW q \in Post \cup Reindex, IndexStep(q)  PROVE NameKept' /\ TextKept'
  <2>. q \in Request
    BY DEF Request
  <2>1. CASE Fails(q)
    BY <2>1, FailsHandover, SteadyStep
  <2>2. CASE \/ IndexName(q) \/ Open(q) \/ ReadChunk(q) \/ ReadFails(q)
             \/ InsertRow(q) \/ ReadEnd(q)
    BY <2>2, IndexHandover, SteadyStep
  <2>. QED  BY <1>3, <2>1, <2>2 DEF IndexStep
<1>4. ASSUME NEW q \in Delete, DeleteFile(q) \/ DeleteFails(q)  PROVE NameKept' /\ TextKept'
  <2>. q \in Request
    BY DEF Request
  <2>. QED  BY <1>4, DeleteHandover, SteadyStep
<1>5. CASE Crash           BY <1>5, CrashStep
<1>6. CASE UNCHANGED vars  BY <1>6, StutterStep
<1>. QED
  BY <1>1, <1>2, <1>3, <1>4, <1>5, <1>6 DEF Next

-----------------------------------------------------------------------------

\* The initial states satisfy the invariant.
LEMMA InvInit == Init => TypeInv /\ IndexInv
<1>. SUFFICES ASSUME Init  PROVE TypeInv /\ IndexInv
  OBVIOUS
<1>1. TypeInv
  BY TypeInit
<1>2. OneName /\ NameKept /\ TextKept
  BY DEF Init, OneName, NameKept, TextKept, OnDisk, Request
<1>3. Pending
  BY DEF Init, Pending, WalkStages, Request
<1>. QED  BY <1>1, <1>2, <1>3 DEF IndexInv, TypeInv

\* Every step keeps it.
LEMMA InvNext == TypeInv /\ IndexInv /\ [Next]_vars => TypeInv' /\ IndexInv'
<1>. SUFFICES ASSUME TypeInv, IndexInv, [Next]_vars  PROVE TypeInv' /\ IndexInv'
  OBVIOUS
<1>1. OneName /\ Pending /\ NameKept /\ TextKept
  BY DEF IndexInv
<1>2. TypeInv'
  BY TypeNext
<1>3. OneName' /\ Pending'
  BY <1>1, OneNameNext, PendingNext
<1>4. NameKept' /\ TextKept'
  BY <1>1, <1>2, KeptNext
<1>. QED  BY <1>2, <1>3, <1>4 DEF IndexInv, TypeInv

\* The types of the module's variables hold in every reachable state.
THEOREM TypeCorrect == Spec => []TypeOK
<1>1. TypeInv => TypeOK
  BY DEF TypeInv
<1>. QED  BY InvInit, InvNext, <1>1, PTL DEF Spec

\* The inductive invariant: every part of a file on disk is in the index, will
\* be put there by a request at work, or was abandoned by a failure.
THEOREM IndexInvariant == Spec => []IndexInv
  BY InvInit, InvNext, PTL DEF Spec

\* No file on disk falls out of the index, whatever the requests, the files,
\* the directories and the interleaving (post.go:119-161, get.go:96-113).
THEOREM NothingLost == Spec => []NoLostIndex
<1>1. TypeInv /\ IndexInv => NoLostIndex
  <2>. SUFFICES ASSUME TypeInv, IndexInv, NEW f \in File, OnDisk(f), f \notin abandoned,
                       \A q \in Request : f \notin Owed(q)
                PROVE  NameIndexed(f) /\ TextIndexed(f)
    BY DEF NoLostIndex
  <2>1. \A q \in Request : ~WillName(q, f) /\ \A k : ~WillText(q, f, k)
    BY WillOwed
  <2>2. NameIndexed(f)
    BY <2>1 DEF IndexInv, NameKept, NameIndexed
  <2>3. TextIndexed(f)
    BY <2>1 DEF IndexInv, TextKept, TextIndexed
  <2>. QED  BY <2>2, <2>3
<1>. QED  BY InvInit, InvNext, <1>1, PTL DEF Spec
=============================================================================
