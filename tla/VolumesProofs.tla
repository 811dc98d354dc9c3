--------------------------- MODULE VolumesProofs ---------------------------
(***************************************************************************)
(* Proofs about Volumes, for any tree, files and requests, on the disk and *)
(* on the bucket.                                                          *)
(***************************************************************************)
EXTENDS Volumes, TLAPS

\* What a request is about does not change.
Targets ==
  /\ \A p \in Post : target[p] \in Upload
  /\ \A q \in Delete : target[q] \in Entry
  /\ \A q \in List : target[q] \in Dir

\* Only a bucket has uploads in the background; an upload cut short has failed.
Frame ==
  /\ \A p \in Post : kind = "disk" \/ stage[p] = "new" => pipe[p] = "none"
  /\ \A p \in cut : stage[p] = "error"
  /\ \A p \in Post : stage[p] # "unseen" /\ (stage[p] = "new" => ~met[p])
  /\ \A q \in Delete : stage[q] = "wait" => kind = "bucket"

TypeInv == TypeOK /\ Targets /\ Frame /\ PipeHasWriter

-----------------------------------------------------------------------------

\* The kinds of request are apart, and so are files and directories.
LEMMA Apart ==
  /\ Post \subseteq Request /\ Delete \subseteq Request /\ List \subseteq Request
  /\ \A p \in Post : p \notin Delete /\ p \notin List /\ p \notin {None, Empty, Torn, Old}
  /\ \A q \in Delete : q \notin List
  /\ \A f \in File : f \in Entry /\ f \notin Dir /\ Where[f] \in Dir
  /\ Upload \subseteq File
  BY VolumeAssumption DEF Request, Entry

\* The types hold at the start.
LEMMA InitType == Init => TypeInv
  <1> SUFFICES ASSUME Init PROVE TypeInv
    OBVIOUS
  <1>1. TypeOK
    BY VolumeAssumption DEF Init, TypeOK
  <1>2. Targets /\ Frame /\ PipeHasWriter
    BY Apart DEF Init, Targets, Frame, PipeHasWriter
  <1> QED
    BY <1>1, <1>2 DEF TypeInv

\* The histories keep their types, and nobody is met before a request begins.
LEMMA RecordType ==
  ASSUME TypeInv, Record, target' = target
  PROVE  /\ absent' \in [Delete \cup List -> SUBSET (Entry \cup {Root})]
         /\ met' \in [Post \cup Delete -> BOOLEAN]
         /\ \A p \in Post : stage'[p] = "new" => ~met'[p]
  <1>1. \A q \in Delete \cup List : About(q) \subseteq Entry \cup {Root}
    BY Apart DEF About, TypeInv, TypeOK
  <1>2. absent' \in [Delete \cup List -> SUBSET (Entry \cup {Root})]
    BY <1>1 DEF Record, TypeInv, TypeOK
  <1>3. met' \in [Post \cup Delete -> BOOLEAN]
    BY DEF Record
  <1>4. \A p \in Post : stage'[p] = "new" => ~met'[p]
    BY DEF Record
  <1> QED
    BY <1>2, <1>3, <1>4

\* Every step keeps the types, and leaves no pipe open behind it.
LEMMA StepType == TypeInv /\ Step /\ Record => TypeInv'
  <1> SUFFICES ASSUME TypeInv, Step, Record PROVE TypeInv'
    OBVIOUS
  <1> USE Apart DEF TypeInv, TypeOK, Targets, Frame, PipeHasWriter, Goto, Active, Ended, Pending
  <1>0. target' = target => /\ absent' \in [Delete \cup List -> SUBSET (Entry \cup {Root})]
                           /\ met' \in [Post \cup Delete -> BOOLEAN]
                           /\ \A p \in Post : stage'[p] = "new" => ~met'[p]
    BY RecordType
  <1>1. ASSUME NEW r \in Post, MakeDirs(r)  PROVE TypeInv'
    BY <1>0, <1>1, DirAssumption DEF MakeDirs
  <1>2. ASSUME NEW r \in Post, Create(r) \/ CreateFails(r)
         PROVE  TypeInv'
    BY <1>0, <1>2 DEF Create, CreateFails
  <1>3. ASSUME NEW r \in Post, Write(r) \/ WriteFails(r)
         PROVE  TypeInv'
    BY <1>0, <1>3 DEF Write, WriteFails
  <1>4. ASSUME NEW r \in Post,
                StartUpload(r) \/ Feed(r) \/ FeedRefused(r) \/ FeedFails(r)
         PROVE  TypeInv'
    BY <1>0, <1>4 DEF StartUpload, Feed, FeedRefused, FeedFails
  <1>5. ASSUME NEW r \in Post, Put(r) \/ PutFails(r)
         PROVE  TypeInv'
    BY <1>0, <1>5 DEF Put, PutFails
  <1>6. ASSUME NEW r \in Post, ReadBack(r) \/ ReadBackFails(r)
         PROVE  TypeInv'
    BY <1>0, <1>6 DEF ReadBack, ReadBackFails
  <1>7. ASSUME NEW r \in Delete,
                Look(r) \/ LookFails(r) \/ Waited(r) \/ RemoveFails(r)
         PROVE  TypeInv'
    BY <1>0, <1>7 DEF Look, LookFails, Waited, RemoveFails
  <1>8. ASSUME NEW r \in Delete, RemoveFile(r) \/ RemoveObject(r)
         PROVE  TypeInv'
    BY <1>0, <1>8 DEF RemoveFile, Unlink, RemoveObject
  <1>9. ASSUME NEW r \in Delete, RemoveDir(r)  PROVE TypeInv'
    BY <1>0, <1>9 DEF RemoveDir, Entry
  <1>10. ASSUME NEW r \in List, Enter(r) \/ ReadEntries(r) \/ ReadDirGone(r)
         PROVE  TypeInv'
    BY <1>0, <1>10 DEF Enter, ReadEntries, ReadDir, ReadDirGone
  <1>11. ASSUME NEW r \in List,
                ShowEntry(r) \/ SkipEntry(r) \/ EntryGone(r) \/ ListEnd(r) \/ ListFails(r)
         PROVE  TypeInv'
    BY <1>0, <1>11 DEF ShowEntry, SkipEntry, EntryGone, ListEnd, ListFails
  <1>12. ASSUME Crash  PROVE TypeInv'
    BY <1>0, <1>12 DEF Crash
  <1> QED
    BY <1>1, <1>2, <1>3, <1>4, <1>5, <1>6, <1>7, <1>8, <1>9, <1>10, <1>11, <1>12
       DEF Step, PostStep, PostFails, DeleteStep, ListStep

\* Every step is of a request about the same thing, on the same volume; a request that
\* began stays begun and one that ended stays ended; and a file changes by a request
\* that has it in hand, a delete's by being gone.
Steady ==
  /\ kind' = kind /\ target' = target
  /\ \A q \in Request : /\ stage'[q] = "new" => stage[q] = "new"
                        /\ stage[q] \in Ended => stage'[q] = stage[q]
  /\ \A f \in File : held'[f] # held[f] =>
       \/ \E r \in Post : InHand(r, f)
       \/ held'[f] = None /\ \E r \in Delete : InHand(r, f)

\* Every step is steady.
LEMMA StepSteady == TypeInv /\ Step => Steady
  <1> SUFFICES ASSUME TypeInv, Step PROVE Steady
    OBVIOUS
  <1>0. TypeOK /\ Targets
    BY DEF TypeInv
  <1> USE Apart DEF TypeOK, Targets, Steady, InHand, Goto, Active, Ended, Pending
  <1>1. ASSUME NEW r \in Post,
                MakeDirs(r) \/ Create(r) \/ Write(r) \/ CreateFails(r) \/ WriteFails(r)
         PROVE  Steady
    BY <1>0, <1>1 DEF MakeDirs, Create, Write, CreateFails, WriteFails
  <1>2. ASSUME NEW r \in Post,
                StartUpload(r) \/ Feed(r) \/ FeedRefused(r) \/ FeedFails(r) \/
                Put(r) \/ PutFails(r) \/ ReadBack(r) \/ ReadBackFails(r)
         PROVE  Steady
    BY <1>0, <1>2 DEF StartUpload, Feed, FeedRefused, FeedFails, Put, PutFails, ReadBack,
           ReadBackFails
  <1>3. ASSUME NEW r \in Delete,
                Look(r) \/ LookFails(r) \/ RemoveFile(r) \/ RemoveDir(r) \/
                RemoveObject(r) \/ Waited(r) \/ RemoveFails(r)
         PROVE  Steady
    BY <1>0, <1>3
       DEF Look, LookFails, RemoveFile, Unlink, RemoveDir, RemoveObject, Waited,
           RemoveFails
  <1>4. ASSUME NEW r \in List,
                Enter(r) \/ ReadEntries(r) \/ ReadDirGone(r) \/ ShowEntry(r) \/
                SkipEntry(r) \/ EntryGone(r) \/ ListEnd(r) \/ ListFails(r)
         PROVE  Steady
    BY <1>0, <1>4
       DEF Enter, ReadEntries, ReadDirGone, ShowEntry, SkipEntry, EntryGone, ListEnd, ListFails
  <1>5. ASSUME Crash  PROVE Steady
    BY <1>0, <1>5 DEF Crash
  <1> QED
    BY <1>1, <1>2, <1>3, <1>4, <1>5 DEF Step, PostStep, PostFails, DeleteStep, ListStep

\* Who may have to do with a request's file.
Rivals(q) == (IF q \in Post THEN Post \cup Delete ELSE Post) \ {q}

\* What a step adds to the histories.
LEMMA Recorded ==
  ASSUME TypeInv, Step, Record
  PROVE  /\ \A q \in Post \cup Delete : stage'[q] # "new" /\ ~met'[q] =>
              /\ ~met[q]
              /\ \A r \in Rivals(q) : ~InHand(r, target[q]) /\ ~InHand(r, target[q])'
         /\ \A q \in Delete \cup List :
              /\ absent[q] \subseteq absent'[q]
              /\ stage[q] \notin Ended /\ stage'[q] # "new" =>
                   \A e \in About(q) : ~There(e) \/ ~There(e)' => e \in absent'[q]
  <1>1. ASSUME NEW q \in Post \cup Delete, stage'[q] # "new", ~met'[q]
        PROVE  ~met[q] /\ \A r \in Rivals(q) : ~InHand(r, target[q]) /\ ~InHand(r, target[q])'
    <2>1. met'[q] = (/\ stage'[q] # "new"
                     /\ \/ met[q]
                        \/ \E r \in (IF q \in Post THEN Post \cup Delete ELSE Post) \ {q} :
                             InHand(r, target[q]) \/ InHand(r, target[q])')
      BY DEF Record
    <2> QED
      BY <1>1, <2>1 DEF Rivals
  <1>2. ASSUME NEW q \in Delete \cup List
        PROVE  /\ absent[q] \subseteq absent'[q]
               /\ stage[q] \notin Ended /\ stage'[q] # "new" =>
                    \A e \in About(q) : ~There(e) \/ ~There(e)' => e \in absent'[q]
    <2>1. absent'[q] = IF stage[q] \in Ended \/ stage'[q] = "new" THEN absent[q]
                       ELSE absent[q] \cup {e \in About(q) : ~There(e) \/ ~There(e)'}
      BY DEF Record
    <2> QED
      BY <2>1
  <1> QED
    BY <1>1, <1>2

-----------------------------------------------------------------------------
(* Deletes.                                                                *)

\* A delete is answered well by one of its own steps.
LEMMA Only ==
  ASSUME TypeInv, Step, NEW q \in Delete, stage'[q] = "ok", stage[q] # "ok"
  PROVE  Look(q) \/ RemoveFile(q) \/ RemoveDir(q) \/ Waited(q)
  <1> DEFINE Goal == Look(q) \/ RemoveFile(q) \/ RemoveDir(q) \/ Waited(q)
  <1>0. TypeOK /\ stage'[q] # stage[q] /\ stage'[q] # "lost"
    BY DEF TypeInv
  <1> USE Apart DEF TypeOK, Goto
  <1>1. ASSUME NEW r \in Post,
                MakeDirs(r) \/ Create(r) \/ Write(r) \/ CreateFails(r) \/ WriteFails(r)
         PROVE  Goal
    BY <1>0, <1>1 DEF MakeDirs, Create, Write, CreateFails, WriteFails
  <1>2. ASSUME NEW r \in Post,
                StartUpload(r) \/ Feed(r) \/ FeedRefused(r) \/ FeedFails(r) \/
                Put(r) \/ PutFails(r) \/ ReadBack(r) \/ ReadBackFails(r)
         PROVE  Goal
    BY <1>0, <1>2 DEF StartUpload, Feed, FeedRefused, FeedFails, Put, PutFails, ReadBack,
           ReadBackFails
  <1>3. ASSUME NEW r \in Delete,
                Look(r) \/ LookFails(r) \/ RemoveFile(r) \/ RemoveDir(r) \/
                RemoveObject(r) \/ Waited(r) \/ RemoveFails(r)
         PROVE  Goal
    BY <1>0, <1>3
       DEF Look, LookFails, RemoveFile, RemoveDir, RemoveObject, Waited, RemoveFails
  <1>4. ASSUME NEW r \in List,
                Enter(r) \/ ReadEntries(r) \/ ReadDirGone(r) \/ ShowEntry(r) \/
                SkipEntry(r) \/ EntryGone(r) \/ ListEnd(r) \/ ListFails(r)
         PROVE  Goal
    BY <1>0, <1>4
       DEF Enter, ReadEntries, ReadDirGone, ShowEntry, SkipEntry, EntryGone, ListEnd, ListFails
  <1>5. ASSUME Crash  PROVE Goal
    BY <1>0, <1>5 DEF Crash
  <1> QED
    BY <1>1, <1>2, <1>3, <1>4, <1>5 DEF Step, PostStep, PostFails, DeleteStep, ListStep

\* A step brings back what was deleted only by an upload that the delete has met.
LEMMA StepLasts == TypeInv /\ DeleteLasts /\ Step /\ Record => DeleteLasts'
  <1> SUFFICES ASSUME TypeInv, DeleteLasts, Step, Record,
                      NEW q \in Delete, stage'[q] = "ok", target'[q] \in File, ~met'[q]
               PROVE  held'[target[q]] = None
    BY StepSteady DEF DeleteLasts, There, Steady
  <1> DEFINE f == target[q]
  <1>1. Steady /\ f \in File
    BY StepSteady DEF Steady
  <1>2. ~met[q] /\ \A p \in Post : ~InHand(p, f)
    <2>1. \A p \in Post : p \in Rivals(q)
      BY Apart DEF Rivals
    <2> QED
      BY <2>1, Recorded
  <1>3. held'[f] = held[f] \/ held'[f] = None
    BY <1>1, <1>2 DEF Steady
  <1>4. CASE stage[q] \in Ended
    <2>1. stage[q] = "ok"
      BY <1>1, <1>4, Apart DEF Steady
    <2>2. held[f] = None
      BY <1>1, <1>2, <2>1 DEF DeleteLasts, There
    <2> QED
      BY <1>3, <2>2
  <1>5. CASE stage[q] \notin Ended
    <2>1. Look(q) \/ RemoveFile(q) \/ RemoveDir(q) \/ Waited(q)
      BY <1>5, Only DEF Ended
    <2>2. CASE Look(q)
      BY <1>1, <2>2, Apart DEF Look, Goto, IsExist, There, TypeInv, TypeOK
    <2>3. CASE RemoveFile(q)
      BY <1>1, <2>3, Apart DEF RemoveFile, Unlink, Goto, There, TypeInv, TypeOK
    <2>4. CASE RemoveDir(q)
      BY <1>1, <2>4, Apart DEF RemoveDir
    <2>5. CASE Waited(q)
      BY <1>1, <2>5, Apart DEF Waited, There
    <2> QED
      BY <2>1, <2>2, <2>3, <2>4, <2>5
  <1> QED
    BY <1>4, <1>5

\* A step that answers a delete well finds or leaves its target gone.
LEMMA StepWasGone == TypeInv /\ DeletedWasGone /\ Step /\ Record => DeletedWasGone'
  <1> SUFFICES ASSUME TypeInv, DeletedWasGone, Step, Record,
                      NEW q \in Delete, stage'[q] = "ok", kind = "disk" \/ target[q] \notin Dir
               PROVE  target[q] \in absent'[q]
    BY StepSteady DEF DeletedWasGone, Steady, TypeInv, TypeOK
  <1>0. PICK e \in Entry : e = target[q]
    BY DEF TypeInv, Targets
  <1>1. Steady /\ e \in About(q)
    BY <1>0, StepSteady DEF About
  <1>2. /\ absent[q] \subseteq absent'[q]
        /\ stage[q] \notin Ended /\ (~There(e) \/ ~There(e)') => e \in absent'[q]
    BY <1>1, Recorded
  <1>3. CASE stage[q] \in Ended
    BY <1>0, <1>1, <1>2, <1>3, Apart DEF Steady, DeletedWasGone
  <1>4. CASE stage[q] \notin Ended
    <2>1. Look(q) \/ RemoveFile(q) \/ RemoveDir(q) \/ Waited(q)
      BY <1>4, Only DEF Ended
    <2>2. CASE Look(q)
      BY <1>0, <1>1, <1>2, <1>4, <2>2, Apart DEF Look, Goto, IsExist, TypeInv, TypeOK
    <2>3. CASE RemoveFile(q)
      BY <1>0, <1>1, <1>2, <1>4, <2>3, Apart
         DEF RemoveFile, Unlink, Goto, There, Steady, TypeInv, TypeOK
    <2>4. CASE RemoveDir(q)
      BY <1>0, <1>1, <1>2, <1>4, <2>4, Apart DEF RemoveDir, Goto, There, Steady, TypeInv, TypeOK
    <2>5. CASE Waited(q)
      <3>1. target[q] \in File
        BY <1>0, <1>1, <2>5, Apart DEF Waited, Entry, TypeInv, Frame
      <3> QED
        BY <1>0, <1>1, <1>2, <1>4, <2>5, <3>1 DEF Waited
    <2> QED
      BY <2>1, <2>2, <2>3, <2>4, <2>5
  <1> QED
    BY <1>3, <1>4

-----------------------------------------------------------------------------
(* Listings.                                                               *)

\* What a listing owes its client: what the client may read and was there all the time.
Owed(q) == {e \in Entry \ Hidden : In(e) = target[q]} \ absent[q]

ListInv ==
  \A q \in List :
    /\ \A e \in left[q] \cup shown[q] : e \in Entry /\ In(e) = target[q]
    /\ stage[q] = "each" => Owed(q) \subseteq left[q] \cup shown[q]
    /\ stage[q] = "ok" => Owed(q) \subseteq shown[q]

\* A listing is changed by its own steps, or dies.
LEMMA OnlyList ==
  ASSUME TypeInv, Step, NEW q \in List
  PROVE  \/ Enter(q) \/ ListStep(q) \/ ListFails(q)
         \/ /\ UNCHANGED <<left, shown>>
            /\ stage'[q] = stage[q] \/ stage'[q] = "lost"
         \/ /\ left'[q] = left[q] /\ shown'[q] = shown[q]
            /\ stage'[q] = stage[q]
  <1> DEFINE Goal == \/ Enter(q) \/ ListStep(q) \/ ListFails(q)
                     \/ /\ UNCHANGED <<left, shown>>
                        /\ stage'[q] = stage[q] \/ stage'[q] = "lost"
                     \/ /\ left'[q] = left[q] /\ shown'[q] = shown[q]
                        /\ stage'[q] = stage[q]
  <1>0. TypeOK
    BY DEF TypeInv
  <1> USE Apart DEF TypeOK, Goto
  <1>1. ASSUME NEW r \in Post,
                MakeDirs(r) \/ Create(r) \/ Write(r) \/ CreateFails(r) \/ WriteFails(r)
         PROVE  Goal
    BY <1>0, <1>1 DEF MakeDirs, Create, Write, CreateFails, WriteFails
  <1>2. ASSUME NEW r \in Post,
                StartUpload(r) \/ Feed(r) \/ FeedRefused(r) \/ FeedFails(r) \/
                Put(r) \/ PutFails(r) \/ ReadBack(r) \/ ReadBackFails(r)
         PROVE  Goal
    BY <1>0, <1>2 DEF StartUpload, Feed, FeedRefused, FeedFails, Put, PutFails, ReadBack,
           ReadBackFails
  <1>3. ASSUME NEW r \in Delete,
                Look(r) \/ LookFails(r) \/ RemoveFile(r) \/ RemoveDir(r) \/
                RemoveObject(r) \/ Waited(r) \/ RemoveFails(r)
         PROVE  Goal
    BY <1>0, <1>3
       DEF Look, LookFails, RemoveFile, RemoveDir, RemoveObject, Waited, RemoveFails
  <1>4. ASSUME NEW r \in List,
                Enter(r) \/ ReadEntries(r) \/ ReadDirGone(r) \/ ShowEntry(r) \/
                SkipEntry(r) \/ EntryGone(r) \/ ListEnd(r) \/ ListFails(r)
         PROVE  Goal
    BY <1>0, <1>4
       DEF Enter, ReadEntries, ReadDirGone, ShowEntry, SkipEntry, EntryGone, ListEnd,
           ListFails, ListStep
  <1>5. ASSUME Crash  PROVE Goal
    BY <1>0, <1>5 DEF Crash
  <1> QED
    BY <1>1, <1>2, <1>3, <1>4, <1>5 DEF Step, PostStep, PostFails, DeleteStep, ListStep

\* Every step keeps what listings owe.
LEMMA StepList == TypeInv /\ ListInv /\ Step /\ Record => ListInv'
  <1> SUFFICES ASSUME TypeInv, ListInv, Step, Record, NEW q \in List
               PROVE  /\ \A e \in left'[q] \cup shown'[q] : e \in Entry /\ In(e) = target'[q]
                      /\ stage'[q] = "each" => Owed(q)' \subseteq left'[q] \cup shown'[q]
                      /\ stage'[q] = "ok" => Owed(q)' \subseteq shown'[q]
    BY DEF ListInv
  <1>1. /\ target' = target /\ Owed(q)' \subseteq Owed(q)
        /\ stage[q] \notin Ended /\ stage'[q] # "new" => \A e \in Owed(q)' : There(e)
    <2>1. target' = target
      BY StepSteady DEF Steady
    <2>2. \A e \in Owed(q)' : e \in About(q) /\ e \notin absent'[q]
      BY <2>1 DEF Owed, About
    <2> QED
      BY <2>1, <2>2, Recorded DEF Owed
  <1> USE Apart DEF ListInv, TypeInv, TypeOK, Goto
  <1>2. CASE Enter(q)
    BY <1>1, <1>2 DEF Enter
  <1>3. CASE ReadEntries(q)
    <2>1. left'[q] = ReadDir(target[q]) /\ shown' = shown /\ stage'[q] = "each"
      BY <1>3 DEF ReadEntries
    <2>2. \A e \in Owed(q)' : e \in ReadDir(target[q])
      BY <1>1, <1>3, <2>1 DEF ReadEntries, ReadDir, Owed, Ended
    <2> QED
      BY <1>1, <2>1, <2>2 DEF ReadDir
  <1>4. CASE ReadDirGone(q)
    BY <1>1, <1>4 DEF ReadDirGone
  <1>5. CASE ShowEntry(q)
    <2>1. PICK e \in left[q] \ Hidden : /\ shown' = [shown EXCEPT ![q] = @ \cup {e}]
                                       /\ left' = [left EXCEPT ![q] = @ \ {e}]
      BY <1>5 DEF ShowEntry
    <2> QED
      BY <1>1, <1>5, <2>1 DEF ShowEntry
  <1>6. CASE SkipEntry(q)
    <2>1. PICK e \in left[q] \cap Hidden : left' = [left EXCEPT ![q] = @ \ {e}]
      BY <1>6 DEF SkipEntry
    <2> QED
      BY <1>1, <1>6, <2>1 DEF SkipEntry, Owed
  <1>7. CASE EntryGone(q)
    BY <1>1, <1>7 DEF EntryGone
  <1>8. CASE ListEnd(q)
    BY <1>1, <1>8 DEF ListEnd
  <1>9. CASE ListFails(q)
    BY <1>1, <1>9 DEF ListFails
  <1>10. CASE /\ left'[q] = left[q] /\ shown'[q] = shown[q]
              /\ stage'[q] = stage[q] \/ stage'[q] = "lost"
    BY <1>1, <1>10
  <1> QED
    BY <1>2, <1>3, <1>4, <1>5, <1>6, <1>7, <1>8, <1>9, <1>10, OnlyList DEF ListStep

\* A step fails a listing that the volume does not fail only for what is gone.
LEMMA StepListFails ==
  TypeInv /\ ListInv /\ ListFailsForGone /\ Step /\ Record => ListFailsForGone'
  <1> SUFFICES ASSUME TypeInv, ListInv, ListFailsForGone, Step, Record,
                      NEW q \in List, stage'[q] = "error"
               PROVE  /\ kind = "disk"
                      /\ \/ target[q] \in absent'[q]
                         \/ \E e \in Entry \ Hidden : In(e) = target[q] /\ e \in absent'[q]
    BY StepSteady DEF ListFailsForGone, Steady
  <1>1. /\ absent[q] \subseteq absent'[q]
        /\ stage[q] \notin Ended => \A e \in About(q) : ~There(e) => e \in absent'[q]
    BY Recorded
  <1>2. target[q] \in About(q) /\ \A e \in Entry : In(e) = target[q] => e \in About(q)
    BY DEF About
  <1> USE Apart DEF TypeInv, TypeOK, Targets, Goto, IsDir
  <1>3. CASE Enter(q)
    BY <1>1, <1>2, <1>3 DEF Enter, Ended
  <1>4. CASE ReadDirGone(q)
    BY <1>1, <1>2, <1>4 DEF ReadDirGone, Ended
  <1>5. CASE EntryGone(q)
    <2>1. PICK e \in left[q] \ Hidden : ~There(e)
      BY <1>5 DEF EntryGone
    <2> QED
      BY <1>1, <1>2, <1>5, <2>1 DEF EntryGone, Ended, ListInv
  <1>6. CASE ReadEntries(q) \/ ShowEntry(q) \/ SkipEntry(q) \/ ListEnd(q) \/ ListFails(q)
    BY <1>6 DEF ReadEntries, ShowEntry, SkipEntry, ListEnd, ListFails
  <1>7. CASE stage'[q] = stage[q] \/ stage'[q] = "lost"
    BY <1>1, <1>7 DEF ListFailsForGone
  <1> QED
    BY <1>3, <1>4, <1>5, <1>6, <1>7, OnlyList DEF ListStep

-----------------------------------------------------------------------------
(* Uploads.                                                                *)

\* What an upload that nobody else meddles with has done so far: on the disk, it holds
\* the file it truncated, then stored all, then read it back; on the bucket, what it
\* sent is on its way and nowhere to be seen, or is there.
Progress(p) ==
  /\ kind = "disk" /\ ~met[p] =>
       /\ stage[p] = "write" => p \in linked /\ held[target[p]] = Empty
       /\ stage[p] \in {"index", "ok"} => held[target[p]] = p
       /\ stage[p] = "ok" => got[p] = p
  /\ kind = "bucket" =>
       /\ pipe[p] # "done" => got[p] # p /\ \A f \in File : held[f] # p
       /\ stage[p] \in {"index", "ok"} => pipe[p] \in {"shut", "broken", "done"}
       /\ stage[p] \in {"index", "ok"} /\ pipe[p] = "done" /\ ~met[p] => held[target[p]] = p

UploadInv == \A p \in Post : Progress(p)

\* A crash leaves what is stored.
LEMMA StepUpload == TypeInv /\ UploadInv /\ Step /\ Record => UploadInv'
  <1> SUFFICES ASSUME TypeInv, UploadInv, Step, Record, NEW p \in Post PROVE Progress(p)'
    BY DEF UploadInv
  <1>a. /\ kind' = kind /\ target' = target
        /\ stage'[p] = "new" => stage[p] = "new"
    BY StepSteady, Apart DEF Steady
  <1>b. stage'[p] # "new" /\ ~met'[p] =>
          /\ ~met[p]
          /\ \A r \in (Post \cup Delete) \ {p} : target[r] = target[p] =>
               /\ stage[r] \notin Active
               /\ r \in Post => pipe[r] \notin Pending
    BY Recorded DEF Rivals, InHand
  <1>c. Progress(p) /\ TypeOK /\ Targets /\ Frame
    BY DEF UploadInv, TypeInv
  <1> USE Apart DEF TypeOK, Targets, Frame, Progress, Goto, Active, Ended, Pending
  <1>1. ASSUME NEW r \in Post, MakeDirs(r)  PROVE Progress(p)'
    BY <1>a, <1>b, <1>c, <1>1 DEF MakeDirs
  <1>2. ASSUME NEW r \in Post, Create(r)  PROVE Progress(p)'
    BY <1>a, <1>b, <1>c, <1>2 DEF Create
  <1>3. ASSUME NEW r \in Post, Write(r)  PROVE Progress(p)'
    BY <1>a, <1>b, <1>c, <1>3 DEF Write
  <1>4. ASSUME NEW r \in Post, CreateFails(r) \/ WriteFails(r)
         PROVE  Progress(p)'
    BY <1>a, <1>b, <1>c, <1>4 DEF CreateFails, WriteFails
  <1>5. ASSUME NEW r \in Post,
                StartUpload(r) \/ Feed(r) \/ FeedRefused(r) \/ FeedFails(r)
         PROVE  Progress(p)'
    BY <1>a, <1>b, <1>c, <1>5 DEF StartUpload, Feed, FeedRefused, FeedFails
  <1>6. ASSUME NEW r \in Post, Put(r)  PROVE Progress(p)'
    BY <1>a, <1>b, <1>c, <1>6 DEF Put
  <1>7. ASSUME NEW r \in Post, PutFails(r)  PROVE Progress(p)'
    BY <1>a, <1>b, <1>c, <1>7 DEF PutFails
  <1>8. ASSUME NEW r \in Post, ReadBack(r) \/ ReadBackFails(r)
         PROVE  Progress(p)'
    BY <1>a, <1>b, <1>c, <1>8 DEF ReadBack, ReadBackFails
  <1>9. ASSUME NEW r \in Delete,
                Look(r) \/ LookFails(r) \/ Waited(r) \/ RemoveFails(r)
         PROVE  Progress(p)'
    BY <1>a, <1>b, <1>c, <1>9 DEF Look, LookFails, Waited, RemoveFails
  <1>10. ASSUME NEW r \in Delete, RemoveFile(r)  PROVE Progress(p)'
    BY <1>a, <1>b, <1>c, <1>10 DEF RemoveFile, Unlink
  <1>11. ASSUME NEW r \in Delete, RemoveDir(r) \/ RemoveObject(r)
         PROVE  Progress(p)'
    BY <1>a, <1>b, <1>c, <1>11 DEF RemoveDir, RemoveObject, Unlink
  <1>12. ASSUME NEW r \in List,
                Enter(r) \/ ReadEntries(r) \/ ReadDirGone(r) \/ ShowEntry(r) \/
                SkipEntry(r) \/ EntryGone(r) \/ ListEnd(r) \/ ListFails(r)
         PROVE  Progress(p)'
    BY <1>a, <1>b, <1>c, <1>12
       DEF Enter, ReadEntries, ReadDirGone, ShowEntry, SkipEntry, EntryGone, ListEnd, ListFails
  <1>13. ASSUME Crash  PROVE Progress(p)'
    BY <1>a, <1>b, <1>c, <1>13 DEF Crash
  <1> QED
    BY <1>1, <1>2, <1>3, <1>4, <1>5, <1>6, <1>7, <1>8, <1>9, <1>10, <1>11, <1>12, <1>13
       DEF Step, PostStep, PostFails, DeleteStep, ListStep

\* A file is torn by an upload that truncates it, writes to it, or sent a part of it.
LEMMA Tearing ==
  ASSUME TypeInv, Step, NEW f \in File, held'[f] # held[f], held'[f] \in {Empty, Torn}
  PROVE  \E p \in Post : target[p] = f /\ (Create(p) \/ Write(p) \/ WriteFails(p) \/ Put(p))
  <1> DEFINE Goal == \E p \in Post :
                       target[p] = f /\ (Create(p) \/ Write(p) \/ WriteFails(p) \/ Put(p))
  <1>0. TypeOK /\ None \notin {Empty, Torn}
    BY VolumeAssumption DEF TypeInv
  <1> USE Apart DEF TypeOK
  <1>1. ASSUME NEW r \in Post,
                MakeDirs(r) \/ CreateFails(r) \/ StartUpload(r) \/ Feed(r) \/
                FeedRefused(r) \/ FeedFails(r) \/ PutFails(r) \/ ReadBack(r) \/
                ReadBackFails(r)
         PROVE  Goal
    BY <1>0, <1>1
       DEF MakeDirs, CreateFails, StartUpload, Feed, FeedRefused, FeedFails, PutFails,
           ReadBack, ReadBackFails
  <1>2. ASSUME NEW r \in Post, Create(r) \/ Write(r) \/ WriteFails(r) \/ Put(r)
         PROVE  Goal
    <2>1. target[r] = f
      BY <1>0, <1>2 DEF Create, Write, WriteFails, Put
    <2> QED
      BY <1>2, <2>1
  <1>3. ASSUME NEW r \in Delete,
                Look(r) \/ LookFails(r) \/ RemoveFile(r) \/ RemoveDir(r) \/
                RemoveObject(r) \/ Waited(r) \/ RemoveFails(r)
         PROVE  Goal
    BY <1>0, <1>3
       DEF Look, LookFails, RemoveFile, Unlink, RemoveDir, RemoveObject, Waited,
           RemoveFails
  <1>4. ASSUME NEW r \in List,
                Enter(r) \/ ReadEntries(r) \/ ReadDirGone(r) \/ ShowEntry(r) \/
                SkipEntry(r) \/ EntryGone(r) \/ ListEnd(r) \/ ListFails(r)
         PROVE  Goal
    BY <1>0, <1>4
       DEF Enter, ReadEntries, ReadDirGone, ShowEntry, SkipEntry, EntryGone, ListEnd, ListFails
  <1>5. ASSUME Crash  PROVE Goal
    BY <1>0, <1>5 DEF Crash
  <1> QED
    BY <1>1, <1>2, <1>3, <1>4, <1>5 DEF Step, PostStep, PostFails, DeleteStep, ListStep

\* A step that tears a file, or ends who tore it, leaves a cause.
LEMMA StepTorn ==
  TypeInv /\ UploadInv /\ TornByFailure /\ Step /\ Record => TornByFailure'
  <1> SUFFICES ASSUME TypeInv, UploadInv, TornByFailure, Step, Record,
                      NEW f \in File, held'[f] \in {Empty, Torn}
               PROVE  \E p \in Post : /\ target'[p] = f
                                     /\ \/ stage'[p] \in {"error", "lost"}
                                        \/ /\ kind' = "disk"
                                           /\ stage'[p] \in Active \/ met'[p]
    BY DEF TornByFailure
  <1> DEFINE Cause == \E p \in Post : /\ target'[p] = f
                                     /\ \/ stage'[p] \in {"error", "lost"}
                                        \/ /\ kind' = "disk"
                                           /\ stage'[p] \in Active \/ met'[p]
  <1>a. kind' = kind /\ target' = target /\ TypeInv' /\ UploadInv'
    BY StepSteady, StepType, StepUpload DEF Steady
  <1>b. TypeOK /\ Targets /\ Frame
    BY DEF TypeInv
  <1>c. CASE held'[f] = held[f]
    <2>1. PICK p \in Post : /\ target[p] = f
                            /\ \/ stage[p] \in {"error", "lost"}
                               \/ kind = "disk" /\ (stage[p] \in Active \/ met[p])
      BY <1>c DEF TornByFailure
    <2>2. CASE stage[p] \in {"error", "lost"}
      BY <1>a, <2>1, <2>2, StepSteady, Apart DEF Steady, Ended
    <2>3. CASE kind = "disk" /\ stage[p] # "new" /\ (stage[p] \in Active \/ met[p])
      <3>1. stage'[p] # "new"
        BY <2>3, StepSteady, Apart DEF Steady
      <3>2. CASE met'[p] \/ stage'[p] \in Active \cup {"error", "lost"}
        BY <1>a, <2>1, <2>3, <3>2
      <3>3. CASE ~met'[p] /\ stage'[p] \in {"ok", "unseen"}
        <4>1. stage'[p] = "ok"
          BY <1>a, <3>3 DEF TypeInv, Frame
        <4>2. held'[f] = p
          BY <1>a, <2>1, <2>3, <3>3, <4>1 DEF UploadInv, Progress
        <4> QED
          BY <4>2, Apart
      <3> QED
        BY <1>a, <3>1, <3>2, <3>3, Apart DEF TypeInv, TypeOK, Ended
    <2> QED
      BY <2>1, <2>2, <2>3 DEF TypeInv, Frame, Active
  <1>d. CASE held'[f] # held[f]
    <2>1. PICK p \in Post : target[p] = f /\ (Create(p) \/ Write(p) \/ WriteFails(p) \/ Put(p))
      BY <1>d, Tearing
    <2>2. CASE Create(p) \/ Write(p) \/ WriteFails(p)
      BY <1>a, <1>b, <2>1, <2>2, <1>d, Apart DEF Create, Write, WriteFails, Goto, Active, TypeOK
    <2>3. CASE Put(p)
      BY <1>a, <1>b, <2>1, <2>3, <1>d, Apart DEF Put, TypeOK, Frame
    <2> QED
      BY <2>1, <2>2, <2>3
  <1> QED
    BY <1>c, <1>d

\* What an upload has done by its end is what its answer says.
LEMMA Stored == TypeInv /\ UploadInv => AnsweredIsStored
  BY DEF TypeInv, TypeOK, UploadInv, Progress, AnsweredIsStored

-----------------------------------------------------------------------------

IInv ==
  /\ TypeInv /\ UploadInv /\ ListInv
  /\ DeleteLasts /\ DeletedWasGone /\ TornByFailure /\ ListFailsForGone

\* The invariant holds at the start.
LEMMA InitIInv == Init => IInv
  <1> SUFFICES ASSUME Init PROVE IInv
    OBVIOUS
  <1>1. TypeInv
    BY InitType
  <1>2. \A q \in Request : stage[q] = "new"
    BY DEF Init
  <1>3. DeleteLasts /\ DeletedWasGone /\ ListFailsForGone
    BY <1>2, Apart DEF DeleteLasts, DeletedWasGone, ListFailsForGone
  <1>4. ListInv
    BY <1>2, Apart DEF Init, ListInv
  <1>5. UploadInv
    BY <1>2, Apart, VolumeAssumption DEF Init, UploadInv, Progress
  <1>6. TornByFailure
    BY VolumeAssumption DEF Init, TornByFailure
  <1> QED
    BY <1>1, <1>3, <1>4, <1>5, <1>6 DEF IInv

\* Every step keeps it.
LEMMA StepIInv == IInv /\ [Next]_vars => IInv'
  <1> SUFFICES ASSUME IInv, [Next]_vars PROVE IInv'
    OBVIOUS
  <1>1. CASE Next
    BY <1>1, StepType, StepUpload, StepList, StepLasts, StepWasGone, StepTorn, StepListFails
       DEF IInv, Next
  <1>2. CASE UNCHANGED vars
    <2> USE <1>2 DEF IInv, vars, request
    <2>1. TypeInv'
      BY DEF TypeInv, TypeOK, Targets, Frame, PipeHasWriter
    <2>2. UploadInv' /\ ListInv'
      BY DEF UploadInv, Progress, ListInv, Owed
    <2>3. (DeleteLasts /\ DeletedWasGone /\ TornByFailure /\ ListFailsForGone)'
      BY DEF DeleteLasts, DeletedWasGone, TornByFailure, ListFailsForGone, There, Under
    <2> QED
      BY <2>1, <2>2, <2>3
  <1> QED
    BY <1>1, <1>2

\* The invariant, of every behaviour.
LEMMA Invariant == Spec => []IInv
  BY InitIInv, StepIInv, PTL DEF Spec

\* The types of the variables: a bucket never holds a file that was just truncated
\* (volume.go:63, s3.go:295).
THEOREM TypeCorrect == Spec => []TypeOK
  BY Invariant, PTL DEF IInv, TypeInv

\* No background upload waits for ever for more to send (s3.go:297, post.go:349-353).
THEOREM PipesAreShut == Spec => []PipeHasWriter
  BY Invariant, PTL DEF IInv, TypeInv

\* An upload that was answered well is there, when nobody else had its file in hand;
\* on a bucket it may still be on its way, or given up (post.go:158, s3.go:295-307).
THEOREM AnsweredAndStored == Spec => []AnsweredIsStored
  BY Invariant, Stored, PTL DEF IInv

\* What was deleted stays away until somebody uploads it (delete.go:38-49).
THEOREM DeletesLast == Spec => []DeleteLasts
  BY Invariant, PTL DEF IInv

\* A delete that was answered well is of what was gone at some time (s3.go:226-261).
THEOREM DeletesDelete == Spec => []DeletedWasGone
  BY Invariant, PTL DEF IInv

\* A file is torn by an upload that failed, is not over, or met another (post.go:342-358).
THEOREM TornOnlyByFailure == Spec => []TornByFailure
  BY Invariant, PTL DEF IInv

\* A listing shows all that stayed and may be read (get_list.go:44-63).
THEOREM ListingsAreWhole == Spec => []ListsWhatStays
  <1>1. IInv => ListsWhatStays
    BY DEF IInv, ListInv, ListsWhatStays, Owed
  <1> QED
    BY <1>1, Invariant, PTL

\* A listing whose volume answered every call fails only for what was gone meanwhile and
\* its client may read, and a bucket's not even then (get_list.go:20, 47-48, s3.go:403).
THEOREM ListingsFailForCause == Spec => []ListFailsForGone
  BY Invariant, PTL DEF IInv
=============================================================================
