------------------------------ MODULE Volumes ------------------------------
(***************************************************************************)
(* fs.F, the file system the handlers work on: a directory of the host     *)
(* (fs/volume.go) or, put in its place, a bucket of S3 (fs/s3.go).  A      *)
(* bucket has objects and no directories, tells what is there by prefix,   *)
(* and takes what is written in the background.  Uploads, deletes and      *)
(* listings work on either, at the same time.                              *)
(*                                                                         *)
(* Who may do it is decided elsewhere (Access), and what is derived and    *)
(* indexed is too (ContentStore); of an upload there is here what reaches  *)
(* the volume and what is read back of it.                                 *)
(***************************************************************************)
EXTENDS Tree

CONSTANTS
  Post, Delete, List,  \* requests, each served once
  File, Where,         \* the files, and the directory each is in
  Upload,              \* those that the posts are of
  Longer,              \* whose names begin with an entry's, in the same directory, and go on
  Hidden,              \* what the client of a listing may not read
  None, Empty, Torn,   \* no file; one just truncated; less or other than one body
  Old                  \* a body from before

Request == Post \cup Delete \cup List

\* What a listing of the directories may have in it.
Entry == (Dir \ {Root}) \cup File

In(e) == IF e \in File THEN Where[e] ELSE Parent[e]

ASSUME VolumeAssumption ==
  /\ Post \cap Delete = {} /\ Post \cap List = {} /\ Delete \cap List = {}
  /\ File \cap Dir = {}
  /\ Where \in [File -> Dir]
  /\ Upload \subseteq File
  /\ Longer \in [Entry -> SUBSET Entry]
  /\ \A e \in Entry : e \notin Longer[e] /\ \A x \in Longer[e] : In(x) = In(e)
  /\ Hidden \subseteq Entry
  /\ {None, Empty, Torn, Old} \cap Post = {}
  /\ None # Empty /\ None # Torn /\ None # Old /\ Empty # Torn /\ Empty # Old /\ Torn # Old

VARIABLES
  kind,    \* what F is: "disk" or "bucket"
  held,    \* what is in each file or object: who posted it
  dirs,    \* the directories there are on the disk
  stage,   \* what each request does next
  target,  \* what it is about
  linked,  \* the posts whose open file is the one in the tree
  pipe,    \* what became of a post's background upload
  cut,     \* the posts whose client went away in the middle
  got,     \* what a post read back to index
  left, shown,  \* a listing's entries still to show, and those it shows
  absent,  \* history: what was not there at some time since a request began
  met      \* history: somebody else had its file in hand since (a delete: an upload)

request == <<stage, target, linked, pipe, cut, got, left, shown>>
vars    == <<kind, held, dirs, request, absent, met>>

\* "unseen": the volume failed to say what is there, which a delete answers like "ok"
\* and a listing with an error.
Ended  == {"ok", "unseen", "error", "lost"}
Active == {"create", "write", "index", "remove", "wait", "read", "each"}

\* A background upload is waiting for more, has all there will be of it, or is over.
Pending == {"open", "shut"}

\* The types of the variables: in particular a bucket is never seen to hold a file
\* that was just truncated, and only files that are open are linked.
TypeOK ==
  /\ kind \in {"disk", "bucket"}
  /\ held \in [File -> Post \cup {None, Old, Torn} \cup (IF kind = "disk" THEN {Empty} ELSE {})]
  /\ dirs \subseteq Dir /\ (kind = "disk" => Root \in dirs)
  /\ stage \in [Request -> {"new"} \cup Active \cup Ended]
  /\ target \in [Request -> Entry \cup {Root}]
  /\ linked \subseteq {p \in Post : kind = "disk" /\ stage[p] = "write"}
  /\ pipe \in [Post -> Pending \cup {"none", "done", "broken"}]
  /\ cut \subseteq {p \in Post : pipe[p] = "shut"}
  /\ got \in [Post -> Post \cup {None, Old, Torn, Empty}]
  /\ left \in [List -> SUBSET Entry]
  /\ shown \in [List -> SUBSET Entry]
  /\ absent \in [Delete \cup List -> SUBSET (Entry \cup {Root})]
  /\ met \in [Post \cup Delete -> BOOLEAN]

Under(d) == {f \in File : d \in Ancestors[Where[f]]}

Init ==
  /\ kind \in {"disk", "bucket"}
  /\ held \in [File -> {None, Old}]
  /\ dirs \in SUBSET Dir
  /\ IF kind = "disk"
     THEN \A d \in dirs : Ancestors[d] \subseteq dirs
     ELSE dirs = {}
  /\ kind = "disk" => Root \in dirs /\ \A f \in File : held[f] # None => Where[f] \in dirs
  /\ stage = [q \in Request |-> "new"]
  /\ target \in [Request -> Entry \cup {Root}]
  /\ \A q \in Post : target[q] \in Upload
  /\ \A q \in Delete : target[q] \in Entry
  /\ \A q \in List : target[q] \in Dir
  /\ linked = {} /\ cut = {}
  /\ pipe = [p \in Post |-> "none"]
  /\ got = [p \in Post |-> None]
  /\ left = [q \in List |-> {}]
  /\ shown = [q \in List |-> {}]
  /\ absent = [q \in Delete \cup List |-> {}]
  /\ met = [q \in Post \cup Delete |-> FALSE]

Goto(q, s) == stage' = [stage EXCEPT ![q] = s]

-----------------------------------------------------------------------------
(* The volume's answers.                                                   *)

\* What there really is: in a bucket, a directory is what lies under it.
There(e) ==
  IF e \in File THEN held[e] # None
  ELSE IF kind = "disk" THEN e \in dirs
  ELSE \E f \in Under(e) : held[f] # None

\* Mutant: the prefix is looked for with the slash that makes it a directory's.
IsExistAsDir(e) ==
  IF kind = "disk" THEN There(e) ELSE e \notin File /\ There(e)

\* A stat; in a bucket, some key that has the name for a prefix.
IsExist(e) ==
  \/ There(e)
  \/ kind = "bucket" /\ \E x \in Longer[e] : There(x)

\* Of a path that ends in a slash: a bucket takes it for a directory's.
IsDir(d) == kind = "bucket" \/ There(d)

\* In a bucket, the keys up to the next slash: objects and common prefixes.
ReadDir(d) == {e \in Entry : In(e) = d /\ There(e)}

-----------------------------------------------------------------------------
(* Uploads: putFileOnDisk, and indexPlaintext of what it stored.           *)

\* os.MkdirAll.
MakeDirs(p) ==
  /\ kind = "disk" /\ stage[p] = "new"
  /\ dirs' = dirs \cup Ancestors[Where[target[p]]]
  /\ Goto(p, "create")
  /\ UNCHANGED <<kind, held, target, linked, pipe, cut, got, left, shown>>

\* os.Create: another request may have removed the directory, which was empty.
Create(p) ==
  /\ kind = "disk" /\ stage[p] = "create"
  /\ IF Where[target[p]] \in dirs
     THEN /\ held' = [held EXCEPT ![target[p]] = Empty]
          /\ linked' = linked \cup {p}
          /\ Goto(p, "write")
     ELSE /\ Goto(p, "error")
          /\ UNCHANGED <<held, linked>>
  /\ UNCHANGED <<kind, dirs, target, pipe, cut, got, left, shown>>

\* The bucket's Create: a pipe, and a goroutine that uploads what comes out of it.
StartUpload(p) ==
  /\ kind = "bucket" /\ stage[p] = "new"
  /\ pipe' = [pipe EXCEPT ![p] = "open"]
  /\ Goto(p, "write")
  /\ UNCHANGED <<kind, held, dirs, target, linked, cut, got, left, shown>>

CreateFails(p) ==
  /\ kind = "disk" /\ stage[p] \in {"new", "create"}
  /\ Goto(p, "error")
  /\ UNCHANGED <<kind, held, dirs, target, linked, pipe, cut, got, left, shown>>

\* Mutant: the file stays open.
WriteStaysOpen(p) ==
  /\ kind = "disk" /\ stage[p] = "write"
  /\ held' = [held EXCEPT ![target[p]] = IF p \in linked THEN p ELSE @]
  /\ Goto(p, "index")
  /\ UNCHANGED <<kind, dirs, target, linked, pipe, cut, got, left, shown>>

\* io.Copy and Close.  Where two write one file, one may stick out behind the other.
Write(p) ==
  /\ kind = "disk" /\ stage[p] = "write"
  /\ IF p \in linked
     THEN \E new \in {p, Torn} :
            /\ held[target[p]] \in {Empty, p} => new = p
            /\ held' = [held EXCEPT ![target[p]] = new]
     ELSE held' = held
  /\ linked' = linked \ {p}
  /\ Goto(p, "index")
  /\ UNCHANGED <<kind, dirs, target, pipe, cut, got, left, shown>>

\* Mutant: the error of the copy is dropped.
WriteFailsQuietly(p) ==
  /\ kind = "disk" /\ stage[p] = "write"
  /\ held' = [held EXCEPT ![target[p]] = IF p \in linked THEN Torn ELSE @]
  /\ linked' = linked \ {p}
  /\ Goto(p, "index")
  /\ UNCHANGED <<kind, dirs, target, pipe, cut, got, left, shown>>

\* The client goes away, or the disk is full, after nothing or a part of it.
WriteFails(p) ==
  /\ kind = "disk" /\ stage[p] = "write"
  /\ IF p \in linked
     THEN \E new \in {held[target[p]], Torn} : held' = [held EXCEPT ![target[p]] = new]
     ELSE held' = held
  /\ linked' = linked \ {p}
  /\ Goto(p, "error")
  /\ UNCHANGED <<kind, dirs, target, pipe, cut, got, left, shown>>

\* The goroutine has taken all of it; Close does not wait for what it does with it.
Feed(p) ==
  /\ kind = "bucket" /\ stage[p] = "write" /\ pipe[p] = "open"
  /\ pipe' = [pipe EXCEPT ![p] = "shut"]
  /\ Goto(p, "index")
  /\ UNCHANGED <<kind, held, dirs, target, linked, cut, got, left, shown>>

\* Mutant: the pipe is closed only when all went well.
FeedFailsOpen(p) ==
  /\ kind = "bucket" /\ stage[p] = "write" /\ pipe[p] = "open"
  /\ cut' = cut \cup {p}
  /\ Goto(p, "error")
  /\ UNCHANGED <<kind, held, dirs, target, linked, pipe, got, left, shown>>

\* The client goes away: Close tells the goroutine that this was all.
FeedFails(p) ==
  /\ kind = "bucket" /\ stage[p] = "write" /\ pipe[p] = "open"
  /\ pipe' = [pipe EXCEPT ![p] = "shut"]
  /\ cut' = cut \cup {p}
  /\ Goto(p, "error")
  /\ UNCHANGED <<kind, held, dirs, target, linked, got, left, shown>>

\* The goroutine went first, and a write to its pipe fails.
FeedRefused(p) ==
  /\ stage[p] = "write" /\ pipe[p] = "broken"
  /\ Goto(p, "error")
  /\ UNCHANGED <<kind, held, dirs, target, linked, pipe, cut, got, left, shown>>

\* The object is there, whole, from one moment to the next.
Put(p) ==
  /\ pipe[p] = "shut"
  /\ pipe' = [pipe EXCEPT ![p] = "done"]
  /\ held' = [held EXCEPT ![target[p]] = IF p \in cut THEN Torn ELSE p]
  /\ cut' = cut \ {p}
  /\ UNCHANGED <<kind, dirs, stage, target, linked, got, left, shown>>

PutFails(p) ==
  /\ pipe[p] \in Pending
  /\ pipe' = [pipe EXCEPT ![p] = "broken"]
  /\ cut' = cut \ {p}
  /\ UNCHANGED <<kind, held, dirs, stage, target, linked, got, left, shown>>

\* "open the file that we saved, and index it".
ReadBack(p) ==
  /\ stage[p] = "index"
  /\ got' = [got EXCEPT ![p] = held[target[p]]]
  /\ Goto(p, IF held[target[p]] = None THEN "error" ELSE "ok")
  /\ UNCHANGED <<kind, held, dirs, target, linked, pipe, cut, left, shown>>

ReadBackFails(p) ==
  /\ stage[p] = "index"
  /\ Goto(p, "error")
  /\ UNCHANGED <<kind, held, dirs, target, linked, pipe, cut, got, left, shown>>

-----------------------------------------------------------------------------
(* Deletes: deleteHandler.                                                 *)

\* "If it's gone, then it's deleted."
Look(q) ==
  /\ stage[q] = "new"
  /\ Goto(q, IF IsExist(target[q]) THEN "remove" ELSE "ok")
  /\ UNCHANGED <<kind, held, dirs, target, linked, pipe, cut, got, left, shown>>

\* A stat or a listing that fails says that there is nothing.
LookFails(q) ==
  /\ stage[q] = "new"
  /\ Goto(q, "unseen")
  /\ UNCHANGED <<kind, held, dirs, target, linked, pipe, cut, got, left, shown>>

Unlink(f) ==
  /\ held' = [held EXCEPT ![f] = None]
  /\ linked' = {p \in linked : target[p] # f}

\* Mutant: what is gone already is taken for removed, and what is not, too.
RemoveFileAnyway(q) ==
  LET f == target[q] IN
  /\ kind = "disk" /\ stage[q] = "remove" /\ f \in File
  /\ Goto(q, "ok")
  /\ UNCHANGED <<kind, held, dirs, target, linked, pipe, cut, got, left, shown>>

RemoveFile(q) ==
  LET f == target[q] IN
  /\ kind = "disk" /\ stage[q] = "remove" /\ f \in File
  /\ IF There(f) THEN Unlink(f) /\ Goto(q, "ok")
     ELSE Goto(q, "error") /\ UNCHANGED <<held, linked>>
  /\ UNCHANGED <<kind, dirs, target, pipe, cut, got, left, shown>>

\* os.Remove takes a directory when it is empty.
RemoveDir(q) ==
  LET d == target[q] IN
  /\ kind = "disk" /\ stage[q] = "remove" /\ d \in Dir
  /\ IF d \in dirs /\ ReadDir(d) = {}
     THEN dirs' = dirs \ {d} /\ Goto(q, "ok")
     ELSE Goto(q, "error") /\ UNCHANGED dirs
  /\ UNCHANGED <<kind, held, target, linked, pipe, cut, got, left, shown>>

\* A key that is not there, a directory's in particular, is deleted all the same.
RemoveObject(q) ==
  /\ kind = "bucket" /\ stage[q] = "remove"
  /\ IF target[q] \in File THEN Unlink(target[q]) ELSE UNCHANGED <<held, linked>>
  /\ Goto(q, "wait")
  /\ UNCHANGED <<kind, dirs, target, pipe, cut, got, left, shown>>

\* WaitUntilObjectNotExists asks again and again, and gives up.
Waited(q) ==
  /\ stage[q] = "wait"
  /\ target[q] \in File => ~There(target[q])
  /\ Goto(q, "ok")
  /\ UNCHANGED <<kind, held, dirs, target, linked, pipe, cut, got, left, shown>>

RemoveFails(q) ==
  /\ stage[q] \in {"remove", "wait"}
  /\ Goto(q, "error")
  /\ UNCHANGED <<kind, held, dirs, target, linked, pipe, cut, got, left, shown>>

-----------------------------------------------------------------------------
(* Listings: handleFiles and dirHandler.                                   *)

\* What is not a directory goes to the file server, which does not find it.
Enter(q) ==
  /\ stage[q] = "new"
  /\ Goto(q, IF IsDir(target[q]) THEN "read" ELSE "error")
  /\ UNCHANGED <<kind, held, dirs, target, linked, pipe, cut, got, left, shown>>

ReadEntries(q) ==
  /\ stage[q] = "read" /\ IsDir(target[q])
  /\ left' = [left EXCEPT ![q] = ReadDir(target[q])]
  /\ Goto(q, "each")
  /\ UNCHANGED <<kind, held, dirs, target, linked, pipe, cut, got, shown>>

\* ListObjectsV2 fails, or a stat, os.ReadDir or an Info does for another reason than
\* that there is nothing.
ListFails(q) ==
  /\ \/ stage[q] = "read"
     \/ kind = "disk" /\ stage[q] = "new"
     \/ kind = "disk" /\ stage[q] = "each" /\ left[q] \ Hidden # {}
  /\ Goto(q, "unseen")
  /\ left' = [left EXCEPT ![q] = {}]
  /\ shown' = [shown EXCEPT ![q] = {}]
  /\ UNCHANGED <<kind, held, dirs, target, linked, pipe, cut, got>>

ReadDirGone(q) ==
  /\ stage[q] = "read" /\ ~IsDir(target[q])
  /\ Goto(q, "error")
  /\ UNCHANGED <<kind, held, dirs, target, linked, pipe, cut, got, left, shown>>

\* Readable, and Info: a disk's entry is looked at now, a bucket's was in the answer.
ShowEntry(q) ==
  /\ stage[q] = "each"
  /\ \E e \in left[q] \ Hidden :
       /\ kind = "bucket" \/ There(e)
       /\ shown' = [shown EXCEPT ![q] = @ \cup {e}]
       /\ left' = [left EXCEPT ![q] = @ \ {e}]
  /\ UNCHANGED <<kind, held, dirs, stage, target, linked, pipe, cut, got>>

SkipEntry(q) ==
  /\ stage[q] = "each"
  /\ \E e \in left[q] \cap Hidden : left' = [left EXCEPT ![q] = @ \ {e}]
  /\ UNCHANGED <<kind, held, dirs, stage, target, linked, pipe, cut, got, shown>>

\* Mutant: the entry is left out, and the rest with it.
EntryGoneEnds(q) ==
  /\ stage[q] = "each" /\ kind = "disk"
  /\ \E e \in left[q] \ Hidden : ~There(e)
  /\ Goto(q, "ok")
  /\ UNCHANGED <<kind, held, dirs, target, linked, pipe, cut, got, left, shown>>

\* Mutant: the entry is looked at before it is known whether the client may read it.
EntryGoneUnasked(q) ==
  /\ stage[q] = "each" /\ kind = "disk"
  /\ \E e \in left[q] : ~There(e)
  /\ Goto(q, "error")
  /\ left' = [left EXCEPT ![q] = {}]
  /\ shown' = [shown EXCEPT ![q] = {}]
  /\ UNCHANGED <<kind, held, dirs, target, linked, pipe, cut, got>>

\* One entry that is gone since takes the whole listing with it.
EntryGone(q) ==
  /\ stage[q] = "each" /\ kind = "disk"
  /\ \E e \in left[q] \ Hidden : ~There(e)
  /\ Goto(q, "error")
  /\ left' = [left EXCEPT ![q] = {}]
  /\ shown' = [shown EXCEPT ![q] = {}]
  /\ UNCHANGED <<kind, held, dirs, target, linked, pipe, cut, got>>

ListEnd(q) ==
  /\ stage[q] = "each" /\ left[q] = {}
  /\ Goto(q, "ok")
  /\ UNCHANGED <<kind, held, dirs, target, linked, pipe, cut, got, left, shown>>

-----------------------------------------------------------------------------

\* The process ends and is started again: goroutines are gone, what is stored stays.
Crash ==
  /\ \/ \E q \in Request : stage[q] \in Active
     \/ \E p \in Post : pipe[p] \in Pending
  /\ stage' = [q \in Request |-> IF stage[q] \in Active THEN "lost" ELSE stage[q]]
  /\ pipe' = [p \in Post |-> IF pipe[p] \in Pending THEN "broken" ELSE pipe[p]]
  /\ linked' = {} /\ cut' = {}
  /\ UNCHANGED <<kind, held, dirs, target, got, left, shown>>

PostStep(p) ==
  Create(p) \/ Write(p) \/ Feed(p) \/ FeedRefused(p) \/ ReadBack(p)

PostFails(p) == CreateFails(p) \/ WriteFails(p) \/ FeedFails(p) \/ ReadBackFails(p)

DeleteStep(q) ==
  RemoveFile(q) \/ RemoveDir(q) \/ RemoveObject(q) \/ Waited(q) \/ RemoveFails(q)

ListStep(q) ==
  ReadEntries(q) \/ ReadDirGone(q) \/ ShowEntry(q) \/ SkipEntry(q) \/ EntryGone(q) \/ ListEnd(q)

\* A request is changing an entry, or its upload still may.
InHand(r, e) ==
  /\ target[r] = e
  /\ \/ stage[r] \in Active
     \/ r \in Post /\ pipe[r] \in Pending

\* What a request is about: its target, and of a listing also what is in it.
About(q) == {target[q]} \cup {e \in Entry : q \in List /\ In(e) = target[q]}

\* The histories, of requests from when they begin: absent until they end.
Record ==
  /\ absent' = [q \in Delete \cup List |->
       IF stage[q] \in Ended \/ stage'[q] = "new" THEN absent[q]
       ELSE absent[q] \cup {e \in About(q) : ~There(e) \/ ~There(e)'}]
  /\ met' = [q \in Post \cup Delete |->
       /\ stage'[q] # "new"
       /\ \/ met[q]
          \/ \E r \in (IF q \in Post THEN Post \cup Delete ELSE Post) \ {q} :
               InHand(r, target[q]) \/ InHand(r, target[q])']

Step ==
  \/ Crash
  \/ \E p \in Post : \/ MakeDirs(p) \/ StartUpload(p) \/ PostStep(p) \/ PostFails(p)
                     \/ Put(p) \/ PutFails(p)
  \/ \E q \in Delete : Look(q) \/ LookFails(q) \/ DeleteStep(q)
  \/ \E q \in List : Enter(q) \/ ListStep(q) \/ ListFails(q)

Next == Step /\ Record

Spec == Init /\ [][Next]_vars

-----------------------------------------------------------------------------

\* What an upload that was answered well stored is there, and was indexed, when nobody
\* else had the file in hand; on a bucket it may still be on its way there, or have
\* been given up (s3.go:295-307, post.go:158, fs.go:23).
AnsweredIsStored ==
  \A p \in Post : stage[p] = "ok" /\ ~met[p] =>
    IF kind = "disk" THEN held[target[p]] = p /\ got[p] = p
    ELSE \/ held[target[p]] = p
         \/ pipe[p] \in {"shut", "broken"} /\ got[p] # p

\* What was deleted is there again only when somebody uploaded it since the delete
\* began; on a bucket, the upload may have been answered before (s3.go:226, delete.go:42).
DeleteLasts ==
  \A q \in Delete : stage[q] = "ok" /\ target[q] \in File /\ There(target[q]) => met[q]

\* A delete that was answered well, by a volume that could say what is there, is of
\* what was gone at some time, whoever removed it, except of a bucket's directories
\* (delete.go:38-49, s3.go:226-261).
DeletedWasGone ==
  \A q \in Delete : stage[q] = "ok" =>
    \/ target[q] \in absent[q]
    \/ kind = "bucket" /\ target[q] \in Dir

\* A file is torn only by an upload that failed, is not over, or met another; an
\* object only by an upload that failed (volume.go:63, s3.go:295-307, post.go:349).
TornByFailure ==
  \A f \in File : held[f] \in {Empty, Torn} =>
    \E p \in Post :
      /\ target[p] = f
      /\ \/ stage[p] \in {"error", "lost"}
         \/ kind = "disk" /\ (stage[p] \in Active \/ met[p])

\* A listing that was answered well has everything in it that its client may read and
\* that was there all the time, and nothing that was not in the directory
\* (get_list.go:19-56).
ListsWhatStays ==
  \A q \in List : stage[q] = "ok" =>
    /\ {e \in Entry \ Hidden : In(e) = target[q]} \ absent[q] \subseteq shown[q]
    /\ \A e \in shown[q] : In(e) = target[q]

\* A listing whose volume answered every call fails only when the directory, or an
\* entry its client may read, was gone meanwhile, and a bucket's does not fail even then:
\* what its client may not read, and what goes from a bucket, cannot take the listing
\* with it (get_list.go:20, 47-48, s3.go:403).
ListFailsForGone ==
  \A q \in List : stage[q] = "error" =>
    /\ kind = "disk"
    /\ \/ target[q] \in absent[q]
       \/ \E e \in Entry \ Hidden : In(e) = target[q] /\ e \in absent[q]

\* A background upload that waits for more has somebody to give it more or to tell it
\* that this was all: no goroutine waits for ever, whatever became of the request,
\* whose Close comes before its error is looked at (post.go:349-353, s3.go:297).
PipeHasWriter == \A p \in Post : pipe[p] = "open" => stage[p] = "write"
=============================================================================
