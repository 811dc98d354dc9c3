---------------------------- MODULE ContentStore ----------------------------
(***************************************************************************)
(* The two stores microcms keeps and the requests that change them: the    *)
(* files on the volume, and the rows of the full-text index that says what *)
(* is in them.  Nothing holds the two together but the order in which the  *)
(* handlers do things:                                                     *)
(*                                                                         *)
(*   POST    writes the file, inserts a row for its name, then either      *)
(*           posts what it derives from it (extracted text, thumbnail,     *)
(*           image labels) or reads the file back and inserts a row for    *)
(*           every chunk of text.  A tar archive posts one entry after     *)
(*           another.                                                      *)
(*   DELETE  removes the file and leaves its rows.                         *)
(*   REINDEX deletes every row, then walks the tree and indexes what it    *)
(*           finds.                                                        *)
(*                                                                         *)
(* Every request is a goroutine of its own; there is no lock.  An action   *)
(* is one call on the volume or on the database.                           *)
(***************************************************************************)
EXTENDS Names, Tree, FiniteSets

CONSTANTS
  Post, Reindex, Delete,  \* the requests, each served once
  File,                   \* every file a request may name or derive
  Upload,                 \* those a client may post under its own name
  Chunk,                  \* 16 KiB of content
  Body,                   \* what a client may send: sequences of chunks
  Inode,                  \* files of the volume, linked or only open
  TarMax,                 \* bound on the entries of one archive
  None, Name, Zeros, Nothing
    \* no inode; the text of a name row; a hole in a file; an empty read

Request == Post \cup Reindex \cup Delete
Text    == Chunk \cup {Name, Zeros, Nothing}

\* The cascade stays within File: what an upload derives is a file too.
Derived(f) == {Derivations(f)[n].file : n \in DOMAIN Derivations(f)}

ASSUME RequestAssumption ==
  /\ Post \cap Reindex = {} /\ Post \cap Delete = {} /\ Reindex \cap Delete = {}
  /\ None \notin Request

ASSUME FileAssumption ==
  /\ File \subseteq [dir : Dir, name : Seq(Piece) \ {<<>>}]
  /\ \A f \in File : OriginalOf(f) \in File
  /\ Upload \subseteq File
  /\ \A f \in Upload : Derived(f) \subseteq File
  /\ Inode \cap {None} = {} /\ None \notin File
  /\ Body \subseteq Seq(Chunk)
  /\ TarMax \in Nat

VARIABLES
  dirent,   \* the volume's directory: the inode a file names, or None
  data,     \* what an inode holds, chunk by chunk
  rows,     \* the rows of table filesearch
  stage,    \* what each request does next
  cur,      \* the file it is working on
  fd,       \* the inode it has open
  off,      \* how many chunks it has written to or read from fd
  buf,      \* the chunk it has read and not yet inserted
  job,      \* POST: the file whose upload is cascading
  nth,      \* POST: which of its derivations cur is, 0 if cur = job
  body,     \* POST: what is being uploaded to cur
  left,     \* POST: how many more entries the archive may have
  here,     \* REINDEX: the directory being walked
  files,    \* REINDEX: files listed and not yet visited
  dirs,     \* REINDEX: directories listed and not yet visited
  \* history
  wiper,     \* the last reindex that wiped the index
  abandoned, \* files whose indexing a failure cut short since then
  touched    \* files posted, deleted or held by a request since then

store    == <<dirent, data, rows>>
reading  == <<cur, fd, off, buf>>
posting  == <<job, nth, body, left>>
walking  == <<here, files, dirs>>
history  == <<wiper, abandoned, touched>>
vars     == <<store, stage, reading, posting, walking, history>>

Row  == [file : File, orig : File, text : Text]

IndexStages == {"write", "name", "open", "read", "insert"}
WalkStages  == {"list", "walk", "name", "open", "read", "insert"}
Active      == IndexStages \cup WalkStages \cup {"next", "create", "derive"}
Ended       == {"ok", "error", "lost"}
Stage       == Active \cup Ended \cup {"new"}

\* Every variable has its type, and a request has a file open exactly while it writes
\* or reads one: however it leaves the two loops, at the end, by an error of a call or
\* with its process, the descriptor is closed (post.go:186, 347-353).
TypeOK ==
  /\ dirent \in [File -> Inode \cup {None}]
  /\ data \in [Inode -> Seq(Text)]
  /\ rows \subseteq Row
  /\ stage \in [Request -> Stage]
  /\ cur \in [Request -> File \cup {None}]
  /\ fd \in [Request -> Inode \cup {None}]
  /\ \A q \in Request : fd[q] # None <=> stage[q] \in {"write", "read", "insert"}
  /\ off \in [Request -> Nat]
  /\ buf \in [Request -> Text]
  /\ job \in [Post -> Upload \cup {None}]
  /\ nth \in [Post -> Nat]
  /\ body \in [Post -> Seq(Chunk)]
  /\ left \in [Post -> 0..TarMax]
  /\ here \in [Reindex -> Dir]
  /\ files \in [Reindex -> SUBSET File]
  /\ dirs \in [Reindex -> SUBSET Dir]
  /\ wiper \in Reindex \cup {None}
  /\ abandoned \subseteq File
  /\ touched \subseteq File

Init ==
  /\ dirent = [f \in File |-> None]
  /\ data = [i \in Inode |-> <<>>]
  /\ rows = {}
  /\ stage = [q \in Request |-> "new"]
  /\ cur = [q \in Request |-> None]
  /\ fd = [q \in Request |-> None]
  /\ off = [q \in Request |-> 0]
  /\ buf = [q \in Request |-> Nothing]
  /\ job = [q \in Post |-> None]
  /\ nth = [q \in Post |-> 0]
  /\ body = [q \in Post |-> <<>>]
  /\ left = [q \in Post |-> TarMax]
  /\ here = [r \in Reindex |-> Root]
  /\ files = [r \in Reindex |-> {}]
  /\ dirs = [r \in Reindex |-> {}]
  /\ wiper = None
  /\ abandoned = {}
  /\ touched = {}

Goto(q, s) == stage' = [stage EXCEPT ![q] = s]

-----------------------------------------------------------------------------
(* What a request still has in hand.                                       *)

Under(d)  == {f \in File : d \in Ancestors[f.dir]}
Beneath(ds) == {f \in File : Ancestors[f.dir] \cap ds # {}}

\* The files a reindex has not come to yet.
Ahead(r) == files[r] \cup Beneath(dirs[r])
              \cup IF stage[r] = "list" THEN Under(here[r]) ELSE {}

\* The file a request is writing or indexing.
InHand(q) == IF stage[q] \in IndexStages THEN {cur[q]} ELSE {}

\* The files that stay out of the index if q stops now.
Owed(q) ==
  CASE q \in Post    -> InHand(q)
    [] q \in Reindex -> IF q = wiper THEN InHand(q) \cup Ahead(q) ELSE {}
    [] OTHER         -> {}

-----------------------------------------------------------------------------
(* POST: postFilesHandler and postFileHandler.                             *)

\* Mutant: a derived text is taken for a thumbnail and not indexed.
CascadeFirstOnly(q) == nth[q] = 0

\* The upload in hand may index and derive; only thumbnails may not.
Cascade(q) == nth[q] = 0 \/ Derivations(job[q])[nth[q]].cascade

\* postFileHandler returns to the archive loop or to the cascade.
Return(q) == IF nth[q] = 0 THEN "next" ELSE "derive"

\* extractDoc, extractImage, then indexPlaintext: the first that applies.
AfterName(q) ==
  IF ~Cascade(q) THEN Return(q)
  ELSE IF IsDoc(cur[q]) \/ IsImage(cur[q]) THEN "derive"
  ELSE IF IsTextFile(cur[q]) THEN "open"
  ELSE Return(q)

\* Mutant: the name of a new file is not indexed.
AfterWriteNameless(q) == AfterName(q)

AfterWrite(q) ==
  IF Cascade(q) /\ ~IsDerived(cur[q]) THEN "name" ELSE AfterName(q)

\* A plain upload is an archive of one entry.
PostEntry(q) ==
  /\ stage[q] \in {"new", "next"}
  /\ left[q] > 0
  /\ left' = [left EXCEPT ![q] = @ - 1]
  /\ \E f \in Upload, b \in Body :
       /\ job' = [job EXCEPT ![q] = f]
       /\ cur' = [cur EXCEPT ![q] = f]
       /\ body' = [body EXCEPT ![q] = b]
  /\ nth' = [nth EXCEPT ![q] = 0]
  /\ Goto(q, "create")
  /\ UNCHANGED <<store, fd, off, buf, walking, history>>

\* The archive is at its end (it may be empty), or the plain upload is done.
PostDone(q) ==
  /\ stage[q] \in {"new", "next"}
  /\ Goto(q, "ok")
  /\ UNCHANGED <<store, reading, posting, walking, history>>

\* Only io.EOF is looked at: any other error leaves a nil header behind it,
\* and the handler panics.
BadArchive(q) ==
  /\ stage[q] \in {"new", "next"}
  /\ Goto(q, "lost")
  /\ UNCHANGED <<store, reading, posting, walking, history>>

\* CanWrite or badUploadPermissions says no, or the file cannot be created.
CreateFails(q) ==
  /\ stage[q] = "create"
  /\ Goto(q, "error")
  /\ UNCHANGED <<store, reading, posting, walking, history>>

Unused == {i \in Inode : /\ \A f \in File : dirent[f] # i
                         /\ \A q \in Request : fd[q] # i}

\* An existing file is truncated, a new one gets an inode (which one shows
\* nowhere).
InodeFor(f) == IF dirent[f] = None THEN CHOOSE i \in Unused : TRUE ELSE dirent[f]

Create(q) ==
  /\ stage[q] = "create"
  /\ dirent[cur[q]] # None \/ Unused # {}
  /\ LET f == cur[q]
         i == InodeFor(f) IN
       /\ dirent' = [dirent EXCEPT ![f] = i]
       /\ data' = [data EXCEPT ![i] = <<>>]
       /\ fd' = [fd EXCEPT ![q] = i]
       /\ abandoned' = abandoned \ {f}
       /\ touched' = touched \cup {f}
  /\ off' = [off EXCEPT ![q] = 0]
  /\ Goto(q, "write")
  /\ UNCHANGED <<rows, cur, buf, posting, walking, wiper>>

\* The descriptor and what was kept with it are gone.
Close(q) ==
  /\ fd' = [fd EXCEPT ![q] = None]
  /\ off' = [off EXCEPT ![q] = 0]
  /\ buf' = [buf EXCEPT ![q] = Nothing]

\* What s holds once chunk c is written at position p, past its end or not.
Written(s, p, c) ==
  [k \in 1 .. (IF p > Len(s) THEN p ELSE Len(s)) |->
     IF k = p THEN c ELSE IF k \in DOMAIN s THEN s[k] ELSE Zeros]

WriteChunk(q) ==
  /\ stage[q] = "write"
  /\ off[q] < Len(body[q])
  /\ data' = [data EXCEPT ![fd[q]] = Written(@, off[q] + 1, body[q][off[q] + 1])]
  /\ off' = [off EXCEPT ![q] = @ + 1]
  /\ UNCHANGED <<dirent, rows, stage, cur, fd, buf, posting, walking, history>>

WriteEnd(q) ==
  /\ stage[q] = "write"
  /\ off[q] = Len(body[q])
  /\ Close(q)
  /\ Goto(q, AfterWrite(q))
  /\ UNCHANGED <<store, cur, posting, walking, history>>

\* Tika, the image tools or Rekognition make something of the file on disk,
\* and it is posted in turn.
Derive(q) ==
  /\ stage[q] = "derive"
  /\ nth[q] < Len(Derivations(job[q]))
  /\ dirent[job[q]] # None
  /\ cur' = [cur EXCEPT ![q] = Derivations(job[q])[nth[q] + 1].file]
  /\ \E b \in Body : body' = [body EXCEPT ![q] = b]
  /\ nth' = [nth EXCEPT ![q] = @ + 1]
  /\ Goto(q, "create")
  /\ UNCHANGED <<store, fd, off, buf, job, left, walking, history>>

\* No label names a face or a person.
DeriveNot(q) ==
  /\ stage[q] = "derive"
  /\ nth[q] < Len(Derivations(job[q]))
  /\ Derivations(job[q])[nth[q] + 1].optional
  /\ nth' = [nth EXCEPT ![q] = @ + 1]
  /\ UNCHANGED <<store, stage, reading, job, body, left, walking, history>>

\* The file is gone, the tool or the service is down, the labels do not parse.
DeriveFails(q) ==
  /\ stage[q] = "derive"
  /\ nth[q] < Len(Derivations(job[q]))
  /\ Goto(q, "error")
  /\ UNCHANGED <<store, reading, posting, walking, history>>

\* Mutant: the loop over the derivations runs once too often.
DeriveEndLate(q) ==
  /\ stage[q] = "derive"
  /\ nth[q] > Len(Derivations(job[q]))
  /\ Goto(q, "next")
  /\ UNCHANGED <<store, reading, posting, walking, history>>

DeriveEnd(q) ==
  /\ stage[q] = "derive"
  /\ nth[q] >= Len(Derivations(job[q]))
  /\ Goto(q, "next")
  /\ UNCHANGED <<store, reading, posting, walking, history>>

-----------------------------------------------------------------------------
(* REINDEX: GetReIndex and reindexWalk.                                    *)

\* Not an admin, or the rows cannot be deleted.
ReindexFails(r) ==
  /\ stage[r] = "new"
  /\ Goto(r, "error")
  /\ UNCHANGED <<store, reading, posting, walking, history>>

\* Mutant: only the name rows are deleted.
WipeNames(r) ==
  /\ stage[r] = "new"
  /\ rows' = {row \in rows : row.text # Name}
  /\ here' = [here EXCEPT ![r] = Root]
  /\ Goto(r, "list")
  /\ wiper' = r
  /\ abandoned' = {}
  /\ touched' = {f \in File : \/ \E q \in Post \cup Reindex : f \in InHand(q)
                              \/ \E s \in Reindex : f \in files[s]}
  /\ UNCHANGED <<dirent, data, reading, posting, files, dirs>>

Wipe(r) ==
  /\ stage[r] = "new"
  /\ rows' = {}
  /\ here' = [here EXCEPT ![r] = Root]
  /\ Goto(r, "list")
  /\ wiper' = r
  /\ abandoned' = {}
  /\ touched' = {f \in File : \/ \E q \in Post \cup Reindex : f \in InHand(q)
                              \/ \E s \in Reindex : f \in files[s]}
  /\ UNCHANGED <<dirent, data, reading, posting, files, dirs>>

\* Mutant: the walk stays in the root.
ListDirFlat(r) ==
  /\ stage[r] = "list"
  /\ files' = [files EXCEPT ![r] = @ \cup
                 {f \in File : f.dir = here[r] /\ dirent[f] # None}]
  /\ Goto(r, "walk")
  /\ UNCHANGED <<store, reading, posting, here, dirs, history>>

\* A directory is there from the first upload into it: an empty one may be
\* listed or not.
ListDir(r) ==
  /\ stage[r] = "list"
  /\ \E ds \in SUBSET {d \in Dir \ {Root} : Parent[d] = here[r]} :
       /\ \A d \in Dir \ {Root} : /\ Parent[d] = here[r]
                                  /\ \E f \in Under(d) : dirent[f] # None
                                  => d \in ds
       /\ dirs' = [dirs EXCEPT ![r] = @ \cup ds]
  /\ files' = [files EXCEPT ![r] = @ \cup
                 {f \in File : f.dir = here[r] /\ dirent[f] # None}]
  /\ Goto(r, "walk")
  /\ UNCHANGED <<store, reading, posting, here, history>>

VisitDir(r) ==
  /\ stage[r] = "walk"
  /\ \E d \in dirs[r] :
       /\ d # Root /\ Parent[d] = here[r]
       /\ here' = [here EXCEPT ![r] = d]
       /\ dirs' = [dirs EXCEPT ![r] = @ \ {d}]
  /\ Goto(r, "list")
  /\ UNCHANGED <<store, reading, posting, files, history>>

VisitFile(r) ==
  /\ stage[r] = "walk"
  /\ \E f \in files[r] :
       /\ f.dir = here[r]
       /\ files' = [files EXCEPT ![r] = @ \ {f}]
       /\ cur' = [cur EXCEPT ![r] = f]
       /\ Goto(r, IF ~IsDerived(f) THEN "name"
                  ELSE IF IsTextFile(f) THEN "open" ELSE "walk")
  /\ UNCHANGED <<store, fd, off, buf, posting, here, dirs, history>>

\* The walk of a directory is done; the one of the root ends the request,
\* with "reindexed" in the response.
Leave(r) ==
  /\ stage[r] = "walk"
  /\ \A f \in files[r] : f.dir # here[r]
  /\ \A d \in dirs[r] : Parent[d] # here[r]
  /\ IF here[r] = Root
     THEN Goto(r, "ok") /\ UNCHANGED here
     ELSE here' = [here EXCEPT ![r] = Parent[here[r]]] /\ UNCHANGED stage
  /\ UNCHANGED <<store, reading, posting, files, dirs, history>>

\* reindexWalk returns true.  The caller of a directory's walk does not look
\* at that and goes on with the next entry; only the root's ends the request.
CutShort(r) ==
  /\ abandoned' = abandoned \cup (Owed(r) \cap (InHand(r) \cup Under(here[r])))
  /\ files' = [files EXCEPT ![r] = @ \ Under(here[r])]
  /\ dirs' = [dirs EXCEPT ![r] = {d \in dirs[r] : here[r] \notin Ancestors[d]}]
  /\ IF here[r] = Root
     THEN Goto(r, "error") /\ UNCHANGED here
     ELSE Goto(r, "walk") /\ here' = [here EXCEPT ![r] = Parent[here[r]]]

ListFails(r) ==
  /\ stage[r] = "list"
  /\ CutShort(r)
  /\ UNCHANGED <<store, reading, posting, wiper, touched>>

-----------------------------------------------------------------------------
(* IndexFileName and indexPlaintext, which POST and REINDEX share.         *)

\* Mutant: a reindex takes every file for its own original.
OriginalItself(q) == IF q \in Post THEN job[q] ELSE cur[q]

\* The file search results lead to: for a POST the one whose upload began
\* the cascade, for REINDEX what is before the last "--".
Original(q) == IF q \in Post THEN job[q] ELSE OriginalOf(cur[q])

AfterNameOf(q) == IF q \in Post THEN AfterName(q)
                  ELSE IF IsTextFile(cur[q]) THEN "open" ELSE "walk"

AfterTextOf(q) == IF q \in Post THEN Return(q) ELSE "walk"

IndexName(q) ==
  /\ stage[q] = "name"
  /\ rows' = rows \cup {[file |-> cur[q], orig |-> cur[q], text |-> Name]}
  /\ Goto(q, AfterNameOf(q))
  /\ UNCHANGED <<dirent, data, reading, posting, walking, history>>

Open(q) ==
  /\ stage[q] = "open"
  /\ dirent[cur[q]] # None
  /\ fd' = [fd EXCEPT ![q] = dirent[cur[q]]]
  /\ off' = [off EXCEPT ![q] = 0]
  /\ Goto(q, "read")
  /\ UNCHANGED <<store, cur, buf, posting, walking, history>>

ReadChunk(q) ==
  /\ stage[q] = "read"
  /\ off[q] < Len(data[fd[q]])
  /\ buf' = [buf EXCEPT ![q] = data[fd[q]][off[q] + 1]]
  /\ off' = [off EXCEPT ![q] = @ + 1]
  /\ Goto(q, "insert")
  /\ UNCHANGED <<store, cur, fd, posting, walking, history>>

\* Mutant: any error ends the loop as the end of the file does.
ReadFailsQuietly(q) ==
  /\ stage[q] = "read"
  /\ Close(q)
  /\ Goto(q, AfterTextOf(q))
  /\ UNCHANGED <<store, cur, posting, walking, history>>

\* The error is overwritten by the insert's: what was read, nothing, is
\* indexed, and the loop goes on.
ReadFails(q) ==
  /\ stage[q] = "read"
  /\ buf' = [buf EXCEPT ![q] = Nothing]
  /\ Goto(q, "insert")
  /\ UNCHANGED <<store, cur, fd, off, posting, walking, history>>

InsertRow(q) ==
  /\ stage[q] = "insert"
  /\ rows' = rows \cup {[file |-> cur[q], orig |-> Original(q), text |-> buf[q]]}
  /\ Goto(q, "read")
  /\ UNCHANGED <<dirent, data, reading, posting, walking, history>>

ReadEnd(q) ==
  /\ stage[q] = "read"
  /\ off[q] >= Len(data[fd[q]])
  /\ Close(q)
  /\ Goto(q, AfterTextOf(q))
  /\ UNCHANGED <<store, cur, posting, walking, history>>

\* Mutant: the error of a write is looked at before the file is closed.
FailsOpen(q) ==
  /\ stage[q] \in {"write", "name", "open", "insert"}
  /\ IF stage[q] = "write" THEN UNCHANGED <<fd, off, buf>> ELSE Close(q)
  /\ IF q \in Post
     THEN /\ Goto(q, "error")
          /\ abandoned' = abandoned \cup Owed(q)
          /\ UNCHANGED walking
     ELSE CutShort(q)
  /\ UNCHANGED <<store, cur, posting, wiper, touched>>

\* A call fails in the middle: the write (the client goes away, the disk is
\* full), an insert (the database is locked) or the open (the file is gone).
Fails(q) ==
  /\ stage[q] \in {"write", "name", "open", "insert"}
  /\ Close(q)
  /\ IF q \in Post
     THEN /\ Goto(q, "error")
          /\ abandoned' = abandoned \cup Owed(q)
          /\ UNCHANGED walking
     ELSE CutShort(q)
  /\ UNCHANGED <<store, cur, posting, wiper, touched>>

-----------------------------------------------------------------------------
(* DELETE, and the end of the process.                                     *)

\* CanWrite or the guard on permissions files says no, or the remove fails.
DeleteFails(q) ==
  /\ stage[q] = "new"
  /\ Goto(q, "error")
  /\ UNCHANGED <<store, reading, posting, walking, history>>

\* "If it's gone, then it's deleted."
DeleteFile(q) ==
  /\ stage[q] = "new"
  /\ \E f \in File :
       /\ dirent' = [dirent EXCEPT ![f] = None]
       /\ touched' = touched \cup {f}
  /\ Goto(q, "ok")
  /\ UNCHANGED <<data, rows, reading, posting, walking, wiper, abandoned>>

\* The handlers die with the process; both stores survive it.
Crash ==
  /\ \E q \in Request : stage[q] \in Active
  /\ stage' = [q \in Request |-> IF stage[q] \in Active THEN "lost" ELSE stage[q]]
  /\ fd' = [q \in Request |-> None]
  /\ off' = [q \in Request |-> 0]
  /\ buf' = [q \in Request |-> Nothing]
  /\ files' = [r \in Reindex |-> {}]
  /\ dirs' = [r \in Reindex |-> {}]
  /\ abandoned' = abandoned \cup {f \in File : \E q \in Request : f \in Owed(q)}
  /\ UNCHANGED <<store, cur, posting, here, wiper, touched>>

-----------------------------------------------------------------------------

PostStep(q) ==
  \/ PostEntry(q) \/ PostDone(q) \/ BadArchive(q)
  \/ CreateFails(q) \/ Create(q) \/ WriteChunk(q) \/ WriteEnd(q)
  \/ Derive(q) \/ DeriveNot(q) \/ DeriveFails(q) \/ DeriveEnd(q)

ReindexStep(r) ==
  \/ ReindexFails(r) \/ Wipe(r) \/ ListDir(r) \/ ListFails(r)
  \/ VisitDir(r) \/ VisitFile(r) \/ Leave(r)

IndexStep(q) ==
  \/ IndexName(q) \/ Open(q) \/ ReadChunk(q) \/ ReadFails(q)
  \/ InsertRow(q) \/ ReadEnd(q) \/ Fails(q)

Next ==
  \/ \E q \in Post : PostStep(q)
  \/ \E r \in Reindex : ReindexStep(r)
  \/ \E q \in Post \cup Reindex : IndexStep(q)
  \/ \E q \in Delete : DeleteFile(q) \/ DeleteFails(q)
  \/ Crash

Spec == Init /\ [][Next]_vars

(***************************************************************************)
(* A request that has been accepted runs on: its goroutine is scheduled,   *)
(* and every call returns.  Reads do not fail for ever: a volume that does *)
(* keeps indexPlaintext in its loop.                                       *)
(***************************************************************************)
Running(q) == stage[q] # "new"

FairSpec ==
  /\ Spec
  /\ \A q \in Post : WF_vars(Running(q) /\ PostStep(q))
  /\ \A r \in Reindex : WF_vars(Running(r) /\ ReindexStep(r))
  /\ \A q \in Post \cup Reindex : /\ WF_vars(IndexStep(q))
                                  /\ SF_vars(ReadChunk(q) \/ ReadEnd(q))

-----------------------------------------------------------------------------
(* What the index promises.                                                *)

OnDisk(f) == dirent[f] # None

HasRow(f, t) == \E o \in File : [file |-> f, orig |-> o, text |-> t] \in rows

NameIndexed(f) == IsDerived(f) \/ HasRow(f, Name)

TextIndexed(f) ==
  IsTextFile(f) => \A p \in DOMAIN data[dirent[f]] : HasRow(f, data[dirent[f]][p])

\* A file on disk can be found by its name, if it is not a derived one, and
\* by everything in it, if it is text, unless a request is still to index it
\* or a failure cut its indexing short since the index was last wiped.
\* However posts, deletes, reindexes and crashes interleave, no file that was
\* answered for falls out of the index (post.go:119-161, get.go:96-113).
NoLostIndex ==
  \A f \in File :
    OnDisk(f) /\ f \notin abandoned /\ (\A q \in Request : f \notin Owed(q))
      => NameIndexed(f) /\ TextIndexed(f)

\* A row that does not match the disk is of a file that was posted, deleted or
\* held by a request since the last wipe: what a reindex finds alone it indexes
\* as it is, and no row from before the wipe survives it (get.go:96-99).
RowsMatchDisk ==
  \A row \in rows :
    \/ row.file \in touched
    \/ /\ OnDisk(row.file)
       /\ row.text \in {Name, Nothing}
            \/ \E p \in DOMAIN data[dirent[row.file]] :
                 data[dirent[row.file]][p] = row.text

\* Search results lead to a row's original.  For a file that only a cascade
\* makes that is the file it was made from, whether a post or a reindex wrote
\* the row: a reindex does not change where a hit leads (post.go:178-197,
\* get.go:40-48).
DerivedLeadHome ==
  \A row \in rows : row.file \notin Upload => row.orig = OriginalOf(row.file)

\* Every request that is accepted is answered, or dies with its process.
Answered == \A q \in Request : stage[q] # "new" ~> stage[q] \in Ended

-----------------------------------------------------------------------------
(* Why NoLostIndex holds: the inductive invariant.                         *)

Responsible(q) == q \in Post \/ (q \in Reindex /\ q = wiper)

WillVisit(q, f) == q \in Reindex /\ q = wiper /\ f \in Ahead(q)

WillName(q, f) ==
  \/ WillVisit(q, f)
  \/ Responsible(q) /\ cur[q] = f /\ stage[q] \in {"write", "name"}

WillText(q, f, p) ==
  \/ WillVisit(q, f)
  \/ /\ Responsible(q) /\ cur[q] = f
     /\ \/ stage[q] \in {"write", "name", "open"}
        \/ /\ stage[q] \in {"read", "insert"}
           /\ fd[q] = dirent[f]
           /\ \/ p > off[q]
              \/ stage[q] = "insert" /\ buf[q] = data[dirent[f]][p]

NameKept == \A f \in File :
  OnDisk(f) /\ f \notin abandoned /\ ~IsDerived(f)
    => HasRow(f, Name) \/ \E q \in Request : WillName(q, f)

TextKept == \A f \in File :
  OnDisk(f) /\ f \notin abandoned /\ IsTextFile(f)
    => \A p \in DOMAIN data[dirent[f]] :
         HasRow(f, data[dirent[f]][p]) \/ \E q \in Request : WillText(q, f, p)

\* A request at work has a file, and an inode when it reads or writes.
Held ==
  \A q \in Post \cup Reindex :
    /\ stage[q] \in IndexStages => cur[q] \in File
    /\ stage[q] \in {"write", "read", "insert"} => fd[q] \in Inode

\* Where a post is in its cascade.
Frame ==
  \A q \in Post :
    /\ stage[q] \notin {"list", "walk"}
    /\ stage[q] \in IndexStages \cup {"create"} =>
         /\ job[q] \in Upload /\ cur[q] \in File
         /\ nth[q] = 0 => cur[q] = job[q]
         /\ nth[q] # 0 => /\ nth[q] \in DOMAIN Derivations(job[q])
                          /\ cur[q] = Derivations(job[q])[nth[q]].file
    /\ stage[q] = "derive" => job[q] \in Upload
    /\ stage[q] = "name" => ~IsDerived(cur[q])

\* An inode has one name, and a request's open inode no other than its own.
OneName ==
  /\ \A f, g \in File : OnDisk(f) /\ dirent[f] = dirent[g] => f = g
  /\ \A q \in Post \cup Reindex : stage[q] \in {"write", "read", "insert"} =>
       \A f \in File : dirent[f] = fd[q] => f = cur[q]

\* What a reindex has pending lies in the directories it is walking, and once
\* the walk is over nothing is pending.
Pending ==
  \A r \in Reindex :
    /\ stage[r] # "write"
    /\ stage[r] \notin WalkStages => files[r] = {} /\ dirs[r] = {}
    /\ \A f \in files[r] : f.dir \in Ancestors[here[r]]
    /\ \A d \in dirs[r] : d # Root /\ Parent[d] \in Ancestors[here[r]]

IndexInv == Held /\ Frame /\ OneName /\ Pending /\ NameKept /\ TextKept
=============================================================================
