-------------------------- MODULE IndexRowsProofs --------------------------
(***************************************************************************)
(* What is in the index of ContentStore: rows that match the disk, and     *)
(* rows that lead home.                                                    *)
(*                                                                         *)
(* RowsMatchDisk is not inductive: a row is made of what a request read    *)
(* some steps before.  So the invariant follows a file from the listing of *)
(* its directory to the insert.  As long as nobody touches the file, the   *)
(* inode a reindex has open is the file's, and the chunk it has in hand is *)
(* in it; a post touches what it works on.  What a step changes on the     *)
(* volume it touches ("Untouched"), but for the wipe, which forgets what   *)
(* was touched together with the rows.                                     *)
(*                                                                         *)
(* With NoLostIndex it follows that the index of what is left alone is     *)
(* exact.  DerivedLeadHome comes down to what the names of derived files   *)
(* are made of.                                                            *)
(***************************************************************************)
EXTENDS ContentStoreProofs

\* What a row may say of a file on disk.
Matches(f, t) ==
  /\ OnDisk(f)
  /\ t \in {Name, Nothing} \/ \E p \in DOMAIN data[dirent[f]] : data[dirent[f]][p] = t

RowOK(row) == row.file \in touched \/ Matches(row.file, row.text)

\* A reindex reads the file its name leads to, and holds a chunk of it.
Faithful(r) ==
  /\ OnDisk(cur[r])
  /\ stage[r] \in {"read", "insert"} => fd[r] = dirent[cur[r]]
  /\ stage[r] = "insert" => Matches(cur[r], buf[r])

HandOK(q) ==
  stage[q] \in IndexStages => cur[q] \in touched \/ (q \in Reindex /\ Faithful(q))

ListedOK(q) == q \in Reindex => \A f \in files[q] : f \in touched \/ OnDisk(f)

MatchInv ==
  /\ \A q \in Post \cup Reindex : HandOK(q) /\ ListedOK(q)
  /\ \A row \in rows : RowOK(row)

\* A step touches every file it changes.
Untouched ==
  /\ touched \subseteq touched'
  /\ \A f \in File : f \notin touched' =>
       /\ dirent'[f] = dirent[f]
       /\ OnDisk(f) => data'[dirent[f]] = data[dirent[f]]

\* What is true of a file that a step does not touch stays true.
LEMMA MatchesStay ==
  ASSUME Untouched, NEW f \in File, NEW t, f \notin touched'
  PROVE  /\ OnDisk(f) => OnDisk(f)'
         /\ Matches(f, t) => Matches(f, t)'
  BY DEF Untouched, Matches, OnDisk

\* So a request that a step leaves alone still has the right file in hand.
LEMMA HandStays ==
  ASSUME TypeInv, Untouched, NEW q \in Post \cup Reindex, Same(q), HandOK(q), ListedOK(q)
  PROVE  HandOK(q)' /\ ListedOK(q)'
<1>1. stage[q] \in IndexStages => cur[q] \in File
  BY DEF TypeInv, Held
<1>2. q \in Reindex => files[q] \subseteq File
  BY DEF TypeInv, TypeOK
<1>3. HandOK(q)'
  <2>. SUFFICES ASSUME stage'[q] \in IndexStages, cur'[q] \notin touched'
                PROVE  q \in Reindex /\ Faithful(q)'
    BY DEF HandOK
  <2>1. /\ stage[q] \in IndexStages /\ cur[q] \in File /\ cur[q] \notin touched'
        /\ cur[q] \notin touched
    BY <1>1 DEF Same, Untouched
  <2>2. q \in Reindex /\ Faithful(q)
    BY <2>1 DEF HandOK
  <2>3. dirent'[cur[q]] = dirent[cur[q]]
    BY <2>1 DEF Untouched
  <2>. QED  BY <2>1, <2>2, <2>3, MatchesStay DEF Faithful, Same
<1>4. ListedOK(q)'
  BY <1>2, MatchesStay DEF ListedOK, Same, Untouched
<1>. QED  BY <1>3, <1>4

\* A step of one request keeps the invariant if it keeps what is said of that request,
\* and what it inserts matches.
LEMMA MatchStep ==
  ASSUME TypeInv, MatchInv, NEW q \in Request, Others(q), Untouched,
         q \in Post \cup Reindex => HandOK(q)' /\ ListedOK(q)',
         \A row \in rows' : row \in rows \/ RowOK(row)'
  PROVE  MatchInv'
<1>1. ASSUME NEW p \in Post \cup Reindex  PROVE HandOK(p)' /\ ListedOK(p)'
  <2>1. CASE p = q
    BY <2>1
  <2>2. CASE p # q
    BY <2>2, HandStays DEF Others, MatchInv, Request
  <2>. QED  BY <2>1, <2>2
<1>2. ASSUME NEW row \in rows'  PROVE RowOK(row)'
  <2>1. CASE row \in rows
    <3>1. row.file \in File /\ RowOK(row)
      BY <2>1 DEF TypeInv, TypeOK, Row, MatchInv
    <3>. QED  BY <3>1, MatchesStay DEF RowOK, Untouched
  <2>. QED  BY <1>2, <2>1
<1>. QED  BY <1>1, <1>2 DEF MatchInv

\* A steady step that touches what it deletes changes nothing that is not touched.
LEMMA SteadyUntouched ==
  ASSUME Steady, touched \subseteq touched',
         \A f \in File : f \notin touched' => dirent'[f] = dirent[f]
  PROVE  Untouched
  BY DEF Steady, Untouched

\* A post that creates or writes a file has touched it, and no other has its inode.
LEMMA WriterTouches ==
  ASSUME TypeInv, OneName, NEW q \in Post, HandOK(q), Create(q) \/ WriteChunk(q)
  PROVE  /\ Others(q) /\ Untouched /\ HandOK(q)' /\ ListedOK(q)' /\ rows' = rows
<1>1. q \in Request /\ q \notin Reindex
  BY RequestAssumption DEF Request
<1>2. CASE Create(q)
  <2>. DEFINE f == cur[q]
              i == InodeFor(f)
  <2>1. /\ f \in File /\ i \in Inode
        /\ dirent' = [dirent EXCEPT ![f] = i] /\ data' = [data EXCEPT ![i] = <<>>]
        /\ touched' = touched \cup {f} /\ rows' = rows
        /\ stage' = [stage EXCEPT ![q] = "write"] /\ cur' = cur
    BY <1>1, <1>2 DEF TypeInv, TypeOK, Create, Frame, InodeFor, Unused, Request, Goto
  <2>2. Others(q)
    BY <1>1, <1>2 DEF TypeInv, TypeOK, Create, Others, Same, walking, Goto
  <2>3. \A g \in File \ {f} : dirent[g] # i
    BY <1>2, <2>1 DEF Create, InodeFor, Unused, OneName, OnDisk
  <2>. HIDE DEF i
  <2>4. Untouched
    BY <2>1, <2>3 DEF TypeInv, TypeOK, Untouched
  <2>. QED  BY <1>1, <2>1, <2>2, <2>4 DEF HandOK, ListedOK
<1>3. CASE WriteChunk(q)
  <2>1. /\ stage[q] = "write" /\ cur[q] \in File /\ fd[q] \in Inode
        /\ data' = [data EXCEPT ![fd[q]] = Written(@, off[q] + 1, body[q][off[q] + 1])]
        /\ UNCHANGED <<dirent, rows, stage, cur, touched>>
    BY <1>1, <1>3 DEF TypeInv, TypeOK, Held, WriteChunk, IndexStages, history
  <2>2. Others(q)
    BY <1>1, <1>3 DEF TypeInv, TypeOK, WriteChunk, Others, Same, walking
  <2>3. cur[q] \in touched
    BY <1>1, <2>1 DEF HandOK, IndexStages
  <2>4. \A g \in File \ {cur[q]} : dirent[g] # fd[q]
    BY <2>1 DEF OneName
  <2>5. \A g \in File : g \notin touched => data'[dirent[g]] = data[dirent[g]]
    BY <2>1, <2>3, <2>4 DEF TypeInv, TypeOK
  <2>6. Untouched
    BY <2>1, <2>5 DEF Untouched
  <2>. QED  BY <1>1, <2>1, <2>2, <2>3, <2>6 DEF HandOK, ListedOK
<1>. QED  BY <1>2, <1>3

\* The other steps of a post have it touch nothing new and hold nothing new.
LEMMA PostMatch ==
  ASSUME TypeInv, MatchInv, OneName, NEW q \in Post, PostStep(q)
  PROVE  MatchInv'
<1>1. q \in Request /\ q \in Post \cup Reindex /\ q \notin Reindex /\ HandOK(q)
  BY RequestAssumption DEF Request, MatchInv
<1>2. CASE Create(q) \/ WriteChunk(q)
  BY <1>1, <1>2, WriterTouches, MatchStep
<1>3. CASE WriteEnd(q)
  <2>1. Steady /\ Others(q)
    BY <1>3, PostWriteEnd
  <2>2. UNCHANGED <<dirent, rows, touched, cur>> /\ stage[q] = "write"
    BY <1>3 DEF WriteEnd, store, history
  <2>3. Untouched
    BY <2>1, <2>2, SteadyUntouched
  <2>4. HandOK(q)' /\ ListedOK(q)'
    BY <1>1, <2>2 DEF HandOK, ListedOK, IndexStages
  <2>. QED  BY <1>1, <2>1, <2>2, <2>3, <2>4, MatchStep
<1>4. CASE \/ PostEntry(q) \/ PostDone(q) \/ BadArchive(q) \/ CreateFails(q)
           \/ Derive(q) \/ DeriveNot(q) \/ DeriveFails(q) \/ DeriveEnd(q)
  <2>1. Steady /\ Others(q)
    BY <1>4, PostQuiet
  <2>2. UNCHANGED <<dirent, rows, touched>>
    BY <1>4 DEF PostEntry, PostDone, BadArchive, CreateFails, Derive, DeriveNot,
       DeriveFails, DeriveEnd, store, history
  <2>3. stage'[q] \notin IndexStages
    BY <1>1, <1>4 DEF TypeInv, TypeOK, PostEntry, PostDone, BadArchive, CreateFails,
       Derive, DeriveNot, DeriveFails, DeriveEnd, Goto, IndexStages
  <2>4. Untouched
    BY <2>1, <2>2, SteadyUntouched
  <2>5. HandOK(q)' /\ ListedOK(q)'
    BY <1>1, <2>3 DEF HandOK, ListedOK
  <2>. QED  BY <1>1, <2>1, <2>2, <2>4, <2>5, MatchStep
<1>. QED  BY <1>2, <1>3, <1>4 DEF PostStep

\* A reindex lists what is on disk and takes in hand what it listed; a wipe leaves no
\* row, and counts as touched whatever anybody has in hand.
LEMMA ReindexMatch ==
  ASSUME TypeInv, MatchInv, NEW r \in Reindex, ReindexStep(r)
  PROVE  MatchInv'
<1>1. r \in Request /\ r \in Post \cup Reindex /\ r \notin Post /\ HandOK(r) /\ ListedOK(r)
  BY RequestAssumption DEF Request, MatchInv
<1>2. CASE Wipe(r)
  <2>1. /\ rows' = {} /\ UNCHANGED <<dirent, data, cur, fd, buf, files>>
        /\ stage' = [stage EXCEPT ![r] = "list"]
        /\ touched' = {f \in File : \/ \E q \in Post \cup Reindex : f \in InHand(q)
                                    \/ \E s \in Reindex : f \in files[s]}
    BY <1>2 DEF Wipe, Goto, reading
  <2>2. ASSUME NEW q \in Post \cup Reindex  PROVE HandOK(q)' /\ ListedOK(q)'
    <3>1. stage'[q] \in IndexStages => cur'[q] \in touched'
      <4>. SUFFICES ASSUME stage'[q] \in IndexStages  PROVE cur[q] \in touched'
        BY <2>1
      <4>1. q \in Request /\ q # r /\ stage[q] \in IndexStages
        BY <2>1 DEF TypeInv, TypeOK, Request, IndexStages
      <4>. QED  BY <2>1, <4>1 DEF InHand, TypeInv, Held
    <3>2. q \in Reindex => files'[q] \subseteq touched'
      BY <2>1 DEF TypeInv, TypeOK
    <3>. QED  BY <3>1, <3>2 DEF HandOK, ListedOK
  <2>. QED  BY <2>1, <2>2 DEF MatchInv
<1>3. CASE \/ ReindexFails(r) \/ ListDir(r) \/ VisitDir(r) \/ VisitFile(r)
           \/ Leave(r) \/ ListFails(r)
  <2>1. Steady /\ Others(r) /\ dirent' = dirent /\ stage[r] \in {"new", "list", "walk"}
    BY <1>3, ReindexFrame
  <2>2. UNCHANGED <<rows, touched, data>>
    BY <1>3 DEF ReindexFails, ListDir, VisitDir, VisitFile, Leave, ListFails, store, history
  <2>3. Untouched
    BY <2>1, <2>2, SteadyUntouched
  <2>4. ListedOK(r)'
    <3>1. \A f \in files'[r] : f \in files[r] \/ OnDisk(f)
      BY <1>1, <1>3 DEF TypeInv, TypeOK, ReindexFails, ListDir, VisitDir, VisitFile,
         Leave, ListFails, CutShort, walking, OnDisk
    <3>. QED  BY <1>1, <2>1, <2>2, <3>1 DEF ListedOK, OnDisk
  <2>5. HandOK(r)'
    <3>1. CASE VisitFile(r)
      <4>1. /\ cur'[r] \in files[r] /\ stage'[r] \in {"name", "open", "walk"}
        BY <1>1, <3>1 DEF TypeInv, TypeOK, VisitFile, Goto
      <4>2. cur'[r] \in touched' \/ dirent'[cur'[r]] # None
        BY <1>1, <2>1, <2>2, <4>1 DEF ListedOK, OnDisk
      <4>. QED  BY <1>1, <4>1, <4>2 DEF HandOK, Faithful, OnDisk, IndexStages
    <3>2. CASE ReindexFails(r) \/ ListDir(r) \/ VisitDir(r) \/ Leave(r) \/ ListFails(r)
      <4>1. stage'[r] \notin IndexStages
        BY <1>1, <2>1, <3>2 DEF TypeInv, TypeOK, ReindexFails, ListDir, VisitDir, Leave,
           ListFails, CutShort, Goto, IndexStages
      <4>. QED  BY <4>1 DEF HandOK
    <3>. QED  BY <1>3, <3>1, <3>2
  <2>. QED  BY <1>1, <2>1, <2>2, <2>3, <2>4, <2>5, MatchStep
<1>. QED  BY <1>2, <1>3 DEF ReindexStep

\* An insert has its file touched, or on disk with the chunk still in it; an open and
\* a read keep to the file.
LEMMA IndexMatch ==
  ASSUME TypeInv, MatchInv, NEW q \in Post \cup Reindex, IndexStep(q)
  PROVE  MatchInv'
<1>1. q \in Request /\ HandOK(q) /\ ListedOK(q)
  BY DEF Request, MatchInv
<1>2. CASE Fails(q)
  <2>1. Steady /\ Others(q)
    BY <1>2, FailsHandover
  <2>2. UNCHANGED <<dirent, rows, touched>>
    BY <1>2 DEF Fails, store
  <2>3. Untouched
    BY <2>1, <2>2, SteadyUntouched
  <2>4. stage'[q] \notin IndexStages
    BY <1>1, <1>2 DEF Fails, TypeInv, TypeOK, CutShort, Goto, IndexStages
  <2>5. q \in Reindex => files'[q] \subseteq files[q]
    BY <1>2, RequestAssumption DEF Fails, TypeInv, TypeOK, CutShort
  <2>6. HandOK(q)' /\ ListedOK(q)'
    BY <1>1, <2>2, <2>4, <2>5 DEF HandOK, ListedOK, OnDisk
  <2>. QED  BY <1>1, <2>1, <2>2, <2>3, <2>6, MatchStep
<1>3. CASE IndexName(q) \/ Open(q) \/ ReadChunk(q) \/ ReadFails(q) \/ InsertRow(q) \/ ReadEnd(q)
  <2>1. Steady /\ Others(q) /\ cur[q] \in File /\ cur'[q] = cur[q] /\ dirent' = dirent
    BY <1>3, IndexFrame
  <2>2. UNCHANGED <<data, touched, files>> /\ stage[q] \in IndexStages
    BY <1>3 DEF IndexName, Open, ReadChunk, ReadFails, InsertRow, ReadEnd, store, history,
       walking, IndexStages
  <2>3. Untouched
    BY <2>1, <2>2, SteadyUntouched
  <2>4. ListedOK(q)'
    BY <1>1, <2>1, <2>2 DEF ListedOK, OnDisk
  <2>5. CASE cur[q] \in touched
    <3>1. HandOK(q)'
      BY <2>1, <2>2, <2>5 DEF HandOK
    <3>2. \A row \in rows' : row \in rows \/ row.file = cur[q]
      BY <1>3 DEF IndexName, Open, ReadChunk, ReadFails, InsertRow, ReadEnd, store
    <3>. QED  BY <1>1, <2>1, <2>2, <2>3, <2>4, <2>5, <3>1, <3>2, MatchStep DEF RowOK
  <2>6. CASE cur[q] \notin touched
    <3>1. q \in Reindex /\ q \notin Post /\ Faithful(q)
      BY <1>1, <2>2, <2>6, RequestAssumption DEF HandOK
    <3>2. \A f, t : Matches(f, t) => Matches(f, t)'
      BY <2>1, <2>2 DEF Matches, OnDisk
    <3>3. HandOK(q)'
      <4>. SUFFICES Faithful(q)' \/ stage'[q] \notin IndexStages
        BY <3>1 DEF HandOK
      <4>0. OnDisk(cur[q])'
        BY <2>1, <3>1 DEF Faithful, OnDisk
      <4>1. CASE IndexName(q)
        <5>1. stage'[q] \in {"open", "walk"}
          BY <1>1, <3>1, <4>1 DEF TypeInv, TypeOK, IndexName, AfterNameOf, Goto
        <5>. QED  BY <2>1, <4>0, <5>1 DEF Faithful, IndexStages
      <4>2. CASE Open(q)
        <5>1. stage'[q] = "read" /\ fd'[q] = dirent[cur[q]]
          BY <1>1, <4>2 DEF TypeInv, TypeOK, Open, Goto
        <5>. QED  BY <2>1, <4>0, <5>1 DEF Faithful
      <4>3. CASE ReadChunk(q)
        <5>1. /\ stage'[q] = "insert" /\ fd'[q] = fd[q] /\ fd[q] = dirent[cur[q]]
              /\ buf'[q] = data[fd[q]][off[q] + 1] /\ off[q] < Len(data[fd[q]])
          BY <1>1, <3>1, <4>3 DEF TypeInv, TypeOK, ReadChunk, Goto, Faithful
        <5>2. off[q] + 1 \in DOMAIN data[fd[q]]
          <6>1. fd[q] \in Inode /\ off[q] \in Nat /\ data[fd[q]] \in Seq(Text)
            BY <1>1, <4>3 DEF TypeInv, TypeOK, Held, ReadChunk
          <6>. QED  BY <5>1, <6>1
        <5>3. Matches(cur[q], buf'[q])
          BY <3>1, <5>1, <5>2 DEF Matches, Faithful
        <5>. QED  BY <2>1, <3>2, <4>0, <5>1, <5>3 DEF Faithful
      <4>4. CASE ReadFails(q)
        <5>1. stage'[q] = "insert" /\ fd'[q] = fd[q] /\ fd[q] = dirent[cur[q]] /\ buf'[q] = Nothing
          BY <1>1, <3>1, <4>4 DEF TypeInv, TypeOK, ReadFails, Goto, Faithful
        <5>. QED  BY <2>1, <4>0, <5>1 DEF Faithful, Matches
      <4>5. CASE InsertRow(q)
        <5>1. stage'[q] = "read" /\ fd'[q] = fd[q] /\ fd[q] = dirent[cur[q]]
          BY <1>1, <3>1, <4>5 DEF TypeInv, TypeOK, InsertRow, Goto, Faithful, reading
        <5>. QED  BY <2>1, <4>0, <5>1 DEF Faithful
      <4>6. CASE ReadEnd(q)
        <5>1. stage'[q] = "walk"
          BY <1>1, <3>1, <4>6 DEF TypeInv, TypeOK, ReadEnd, AfterTextOf, Goto
        <5>. QED  BY <5>1 DEF IndexStages
      <4>. QED  BY <1>3, <4>1, <4>2, <4>3, <4>4, <4>5, <4>6
    <3>4. ASSUME NEW row \in rows', row \notin rows  PROVE RowOK(row)'
      <4>1. row.file = cur[q] /\ Matches(cur[q], row.text)
        BY <1>3, <3>1, <3>4
        DEF IndexName, Open, ReadChunk, ReadFails, InsertRow, ReadEnd, store, Faithful, Matches
      <4>. QED  BY <3>2, <4>1 DEF RowOK
    <3>5. \A row \in rows' : row \in rows \/ RowOK(row)'
      BY <3>4
    <3>. QED  BY <1>1, <2>1, <2>3, <2>4, <3>3, <3>5, MatchStep
  <2>. QED  BY <2>5, <2>6
<1>. QED  BY <1>2, <1>3 DEF IndexStep

\* Nothing is indexed and nothing is held at first.
LEMMA MatchInit == Init => MatchInv
  BY RequestAssumption DEF Init, MatchInv, HandOK, ListedOK, IndexStages, Request

\* Every step keeps the rows to the disk, or touches the file they are of.
LEMMA MatchNext == TypeInv /\ OneName /\ MatchInv /\ [Next]_vars => MatchInv'
<1>. SUFFICES ASSUME TypeInv, OneName, MatchInv, [Next]_vars  PROVE MatchInv'
  OBVIOUS
<1>1. ASSUME NEW q \in Post, PostStep(q)  PROVE MatchInv'
  BY <1>1, PostMatch
<1>2. ASSUME NEW r \in Reindex, ReindexStep(r)  PROVE MatchInv'
  BY <1>2, ReindexMatch
<1>3. ASSUME NEW q \in Post \cup Reindex, IndexStep(q)  PROVE MatchInv'
  BY <1>3, IndexMatch
<1>4. ASSUME NEW q \in Delete, DeleteFile(q) \/ DeleteFails(q)  PROVE MatchInv'
  <2>1. Steady /\ Others(q) /\ q \in Request /\ q \notin Post \cup Reindex
    BY <1>4, DeleteHandover, RequestAssumption DEF Request
  <2>2. /\ rows' = rows /\ touched \subseteq touched'
        /\ \A f \in File : f \notin touched' => dirent'[f] = dirent[f]
    BY <1>4 DEF DeleteFile, DeleteFails, TypeInv, TypeOK, store, history
  <2>3. Untouched
    BY <2>1, <2>2, SteadyUntouched
  <2>. QED  BY <2>1, <2>2, <2>3, MatchStep
<1>5. CASE Crash
  <2>1. /\ UNCHANGED <<dirent, data, rows, touched>>
        /\ \A q \in Request : stage'[q] \notin IndexStages
        /\ \A r \in Reindex : files'[r] = {}
    BY <1>5 DEF Crash, store, Active, IndexStages
  <2>. QED  BY <2>1 DEF MatchInv, HandOK, ListedOK, RowOK, Matches, OnDisk, Request
<1>6. CASE UNCHANGED vars
  BY <1>6 DEF MatchInv, HandOK, ListedOK, RowOK, Matches, Faithful, OnDisk,
     vars, store, reading, walking, history
<1>. QED
  BY <1>1, <1>2, <1>3, <1>4, <1>5, <1>6 DEF Next

\* A row matches the disk, or is of a file somebody posted, deleted or had in hand
\* since the last wipe: what a reindex finds alone it indexes as it is, and no row
\* outlives a wipe (get.go:96-99).
THEOREM RowsMatch == Spec => []RowsMatchDisk
<1>1. MatchInv => RowsMatchDisk
  BY DEF MatchInv, RowOK, Matches, RowsMatchDisk
<1>2. IndexInv => OneName
  BY DEF IndexInv
<1>. QED  BY InvInit, InvNext, MatchInit, MatchNext, <1>1, <1>2, PTL DEF Spec

\* What can be found of a file by its text.
Found(f) == {t \in Text \ {Name, Nothing} : HasRow(f, t)}

LetGo(f) == /\ f \notin touched \cup abandoned
              /\ \A q \in Request : f \notin Owed(q)

\* A hit is on a file that is there, and what is there can be found.
Exact(f) ==
  /\ HasRow(f, Name) \/ Found(f) # {} => OnDisk(f)
  /\ OnDisk(f) => NameIndexed(f)
  /\ OnDisk(f) /\ IsTextFile(f) => Found(f) = Range(data[dirent[f]]) \ {Name, Nothing}

\* Once the requests have let go of a file, and unless somebody touched it or a failure
\* gave it up since the last wipe, its rows are what is on disk, no less and no more: its
\* text, if it is indexed, and nothing of a file that is not there (get.go:77-113).
THEOREM IndexIsExact ==
  Spec => [](\A f \in File : LetGo(f) => Exact(f))
<1>1. ASSUME TypeOK, NoLostIndex, RowsMatchDisk, NEW f \in File, LetGo(f)
      PROVE  Exact(f)
  <2>1. ASSUME NEW t, HasRow(f, t)
        PROVE  /\ OnDisk(f)
               /\ t \in {Name, Nothing} \/ \E p \in DOMAIN data[dirent[f]] : data[dirent[f]][p] = t
    <3>1. PICK row \in rows : row.file = f /\ row.text = t
      BY <2>1 DEF HasRow
    <3>. QED  BY <1>1, <3>1 DEF RowsMatchDisk, LetGo
  <2>2. OnDisk(f) => NameIndexed(f) /\ TextIndexed(f)
    BY <1>1 DEF NoLostIndex, LetGo
  <2>3. OnDisk(f) => \A p \in DOMAIN data[dirent[f]] : data[dirent[f]][p] \in Text
    BY <1>1 DEF TypeOK, OnDisk
  <2>. QED  BY <2>1, <2>2, <2>3 DEF Exact, Found, TextIndexed, Range
<1>2. TypeOK /\ NoLostIndex /\ RowsMatchDisk => \A f \in File : LetGo(f) => Exact(f)
  BY <1>1
<1>. QED
  BY TypeCorrect, NothingLost, RowsMatch, <1>2, PTL

-----------------------------------------------------------------------------
(* The rows lead home.                                                     *)

\* What a derived file was derived from is what is before its last "--".
LEMMA OriginalOfDerived ==
  ASSUME NEW f \in Upload, NEW n \in DOMAIN Derivations(f)
  PROVE  OriginalOf(Derivations(f)[n].file) = f
<1>1. f \in [dir : Dir, name : Seq(Piece) \ {<<>>}]
  BY FileAssumption
<1>2. PICK piece \in {ExtractTxt, ThumbnailPng, LabelsJson, CelebsJson, ModerationJson} :
        Derivations(f)[n].file = DerivedFile(f, piece)
  <2>1. Derivations(f)[n] \in DerivationsOf(f)
    BY DerivationsType
  <2>. QED  BY <2>1 DEF DerivationsOf, Derivation
<1>3. f.name \in Seq(Piece \cup {piece}) /\ Len(f.name) \in Nat \ {0}
  BY <1>1
<1>4. /\ Append(f.name, piece) \in Seq(Piece \cup {piece})
      /\ Len(Append(f.name, piece)) = Len(f.name) + 1
  BY <1>3
<1>5. Front(Append(f.name, piece)) = f.name
  BY <1>3, <1>4 DEF Front
<1>6. IsDerived(Derivations(f)[n].file)
  BY DerivationsLemma
<1>7. Derivations(f)[n].file.name = Append(f.name, piece)
  BY <1>1, <1>2 DEF DerivedFile
<1>8. OriginalOf(Derivations(f)[n].file) = [Derivations(f)[n].file EXCEPT !.name = f.name]
  BY <1>5, <1>6, <1>7 DEF OriginalOf
<1>. QED
  BY <1>1, <1>2, <1>8 DEF DerivedFile

LeadsHome(row) == row.file \notin Upload => row.orig = OriginalOf(row.file)

\* A reindex indexes by its name only what is its own original.
NamesOriginal(q) == q \in Reindex /\ stage[q] = "name" => ~IsDerived(cur[q])

HomeInv ==
  /\ \A row \in rows : LeadsHome(row)
  /\ \A q \in Reindex : NamesOriginal(q)

\* A step of one request keeps the invariant if that request does, and what it
\* inserts leads home.
LEMMA HomeStep ==
  ASSUME HomeInv, NEW q \in Request, Others(q), NamesOriginal(q)',
         \A row \in rows' : row \in rows \/ LeadsHome(row)
  PROVE  HomeInv'
<1>1. ASSUME NEW p \in Reindex  PROVE NamesOriginal(p)'
  <2>1. CASE p = q
    BY <2>1
  <2>2. CASE p # q
    BY <2>2 DEF Others, Same, HomeInv, NamesOriginal, Request
  <2>. QED  BY <2>1, <2>2
<1>2. \A row \in rows' : LeadsHome(row)'
  BY DEF HomeInv, LeadsHome
<1>. QED  BY <1>1, <1>2 DEF HomeInv

\* A post indexes the upload, or what it derived from the upload under the upload;
\* a reindex what is before the last "--".
LEMMA OriginalLeadsHome ==
  ASSUME TypeInv, NEW q \in Post \cup Reindex, stage[q] = "insert"
  PROVE  cur[q] \notin Upload => Original(q) = OriginalOf(cur[q])
<1>1. CASE q \in Post
  <2>1. /\ job[q] \in Upload
        /\ nth[q] = 0 => cur[q] = job[q]
        /\ nth[q] # 0 => /\ nth[q] \in DOMAIN Derivations(job[q])
                         /\ cur[q] = Derivations(job[q])[nth[q]].file
    BY <1>1 DEF TypeInv, Frame, IndexStages
  <2>2. Original(q) = job[q]
    BY <1>1 DEF Original
  <2>. QED  BY <2>1, <2>2, OriginalOfDerived
<1>2. CASE q \notin Post
  BY <1>2 DEF Original
<1>. QED  BY <1>1, <1>2

\* Every step keeps the rows leading home.
LEMMA HomeNext == TypeInv /\ HomeInv /\ [Next]_vars => HomeInv'
<1>. SUFFICES ASSUME TypeInv, HomeInv, [Next]_vars  PROVE HomeInv'
  OBVIOUS
<1>1. ASSUME NEW q \in Post, PostStep(q)  PROVE HomeInv'
  <2>1. q \in Request /\ q \notin Reindex /\ NamesOriginal(q)'
    BY RequestAssumption DEF Request, NamesOriginal
  <2>2. rows' = rows
    BY <1>1 DEF PostStep, PostEntry, PostDone, BadArchive, CreateFails, Create, WriteChunk,
       WriteEnd, Derive, DeriveNot, DeriveFails, DeriveEnd, store
  <2>3. Others(q)
    <3>1. CASE Create(q)
      BY <2>1, <3>1 DEF TypeInv, TypeOK, Create, Others, Same, walking, Goto
    <3>2. CASE WriteChunk(q)
      BY <2>1, <3>2 DEF TypeInv, TypeOK, WriteChunk, Others, Same, walking
    <3>3. CASE ~Create(q) /\ ~WriteChunk(q)
      BY <1>1, <3>3, PostQuiet, PostWriteEnd DEF PostStep
    <3>. QED  BY <3>1, <3>2, <3>3
  <2>. QED  BY <2>1, <2>2, <2>3, HomeStep
<1>2. ASSUME NEW r \in Reindex, ReindexStep(r)  PROVE HomeInv'
  <2>1. r \in Request
    BY DEF Request
  <2>2. CASE Wipe(r)
    BY <2>1, <2>2 DEF TypeInv, TypeOK, Wipe, Goto, reading, HomeInv, NamesOriginal, Request
  <2>3. CASE \/ ReindexFails(r) \/ ListDir(r) \/ VisitDir(r) \/ VisitFile(r)
             \/ Leave(r) \/ ListFails(r)
    <3>1. Others(r) /\ stage[r] \in {"new", "list", "walk"}
      BY <2>3, ReindexFrame
    <3>2. rows' = rows
      BY <2>3 DEF ReindexFails, ListDir, VisitDir, VisitFile, Leave, ListFails, store
    <3>3. NamesOriginal(r)'
      BY <2>1, <2>3, <3>1 DEF TypeInv, TypeOK, NamesOriginal, ReindexFails, ListDir,
         VisitDir, VisitFile, Leave, ListFails, CutShort, Goto
    <3>. QED  BY <2>1, <3>1, <3>2, <3>3, HomeStep
  <2>. QED  BY <1>2, <2>2, <2>3 DEF ReindexStep
<1>3. ASSUME NEW q \in Post \cup Reindex, IndexStep(q)  PROVE HomeInv'
  <2>1. q \in Request
    BY DEF Request
  <2>2. Others(q)
    BY <1>3, FailsHandover, IndexFrame DEF IndexStep
  <2>3. NamesOriginal(q)'
    <3>. SUFFICES ASSUME q \in Reindex  PROVE stage'[q] # "name"
      BY DEF NamesOriginal
    <3>1. q \notin Post
      BY RequestAssumption
    <3>. QED  BY <1>3, <2>1, <3>1 DEF TypeInv, TypeOK, IndexStep, IndexName, Open, ReadChunk,
               ReadFails, InsertRow, ReadEnd, Fails, CutShort, AfterNameOf, AfterTextOf, Goto
  <2>4. \A row \in rows' : row \in rows \/ LeadsHome(row)
    <3>1. CASE IndexName(q)
      <4>1. ~IsDerived(cur[q])
        BY <3>1 DEF IndexName, TypeInv, Frame, HomeInv, NamesOriginal
      <4>2. OriginalOf(cur[q]) = cur[q]
        BY <4>1 DEF OriginalOf
      <4>. QED  BY <3>1, <4>2 DEF IndexName, LeadsHome
    <3>2. CASE InsertRow(q)
      BY <3>2, OriginalLeadsHome DEF InsertRow, LeadsHome
    <3>3. CASE Open(q) \/ ReadChunk(q) \/ ReadFails(q) \/ ReadEnd(q) \/ Fails(q)
      BY <3>3 DEF Open, ReadChunk, ReadFails, ReadEnd, Fails, store
    <3>. QED  BY <1>3, <3>1, <3>2, <3>3 DEF IndexStep
  <2>. QED  BY <2>1, <2>2, <2>3, <2>4, HomeStep
<1>4. ASSUME NEW q \in Delete, DeleteFile(q) \/ DeleteFails(q)  PROVE HomeInv'
  <2>1. Others(q) /\ q \in Request /\ NamesOriginal(q)' /\ rows' = rows
    BY <1>4, DeleteHandover, RequestAssumption
    DEF Request, NamesOriginal, DeleteFile, DeleteFails, store
  <2>. QED  BY <2>1, HomeStep
<1>5. CASE Crash
  BY <1>5 DEF Crash, store, Active, IndexStages, HomeInv, LeadsHome, NamesOriginal, Request
<1>6. CASE UNCHANGED vars
  BY <1>6 DEF HomeInv, LeadsHome, NamesOriginal, vars, store, reading
<1>. QED
  BY <1>1, <1>2, <1>3, <1>4, <1>5, <1>6 DEF Next

\* A row of a file that only a cascade makes leads to the file it was made from, whether
\* a post or a reindex wrote it (post.go:178-197, get.go:40-48).
THEOREM RowsLeadHome == Spec => []DerivedLeadHome
<1>1. HomeInv => DerivedLeadHome
  BY DEF HomeInv, LeadsHome, DerivedLeadHome
<1>2. Init => HomeInv
  BY DEF Init, HomeInv, NamesOriginal, Request
<1>. QED  BY InvInit, InvNext, HomeNext, <1>1, <1>2, PTL DEF Spec
=============================================================================
