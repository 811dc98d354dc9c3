# microcms: a verification development

microcms is an HTTP server that keeps files: clients upload them (one by one or
as a tar archive), it derives more files from them (text extracted from
documents, thumbnails, image labels), keeps a full-text index of what they say
(SQLite FTS5), and decides who may read and write what by rego policies that are
files in the same tree. This directory holds TLA+ models of that program, TLC
configurations that check them on small instances, and proofs that TLAPS checks
of what holds for every instance.

Line numbers are those of the repository at the commit this directory sits in.

## The system

| component | state | operations | model |
|---|---|---|---|
| **Content store** (`handler/post.go`, `post_labels.go`, `get.go:16-114`, `delete.go`, `fs/volume.go`) | the files on the volume; the rows of table `filesearch` | POST of a file, POST of an archive (`?install=true`), the uploads they cascade into, GET `/reindex/`, DELETE | `ContentStore` |
| **Names** (`handler/types.go`) | none | suffix tests, the `--` convention, what is derived from what | `Names` |
| **Metrics** (`handler/prometheus.go`) | per collector: load, bytes, time, requests, owned by one goroutine | `Task`/`Load`, `End`, `Stop`, `Stats` | `Metrics`, `Meter` |
| **Permissions** (`handler/attrs.go`, `user.go:16-41,74-98`, guards in `post.go:360`, `delete.go:23`) | `permissions.rego` files in the tree | lookup of the first rego up the tree, its evaluation, the guards of uploads and deletes of rego files | `Access` |
| **Listing and search** (`get_list.go`, `get_search.go`) | none | a directory's entries, the index's hits, filtered by the lookup | listings: `Volumes`; searches: `SearchTree`; the lookups: `Access` |
| **File serving** (`get.go:119-301`) | none | routing, listings, walk up for `permissions.rego`, file server | the walk: `Access`; the way to a listing: `Volumes` |
| **Users, configuration, home directories** (`cmd/microcms/main.go`, `data.go`, `toplevel.go:52-86`) | `TheConfig`; the home directory's rego | reload every 5 s, first visit of a user | `Lifecycle` |
| **Templates** (`templates.go`, `post.go:63-80`) | four compiled templates | replaced by an upload | `Lifecycle` |
| **S3 volume** (`fs/s3.go`) | objects in a bucket, uploads in the background | the volume's interface | `Volumes` |
| **Browser interface** (`react/init/ui/src/App.tsx`) | tree nodes and search hits | expand, search, upload | `SearchTree` |
| **Reverse proxy** (`cmd/rproxy/main.go`) | a table read at start-up | first prefix that matches | not modelled: no state, and the forwarding is `net/http` |

How they interact. Every request is a goroutine of `net/http`. `rootRouter`
announces it to a metrics collector by a channel and defers the announcement of
its end. A POST looks the permissions up in the tree, writes the file, inserts
rows, starts the external tools on the file and calls itself with what they
give; DELETE and `/reindex/` work on the same tree and the same table. There is
no lock anywhere: what holds the volume and the index together is the order in
which the handlers make their calls. Permissions are read from the tree that
uploads write. The configuration is replaced behind the requests by a goroutine
of its own. The page in the browser keeps a tree of what it has listed, and asks
for listings and searches without waiting for the ones before.

What is hard: the interleavings of those handlers; a handler that stops half way
(an error, a panic that `net/http` recovers, the process going down) with one
store changed and not the other; results of calls that nobody looks at; channels
that fill up; a store that takes in the background what it has said it took; answers that
overtake each other. `PROJECT.json` lists each such place under `hazards`, with its
line and the properties that watch it.

## Modules

| module | what it is |
|---|---|
| `Tree` | the directories under `/files/` |
| `Names` | file names as sequences of the pieces between `--`; what an upload derives |
| `ContentStore` | the volume, the index, and every request that changes them |
| `MCContentStore` | three small volumes for it |
| `ContentStoreProofs` | `TypeOK`, `IndexInv` and `NoLostIndex` for every instance |
| `IndexRowsProofs` | `RowsMatchDisk` and `DerivedLeadHome` for every instance, and that the index of what is left alone is exact |
| `WalkProofs` | why the walk of a reindex ends |
| `Meter` | what a metrics collector promises, without channels |
| `Metrics` | a collector, its channels and its callers |
| `MCMetrics` | two tasks of different sizes |
| `MetricsProofs` | all invariants of `Metrics`, `NeverGoesBack`, and the safety part of the refinement, for every instance |
| `Access` | the lookup of a policy, and the requests that upload, delete and fetch policies |
| `AccessProofs` | all of its invariants for every instance, and why its walks end |
| `MCAccess` | a directory in the root, a picture in it, two users |
| `Lifecycle` | the process, `config.json`, a template, users' home policies |
| `MCLifecycle` | one user and four texts of the template |
| `LifecycleProofs` | all of its invariants for every instance |
| `Volumes` | uploads, deletes and listings on the disk and on a bucket of S3 |
| `MCVolumes` | two files of which one's name begins the other's, in a directory |
| `VolumesProofs` | all of its invariants for every instance |
| `SearchTree` | the browser's tree over the server's listings and searches |
| `MCSearchTree` | the same two files, and beside their directory one whose name begins the directory's and one that is hidden |
| `SearchTreeProofs` | all of its invariants for every instance |

`ContentStore` is on `Names` and `Tree`; `Access`, `Volumes` and `SearchTree` are
on `Tree`. `ContentStore`, `Access`, `Lifecycle` and `Volumes` each have the upload
of a file as far as they tell its steps apart: `ContentStore` by chunks, with the
inodes; `Access` and `Lifecycle` as the truncation and the write; `Volumes`, which
looks at the volume and not at the text, as making the directory, the truncation, and
the write, or as what the bucket's pipe makes of these. A policy is written by one call
(`io.Copy` of a `bytes.Reader`, `post.go:382`). A template is streamed from the
request's body and may take several: that a reader may meet a part of it between two
of them is left out, and is seen only where the upload fails there (`WriteFails`).

### ContentStore

State. `dirent` is the volume's directory: the inode each file names. `data` is
what an inode holds, a sequence of 16 KiB chunks. Keeping the two apart is what
makes an open file that is deleted, and created anew by somebody else, come out
right: `os.Create` truncates the inode that is there (`volume.go:63`), two
writers share it, and each keeps its own position. `rows` is table `filesearch`:
file, the file that search results lead to, and what was indexed - a chunk, the
name, a hole, or nothing.

Every request has a stage, the file it is on, its descriptor, position and
buffer; a post also has the upload that its cascade began with and the number of
the derivation it is at (this replaces the recursion of `postFileHandler`, which
is two deep); a reindex has the directory it is in and the entries it has listed
and not visited (this replaces the recursion of `reindexWalk`: what is pending
in each open directory is what is pending under it).

An action is one call on the volume or the database together with the code up to
the next one.

| actions | code |
|---|---|
| `PostEntry`, `PostDone`, `BadArchive` | the loop of `postFilesHandler`, `post.go:418-451`; a plain upload is an archive of one entry |
| `CreateFails`, `Create`, `WriteChunk`, `WriteEnd` | permission, guard and `putFileOnDisk`, `post.go:106-126, 342-358` |
| `Derive`, `DeriveNot`, `DeriveFails`, `DeriveEnd` | `extractDoc`, `extractImage`, `post.go:208-340` |
| `IndexName`, `Open`, `ReadChunk`, `ReadFails`, `InsertRow`, `ReadEnd` | `IndexFileName` and `indexPlaintext`, `post.go:167-206`, which POST and reindex share |
| `ReindexFails`, `Wipe` | `GetReIndex`, `get.go:77-107` |
| `ListDir`, `VisitDir`, `VisitFile`, `Leave`, `ListFails` | `reindexWalk`, `get.go:17-63` |
| `Fails` | any of these calls returning an error |
| `DeleteFile`, `DeleteFails` | `deleteHandler` |
| `Crash` | the process ends: handlers and descriptors are gone, the stores stay |

History variables `wiper`, `abandoned` and `touched` are read by no guard. They
say who wiped the index last, which files' indexing a failure has cut short
since, and which files were written, deleted or in some request's hands since.

Properties.

- `NoLostIndex` (invariant, proved): a file on disk can be found by its name and
  its whole text, unless a request is still to index it or a failure cut its
  indexing short since the last wipe. This is what the order of the calls is
  for. It survives a reindex wiping rows under a running post because the post
  reads its file back after it was created, and the walk lists after it wiped.
- `RowsMatchDisk` (proved): rows that do not match the disk are of files that somebody
  wrote, deleted or held since the last wipe.
- `DerivedLeadHome` (proved): a hit on a derived file leads to the file it was derived
  from, whether the post (which hands the original down the cascade) or a
  reindex (which cuts the name at the last `--`) wrote the row. It is stated of
  the files that only a cascade makes. A client that uploads `x--custom.json`
  itself gets rows that lead to `x--custom.json` until the next reindex, and to
  `x` from then on.
- `Answered`: every request that was accepted ends. That the walk of a reindex does
  is proved but for the fairness it needs (`WalkShortens`).

Runs and bounds. Each request is served once; a client that asks again is a
second request.

- `content_race`: two posts, a delete and a reindex of one text file, with
  bodies of one chunk and of two chunks, the second of which ends in the first's.
  Two writers and a third party is what a mixture, a hole or a stale read takes.
  The requests of a kind are symmetric.
- `content_cascade`: a picture with all its derivations (Rekognition on), or a
  client's own labels for it, and a reindex: the longest cascade there is. Only
  `DerivedLeadHome` is checked there.
- `content_walk`: an archive of two entries (`TarMax = 2`: the second may
  overwrite the first, and the first may fail it) into a tree of two directories,
  and a reindex, with fairness. Two directories are what it takes for the
  walk of one to be cut short and the other's to go on.
- Inodes: one per file and one per descriptor that may outlive its file; `Create`
  takes any unused one, and there always is one in these instances.

Fairness (`FairSpec`). Weak fairness of every accepted request's steps: its
goroutine runs and each call returns. Strong fairness of a read that succeeds
or is at the end: a volume that answers every read with an error keeps
`indexPlaintext` in its loop for ever (`post.go:193-197` overwrites the error),
and nothing in the code bounds that. No fairness of a request's beginning, of
deletes or of crashes.

### Metrics

State. The counters belong to the collector's goroutine; `load1`, `end` and
`read` are the channels, as the sets of what waits in them, since the effects of
two messages of a channel commute and senders of a channel are not told apart;
`sending` is the answer the collector is about to hand over and to whom, at most
one; `st`, `stopped` and `asked` say where the callers are. `floor` is history: the
bytes counted when a reader asked. `requests` is there because it is reported:
nothing in the code adds to it, and no action does.

Actions: `Begin` (`Task`, `prometheus.go:103`), `End`, `Stop`, `Ask` (the send of
`Stats`), and one action for each case of the select: `CollectLoad`,
`CollectEnd`, `Offer`. A send waits for room. `Offer` takes a question and copies the
counters; the answer channel has no buffer, so that the collector is held up until the
reader takes the answer (`Receive`), and every other case waits for it (`Free`) while
the channels fill up behind it.

Properties: `LoadBalance`, `Settled`, `ReportInInterval` and `NeverGoesBack`, all
proved; `Answered`; and `Implements`: the collector implements `Meter`, in which a
task that ended is counted once, with its bytes, in the end (proved but for
`Meter`'s fairness). `NeverGoesBack` is what the type "counter" of the metrics page
says of the bytes: whoever is told now is told no less than anybody was told before,
although what one is told is what was counted when the answer was made. `Answered`
and `Implements` are about the collector that waits: its questioners are answered and
its tasks counted although it takes nothing meanwhile, as long as readers take their
answers.

Bounds: two tasks, of sizes 1 and 2, channels of capacity 1 (100 in the code), so that
both channels fill up and a sender waits while the collector is held up; two readers
that ask again and again, of whom one waits in the channel while the other is answered,
and one stop. The theorems are of any number of each and any capacity.

Fairness: the select takes a ready case at random and channels are first in
first out, so no message is passed over for ever: strong fairness of the
collector's cases, each of which is ready again after every answer, and not in
between. A reader that was offered its answer takes it: it waits for nothing else
(weak fairness of `Receive`). A handler that began a task ends it, and gets room in
the channel when there is some again and again, since senders queue (strong
fairness of `End`).

### Access

State. `rego` is what is at each place that may have a policy: a directory (its
`permissions.rego`) or a file (its `--permissions.rego`). It may be `Empty`, a
file just truncated, or `Garbage`, one that two uploads wrote over. `at` is
where a request's walk is: the directory, the file in it that is looked at first,
and whether the path ends in a slash. The slash matters: the code makes a name by
putting directory and file name together (`attrs.go:19-25`), and `delete.go:15`
passes its directory without one. `linked` tells a descriptor of the file in the
tree from one of a file that was removed.

| actions | code |
|---|---|
| `Begin`, `LookMeets`, `LookUp`, `LookEnds` | `getAttrsPermission`, one `IsExist` a step, `attrs.go:16-57` |
| `Read`, `ReadPanics` | `ReadFile` and `CalculateRego`; a policy that does not parse is dereferenced as nil, `attrs.go:27-41` |
| `Create`, `Write`, `WriteFails` | `CanWrite`, `badUploadPermissions`, `putFileOnDisk` |
| `Guard`, `Gone`, `Remove`, `RemoveFails`, `Refuse` | `deleteHandler` |
| `Fetch`, `FetchMeets`, `FetchUp`, `FetchEnds`, `Serve` | `handleFiles`, `get.go:213-301` |
| `Crash` | the process ends |

`calm` is history: nobody else changed a policy since the request began. The
code promises nothing of a lookup whose policies change under it.

Properties. `NearestUsed`: the walk finds what the nearest enclosing policy
grants, stated by `Governor`, a definition of the whole tree that knows nothing
of walks. `PosterCanRepair` and `DeleterCanRepair`: nobody shuts himself out by
an upload or a delete. The second rests on two lookups that both look at the
wrong thing: the first starts one directory too high, at what will decide after
the delete, and the guard looks at the policy that the first passed over.
`FetchFindsGovernor`. `TornByFailure` says when there is a torn policy; whoever looks
one up panics. `Answered`: every request ends, but for those that get past the root,
which it names: a GET of a policy of the root or of a file in it, when neither is
there, and a delete in the root. `DeleterKeepsAccess` and `DeleteAsksNearest` are
violated.

Bounds. Two requests, since what two can do to a third is only to change the
tree under its walk, as one can; two users, who differ in what they may; a
directory, the root and a file are the three kinds of place a walk goes through.
A policy grants everything to everybody, or writing to one user only; in
`access_delete`, also writing without reading. The root may have no policy:
`bin/containerinit:20-21` makes the directory it tests for before it copies the policy,
and does so once.
In `access_run` requests name the policy of the root, of the
directory and of the file (`Outer`), in `access_delete` and `access_nearest` the latter
two: those are to show what happens below the root.

Fairness (`FairSpec`): a request that has begun runs on.

### Lifecycle

State. The process (`up`), `config.json` (`file`), what the loader's goroutine
keeps of it (`config`, that is `TheConfig`; `hash`, the text whose hash is
`lastHash`; `tested`, what it has parsed and is about to load), the files `disk`
(the template `defaultPermissions.rego.templ` and the home policies), what is
compiled of the first, and the requests: first visits of users, and uploads of
the template. `past` is history: what `config.json` said before, since the
process began.

| actions | code |
|---|---|
| `Boot`, `Listen`, `StartFails` | `main`, `TemplatesInit`, `Setup` |
| `Test`, `Load`, `LoadPanics` | `loadUsers`, `LoadConfig`, `CheckErr` |
| `Arrive`, `FindHome`, `Draft`, `DraftFails`, `ExecutePanics` | `GetUser`, `ensureThatHomeDirExists`, `detectNewUser`, `badUploadPermissions` and `CalculateRego` |
| `Create`, `Write`, `WriteFails`, `Compile`, `Assign` | `putFileOnDisk`, `recompileTemplates`, `compileTemplate` |
| `Edit`, `Crash` | the administrator; the end of the process |

Properties. `StartsAgain`: a template that the next start would panic on is left
only by an upload that is under way or was not answered well. `HomeLetsIn`: a home
policy lets its user in whatever became of the template. `HomeTorn`: two first
visits at once tear the policy only when they drew it from different templates.
`KnowsWhatItLoaded`: the loader, which reads the file twice, is deceived only by
a text that comes back. `HotReloads` and `Recompiled` are violated.

Bounds. Three requests: two that write the same file, and a third that changes
what they write from. Two edits, which is what it takes to come back. Four texts:
two good templates, one that makes a policy that keeps its user out, one that does
not parse. One user: homes share nothing. Requests, and the two good templates,
are symmetric, and the run has no liveness property. `Arrive` also has the
request that comes before the configuration is loaded, whose handler panics. What a
template makes may be refused, or make the handler panic (`DraftFails`: a policy
without a field, or with one of another type, `user.go:33-39`); a template that parses
and cannot be executed panics in a goroutine of its own, and the process ends
(`ExecutePanics`, `toplevel.go:29-31`).

Fairness (`FairSpec`, for `HotReloads`): the loader loops, requests run on.

### Volumes

State. `fs.F` is a variable (`fs.go:23-24`, "allow for impl substitutions. ie: env
vars to use S3, disk otherwise"); `kind` says which volume it is. `held` is what is in
each file or object: who posted it, a body from before, `Empty`, or `Torn`. `dirs`
are the directories of the disk; a bucket has none, and a directory of it is what
lies under a prefix. `linked` are the posts whose open file is still the one in the
tree. `pipe` is a bucket's background upload: waiting for more (`"open"`), told that
this was all (`"shut"`), stored or given up. `left` and `shown` are a listing's
entries. `absent` and `met` are history: what was gone at some time since a request
began, and whether somebody else had its file in hand since; no guard reads them.

| actions | code |
|---|---|
| `MakeDirs`, `Create`, `CreateFails`, `Write`, `WriteFails` | `(*Volume).Create`, `volume.go:58-68`, and `putFileOnDisk`, `post.go:342-358` |
| `StartUpload`, `Feed`, `FeedFails`, `FeedRefused`, `Put`, `PutFails` | `(*S3VFS).Create`, `s3.go:295-307`, its goroutine, and `putFileOnDisk` on its pipe |
| `ReadBack`, `ReadBackFails` | `Open` and the read in `indexPlaintext`, `post.go:178-203`, `s3.go:157-167` |
| `Look`, `LookFails`, `RemoveFile`, `RemoveDir`, `RemoveObject`, `Waited`, `RemoveFails` | `deleteHandler`, `delete.go:38-50`, on `volume.go:36-43` and on `s3.go:223-261` |
| `Enter`, `ReadEntries`, `ReadDirGone`, `ListFails`, `ShowEntry`, `SkipEntry`, `EntryGone`, `ListEnd` | `handleFiles`, `get.go:229-239`, and `dirHandler`, `get_list.go:15-77` |
| `Crash` | the process ends: handlers and background uploads are gone, the volume stays |

Properties, all proved. Each says what an answer means, and on which volume.

- `AnsweredIsStored`: on the disk, what an upload stored and indexed is there when
  nobody else had the file in hand. On the bucket it is there, or on its way, or was
  given up without anybody hearing of it, and then what was read back to be indexed
  is what was there before.
- `DeleteLasts`: what was deleted is there again only when somebody uploaded it since
  the delete began or had an upload of it under way. On the bucket that upload may have
  been answered before the delete was asked for.
- `DeletedWasGone`: a delete that was answered well is of what was gone at some time,
  whoever removed it. A bucket's directory is the exception: the delete of its name is
  answered well and removes nothing under it.
- `TornByFailure`: the disk's truncation can be seen, and two uploads may tear a file
  between them; an object is torn only by an upload that failed, as its client's going
  away reaches the bucket as an end like any other (`post.go:349-350`).
- `ListsWhatStays`, `ListFailsForGone`: a listing shows all that its client may read and
  that was there all the time; one entry that goes between `ReadDir` and its `Info`
  (`get_list.go:48`) fails the whole listing, unless its client may not read it. A call
  of the volume that fails does too, on the disk or on the bucket (`ListFails`, which
  ends a listing as `"unseen"`); `ListFailsForGone` is about the listings that ended in
  an error although the volume answered.
- `PipeHasWriter`: a goroutine that waits for more to send has a request that will
  give it more or close the pipe.

Bounds (`volumes_run`). Two uploads, a delete and a listing: an upload, the one it
overlaps, and one of each kind that meets both. Two files in one directory below the
root, one of whose names begins the other's, for the existence test by prefix; the
directory is hidden from the listing of the root, for the entry that is not asked for.
Two deletes of one file meet in `access_run` and in the theorem `DeletesDelete`; here a
second one would make the instance too large.
Posts are symmetric, and there is no liveness property.

### SearchTree

State. The server's `files` and `rows` (a delete leaves its rows, `delete.go:38-51`),
and the page: `known` and `children` are the table of nodes that is kept as long as
the page is open, `lit` the nodes that match the search, `searchData` the hits of the
search the page knows of. Each click and each search is a fetch with what it asks for,
the `searchData` of the page it was made in (a handler of React sees the state of the
page it was drawn with), and the answer. `answers`, `overtaken`, `last` and
`listing` are history.

| actions | code |
|---|---|
| `Click`, `Search` | `handleIconClick`, `loadTreeItem` and `detectKeys` up to the `await`, `App.tsx:441-457, 474-481, 496-506` |
| `Answer` | `dirHandler` and `getSearchHandler` |
| `ApplyLoad` | `convertTreeState` and `matchTreeState` over the whole table, `App.tsx:482-490, 281-299` |
| `ApplySearch` | `convertSearchState`, `setSearchData`, `matchTreeState`, `App.tsx:458-468, 301-312` |
| `Fail` | the `catch` of either |
| `Upload`, `Delete` | files come and go on the server |

Properties, all proved. `TypeOK` has the one that keeps the page alive: every child of
a node has a node (`renderTree` looks at `nodes[id].matchesQuery` of each,
`App.tsx:539, 553`). `LitByOneSearch`: all nodes are lit by one search and never by a
mixture. It is the one the page knows of, unless what arrived last is a listing that
was asked for before that search arrived: such a listing lights the tree by the search
before. `LitReachable`: nothing lit is under a directory that is not, so that the box
"hide mismatches" hides no hit. `OneListing`: a directory shows nothing or one listing.
It may show nothing after it was loaded: a listing of the directory above makes its
node anew (`App.tsx:288-299`), with no children, until it is clicked again.

Which of two searches lights the tree is the one whose answer comes last, not the one
asked last; nothing in the code or its comments says otherwise.

Bounds (`tree_run`). Four clicks and searches: a listing and a search that overtake
each other, one search before, and one click that has loaded what they meet. One word
is enough, as the rows may change between searches and searches of different
directories differ; any set of rows may be there at first, and one change comes on top.
The special cases of `doesMatchQuery` are a file whose name begins another's beside it,
and one whose name begins a directory's beside it: either is lit with a hit it has
nothing to do with. A file is hidden. Fetches are symmetric.

## Findings

- `access_delete`: the guard of a delete ("If this would break our access, then
  don't allow it", `delete.go:23`) evaluates the policy that is about to go. Below
  a directory whose policy lets one write and not read, one may delete one's own
  policy and can no longer read.
- `access_nearest`: a delete is decided by the policy of the directory above the
  file's (`delete.go:15` passes the directory without the slash of `attrs.go:15`),
  against `README.md:172`. In the root the same slip takes the lookup to `//`,
  where it recurses for ever; the model has the position (`Above`), and `Answered`
  excepts such deletes by name.
- `lifecycle_reload`: an edit between the loader's two reads, taken back before
  the next, leaves the server with the text in between, against
  `docker-compose.yaml:13`.
- `lifecycle_compile`: two overlapping uploads of a template may leave the older
  one compiled, or the empty text in between, against `post.go:122`.

Seen on the way, without a run of its own: a GET of the policy of the root, or of a
policy of a file in it, when the root has none, never comes back, as the loop tests for
the root's policy after it has gone up (`get.go:270-276`), though it "should come back
with what it finds" (`get.go:260-262`; `Answered` excepts it by name); the counter
"Total number of requests" (`prometheus.go:140`) is always zero; an edit of
`config.json` between the two reads may end the process (`LoadPanics`), though
`CheckErr` is for "startup panics only" (`utils.go:37`); a home policy that was cut
short is never made again, since the next visit finds a file. The result of a
subdirectory's walk is ignored (`get.go:28`): when it ends in an error the rest of that
directory is not indexed, and the response still ends with "reindexed"
(`get.go:111-113`). The gauge "Current load" (`prometheus.go:152`) is negative when the
select takes a task's end before its announcement, until the announcement is taken. A
command's output is written to a pipe by a goroutine that waits for a reader
(`fs.go:53`): when the derived file fails before it is read, the goroutine waits for
good. No code constructs an S3 volume but its tests (`s3_test.go`), so what `Volumes`
says of the bucket is what the substitution that `fs.go:23` speaks of would bring.

## What is proved

For every set of requests, files, directories, chunks, bodies and inodes, from
`RequestAssumption`, `DirAssumption` (directories form a tree under the root),
`FileAssumption` (what is derived from an upload is a file too) and
`RekognitionAssumption`. TLC evaluates all of them in the runs.

- `TypeCorrect`: `Spec => []TypeOK`.
- `IndexInvariant`: `Spec => []IndexInv`.
- `NothingLost`: `Spec => []NoLostIndex`.

`NoLostIndex` is not inductive: it says nothing of a file while a request is
working on it. `IndexInv` says, of every name (`NameKept`) and of every chunk of
every text (`TextKept`), that it is a row, or that some request will still put it
there (`WillName`, `WillText`), or that its file was abandoned. "Will" is what
each stage still promises: a post that is writing promises everything; one that
is reading at position `off` promises what is after `off` and what is in its
buffer; the reindex that wiped last promises everything in the directories it has
still to list. Four smaller parts support it: a request at work has a file and a
descriptor (`Held`), a post is where its cascade says (`Frame`), an inode has one
name and an open descriptor is of its own file's inode or of one that has no name
any more (`OneName`), and what a walk has pending lies under the directories it is
in (`Pending`).

The argument is a handover. A step of request `q` other than `Create`,
`WriteChunk`, `Wipe` and `Crash` neither takes rows away nor brings files into
being (`Steady`) and leaves the other requests as they are (`Others`). So it is
enough that what `q` promised before the step is, after it, a row, a promise of
`q` or abandoned (`Handover`); `SteadyStep` draws the conclusion once, and one
lemma per group of actions shows the handover. `Wipe` makes its own reindex
promise everything; `Create` and `WriteChunk` change one file, and the post that
takes them promises all of it; `Crash` abandons what was promised.

What is in the index (`IndexRowsProofs`), from the same assumptions:

- `RowsMatch`: `Spec => []RowsMatchDisk`. A row is made of what a request read some
  steps before, so the property is not inductive. `MatchInv` follows a file from the
  listing of its directory (`ListedOK`) to the insert (`HandOK`): as long as nobody
  touches it, the inode that a reindex has open is the file's and the chunk it has in
  hand is in it. That a post's file is touched all along makes up for what a post may
  read of another's writing. `Untouched` says once of every step but the wipe that what
  it changes on the volume it touches; the wipe forgets what was touched, and the rows
  with it, but not what somebody still has in hand.
- `RowsLeadHome`: `Spec => []DerivedLeadHome`. `OriginalOfDerived` is the fact about
  names that it comes down to: what a file was derived from is what is before its last
  `--`, for each of the five derivations. It takes one strengthening, `NamesOriginal`:
  a reindex indexes by its name only what is its own original.
- `IndexIsExact`: a file that is in nobody's hands, and was neither touched nor given
  up since the last wipe, can be found exactly by what is on disk. It puts
  `NoLostIndex` and `RowsMatchDisk` together: after `/reindex/` on a tree that is left
  alone nothing is missing and nothing is left over.

Why the walk ends (`WalkProofs`): `WalkComesOnce` and `WalkShortens`. `Ahead` and
`DirsAhead` are the files and directories a walk has still to come to. No step of any
request adds to them, so no upload keeps a walk going; entering a directory takes it
out of them for good, visiting a file does, and a step that does neither lists a
directory or goes up. `Shortens` puts these in the order that makes a variant of them
when the tree is finite. The invariant it needs is `Apart`: no directory that is still
to be entered is one the walk is in. It is about the walk alone: the loop that reads
a file ends when the file's reads do, as fairness says.

For `Metrics`, from `MetricsAssumption` (finitely many tasks, which are not stops and
have natural numbers for sizes; channels that hold something):

- `TypeCorrect`: `Spec => []TypeOK`. That a channel holds no more than its capacity is
  of the cardinality of a set, so the invariant also says that the sets are finite.
- `LoadIsBalanced`: `Spec => []LoadBalance`; `LoadReturnsToZero`:
  `Spec => [](Quiet => load = 0)`.
- `Settles`: `Spec => []Settled`. `BytesInv` says that the bytes are the sum over the
  tasks counted, at any time. The sum is a fold, which is a recursive function, and
  the induction theorem for folds has an operator as a parameter. So the sum is
  compared with a set: `Grains` are the pairs of a task and one of its bytes, and the
  fold is the number of grains (`BytesAreGrains`), since a smallest set of tasks of
  which it is not would have a smaller one. That adding a task adds its size
  (`BytesAdd`) is then a fact about cardinalities.
- `ReportsInInterval`: `Spec => []ReportInInterval`, and `CountersNeverGoBack`:
  `Spec => NeverGoesBack`. Both rest on the bytes never falling, and on `ReportInv`: what
  was counted when a reader asked, or when it was told last, still is, and the answer
  on its way, of which there is one at a time, still tells what is counted: nothing is
  taken from the channels while the collector is held up.
- `MetersSafely`: `Spec => Metered!Init /\ [][Metered!Next]_(Metered!vars)`. It is step
  by step: `CollectEnd` is the meter's counting, a task's `Begin` and `End` are the
  meter's, all the rest is stuttering. That no task is counted twice rests on
  `Channels`: what is in a channel has been sent and not taken.

For `Lifecycle`, from `LifecycleAssumption` (a configuration is a set of users, a
text that makes a good policy parses, an empty template does, the special values
are no texts):

- `TypeCorrect`: `Spec => []TypeOK`.
- `LoaderKnows`: `Spec => []KnowsWhatItLoaded`. The property speaks of a loader at
  rest; `LoaderInv` also of one that has tested and not yet loaded: what it keeps
  is what the file says, or said before.
- `HomesLetIn`: `Spec => []HomeLetsIn`, with what a visit is about to store
  (`HomeInv`).
- `CanStartAgain`: `Spec => []StartsAgain`. "Not answered well" is not inductive:
  an upload that has read a good text back and is about to assign it would do,
  and it may end well. `StartInv` leaves it out: the text that does not parse is
  that of an upload that has still to read it back, or has failed. It holds
  because whoever writes reads back later.
- `HomesTorn`: `Spec => []HomeTorn`. The property speaks of a torn policy only;
  `TornInv` also says who left a whole one (a visit that was to store just that) and
  an empty one (a visit that is still to write, or failed), so that the write that
  tears it has somebody to differ from.

For `Volumes`, from `VolumeAssumption` (the kinds of request are apart, files lie in
directories, a name and those it begins lie in one directory, the special bodies are
nobody's) and `DirAssumption`: `TypeCorrect`, `PipesAreShut`, `AnsweredAndStored`,
`DeletesLast`, `DeletesDelete`, `TornOnlyByFailure`, `ListingsAreWhole` and
`ListingsFailForCause`, one for each invariant of the run.

Three facts about any step carry these proofs: `Steady` (a file changes only by
somebody who has it in hand, or is deleted; what ended stays as it is), `Recorded`
(what a step adds to the histories) and, per kind of request, who may answer it
(`Only`, `OnlyList`, `Tearing`). `AnsweredIsStored` is not inductive, since it says
nothing of a request before its answer: `Progress` says what an upload that nobody
meddles with has done at each stage. `ListsWhatStays` is strengthened to `ListInv`
(what a listing owes is left or shown). `ListFailsForGone` needs of `ListInv` that
what is left lies in the directory.

For `Access`, from `AccessAssumption` (a directory's policy has a name that may have a
policy of its own; places, policies and the special values are apart) and
`DirAssumption`: `TypeCorrect`, `NearestIsUsed`, `PostersCanRepair`,
`DeletersCanRepair`, `FetchesFindGovernor` and `TornOnlyByFailure`, one for each
invariant of the run. All but the first and the last speak of calm requests, and so
does the invariant (`Calm`): it says of a calm walk that there is no policy in what it
has passed (`Passed`), of one that has met a policy that it is the nearest (`Decides`),
and of what a request decides and does with it that this is still so. `Others` and
`Kept` show once that a step of another request leaves all that alone or ends the calm.
The delete is the hard one. Its first lookup misses the directory's own policy and finds
what governs the directory above (`FirstInv`); by its second lookup it may go on only
with the policy that governs now. If the directory's own policy goes, what the first
lookup found is what then governs; if a file's policy goes, what the second one found
still does (`RemoveCalm`). `TornByFailure` needs of `Calm` that a calm upload's file is
still empty when it writes.

For `SearchTree`, from `SearchAssumption` and `DirAssumption`: `TypeCorrect`,
`OneSearchLights`, `OneListingShown` and `HitsReachable`. The invariant adds what
relates the fetches under way to the page: `ClickKnows` (a click that no search
overtook captured the search the page knows of), `ClickOnNode` (what was clicked has a
node), `AnswerFits` (what is listed lies in the directory) and `ChildrenIn`. With
these `LitReachable` follows from `LitByOneSearch`: all are lit by one search, and a
directory's name begins that of what is in it.

`Answered` of `Access` has a part that is proved too: `WalksClimb` says that each step
up of a lookup, or of a GET's walk for a policy that is not there, goes from a file to
its directory or to a directory above it, however policies come and go under the walk.
Only what is about the root itself gets past the root, and of lookups only a delete's
first one, which starts there without a slash: the one that recurses for ever is the
only one that does. The invariant is `Whereabouts`, and it speaks of disturbed requests
as of calm ones.

Only model-checked: liveness, that is `Answered` of `ContentStore`, `Metrics` and
`Access`, and the fairness of `Meter` in `Implements`. The proofs say that the steps of
a walk bring its end nearer; that the steps are taken is fairness, which is out of this
prover's reach, as is ENABLED. All invariants of the runs, and `NeverGoesBack`, are
proved for every instance.

## What the models leave out

- Content and names are abstract: a chunk is a model value, a name a sequence of
  pieces with an extension. Suffixes are compared as extensions; a piece with no
  dot and a name that only ends in the letters are not told apart.
- Rows are a set: two rows of the same file and text count as one, and the part
  number is left out. Posting a file twice does leave its old rows in the table,
  as the model does.
- An entry of a directory is visited in any order; the code's is alphabetical.
- Directories are there for good, except in `Volumes`, where DELETE removes an empty
  one and an upload makes it.
- The external tools (Tika, `convert`, Rekognition) give some body or fail.
- Permissions and the guard on rego files are a nondeterministic "no"
  (`CreateFails`, `DeleteFails`, `ReindexFails`) in `ContentStore`; `Access` has
  them, and leaves the index out.
- In `Access`: the rights a `--custom.json` may set before the lookup, moderation
  labels, requests of nobody (refused), and a policy evaluated by OPA, which is
  given. A lookup for a plain file `f` is that for `f--permissions.rego`
  (`attrs.go:61-65`). Names that run together with a directory's because of the
  missing slash are taken not to exist.
- In `Lifecycle`: deletes of the template and of home policies, and the three
  page templates, which the code treats as it does the one modelled.
- The home directory's `permissions.rego` is written by `toplevel.go:70` with
  `cascade` false: it is not in the index until the next reindex. Nor are the files that
  `bin/containerinit` copies before the server starts. Neither is among the model's posts.
- In `Volumes`: a read error in `indexPlaintext`, which `ContentStore` has; listings of
  more than a thousand keys (`ReadDir` asks once, `s3.go:184`); `IsDir` of a path
  without a slash at its end, which on a bucket looks at the first object only
  (`s3.go:287`). A bucket is taken to be consistent: an object is seen as soon as it is
  stored and not after it was deleted.
- In `SearchTree`: a listing and a search are one step of the server (`Volumes` has the
  steps of a listing), a reindex that wipes the rows under a search, the boxes that hide
  derived files and mismatches, labels, sizes and moderation.
- The part numbers, times, logging, HTTP status codes and texts of pages.

### Not modelled

- The reverse proxy: a table read at start-up, and the first prefix that matches
  chooses where `net/http` forwards to. It changes no state.
- The utilities: environment variables, JSON, membership. No state.
- `S3ReadSeeker`, `ServeFile`, `Size` and `Date` of `s3.go`: they serve what is stored
  to one reader. How a bucket answers a range that begins at an object's end, which
  decides whether `Seek` to the end works (`s3.go:61-84`), is not in this repository.
- The upload form, `loadMe` and the rest of `App.tsx`: the browser submits the form, and
  the page only draws.

## Plan

Done: `Names`, `Tree`, `ContentStore`, `Metrics`, `Meter`, `Access`, `Lifecycle`,
`Volumes`, `SearchTree`, their runs, and the proofs above.

Next, proofs: the cascade of a post, which is at most two uploads deep, as a measure
like that of the walk; the answers of `SearchTree` and `Volumes` as refinements of
smaller specifications (a tree that one answer at a time changes; a volume on which a
request takes one step).
