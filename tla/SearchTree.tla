----------------------------- MODULE SearchTree -----------------------------
(***************************************************************************)
(* The browser's tree of files (App.tsx) over the server's listings and    *)
(* searches (get_list.go, get_search.go).  The page keeps one table of     *)
(* nodes for as long as it is open.  A click on a directory asks for its   *)
(* listing, a search for the files that have a word; any number of these   *)
(* are under way at a time, their answers come in any order, and each      *)
(* replaces a part of the table and lights all of it anew: the listing's   *)
(* by the search that the page knew of when the directory was clicked.     *)
(*                                                                         *)
(* A listing is one step here; how it meets the deletes is in Volumes, and *)
(* how the rows of the index come about in ContentStore.                   *)
(***************************************************************************)
EXTENDS Tree, Naturals

CONSTANTS
  Ask,           \* clicks and searches, each answered at most once
  File, Where,   \* the files, and the directory each is in
  Word,          \* what is searched for
  Longer,        \* the files whose paths begin with a file's, and go on
  Hidden,        \* what the user may not read
  None,          \* no click or search
  Changes        \* how often files change on the server

\* What has a node in the tree.
Id == Dir \cup File

In(i) == IF i \in File THEN Where[i] ELSE Parent[i]

Readable == Id \ Hidden

ASSUME SearchAssumption ==
  /\ File \cap Dir = {} /\ None \notin Ask /\ Changes \in Nat
  /\ Where \in [File -> Dir]
  /\ Longer \in [File -> SUBSET File]
  /\ \A f \in File : \A x \in Longer[f] : Where[f] \in Ancestors[Where[x]]
  /\ Hidden \subseteq Id \ {Root}

\* The files whose names begin with that of a directory.
Under(d) == {f \in File : d \in Ancestors[Where[f]]}

\* What is asked for: the listing of a directory, or a word in the files under one.
Question == [load : Dir] \cup [at : Dir, word : Word]

VARIABLES
  files, rows,  \* the server: the files there are, the files and words in its index
  changed,      \* and how often the former changed
  known,        \* the page: the nodes in its table,
  children,     \* the children of each
  lit,          \* and those that match the search
  searchData,   \* the hits of the search the page knows of
  stage,        \* each click or search: where it is
  question,     \* what it asked for
  captured,     \* the searchData of the page it was made in
  answer,       \* and what the server answered
  answers,      \* history: the hits of all searches that arrived
  overtaken,    \* history: the clicks during which a search arrived
  last,         \* history: what arrived last
  listing       \* history: the last listing of each directory that arrived

server  == <<files, rows, changed>>
page    == <<known, children, lit, searchData>>
fetches == <<stage, question, captured, answer>>
history == <<answers, overtaken, last, listing>>
vars    == <<server, page, fetches, history>>

\* The types of the variables: in particular every child of a node has a node, or the
\* page could not be drawn, and nothing unreadable is in the tree (App.tsx:553).
TypeOK ==
  /\ files \subseteq File /\ rows \subseteq File \X Word /\ changed \in 0..Changes
  /\ known \subseteq Readable /\ Root \in known
  /\ children \in [Id -> SUBSET known]
  /\ lit \subseteq known
  /\ searchData \subseteq File \ Hidden
  /\ stage \in [Ask -> {"none", "asked", "answered", "over"}]
  /\ question \in [Ask -> Question \cup {None}]
  /\ \A a \in Ask : stage[a] \in {"asked", "answered"} => question[a] \in Question
  /\ captured \in [Ask -> SUBSET (File \ Hidden)]
  /\ answer \in [Ask -> SUBSET Readable]
  /\ answers \subseteq SUBSET (File \ Hidden)
  /\ overtaken \subseteq Ask /\ last \in Ask \cup {None}
  /\ listing \in [Dir -> SUBSET Readable]

Init ==
  /\ files \in SUBSET File /\ rows \in SUBSET (File \X Word) /\ changed = 0
  /\ known = {Root} /\ lit = {} /\ searchData = {}
  /\ children = [i \in Id |-> {}]
  /\ stage = [a \in Ask |-> "none"]
  /\ question = [a \in Ask |-> None]
  /\ captured = [a \in Ask |-> {}]
  /\ answer = [a \in Ask |-> {}]
  /\ answers = {{}} /\ overtaken = {} /\ last = None
  /\ listing = [d \in Dir |-> {}]

-----------------------------------------------------------------------------
(* The server.                                                             *)

\* dirHandler: what is in the directory and may be read.
Listing(d) == {i \in Readable \ {Root} : In(i) = d /\ i \in files \cup Dir}

\* getSearchHandler: the index answers, and the volume is not asked.
Found(at, word) == {f \in (Under(at) \ Hidden) : <<f, word>> \in rows}

\* An upload stores the file and adds to the rows.
Upload(f, word) ==
  /\ changed < Changes
  /\ changed' = changed + 1
  /\ files' = files \cup {f}
  /\ rows' = rows \cup {<<f, word>>}
  /\ UNCHANGED <<page, fetches, history>>

\* A delete leaves them.
Delete(f) ==
  /\ changed < Changes
  /\ changed' = changed + 1
  /\ f \in files
  /\ files' = files \ {f}
  /\ UNCHANGED <<rows, page, fetches, history>>

Answer(a) ==
  LET q == question[a] IN
  /\ stage[a] = "asked"
  /\ answer' = [answer EXCEPT ![a] =
                  IF q \in [load : Dir] THEN Listing(q.load) ELSE Found(q.at, q.word)]
  /\ stage' = [stage EXCEPT ![a] = "answered"]
  /\ UNCHANGED <<server, page, question, captured, history>>

-----------------------------------------------------------------------------
(* The page.                                                               *)

\* Mutant: a node matches when it is a hit.
MatchesItself(i, query) == i \in query

\* doesMatchQuery: its path begins that of a hit, which a file's does for a file with a
\* longer name beside it, or in a directory beside it with such a name.
Matches(i, query) ==
  \/ i \in query
  \/ i \in Dir /\ Under(i) \cap query # {}
  \/ i \in File /\ Longer[i] \cap query # {}

\* matchTreeState, over a table's nodes.
Match(nodes, query) == {i \in nodes : Matches(i, query)}

\* The directories that the page draws.
Drawn == {d \in Dir : \A e \in Ancestors[d] \ {Root} : e \in children[Parent[e]]}

Make(a, q) ==
  /\ stage[a] = "none"
  /\ stage' = [stage EXCEPT ![a] = "asked"]
  /\ question' = [question EXCEPT ![a] = q]
  /\ captured' = [captured EXCEPT ![a] = searchData]
  /\ UNCHANGED <<server, page, answer, history>>

\* handleIconClick on a directory that is drawn.
Click(a) == \E d \in Drawn : Make(a, [load |-> d])

\* detectKeys: words, after the directory they are looked for in.
Search(a) == \E d \in Dir, word \in Word : Make(a, [at |-> d, word |-> word])

\* The handler returns, and what it held is gone.
Over(a) ==
  /\ stage' = [stage EXCEPT ![a] = "over"]
  /\ question' = [question EXCEPT ![a] = None]
  /\ captured' = [captured EXCEPT ![a] = {}]
  /\ answer' = [answer EXCEPT ![a] = {}]

\* Asking, or reading the answer, failed.
Fail(a) ==
  /\ stage[a] \in {"asked", "answered"}
  /\ Over(a)
  /\ UNCHANGED <<server, page, history>>

\* Mutant: only the nodes that were listed are lit anew.
LoadLightsListed(a) ==
  LET d == question[a].load
      new == {d} \cup answer[a]
  IN
  /\ stage[a] = "answered" /\ question[a] \in [load : Dir]
  /\ known' = known \cup new
  /\ children' = [i \in Id |-> IF i = d THEN answer[a]
                               ELSE IF i \in answer[a] THEN {} ELSE children[i]]
  /\ lit' = (lit \ new) \cup Match(new, captured[a])
  /\ Over(a)
  /\ last' = a
  /\ listing' = [listing EXCEPT ![d] = answer[a]]
  /\ UNCHANGED <<server, searchData, answers, overtaken>>

\* Mutant: the children are added to those there were.
LoadKeepsChildren(a) ==
  LET d == question[a].load IN
  /\ stage[a] = "answered" /\ question[a] \in [load : Dir]
  /\ known' = known \cup {d} \cup answer[a]
  /\ children' = [children EXCEPT ![d] = @ \cup answer[a]]
  /\ lit' = Match(known', captured[a])
  /\ Over(a)
  /\ last' = a
  /\ listing' = [listing EXCEPT ![d] = answer[a]]
  /\ UNCHANGED <<server, searchData, answers, overtaken>>

\* Mutant: the nodes below are dropped, and what lists them is not.
LoadForgets(a) ==
  LET d == question[a].load IN
  /\ stage[a] = "answered" /\ question[a] \in [load : Dir]
  /\ known' = {i \in known : i = Root \/ d \notin Ancestors[In(i)]} \cup {d} \cup answer[a]
  /\ children' = [children EXCEPT ![d] = answer[a]]
  /\ lit' = Match(known', captured[a])
  /\ Over(a)
  /\ last' = a
  /\ listing' = [listing EXCEPT ![d] = answer[a]]
  /\ UNCHANGED <<server, searchData, answers, overtaken>>

\* convertTreeState makes the directory's node and its children's anew, the children
\* with none of their own, whatever else was loaded; then matchTreeState.
ApplyLoad(a) ==
  LET d == question[a].load IN
  /\ stage[a] = "answered" /\ question[a] \in [load : Dir]
  /\ known' = known \cup {d} \cup answer[a]
  /\ children' = [i \in Id |-> IF i = d THEN answer[a]
                               ELSE IF i \in answer[a] THEN {} ELSE children[i]]
  /\ lit' = Match(known', captured[a])
  /\ Over(a)
  /\ last' = a
  /\ listing' = [listing EXCEPT ![d] = answer[a]]
  /\ UNCHANGED <<server, searchData, answers, overtaken>>

\* convertSearchState and matchTreeState.  The answer's own node, "/files", begins the
\* name of nothing that is a hit: it makes no node match.
ApplySearch(a) ==
  /\ stage[a] = "answered" /\ question[a] \notin [load : Dir]
  /\ searchData' = answer[a]
  /\ lit' = Match(known, answer[a])
  /\ Over(a)
  /\ answers' = answers \cup {answer[a]}
  /\ overtaken' = overtaken \cup
       {b \in Ask : stage[b] \in {"asked", "answered"} /\ question[b] \in [load : Dir]}
  /\ last' = a
  /\ UNCHANGED <<server, known, children, listing>>

Next ==
  \/ \E f \in File : Delete(f) \/ \E word \in Word : Upload(f, word)
  \/ \E a \in Ask : \/ Click(a) \/ Search(a) \/ Answer(a) \/ Fail(a)
                    \/ ApplyLoad(a) \/ ApplySearch(a)

Spec == Init /\ [][Next]_vars

-----------------------------------------------------------------------------

\* All the nodes are lit by one search: the one the page knows of, or, when what
\* arrived last is the listing of a directory that was clicked before that search
\* arrived, one that arrived before (App.tsx:421, 462, 484).
LitByOneSearch ==
  \/ lit = Match(known, searchData)
  \/ last \in overtaken /\ \E query \in answers : lit = Match(known, query)

\* Nothing lit is under a directory that is not: with the mismatches hidden, every hit
\* that was loaded can be seen (App.tsx:540, 236).
LitReachable == \A i \in known, c \in known : c \in children[i] /\ c \in lit => i \in lit

\* A directory shows nothing, or what the listing of it that arrived last has, whole:
\* never what is left of an older one (App.tsx:288-299).
OneListing == \A d \in Dir : children[d] \in {{}, listing[d]}
=============================================================================
