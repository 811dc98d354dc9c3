-------------------------- MODULE SearchTreeProofs --------------------------
(***************************************************************************)
(* Proofs about SearchTree, for any tree, files, words and number of       *)
(* clicks and searches.  The invariant is TypeOK with what relates the     *)
(* fetches that are under way to the page they will change: a listing is   *)
(* of the directory that was clicked, and a click that no search overtook  *)
(* captured the search the page knows of.                                  *)
(***************************************************************************)
EXTENDS SearchTree, TLAPS

Asked(a) == stage[a] \in {"asked", "answered"}

Load == [load : Dir]

\* What is listed lies in the directory; hits are files that may be read.
AnswerFits ==
  \A a \in Ask : stage[a] = "answered" =>
    IF question[a] \in Load
    THEN \A c \in answer[a] : c # Root /\ In(c) = question[a].load
    ELSE answer[a] \subseteq File \ Hidden

\* A click knows of a search that arrived, the last one unless it was overtaken.
ClickKnows ==
  /\ searchData \in answers
  /\ \A a \in Ask : Asked(a) =>
       /\ captured[a] \in answers
       /\ question[a] \in Load /\ a \notin overtaken => captured[a] = searchData

\* What was clicked has a node.
ClickOnNode ==
  \A a \in Ask : Asked(a) /\ question[a] \in Load => question[a].load \in known

\* The children of a node lie in it.
ChildrenIn == \A i \in Id : \A c \in children[i] : c # Root /\ In(c) = i

IInv ==
  /\ TypeOK /\ AnswerFits /\ ClickKnows /\ ClickOnNode /\ ChildrenIn
  /\ LitByOneSearch /\ OneListing

-----------------------------------------------------------------------------

\* The invariant holds at the start.
LEMMA InitIInv == Init => IInv
  <1> SUFFICES ASSUME Init PROVE IInv
    OBVIOUS
  <1> USE DEF Init
  <1>1. TypeOK
    BY SearchAssumption, DirAssumption DEF TypeOK, Readable, Id
  <1>2. AnswerFits /\ ClickKnows /\ ClickOnNode /\ ChildrenIn /\ OneListing
    BY DEF AnswerFits, ClickKnows, ClickOnNode, ChildrenIn, OneListing, Asked, Id
  <1>3. LitByOneSearch
    BY DEF LitByOneSearch, Match, Matches
  <1> QED
    BY <1>1, <1>2, <1>3 DEF IInv

\* A listing has what may be read in its directory, and a search files.
LEMMA Answers ==
  /\ \A d \in Dir : Listing(d) \subseteq Readable \ {Root} /\ \A i \in Listing(d) : In(i) = d
  /\ \A d \in Dir, word \in Word : Found(d, word) \subseteq File \ Hidden
  BY DEF Listing, Found, Under

\* Uploads and deletes on the server leave the page alone.
LEMMA ServerStep ==
  ASSUME IInv, NEW f \in File,
         Delete(f) \/ \E word \in Word : Upload(f, word)
  PROVE  IInv'
  <1>1. /\ UNCHANGED <<page, fetches, history>>
        /\ files' \subseteq File /\ rows' \subseteq File \X Word /\ changed' \in 0..Changes
    BY SearchAssumption DEF IInv, TypeOK, Delete, Upload
  <1>2. TypeOK'
    BY <1>1 DEF IInv, TypeOK, page, fetches, history
  <1>3. (AnswerFits /\ ClickKnows /\ ClickOnNode /\ ChildrenIn /\ OneListing)'
    BY <1>1 DEF IInv, AnswerFits, ClickKnows, ClickOnNode, ChildrenIn, OneListing, Asked,
                page, fetches, history
  <1>4. LitByOneSearch'
    BY <1>1 DEF IInv, LitByOneSearch, Match, page, history
  <1> QED
    BY <1>2, <1>3, <1>4 DEF IInv

\* The server's answer is one that the question may have, and leaves the page alone.
LEMMA AnswerStep ==
  ASSUME IInv, NEW a \in Ask, Answer(a)
  PROVE  IInv'
  <1> DEFINE q == question[a]
  <1> USE DEF IInv
  <1>1. q \in Question /\ UNCHANGED <<server, page, question, captured, history>>
    BY DEF Answer, TypeOK
  <1>2. CASE q \in Load
    <2>1. answer' = [answer EXCEPT ![a] = Listing(q.load)] /\ q.load \in Dir
      BY <1>2 DEF Answer, Load
    <2>2. TypeOK'
      BY <1>1, <2>1, Answers DEF Answer, TypeOK, server, page, history
    <2>3. AnswerFits'
      BY <1>1, <1>2, <2>1, Answers DEF Answer, TypeOK, AnswerFits, Load
    <2> QED
      <3>1. (ClickKnows /\ ClickOnNode /\ ChildrenIn /\ OneListing)'
        BY <1>1 DEF Answer, TypeOK, ClickKnows, ClickOnNode, ChildrenIn, OneListing, Asked,
                    page, history
      <3>2. LitByOneSearch'
        BY <1>1 DEF LitByOneSearch, Match, page, history
      <3> QED
        BY <2>2, <2>3, <3>1, <3>2
  <1>3. CASE q \notin Load
    <2>1. /\ answer' = [answer EXCEPT ![a] = Found(q.at, q.word)]
          /\ q.at \in Dir /\ q.word \in Word
      BY <1>1, <1>3 DEF Answer, Load, Question
    <2>2. TypeOK'
      BY <1>1, <2>1, Answers DEF Answer, TypeOK, server, page, history, Readable, Id
    <2>3. AnswerFits'
      BY <1>1, <1>3, <2>1, Answers DEF Answer, TypeOK, AnswerFits, Load
    <2> QED
      <3>1. (ClickKnows /\ ClickOnNode /\ ChildrenIn /\ OneListing)'
        BY <1>1 DEF Answer, TypeOK, ClickKnows, ClickOnNode, ChildrenIn, OneListing, Asked,
                    page, history
      <3>2. LitByOneSearch'
        BY <1>1 DEF LitByOneSearch, Match, page, history
      <3> QED
        BY <2>2, <2>3, <3>1, <3>2
  <1> QED
    BY <1>2, <1>3

\* A click or a search is of what is drawn or looked for, and leaves the page alone.
LEMMA MakeStep ==
  ASSUME IInv, NEW a \in Ask, Click(a) \/ Search(a)
  PROVE  IInv'
  <1> USE DEF IInv
  <1>1. PICK q \in Question : Make(a, q)
    BY DEF Click, Search, Question, Drawn
  <1>2. TypeOK'
    BY <1>1 DEF Make, TypeOK, server, page, history
  <1>3. (AnswerFits /\ ChildrenIn /\ OneListing)'
    BY <1>1 DEF Make, TypeOK, AnswerFits, ChildrenIn, OneListing, page, history
  <1>4. ClickKnows'
    BY <1>1 DEF Make, TypeOK, ClickKnows, Asked, page, history
  <1>6. q \in Load => q.load \in known
    <2>1. CASE Click(a)
      <3>1. PICK d \in Drawn : Make(a, [load |-> d])
        BY <2>1 DEF Click
      <3>2. q = [load |-> d] /\ d \in Dir /\ d \in Ancestors[d]
        BY <1>1, <3>1, DirAssumption DEF Make, TypeOK, Drawn
      <3>3. d = Root \/ d \in children[Parent[d]]
        BY <3>2 DEF Drawn
      <3> QED
        BY <3>2, <3>3, DirAssumption DEF TypeOK, Id
    <2>2. CASE Search(a)
      <3>1. PICK d \in Dir, word \in Word : Make(a, [at |-> d, word |-> word])
        BY <2>2 DEF Search
      <3>2. q = [at |-> d, word |-> word]
        BY <1>1, <3>1 DEF Make, TypeOK
      <3> QED
        BY <3>2 DEF Load
    <2> QED
      BY <2>1, <2>2
  <1>7. ClickOnNode'
    BY <1>1, <1>6 DEF Make, TypeOK, ClickOnNode, Asked, page
  <1>5. LitByOneSearch'
    BY <1>1 DEF Make, LitByOneSearch, Match, page, history
  <1> QED
    BY <1>2, <1>3, <1>4, <1>5, <1>7

\* A fetch that fails leaves the page alone.
LEMMA FailStep ==
  ASSUME IInv, NEW a \in Ask, Fail(a)
  PROVE  IInv'
  <1> USE DEF IInv
  <1>1. TypeOK'
    BY DEF Fail, Over, TypeOK, server, page, history
  <1>2. (AnswerFits /\ ChildrenIn /\ OneListing)'
    BY DEF Fail, Over, TypeOK, AnswerFits, ChildrenIn, OneListing, page, history
  <1>3. ClickKnows' /\ ClickOnNode'
    BY DEF Fail, Over, TypeOK, ClickKnows, ClickOnNode, Asked, page, history
  <1>4. LitByOneSearch'
    BY DEF Fail, LitByOneSearch, Match, page, history
  <1> QED
    BY <1>1, <1>2, <1>3, <1>4

\* A listing makes its directory's node and its children's anew, and lights the whole
\* table by the search the click knew of.
LEMMA LoadStep ==
  ASSUME IInv, NEW a \in Ask, ApplyLoad(a)
  PROVE  IInv'
  <1> DEFINE d == question[a].load
  <1> USE DEF IInv
  <1>1. /\ d \in Dir /\ question[a] \in Load /\ stage[a] = "answered"
        /\ answer[a] \subseteq Readable /\ d \in known
        /\ \A c \in answer[a] : c # Root /\ In(c) = d
    BY DEF ApplyLoad, Load, TypeOK, AnswerFits, ClickOnNode, Asked
  <1>2. /\ known' = known \cup {d} \cup answer[a]
        /\ children' = [i \in Id |-> IF i = d THEN answer[a]
                                     ELSE IF i \in answer[a] THEN {} ELSE children[i]]
        /\ lit' = Match(known', captured[a])
        /\ last' = a /\ listing' = [listing EXCEPT ![d] = answer[a]]
        /\ UNCHANGED <<server, searchData, answers, overtaken>>
        /\ Over(a)
    BY DEF ApplyLoad
  <1>3. TypeOK'
    <2>1. known' \subseteq Readable /\ Root \in known' /\ known \subseteq known'
      BY <1>1, <1>2, SearchAssumption DEF TypeOK, Readable, Id
    <2>2. children' \in [Id -> SUBSET known']
      BY <1>2, <2>1 DEF TypeOK
    <2>3. lit' \subseteq known'
      BY <1>2 DEF Match
    <2>4. listing' \in [Dir -> SUBSET Readable]
      BY <1>1, <1>2 DEF TypeOK
    <2>5. /\ stage' \in [Ask -> {"none", "asked", "answered", "over"}]
          /\ question' \in [Ask -> Question \cup {None}]
          /\ \A b \in Ask : stage'[b] \in {"asked", "answered"} => question'[b] \in Question
          /\ captured' \in [Ask -> SUBSET (File \ Hidden)]
          /\ answer' \in [Ask -> SUBSET Readable]
      BY <1>2 DEF TypeOK, Over
    <2> QED
      BY <1>2, <2>1, <2>2, <2>3, <2>4, <2>5 DEF TypeOK, server
  <1>4. AnswerFits' /\ ClickKnows' /\ ClickOnNode'
    BY <1>2 DEF TypeOK, AnswerFits, ClickKnows, ClickOnNode, Asked, Over
  <1>5. ChildrenIn'
    BY <1>1, <1>2 DEF ChildrenIn
  <1>6. OneListing'
    BY <1>1, <1>2 DEF OneListing, TypeOK, Id
  <1>7. LitByOneSearch'
    <2>1. captured[a] \in answers /\ (a \notin overtaken => captured[a] = searchData)
      BY <1>1 DEF ClickKnows, Asked
    <2> QED
      BY <1>2, <2>1 DEF LitByOneSearch, Match
  <1> QED
    BY <1>3, <1>4, <1>5, <1>6, <1>7

\* A search that arrives overtakes the clicks under way.
LEMMA SearchStep ==
  ASSUME IInv, NEW a \in Ask, ApplySearch(a)
  PROVE  IInv'
  <1> USE DEF IInv
  <1>1. answer[a] \subseteq File \ Hidden
    BY DEF ApplySearch, AnswerFits, Load
  <1>2. TypeOK'
    BY <1>1 DEF ApplySearch, TypeOK, Over, server, Match
  <1>3. (AnswerFits /\ ChildrenIn /\ OneListing)'
    BY DEF ApplySearch, TypeOK, AnswerFits, ChildrenIn, OneListing, Over
  <1>4. ClickKnows' /\ ClickOnNode'
    BY DEF ApplySearch, TypeOK, ClickKnows, ClickOnNode, Asked, Over, Load
  <1>5. LitByOneSearch'
    BY DEF ApplySearch, LitByOneSearch, Match
  <1> QED
    BY <1>2, <1>3, <1>4, <1>5

\* Every step keeps the invariant.
LEMMA StepIInv == IInv /\ [Next]_vars => IInv'
  <1> SUFFICES ASSUME IInv, [Next]_vars PROVE IInv'
    OBVIOUS
  <1>1. CASE \E f \in File : Delete(f) \/ \E word \in Word : Upload(f, word)
    BY <1>1, ServerStep
  <1>2. CASE \E a \in Ask : Click(a) \/ Search(a)
    BY <1>2, MakeStep
  <1>3. CASE \E a \in Ask : Answer(a)
    BY <1>3, AnswerStep
  <1>4. CASE \E a \in Ask : Fail(a)
    BY <1>4, FailStep
  <1>5. CASE \E a \in Ask : ApplyLoad(a)
    BY <1>5, LoadStep
  <1>6. CASE \E a \in Ask : ApplySearch(a)
    BY <1>6, SearchStep
  <1>7. CASE UNCHANGED vars
    <2>1. TypeOK'
      BY <1>7 DEF IInv, TypeOK, vars, server, page, fetches, history
    <2>2. (AnswerFits /\ ClickKnows /\ ClickOnNode /\ ChildrenIn /\ OneListing)'
      BY <1>7 DEF IInv, AnswerFits, ClickKnows, ClickOnNode, ChildrenIn, OneListing, Asked,
                  vars, page, fetches, history
    <2>3. LitByOneSearch'
      BY <1>7 DEF IInv, LitByOneSearch, Match, vars, page, history
    <2> QED
      BY <2>1, <2>2, <2>3 DEF IInv
  <1> QED
    BY <1>1, <1>2, <1>3, <1>4, <1>5, <1>6, <1>7 DEF Next

\* What matches a query below a directory makes the directory match.
LEMMA MatchUp ==
  ASSUME NEW query, NEW i \in Id, NEW c \in Id, c # Root, In(c) = i,
         query \subseteq File, Matches(c, query)
  PROVE  Matches(i, query)
  <1>1. i \in Dir
    BY DirAssumption, SearchAssumption DEF In, Id
  <1>2. PICK f \in query : f \in Under(i)
    <2>1. CASE c \in Dir
      <3>1. c \notin File /\ Parent[c] = i
        BY <2>1, SearchAssumption DEF In
      <3>2. PICK f \in query : f \in File /\ c \in Ancestors[Where[f]]
        BY <2>1, <3>1 DEF Matches, Under
      <3>3. Where[f] \in Dir /\ Ancestors[c] \subseteq Ancestors[Where[f]]
        BY <2>1, <3>2, DirAssumption, SearchAssumption
      <3>4. i \in Ancestors[c]
        BY <1>1, <2>1, <3>1, DirAssumption
      <3> QED
        BY <3>2, <3>3, <3>4 DEF Under
    <2>2. CASE c \in File
      <3>1. Where[c] = i /\ i \in Ancestors[i]
        BY <1>1, <2>2, DirAssumption DEF In
      <3>2. CASE c \in query
        BY <2>2, <3>1, <3>2 DEF Under
      <3>3. CASE Longer[c] \cap query # {}
        BY <2>2, <3>1, <3>3, SearchAssumption DEF Under
      <3> QED
        BY <2>2, <3>2, <3>3, SearchAssumption DEF Matches
    <2> QED
      BY <2>1, <2>2 DEF Id
  <1> QED
    BY <1>1, <1>2 DEF Matches

\* Where everything is lit by one search, what is lit has its directory lit.
LEMMA Reachable == IInv => LitReachable
  <1> SUFFICES ASSUME IInv, NEW i \in known, NEW c \in known, c \in children[i], c \in lit
               PROVE  i \in lit
    BY DEF LitReachable
  <1>1. i \in Id /\ c \in Id /\ c # Root /\ In(c) = i
    BY DEF IInv, TypeOK, ChildrenIn, Readable
  <1>2. PICK query \in SUBSET File : lit = Match(known, query)
    BY DEF IInv, TypeOK, LitByOneSearch
  <1> QED
    BY <1>1, <1>2, MatchUp DEF Match

-----------------------------------------------------------------------------

\* Every child has its node, whatever arrives in whatever order: the tree can be drawn
\* (App.tsx:538-556).
THEOREM TypeCorrect == Spec => []TypeOK
  BY InitIInv, StepIInv, PTL DEF Spec, IInv

\* The nodes are lit by one search, the last to arrive unless a click from before it
\* brought an older one back (App.tsx:281-285, 459-462, 483-484).
THEOREM OneSearchLights == Spec => []LitByOneSearch
  BY InitIInv, StepIInv, PTL DEF Spec, IInv

\* A directory shows one listing of it or nothing (App.tsx:288-299).
THEOREM OneListingShown == Spec => []OneListing
  BY InitIInv, StepIInv, PTL DEF Spec, IInv

\* What is lit has its directory lit (App.tsx:225-242).
THEOREM HitsReachable == Spec => []LitReachable
  BY InitIInv, StepIInv, Reachable, PTL DEF Spec
=============================================================================
