-------------------------- MODULE LifecycleProofs --------------------------
(***************************************************************************)
(* Lifecycle for any users, texts, requests and number of edits.           *)
(***************************************************************************)
EXTENDS Lifecycle, TLAPS

USE DEF loader, editing, request, vars

-----------------------------------------------------------------------------
(* Types.                                                                  *)

\* The initial states are of the right types.
LEMMA TypeInit == Init => TypeOK
  BY LifecycleAssumption DEF Init, TypeOK, Place, Active, Ended

\* The end of the process keeps the types: what it forgets is None.
LEMMA TypeDie == TypeOK /\ Die => TypeOK'
  BY DEF TypeOK, Die, Goto, Active, Ended

\* Every step keeps the types.
LEMMA TypeNext == TypeOK /\ [Next]_vars => TypeOK'
<1>. SUFFICES ASSUME TypeOK, [Next]_vars  PROVE TypeOK'
  OBVIOUS
<1>1. CASE Crash \/ StartFails \/ LoadPanics \/ \E q \in Request : ExecutePanics(q)
  BY <1>1, TypeDie DEF Crash, StartFails, LoadPanics, ExecutePanics
<1>2. CASE Boot \/ Listen
  BY <1>2 DEF Boot, Listen, TypeOK
<1>3. CASE Edit
  <2>1. edits' \in 0..MaxEdits
    BY <1>3, LifecycleAssumption DEF Edit, TypeOK
  <2>2. past' \subseteq Config
    BY <1>3 DEF Edit, TypeOK
  <2>3. file' \in Config \cup {Garbage}
    BY <1>3 DEF Edit
  <2>. QED  BY <1>3, <2>1, <2>2, <2>3 DEF Edit, TypeOK
<1>4. CASE Test \/ Load
  BY <1>4 DEF Test, Load, TypeOK
<1>5. ASSUME NEW q \in Request, Arrive(q)  PROVE TypeOK'
  <2>1. PICK s \in {"lost", "create", "find", "ok"} : Goto(q, s)
    BY <1>5 DEF Arrive
  <2>. QED  BY <1>5, <2>1 DEF Arrive, TypeOK, Goto, Active, Ended
<1>6. ASSUME NEW q \in Request, FindHome(q)  PROVE TypeOK'
  <2>1. PICK s \in {"make", "ok"} : Goto(q, s)
    BY <1>6 DEF FindHome
  <2>. QED  BY <1>6, <2>1 DEF FindHome, TypeOK, Goto, Active, Ended
<1>7. ASSUME NEW q \in Request, Draft(q) \/ DraftFails(q)  PROVE TypeOK'
  <2>1. PICK s \in {"create", "error", "lost"} : Goto(q, s)
    BY <1>7 DEF Draft, DraftFails
  <2>2. draft' \in [Request -> Text \cup {None}]
    BY <1>7, LifecycleAssumption DEF Draft, DraftFails, TypeOK
  <2>. QED  BY <1>7, <2>1, <2>2 DEF Draft, DraftFails, TypeOK, Goto, Active, Ended
<1>8. ASSUME NEW q \in Request, Create(q)  PROVE TypeOK'
  BY <1>8 DEF Create, TypeOK, Goto, Active, Ended
<1>9. ASSUME NEW q \in Request, Write(q)  PROVE TypeOK'
  <2>1. PICK s \in {"compile", "ok", "error"} : Goto(q, s)
    BY <1>9 DEF Write, Indexed
  <2>2. disk' \in [Place -> Text \cup {None, Empty, Garbage}]
    BY <1>9 DEF Write, TypeOK
  <2>. QED  BY <1>9, <2>1, <2>2 DEF Write, TypeOK, Goto, Active, Ended
<1>10. ASSUME NEW q \in Request, WriteFails(q)  PROVE TypeOK'
  <2>1. disk' \in [Place -> Text \cup {None, Empty, Garbage}]
    BY <1>10 DEF WriteFails, Filled, TypeOK
  <2>. QED  BY <1>10, <2>1 DEF WriteFails, Filled, TypeOK, Goto, Active, Ended
<1>11. ASSUME NEW q \in Request, Compile(q)  PROVE TypeOK'
  <2>1. PICK s \in {"assign", "lost"} : Goto(q, s)
    BY <1>11 DEF Compile
  <2>. QED  BY <1>11, <2>1 DEF Compile, TypeOK, Goto, Active, Ended
<1>12. ASSUME NEW q \in Request, Assign(q)  PROVE TypeOK'
  <2>1. PICK s \in {"ok", "error"} : Goto(q, s)
    BY <1>12 DEF Assign, Indexed
  <2>. QED  BY <1>12, <2>1 DEF Assign, TypeOK, Goto, Active, Ended
<1>13. CASE UNCHANGED vars
  BY <1>13 DEF TypeOK
<1>. QED
  BY <1>1, <1>2, <1>3, <1>4, <1>5, <1>6, <1>7, <1>8, <1>9, <1>10, <1>11, <1>12, <1>13
  DEF Next, LoadUsers, Step

\* The variables have their types in every reachable state.
THEOREM TypeCorrect == Spec => []TypeOK
  BY TypeInit, TypeNext, PTL DEF Spec

-----------------------------------------------------------------------------
(* The loader.                                                             *)

\* What the loader has tested or loaded is what config.json says or has said since
\* the process began, and where its hash is that of the file, so is what is loaded.
LoaderInv ==
  /\ hash \in past \cup {file, None} /\ tested \in past \cup {file, None}
  /\ hash = file /\ file \notin past => config = file

\* Nothing is loaded in the initial states.
LEMMA LoaderInit == Init => LoaderInv
  BY LifecycleAssumption DEF Init, LoaderInv

\* Every step keeps the loader's invariant; only an edit that brings a text back
\* makes the file equal to the hash without a load, and then the text is in past.
LEMMA LoaderNext == TypeOK /\ LoaderInv /\ [Next]_vars => LoaderInv'
<1>. SUFFICES ASSUME TypeOK, LoaderInv, [Next]_vars  PROVE LoaderInv'
  OBVIOUS
<1>0. None \notin Config /\ Garbage \notin Config /\ None # Garbage
  BY LifecycleAssumption
<1>1. CASE Crash \/ StartFails \/ LoadPanics \/ \E q \in Request : ExecutePanics(q)
  BY <1>0, <1>1 DEF Crash, StartFails, LoadPanics, ExecutePanics, Die, LoaderInv, TypeOK
<1>2. CASE Edit
  BY <1>0, <1>2 DEF Edit, LoaderInv, TypeOK
<1>3. CASE Test
  BY <1>3 DEF Test, LoaderInv
<1>4. CASE Load
  BY <1>4 DEF Load, LoaderInv
<1>5. CASE UNCHANGED <<editing, loader>>
  BY <1>5 DEF LoaderInv
<1>. QED
  BY <1>1, <1>2, <1>3, <1>4, <1>5
  DEF Next, LoadUsers, Step, Boot, Listen, Arrive, FindHome, Draft, DraftFails, Create, Write,
      WriteFails, Filled, Compile, Assign

\* The loader knows what it loaded, however often and whenever config.json is edited,
\* but for a text that came back.
THEOREM LoaderKnows == Spec => []KnowsWhatItLoaded
<1>1. LoaderInv => KnowsWhatItLoaded
  BY DEF LoaderInv, KnowsWhatItLoaded
<1>. QED
  BY <1>1, LoaderInit, LoaderNext, TypeCorrect, PTL DEF Spec

-----------------------------------------------------------------------------
(* Home policies.                                                          *)

\* What is on disk for a user, or is to be, was evaluated and lets the user in.
HomeInv ==
  /\ HomeLetsIn
  /\ \A q \in Request : place[q] \in User => draft[q] \in LetsIn \cup {None}

\* There are no homes in the initial states.
LEMMA HomeInit == Init => HomeInv
  BY LifecycleAssumption DEF Init, HomeInv, HomeLetsIn, Place

\* Every step keeps it: only Draft gives a visit something to store.
LEMMA HomeNext == TypeOK /\ HomeInv /\ [Next]_vars => HomeInv'
<1>. SUFFICES ASSUME TypeOK, HomeInv, [Next]_vars  PROVE HomeInv'
  OBVIOUS
<1>0. Garbage \notin Text /\ Empty \notin Text /\ None \notin Text
  BY LifecycleAssumption
<1>1. ASSUME NEW q \in Request, Draft(q)  PROVE HomeInv'
  BY <1>1 DEF Draft, HomeInv, HomeLetsIn, TypeOK
<1>2. ASSUME NEW q \in Request, Create(q)  PROVE HomeInv'
  BY <1>0, <1>2 DEF Create, HomeInv, HomeLetsIn, TypeOK, Place
<1>3. ASSUME NEW q \in Request, Write(q)  PROVE HomeInv'
  <2>1. PICK new \in {draft[q], Garbage} : disk' = [disk EXCEPT ![place[q]] = new]
    BY <1>3 DEF Write
  <2>2. ASSUME NEW u \in User, disk'[u] \in Text  PROVE disk'[u] \in LetsIn
    <3>1. CASE place[q] = u
      BY <1>0, <2>1, <2>2, <3>1 DEF HomeInv, TypeOK, Place
    <3>2. CASE place[q] # u
      BY <2>1, <2>2, <3>2 DEF HomeInv, HomeLetsIn, TypeOK, Place
    <3>. QED  BY <3>1, <3>2
  <2>. QED  BY <1>3, <2>2 DEF Write, HomeInv, HomeLetsIn
<1>4. ASSUME NEW q \in Request, WriteFails(q)  PROVE HomeInv'
  <2>1. PICK new \in {disk[place[q]], Garbage} : disk' = [disk EXCEPT ![place[q]] = new]
    BY <1>4 DEF WriteFails, Filled
  <2>2. \A u \in User : disk'[u] \in {disk[u], Garbage}
    BY <2>1 DEF TypeOK, Place
  <2>. QED  BY <1>0, <1>4, <2>2 DEF WriteFails, Filled, HomeInv, HomeLetsIn
<1>5. CASE UNCHANGED <<disk, draft, place>>
  BY <1>5 DEF HomeInv, HomeLetsIn
<1>. QED
  BY <1>1, <1>2, <1>3, <1>4, <1>5
  DEF Next, LoadUsers, Step, Crash, StartFails, LoadPanics, ExecutePanics, Die, Edit, Test, Load,
      Boot, Listen, Arrive, FindHome, DraftFails, Compile, Assign

\* A home policy lets its user in, whatever is uploaded as the template meanwhile.
THEOREM HomesLetIn == Spec => []HomeLetsIn
<1>1. HomeInv => HomeLetsIn
  BY DEF HomeInv
<1>. QED
  BY <1>1, HomeInit, HomeNext, TypeCorrect, PTL DEF Spec

-----------------------------------------------------------------------------
(* Starting again.                                                         *)

\* An upload at which a text that does not parse is left: it is still to be read
\* back, or was not answered well.  One that has read another text back and is about
\* to assign it does not count.
Leaves(q) ==
  /\ place[q] = Default /\ opened[q]
  /\ stage[q] \in {"write", "compile", "error", "lost"}

StartInv ==
  /\ \A q \in Request : stage[q] = "write" => opened[q]
  /\ disk[Default] \notin Parsable => \E q \in Request : Leaves(q)

\* The image's template parses.
LEMMA StartInit == Init => StartInv
  BY LifecycleAssumption DEF Init, StartInv, Place

\* Every step keeps it: the last upload to write is the one that reads it back.
LEMMA StartNext == TypeOK /\ StartInv /\ [Next]_vars => StartInv'
<1>. SUFFICES ASSUME TypeOK, StartInv, [Next]_vars  PROVE StartInv'
  OBVIOUS
<1>0. Default \in Place /\ Empty \in Parsable
  BY LifecycleAssumption DEF Place
<1>1. CASE Crash \/ StartFails \/ LoadPanics \/ \E q \in Request : ExecutePanics(q)
  <2>1. Die
    BY <1>1 DEF Crash, StartFails, LoadPanics, ExecutePanics
  <2>2. ASSUME NEW q \in Request, Leaves(q)  PROVE Leaves(q)'
    BY <2>1, <2>2 DEF Die, Leaves, Active, TypeOK
  <2>3. \A q \in Request : stage'[q] # "write"
    BY <2>1 DEF Die, Active, TypeOK
  <2>. QED  BY <2>1, <2>2, <2>3 DEF Die, StartInv
<1>2. ASSUME NEW q \in Request, Arrive(q)  PROVE StartInv'
  <2>1. PICK s \in {"lost", "create", "find", "ok"} : Goto(q, s)
    BY <1>2 DEF Arrive
  <2>2. \A r \in Request : Leaves(r) => Leaves(r)'
    BY <1>2, <2>1 DEF Arrive, Goto, Leaves, TypeOK
  <2>3. \A r \in Request : stage'[r] = "write" => stage[r] = "write"
    BY <2>1 DEF Goto, TypeOK
  <2>. QED  BY <1>2, <2>2, <2>3 DEF Arrive, StartInv
<1>3. ASSUME NEW q \in Request, FindHome(q) \/ Draft(q) \/ DraftFails(q)  PROVE StartInv'
  <2>1. PICK s \in {"make", "ok", "create", "error", "lost"} : Goto(q, s)
    BY <1>3 DEF FindHome, Draft, DraftFails
  <2>2. \A r \in Request : Leaves(r) => Leaves(r)'
    BY <1>3, <2>1 DEF FindHome, Draft, DraftFails, Goto, Leaves, TypeOK
  <2>3. \A r \in Request : stage'[r] = "write" => stage[r] = "write"
    BY <2>1 DEF Goto, TypeOK
  <2>. QED  BY <1>3, <2>2, <2>3 DEF FindHome, Draft, DraftFails, StartInv
<1>4. ASSUME NEW q \in Request, Create(q)  PROVE StartInv'
  <2>1. place[q] = Default => disk'[Default] \in Parsable
    BY <1>0, <1>4 DEF Create, TypeOK
  <2>2. place[q] # Default => disk'[Default] = disk[Default]
    BY <1>0, <1>4 DEF Create, TypeOK
  <2>3. \A r \in Request : Leaves(r) => Leaves(r)'
    BY <1>4 DEF Create, Goto, Leaves, TypeOK
  <2>4. \A r \in Request : stage'[r] = "write" => opened'[r]
    BY <1>4 DEF Create, Goto, StartInv, TypeOK
  <2>. QED  BY <2>1, <2>2, <2>3, <2>4 DEF StartInv
<1>5. ASSUME NEW q \in Request, Write(q)  PROVE StartInv'
  <2>1. PICK s \in {"compile", "ok", "error"} : Goto(q, s) /\ (place[q] = Default => s = "compile")
    BY <1>5 DEF Write, Indexed
  <2>2. opened[q] /\ stage[q] = "write" /\ UNCHANGED <<place, opened>>
    BY <1>5 DEF Write, StartInv
  <2>3. place[q] = Default => Leaves(q)'
    BY <2>1, <2>2 DEF Goto, Leaves, TypeOK
  <2>4. place[q] # Default => disk'[Default] = disk[Default]
    BY <1>0, <1>5 DEF Write, TypeOK
  <2>5. \A r \in Request : r # q /\ Leaves(r) => Leaves(r)'
    BY <2>1, <2>2 DEF Goto, Leaves, TypeOK
  <2>6. \A r \in Request : stage'[r] = "write" => opened'[r]
    BY <2>1, <2>2 DEF Goto, StartInv, TypeOK
  <2>. QED  BY <2>3, <2>4, <2>5, <2>6 DEF StartInv, Leaves
<1>6. ASSUME NEW q \in Request, WriteFails(q)  PROVE StartInv'
  <2>1. Goto(q, "error") /\ opened[q] /\ UNCHANGED <<place, opened>>
    BY <1>6 DEF WriteFails, Filled, StartInv
  <2>2. place[q] = Default => Leaves(q)'
    BY <2>1 DEF Goto, Leaves, TypeOK
  <2>3. place[q] # Default => disk'[Default] = disk[Default]
    BY <1>0, <1>6 DEF WriteFails, Filled, TypeOK
  <2>4. \A r \in Request : r # q /\ Leaves(r) => Leaves(r)'
    BY <2>1 DEF Goto, Leaves, TypeOK
  <2>5. \A r \in Request : stage'[r] = "write" => opened'[r]
    BY <2>1 DEF Goto, StartInv, TypeOK
  <2>. QED  BY <2>2, <2>3, <2>4, <2>5 DEF StartInv, Leaves
<1>7. ASSUME NEW q \in Request, Compile(q)  PROVE StartInv'
  <2>1. PICK s \in {"assign", "lost"} : Goto(q, s) /\ (disk[Default] \notin Parsable => s = "lost")
    BY <1>7 DEF Compile
  <2>2. UNCHANGED <<disk, place, opened>>
    BY <1>7 DEF Compile
  <2>3. disk[Default] \notin Parsable => \A r \in Request : Leaves(r) => Leaves(r)'
    BY <2>1, <2>2 DEF Goto, Leaves, TypeOK
  <2>4. \A r \in Request : stage'[r] = "write" => opened'[r]
    BY <2>1, <2>2 DEF Goto, StartInv, TypeOK
  <2>. QED  BY <2>2, <2>3, <2>4 DEF StartInv
<1>8. ASSUME NEW q \in Request, Assign(q)  PROVE StartInv'
  <2>1. PICK s \in {"ok", "error"} : Goto(q, s)
    BY <1>8 DEF Assign, Indexed
  <2>2. stage[q] = "assign" /\ UNCHANGED <<disk, place, opened>>
    BY <1>8 DEF Assign
  <2>3. \A r \in Request : Leaves(r) => Leaves(r)'
    BY <2>1, <2>2 DEF Goto, Leaves, TypeOK
  <2>4. \A r \in Request : stage'[r] = "write" => opened'[r]
    BY <2>1, <2>2 DEF Goto, StartInv, TypeOK
  <2>. QED  BY <2>2, <2>3, <2>4 DEF StartInv
<1>9. CASE UNCHANGED <<disk, request>>
  BY <1>9 DEF StartInv, Leaves
<1>. QED
  BY <1>1, <1>2, <1>3, <1>4, <1>5, <1>6, <1>7, <1>8, <1>9
  DEF Next, LoadUsers, Step, Edit, Test, Load, Boot, Listen

\* Whatever is uploaded as the template, by however many at once: the server can be
\* started again, but for an upload that is not over or was not answered well.
THEOREM CanStartAgain == Spec => []StartsAgain
<1>1. StartInv => StartsAgain
  BY DEF StartInv, StartsAgain, Leaves
<1>. QED
  BY <1>1, StartInit, StartNext, TypeCorrect, PTL DEF Spec

-----------------------------------------------------------------------------
(* Torn homes.                                                             *)

\* The visits that have created the home of u.
Openers(u) == {q \in Request : place[q] = u /\ opened[q]}

\* A request opens its file before it writes, and has something to write.
OpenOK(q) ==
  /\ opened[q] => stage[q] \in {"write", "compile", "assign"} \cup Ended
  /\ stage[q] = "write" => opened[q]
  /\ place[q] \in User /\ stage[q] \in {"create", "write"} => draft[q] \in Text

\* What is on disk for u is nothing, what a visit stored, or what was left of one: an
\* empty home is still to be written or was left so, and a torn one was left so or
\* written by visits that had different things to store.
LeftAt(u) ==
  /\ disk[u] = None => Openers(u) = {}
  /\ disk[u] \in Text => \E q \in Openers(u) : draft[q] = disk[u]
  /\ disk[u] = Empty => \E q \in Openers(u) : stage[q] \in {"write", "error", "lost"}
  /\ disk[u] = Garbage => \/ \E q \in Openers(u) : stage[q] \in {"error", "lost"}
                          \/ \E q, r \in Openers(u) : draft[q] # draft[r]

TornInv == (\A q \in Request : OpenOK(q)) /\ (\A u \in User : LeftAt(u))

\* Nobody has opened anything in the initial states.
LEMMA TornInit == Init => TornInv
  BY LifecycleAssumption DEF Init, TornInv, OpenOK, LeftAt, Openers, Place

\* What a visit that has opened its file stays.
OpenStay ==
  \A q \in Request :
    /\ place'[q] = place[q]
    /\ opened[q] => opened'[q] /\ draft'[q] = draft[q]
    /\ stage[q] \in {"error", "lost"} => stage'[q] = stage[q]

\* A home that a step leaves alone was left by the same visits.
LEMMA LeftStays ==
  ASSUME NEW u \in User, LeftAt(u), OpenStay, disk'[u] = disk[u],
         \A q \in Request : opened'[q] => opened[q] \/ place[q] # u,
         \A q \in Openers(u) : stage[q] = "write" => stage'[q] \in {"write", "error", "lost"}
  PROVE  LeftAt(u)'
<1>1. Openers(u)' = Openers(u)
  BY DEF Openers, OpenStay
<1>2. \A q \in Openers(u) : draft'[q] = draft[q]
  BY DEF Openers, OpenStay
<1>3. \A q \in Openers(u) :
        stage[q] \in {"write", "error", "lost"} => stage'[q] \in {"write", "error", "lost"}
  BY DEF Openers, OpenStay
<1>4. \A q \in Openers(u) :
        stage[q] \in {"error", "lost"} => stage'[q] \in {"error", "lost"}
  BY DEF Openers, OpenStay
<1>. HIDE DEF Openers
<1>. QED  BY <1>1, <1>2, <1>3, <1>4 DEF LeftAt

\* A write into an empty home, or over the same text, leaves the text; only one over
\* another text, or over what is torn, may tear it.
LEMMA WriteLeaves ==
  ASSUME TypeOK, TornInv, NEW q \in Request, Write(q)
  PROVE  TornInv'
<1>0. Garbage \notin Text /\ Empty \notin Text /\ None \notin Text /\ Empty # Garbage
      /\ None # Empty /\ None # Garbage /\ Default \notin User
  BY LifecycleAssumption
<1>1. PICK s \in {"compile", "ok", "error"} : stage' = [stage EXCEPT ![q] = s]
  BY DEF Write, Indexed, Goto
<1>2. PICK new \in {draft[q], Garbage} :
        /\ disk[place[q]] \in {Empty, draft[q]} => new = draft[q]
        /\ disk' = [disk EXCEPT ![place[q]] = new]
  BY DEF Write
<1>3. UNCHANGED <<place, draft, opened>> /\ stage[q] = "write" /\ opened[q]
  BY DEF Write, TornInv, OpenOK
<1>4. OpenStay
  BY <1>1, <1>3 DEF OpenStay, TypeOK
<1>5. \A p \in Request : OpenOK(p)'
  BY <1>1, <1>3 DEF TornInv, OpenOK, TypeOK, Ended
<1>6. ASSUME NEW u \in User  PROVE LeftAt(u)'
  <2>1. CASE u # place[q]
    <3>1. disk'[u] = disk[u]
      BY <1>2, <2>1 DEF TypeOK, Place
    <3>2. \A p \in Openers(u) : p # q
      BY <2>1 DEF Openers
    <3>3. \A p \in Openers(u) : stage'[p] = stage[p]
      BY <1>1, <3>2 DEF Openers, TypeOK
    <3>. QED  BY <1>3, <1>4, <3>1, <3>3, LeftStays DEF TornInv
  <2>2. CASE u = place[q]
    <3>1. /\ disk'[u] = new /\ draft[q] \in Text /\ q \in Openers(u) /\ LeftAt(u)
          /\ Openers(u)' = Openers(u) /\ draft' = draft
      BY <1>2, <1>3, <2>2 DEF TornInv, OpenOK, Openers, TypeOK, Place
    <3>2. CASE new = draft[q]
      BY <1>0, <3>1, <3>2 DEF LeftAt
    <3>3. CASE new # draft[q]
      <4>1. new = Garbage /\ disk[u] \notin {Empty, draft[q]}
        BY <1>2, <2>2, <3>3
      <4>2. disk[u] \in Text \cup {None, Empty, Garbage}
        BY DEF TypeOK, Place
      <4>3. CASE disk[u] = Garbage
        <5>1. \/ \E p \in Openers(u) : stage[p] \in {"error", "lost"}
              \/ \E p, r \in Openers(u) : draft[p] # draft[r]
          BY <3>1, <4>3 DEF LeftAt
        <5>2. \/ \E p \in Openers(u) : stage'[p] \in {"error", "lost"}
              \/ \E p, r \in Openers(u) : draft[p] # draft[r]
          BY <1>4, <5>1 DEF OpenStay, Openers
        <5>. QED  BY <1>0, <3>1, <4>1, <5>2 DEF LeftAt
      <4>4. CASE disk[u] \in Text
        <5>1. PICK r \in Openers(u) : draft[r] = disk[u]
          BY <3>1, <4>4 DEF LeftAt
        <5>2. draft[r] # draft[q]
          BY <4>1, <5>1
        <5>. QED  BY <1>0, <3>1, <4>1, <5>1, <5>2 DEF LeftAt
      <4>5. disk[u] # None
        BY <3>1 DEF LeftAt
      <4>. QED  BY <4>1, <4>2, <4>3, <4>4, <4>5
    <3>. QED  BY <3>2, <3>3
  <2>. QED  BY <2>1, <2>2
<1>. QED  BY <1>5, <1>6 DEF TornInv

\* Every step keeps it.
LEMMA TornNext == TypeOK /\ TornInv /\ [Next]_vars => TornInv'
<1>. SUFFICES ASSUME TypeOK, TornInv, [Next]_vars  PROVE TornInv'
  OBVIOUS
<1>0. Garbage \notin Text /\ Empty \notin Text /\ None \notin Text /\ Empty # Garbage
      /\ None # Empty /\ None # Garbage /\ Default \notin User
  BY LifecycleAssumption
<1>1. CASE Crash \/ StartFails \/ LoadPanics \/ \E q \in Request : ExecutePanics(q)
  <2>1. Die
    BY <1>1 DEF Crash, StartFails, LoadPanics, ExecutePanics
  <2>2. /\ OpenStay /\ disk' = disk /\ opened' = opened
        /\ \A q \in Request : stage[q] = "write" => stage'[q] = "lost"
    BY <2>1 DEF Die, OpenStay, TypeOK, Active
  <2>3. \A q \in Request : OpenOK(q)'
    BY <2>1 DEF Die, TornInv, OpenOK, TypeOK, Active, Ended
  <2>4. ASSUME NEW u \in User  PROVE LeftAt(u)'
    BY <2>2, LeftStays DEF TornInv, Openers
  <2>. QED  BY <2>3, <2>4 DEF TornInv
<1>2. ASSUME NEW q \in Request,
             Arrive(q) \/ FindHome(q) \/ Draft(q) \/ DraftFails(q) \/ Compile(q) \/ Assign(q)
      PROVE  TornInv'
  <2>1. UNCHANGED <<disk, place, opened>>
    BY <1>2 DEF Arrive, FindHome, Draft, DraftFails, Compile, Assign
  <2>2. /\ stage[q] \in {"new", "find", "make", "compile", "assign"}
        /\ \E s \in {"find", "make", "create", "assign"} \cup Ended :
             stage' = [stage EXCEPT ![q] = s]
    BY <1>2 DEF Arrive, FindHome, Draft, DraftFails, Compile, Assign, Indexed, Goto, Ended
  <2>3. stage[q] = "make" \/ draft' = draft
    BY <1>2 DEF Arrive, FindHome, Draft, DraftFails, Compile, Assign
  <2>4. \A p \in Request \ {q} : draft'[p] = draft[p]
    BY <1>2 DEF Arrive, FindHome, Draft, DraftFails, Compile, Assign, TypeOK
  <2>5. OpenStay
    BY <2>1, <2>2, <2>3, <2>4 DEF OpenStay, TypeOK, TornInv, OpenOK, Ended
  <2>6. OpenOK(q)'
    <3>1. opened'[q] => stage'[q] \in {"write", "compile", "assign"} \cup Ended
      BY <1>2, <2>1 DEF TornInv, OpenOK, TypeOK, Arrive, FindHome, Draft, DraftFails,
         Compile, Assign, Indexed, Goto, Ended
    <3>2. stage'[q] # "write"
      BY <2>2 DEF TypeOK, Ended
    <3>3. place[q] \in User /\ stage'[q] = "create" => draft'[q] \in Text
      BY <1>0, <1>2, LifecycleAssumption
      DEF TypeOK, Arrive, FindHome, Draft, DraftFails, Compile, Assign, Indexed, Goto
    <3>. QED  BY <2>1, <3>1, <3>2, <3>3 DEF OpenOK
  <2>7. \A p \in Request \ {q} : OpenOK(p)'
    BY <2>1, <2>2, <2>4 DEF TornInv, OpenOK, TypeOK
  <2>8. ASSUME NEW u \in User  PROVE LeftAt(u)'
    <3>1. \A p \in Request : stage[p] = "write" => stage'[p] = "write"
      BY <2>2 DEF TypeOK
    <3>. QED  BY <2>1, <2>5, <3>1, LeftStays DEF TornInv, Openers
  <2>. QED  BY <2>6, <2>7, <2>8 DEF TornInv
<1>3. ASSUME NEW q \in Request, Create(q)  PROVE TornInv'
  <2>1. /\ stage[q] = "create" /\ ~opened[q]
        /\ disk' = [disk EXCEPT ![place[q]] = Empty]
        /\ opened' = [opened EXCEPT ![q] = TRUE]
        /\ stage' = [stage EXCEPT ![q] = "write"]
        /\ UNCHANGED <<place, draft>>
    BY <1>3 DEF Create, Goto, TornInv, OpenOK, Ended
  <2>2. OpenStay
    BY <2>1 DEF OpenStay, TypeOK
  <2>3. \A p \in Request : OpenOK(p)'
    BY <2>1 DEF TornInv, OpenOK, TypeOK
  <2>4. ASSUME NEW u \in User  PROVE LeftAt(u)'
    <3>1. CASE u = place[q]
      <4>1. disk'[u] = Empty /\ q \in Openers(u)' /\ stage'[q] = "write"
        BY <2>1, <3>1 DEF TypeOK, Openers, Place
      <4>. QED  BY <1>0, <4>1 DEF LeftAt
    <3>2. CASE u # place[q]
      <4>1. disk'[u] = disk[u]
        BY <2>1, <3>2 DEF TypeOK, Place
      <4>2. \A p \in Request : opened'[p] => opened[p] \/ place[p] # u
        BY <2>1, <3>2 DEF TypeOK
      <4>3. \A p \in Request : stage[p] = "write" => stage'[p] = "write"
        BY <2>1 DEF TypeOK
      <4>. QED  BY <2>2, <4>1, <4>2, <4>3, LeftStays DEF TornInv, Openers
    <3>. QED  BY <3>1, <3>2
  <2>. QED  BY <2>3, <2>4 DEF TornInv
<1>4. ASSUME NEW q \in Request, Write(q)  PROVE TornInv'
  BY <1>4, WriteLeaves
<1>5. ASSUME NEW q \in Request, WriteFails(q)  PROVE TornInv'
  <2>1. PICK new \in {disk[place[q]], Garbage} : disk' = [disk EXCEPT ![place[q]] = new]
    BY <1>5 DEF WriteFails, Filled
  <2>2. /\ stage[q] = "write" /\ opened[q] /\ stage' = [stage EXCEPT ![q] = "error"]
        /\ UNCHANGED <<place, draft, opened>>
    BY <1>5 DEF WriteFails, Filled, Goto, TornInv, OpenOK
  <2>3. OpenStay
    BY <2>2 DEF OpenStay, TypeOK
  <2>4. \A p \in Request : OpenOK(p)'
    BY <2>2 DEF TornInv, OpenOK, TypeOK, Ended
  <2>5. ASSUME NEW u \in User  PROVE LeftAt(u)'
    <3>1. CASE disk'[u] = disk[u]
      <4>1. \A p \in Request : stage[p] = "write" => stage'[p] \in {"write", "error"}
        BY <2>2 DEF TypeOK
      <4>. QED  BY <2>2, <2>3, <3>1, <4>1, LeftStays DEF TornInv, Openers
    <3>2. CASE disk'[u] # disk[u]
      <4>1. u = place[q] /\ disk'[u] = Garbage
        BY <2>1, <3>2 DEF TypeOK, Place
      <4>2. q \in Openers(u)' /\ stage'[q] = "error"
        BY <2>2, <4>1 DEF Openers, TypeOK
      <4>. QED  BY <1>0, <4>1, <4>2 DEF LeftAt
    <3>. QED  BY <3>1, <3>2
  <2>. QED  BY <2>4, <2>5 DEF TornInv
<1>6. CASE UNCHANGED <<disk, request>>
  BY <1>6 DEF TornInv, OpenOK, LeftAt, Openers
<1>. QED
  BY <1>1, <1>2, <1>3, <1>4, <1>5, <1>6
  DEF Next, LoadUsers, Step, Edit, Test, Load, Boot, Listen

\* A home is empty or torn only when a visit was cut short or is still at it, or when
\* two visits had different templates to store: two first visits at once, of a user
\* whose template stays the same, do each other no harm (toplevel.go:59-70).
THEOREM HomesTorn == Spec => []HomeTorn
<1>1. TornInv => HomeTorn
  <2>. SUFFICES ASSUME TornInv, NEW u \in User, disk[u] \in {Empty, Garbage}
                PROVE  \E q \in Request :
                         /\ place[q] = u /\ opened[q]
                         /\ \/ stage[q] # "ok"
                            \/ \E r \in Request : /\ place[r] = u /\ opened[r]
                                                  /\ draft[r] # draft[q]
    BY DEF HomeTorn
  <2>1. LeftAt(u)
    BY DEF TornInv
  <2>. QED  BY <2>1 DEF LeftAt, Openers
<1>. QED
  BY <1>1, TornInit, TornNext, TypeCorrect, PTL DEF Spec
=============================================================================
