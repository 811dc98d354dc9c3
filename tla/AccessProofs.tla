---------------------------- MODULE AccessProofs ----------------------------
(***************************************************************************)
(* Proofs about Access, for any tree, users, policies and requests.        *)
(*                                                                         *)
(* A request is calm until somebody else changes a policy.  The invariant  *)
(* says of a calm request what its walk has passed (nothing), and of what  *)
(* it has decided that the nearest policy grants it; what others do either *)
(* leaves all that alone or ends the calm.                                 *)
(***************************************************************************)
EXTENDS Access, TLAPS

DirOf(q) == In(target[q])
Sub(q)   == Subject(target[q])

Asked(q) == stage[q] \in {"look", "read"}

\* What a request is by where it is.
Frame ==
  \A q \in Request :
    /\ stage[q] = "new" => ~guarded[q]
    /\ linked[q] => op[q] = "post" /\ stage[q] \in {"write", "ok", "error", "lost"}
    /\ stage[q] = "write" =>
         op[q] = "post" /\ draft[q] \in Policy /\ draft[q][user[q]] = Right
    /\ guarded[q] => op[q] = "delete"
    /\ stage[q] = "remove" => guarded[q]
    /\ stage[q] = "ok" /\ op[q] = "delete" => guarded[q]
    /\ stage[q] \in {"fetch", "serve"} => op[q] = "get"
    /\ stage[q] = "read" => Named(at[q]) \in Place

\* From directory d up to a there is no policy; none below a, that is.
Passed(a, d) ==
  a \in Ancestors[d] /\ \A e \in Ancestors[d] : e \notin Ancestors[a] => rego[e] = None

\* The policy of a is the nearest one to d.
Decides(a, d) == Passed(a, d) /\ rego[a] # None

\* A lookup that began at the directory d, and one that began at a file f in it.
DirWalk(q, d) ==
  /\ at[q].slash /\ at[q].file = None /\ Passed(at[q].dir, d)
  /\ stage[q] = "read" => rego[at[q].dir] # None

FileWalk(q, d, f) ==
  /\ at[q].slash
  /\ IF at[q].file = None THEN rego[f] = None /\ Passed(at[q].dir, d)
     ELSE at[q].file = f /\ at[q].dir = d
  /\ stage[q] = "read" => rego[Named(at[q])] # None

\* A GET's or a POST's lookup.
PlainInv(q) ==
  op[q] # "delete" =>
    /\ Asked(q) => FileWalk(q, DirOf(q), Sub(q))
    /\ stage[q] = "decided" => can[q] = Grants(Governor(Sub(q)), user[q])

\* A delete's first lookup: it comes by the directory's own policy, and from the root
\* it goes up for ever.
FirstInv(q) ==
  op[q] = "delete" /\ ~guarded[q] =>
    /\ Asked(q) =>
         \/ ~at[q].slash /\ at[q].dir = DirOf(q) /\ stage[q] = "look"
         \/ at[q].slash /\ at[q].file = None /\ at[q].dir = Above /\ stage[q] = "look"
         \/ DirOf(q) # Root /\ DirWalk(q, Parent[DirOf(q)])
    /\ stage[q] = "decided" =>
         \/ can[q] = {}
         \/ /\ DirOf(q) # Root
            /\ \E a \in Dir : Decides(a, Parent[DirOf(q)]) /\ can[q] = Grants(a, user[q])

\* Its second one, and what it does by both.
GuardInv(q) ==
  guarded[q] =>
    /\ stage[q] \in {"look", "read", "decided", "remove"} =>
         /\ DirOf(q) # Root
         /\ \E a \in Dir : Decides(a, Parent[DirOf(q)]) /\ "write" \in Grants(a, user[q])
    /\ Asked(q) => DirWalk(q, DirOf(q))
    /\ stage[q] \in {"decided", "remove"} => NearestOf(DirOf(q)) \in Dir \cup {None}
    /\ stage[q] = "decided" => can[q] = Grants(NearestOf(DirOf(q)), user[q])
    /\ stage[q] = "remove" => Grants(NearestOf(DirOf(q)), user[q]) = Right
    /\ stage[q] = "ok" => "write" \in Grants(NearestOf(DirOf(q)), user[q])

\* A POST: the policy that its own may come after still lets it write.
PostInv(q) ==
  op[q] = "post" =>
    /\ stage[q] = "write" =>
         /\ linked[q] /\ rego[target[q]] = Empty
         /\ Sub(q) # target[q] /\ rego[Sub(q)] # None => "write" \in Grants(Sub(q), user[q])
    /\ stage[q] = "ok" => "write" \in Grants(Governor(Sub(q)), user[q])

\* The policy that is to be served.
Wanted(q) == IF target[q] \in Dir THEN NearestOf(target[q]) ELSE Governor(target[q])

FetchInv(q) ==
  /\ stage[q] = "fetch" =>
       /\ at[q].slash
       /\ IF at[q].file = None
          THEN \/ at[q].dir = Above
               \/ /\ Passed(at[q].dir, DirOf(q))
                  /\ target[q] \in Dir \/ rego[target[q]] = None
          ELSE at[q].file = target[q] /\ at[q].dir = DirOf(q) /\ target[q] \notin Dir
  /\ stage[q] = "serve" \/ (stage[q] = "ok" /\ op[q] = "get") => found[q] = Wanted(q)

Calm(q) ==
  calm[q] => PlainInv(q) /\ FirstInv(q) /\ GuardInv(q) /\ PostInv(q) /\ FetchInv(q)

IInv == TypeOK /\ Frame /\ TornByFailure /\ \A q \in Request : Calm(q)

-----------------------------------------------------------------------------
(* The tree.                                                               *)

\* What a request's policy is about.
LEMMA Places ==
  ASSUME TypeOK, NEW q \in Request
  PROVE  /\ target[q] \in Place /\ DirOf(q) \in Dir
         /\ Sub(q) \in File /\ Sub(q).dir = DirOf(q) /\ Sub(q) \notin Dir
         /\ target[q] \in Dir => DirOf(q) = target[q] /\ Sub(q) # target[q]
         /\ target[q] \notin Dir => Sub(q) = target[q]
  BY AccessAssumption DEF TypeOK, Place, DirOf, Sub, In, Subject, RegoFile

\* A walk that has met no policy may go on.
LEMMA PassedUp ==
  ASSUME NEW d \in Dir, NEW a, Passed(a, d), rego[a] = None, a # Root
  PROVE  Passed(Parent[a], d)
  BY DirAssumption DEF Passed

\* One that meets a policy has found the nearest one.
LEMMA PassedMet ==
  ASSUME NEW d \in Dir, NEW a, Decides(a, d)
  PROVE  NearestOf(d) = a
  BY DirAssumption DEF Decides, Passed, NearestOf, Enclosing

\* One that ends at the root has found that there is none.
LEMMA PassedAll ==
  ASSUME NEW d \in Dir, Passed(Root, d), rego[Root] = None
  PROVE  NearestOf(d) = None
  BY DirAssumption DEF Passed, NearestOf, Enclosing

\* What governs follows from the policies alone.
LEMMA SameTree ==
  ASSUME rego' = rego
  PROVE  /\ \A d : NearestOf(d)' = NearestOf(d)
         /\ \A f : Governor(f)' = Governor(f)
         /\ \A p, u : Grants(p, u)' = Grants(p, u)
         /\ \A a, d : Passed(a, d)' = Passed(a, d) /\ Decides(a, d)' = Decides(a, d)
  <1>1. ASSUME NEW d PROVE NearestOf(d)' = NearestOf(d)
    BY DEF NearestOf, Enclosing
  <1>2. \A f : Governor(f)' = Governor(f)
    BY <1>1 DEF Governor
  <1>3. \A p, u : Grants(p, u)' = Grants(p, u)
    BY DEF Grants
  <1>4. \A a, d : Passed(a, d)' = Passed(a, d) /\ Decides(a, d)' = Decides(a, d)
    BY DEF Passed, Decides
  <1> QED
    BY <1>1, <1>2, <1>3, <1>4

-----------------------------------------------------------------------------
(* Types.                                                                  *)

\* The invariant holds at the start.
LEMMA InitIInv == Init => IInv
  <1> SUFFICES ASSUME Init PROVE IInv
    OBVIOUS
  <1>1. TypeOK
    BY AccessAssumption, DirAssumption DEF Init, TypeOK, Position, Place
  <1>2. Frame /\ (\A q \in Request : Calm(q))
    BY DEF Init, Frame, Calm
  <1>3. TornByFailure
    BY AccessAssumption DEF Init, TornByFailure
  <1> QED
    BY <1>1, <1>2, <1>3 DEF IInv

\* Every step keeps the types and the frame.
LEMMA StepType ==
  ASSUME TypeOK, Frame, NEW q \in Request, Begin(q) \/ Step(q)
  PROVE  TypeOK' /\ Frame'
  <1>a. target[q] \in Place /\ In(target[q]) \in Dir /\ Subject(target[q]) \in File
    BY Places DEF DirOf, Sub
  <1>b. TypeOK /\ Frame
    OBVIOUS
  <1> USE <1>a, <1>b DEF TypeOK, Frame, Active, Ended, Position, job, Goto, Decide, Disturb
  <1>1. CASE Begin(q)
    BY <1>1 DEF Begin
  <1>2. CASE LookMeets(q) \/ LookEnds(q) \/ ReadPanics(q)
    <2>1. TypeOK'
      BY <1>2 DEF LookMeets, LookEnds, ReadPanics
    <2>2. Frame'
      BY <1>2 DEF Met, Named, Place, LookMeets, LookEnds, ReadPanics
    <2> QED
      BY <2>1, <2>2
  <1>3. CASE LookUp(q) \/ FetchUp(q)
    <2>0. Up(at[q]) \in Position
      <3>1. at[q] \in Position
        OBVIOUS
      <3>2. CASE at[q].file # None
        BY <3>1, <3>2 DEF Up
      <3>3. CASE at[q].file = None /\ at[q].dir \in {Root, Above}
        BY <3>3 DEF Up
      <3>4. CASE at[q].file = None /\ at[q].dir \notin {Root, Above}
        <4>1. Parent[at[q].dir] \in Dir
          BY <3>1, <3>4, DirAssumption
        <4> QED
          BY <3>4, <4>1 DEF Up
      <3> QED
        BY <3>2, <3>3, <3>4
    <2>1. /\ at' = [at EXCEPT ![q] = Up(@)] /\ stage[q] # "read"
          /\ UNCHANGED <<rego, stage, op, user, target, draft, can, guarded, linked, found,
                         calm>>
      BY <1>3 DEF LookUp, FetchUp
    <2>2. TypeOK'
      BY <2>0, <2>1
    <2>3. Frame'
      BY <2>1 DEF Named
    <2> QED
      BY <2>2, <2>3
  <1>4. CASE Read(q)
    <2>1. TypeOK'
      <3>1. rego[Named(at[q])] \in Policy \cup {None}
        BY <1>4 DEF Read
      <3>2. can' \in [Request -> SUBSET Right]
        BY <1>4, <3>1, AccessAssumption DEF Read
      <3> QED
        BY <1>4, <3>2 DEF Read
    <2>2. Frame'
      BY <1>4 DEF Read, Place
    <2> QED
      BY <2>1, <2>2
  <1>5. CASE Create(q)
    BY <1>5 DEF Create
  <1>6. CASE Write(q)
    <2>1. TypeOK'
      <3>1. draft[q] \in Policy /\ target[q] \in Place
        BY <1>6 DEF Write
      <3>2. rego' \in [Place -> Policy \cup {None, Empty, Garbage}]
        BY <1>6, <3>1 DEF Write
      <3>3. calm' \in [Request -> BOOLEAN]
        BY <1>6 DEF Write
      <3> QED
        BY <1>6, <3>2, <3>3 DEF Write
    <2>2. Frame'
      BY <1>6 DEF Write
    <2> QED
      BY <2>1, <2>2
  <1>7. CASE WriteFails(q)
    <2>1. TypeOK'
      BY <1>7 DEF WriteFails, Filled
    <2>2. Frame'
      BY <1>7 DEF WriteFails, Filled
    <2> QED
      BY <2>1, <2>2
  <1>8. CASE Guard(q)
    <2>1. TypeOK'
      BY <1>8 DEF Guard
    <2>2. Frame'
      BY <1>8 DEF Guard
    <2> QED
      BY <2>1, <2>2
  <1>9. CASE Gone(q) \/ RemoveFails(q) \/ Refuse(q)
    <2>1. /\ stage[q] # "new" /\ stage'[q] \in {"ok", "remove", "error"}
          /\ stage' = [stage EXCEPT ![q] = stage'[q]]
          /\ stage'[q] # "error" => guarded[q]
          /\ linked[q] => stage'[q] = "error"
          /\ UNCHANGED <<rego, op, user, target, draft, at, can, guarded, linked, found, calm>>
      BY <1>9 DEF Gone, RemoveFails, Refuse
    <2>2. TypeOK'
      BY <2>1
    <2>3. Frame'
      BY <2>1
    <2> QED
      BY <2>2, <2>3
  <1>10. CASE Remove(q)
    <2>1. TypeOK'
      BY <1>10 DEF Remove
    <2>2. Frame'
      BY <1>10 DEF Remove
    <2> QED
      BY <2>1, <2>2
  <1>11. CASE Fetch(q)
    <2>1. TypeOK'
      BY <1>11 DEF Fetch, Place
    <2>2. Frame'
      BY <1>11 DEF Fetch, Place
    <2> QED
      BY <2>1, <2>2
  <1>12. CASE FetchMeets(q)
    <2>1. TypeOK'
      BY <1>12 DEF FetchMeets, Met, Named, Place
    <2>2. Frame'
      BY <1>12 DEF FetchMeets, Met, Named, Place
    <2> QED
      BY <2>1, <2>2
  <1>13. CASE FetchEnds(q) \/ Serve(q)
    <2>1. TypeOK'
      BY <1>13 DEF FetchEnds, Serve
    <2>2. Frame'
      BY <1>13 DEF FetchEnds, Serve
    <2> QED
      BY <2>1, <2>2
  <1> QED
    BY <1>1, <1>2, <1>3, <1>4, <1>5, <1>6, <1>7, <1>8, <1>9, <1>10, <1>11, <1>12, <1>13
       DEF Step

-----------------------------------------------------------------------------
(* What the others do.                                                     *)

\* A step of one request leaves another where it is, and the policies too, or ends its
\* calm.
LEMMA Others ==
  ASSUME TypeOK, NEW q \in Request, Begin(q) \/ Step(q), NEW r \in Request, r # q
  PROVE  /\ UNCHANGED <<op, user, target>>
         /\ stage'[r] = stage[r] /\ at'[r] = at[r] /\ can'[r] = can[r]
         /\ guarded'[r] = guarded[r] /\ draft'[r] = draft[r] /\ found'[r] = found[r]
         /\ calm'[r] => calm[r] /\ rego' = rego /\ linked'[r] = linked[r]
  <1> USE DEF TypeOK, job, Goto, Decide, Disturb
  <1>1. CASE Begin(q) \/ LookMeets(q) \/ LookUp(q) \/ LookEnds(q) \/ Read(q) \/ ReadPanics(q)
    BY <1>1 DEF Begin, LookMeets, LookUp, LookEnds, Read, ReadPanics
  <1>2. CASE Create(q) \/ Write(q) \/ WriteFails(q)
    BY <1>2 DEF Create, Write, WriteFails, Filled
  <1>3. CASE Guard(q) \/ Gone(q) \/ Remove(q) \/ RemoveFails(q) \/ Refuse(q)
    BY <1>3 DEF Guard, Gone, Remove, RemoveFails, Refuse
  <1>4. CASE Fetch(q) \/ FetchMeets(q) \/ FetchUp(q) \/ FetchEnds(q) \/ Serve(q)
    BY <1>4 DEF Fetch, FetchMeets, FetchUp, FetchEnds, Serve
  <1> QED
    BY <1>1, <1>2, <1>3, <1>4 DEF Step

\* A calm request whose row and whose policies stay as they are keeps what it has.
LEMMA Kept ==
  ASSUME NEW r \in Request, Calm(r), calm'[r] => calm[r] /\ rego' = rego,
         UNCHANGED <<op, user, target>>,
         stage'[r] = stage[r] \/ stage'[r] = "lost",
         at'[r] = at[r], can'[r] = can[r], guarded'[r] = guarded[r],
         draft'[r] = draft[r], found'[r] = found[r],
         calm'[r] => linked'[r] = linked[r]
  PROVE  Calm(r)'
  <1> SUFFICES ASSUME calm'[r]
               PROVE  (PlainInv(r) /\ FirstInv(r) /\ GuardInv(r) /\ PostInv(r) /\ FetchInv(r))'
    BY DEF Calm
  <1>1. /\ rego' = rego /\ linked'[r] = linked[r]
        /\ PlainInv(r) /\ FirstInv(r) /\ GuardInv(r) /\ PostInv(r) /\ FetchInv(r)
    BY DEF Calm
  <1>2. DirOf(r)' = DirOf(r) /\ Sub(r)' = Sub(r) /\ Wanted(r)' = Wanted(r)
    BY <1>1, SameTree DEF DirOf, Sub, Wanted
  <1>3. PlainInv(r)'
    BY <1>1, <1>2, SameTree DEF PlainInv, Asked, FileWalk, Named
  <1>4. FirstInv(r)'
    BY <1>1, <1>2, SameTree DEF FirstInv, Asked, DirWalk
  <1>5. GuardInv(r)'
    BY <1>1, <1>2, SameTree DEF GuardInv, Asked, DirWalk
  <1>6. PostInv(r)'
    BY <1>1, <1>2, SameTree DEF PostInv
  <1>7. FetchInv(r)'
    BY <1>1, <1>2, SameTree DEF FetchInv
  <1> QED
    BY <1>3, <1>4, <1>5, <1>6, <1>7

-----------------------------------------------------------------------------
(* What a request does itself.                                             *)

\* What a position says of its slash.
LEMMA SlashOf ==
  ASSUME NEW d, NEW f, NEW s, NEW a, a = [dir |-> d, file |-> f, slash |-> s]
  PROVE  a.slash = s
  OBVIOUS

\* A lookup begins at what it is for.
LEMMA BeginCalm ==
  ASSUME TypeOK, Frame, NEW q \in Request, Begin(q)
  PROVE  Calm(q)'
  <1>1. /\ rego' = rego /\ UNCHANGED <<op, user, target, guarded>>
        /\ stage'[q] = "look" /\ ~guarded[q]
        /\ at'[q] = [dir |-> DirOf(q), file |-> Sub(q), slash |-> op[q] # "delete"]
    BY DEF Begin, TypeOK, Frame, Goto, job, DirOf, Sub
  <1>2. DirOf(q)' = DirOf(q) /\ Sub(q)' = Sub(q) /\ Sub(q) # None
    BY <1>1, Places, AccessAssumption DEF DirOf, Sub, Place
  <1>a. /\ at'[q].dir = DirOf(q) /\ at'[q].file = Sub(q)
    BY <1>1
  <1>b. at'[q].slash = (op[q] # "delete")
    <2>1. at'[q] = [dir |-> DirOf(q), file |-> Sub(q), slash |-> op[q] # "delete"]
      BY <1>1
    <2> QED
      BY <2>1, SlashOf
  <1>3. PlainInv(q)'
    BY <1>1, <1>2, <1>a, <1>b DEF PlainInv, FileWalk
  <1>4. FirstInv(q)'
    BY <1>1, <1>2, <1>a, <1>b DEF FirstInv
  <1>5. GuardInv(q)' /\ PostInv(q)' /\ FetchInv(q)'
    BY <1>1 DEF GuardInv, PostInv, FetchInv
  <1> QED
    BY <1>3, <1>4, <1>5 DEF Calm

\* The steps of a lookup.
LEMMA LookCalm ==
  ASSUME TypeOK, Frame, NEW q \in Request, Calm(q), LookMeets(q) \/ LookUp(q) \/ LookEnds(q)
  PROVE  Calm(q)'
  <1> SUFFICES ASSUME calm'[q]
               PROVE  (PlainInv(q) /\ FirstInv(q) /\ GuardInv(q) /\ PostInv(q) /\ FetchInv(q))'
    BY DEF Calm
  <1>1. /\ rego' = rego /\ UNCHANGED <<op, user, target, guarded, calm, linked>>
        /\ stage[q] = "look" /\ at[q] \in Position
    BY DEF LookMeets, LookUp, LookEnds, TypeOK, job, Decide
  <1>2. PlainInv(q) /\ FirstInv(q) /\ GuardInv(q)
    BY <1>1 DEF Calm
  <1>3. DirOf(q)' = DirOf(q) /\ Sub(q)' = Sub(q) /\ DirOf(q) \in Dir
        /\ Sub(q) \in File /\ Sub(q) # None /\ Sub(q).dir = DirOf(q)
    BY <1>1, Places, AccessAssumption DEF DirOf, Sub, Place
  <1>4. PostInv(q)' /\ FetchInv(q)'
    BY <1>1 DEF LookMeets, LookUp, LookEnds, PostInv, FetchInv, Goto, Decide, TypeOK
  <1>5. CASE LookMeets(q)
    <2>1. stage'[q] = "read" /\ at' = at /\ Met(at[q])
      BY <1>5 DEF LookMeets, Goto, TypeOK
    <2>2. PlainInv(q)'
      BY <1>1, <1>2, <1>3, <2>1, SameTree DEF PlainInv, Asked, FileWalk, Met, Named
    <2>3. FirstInv(q)'
      BY <1>1, <1>2, <1>3, <2>1, SameTree DEF FirstInv, Asked, DirWalk, Met, Named
    <2>4. GuardInv(q)'
      BY <1>1, <1>2, <1>3, <2>1, SameTree DEF GuardInv, Asked, DirWalk, Met, Named
    <2> QED
      BY <1>4, <2>2, <2>3, <2>4
  <1>6. CASE LookUp(q)
    <2>1. stage' = stage /\ at'[q] = Up(at[q]) /\ ~Met(at[q]) /\ ~AtTop(at[q])
      BY <1>6 DEF LookUp, TypeOK
    <2>2. ASSUME NEW d \in Dir, DirWalk(q, d) PROVE DirWalk(q, d)'
      <3>1. /\ at[q].dir \in Dir /\ at[q].dir # Above /\ at[q].dir # Root
            /\ rego[at[q].dir] = None
        BY <1>1, <2>1, <2>2, DirAssumption, AccessAssumption
           DEF DirWalk, Passed, Met, Named, AtTop, Above
      <3>2. Passed(Parent[at[q].dir], d)
        BY <2>2, <3>1, PassedUp DEF DirWalk
      <3>3. at'[q] = [dir |-> Parent[at[q].dir], slash |-> TRUE, file |-> None]
        BY <2>1, <2>2, <3>1 DEF DirWalk, Up
      <3> QED
        BY <1>1, <2>1, <3>2, <3>3, SameTree DEF DirWalk
    <2>3. PlainInv(q)'
      <3>1. CASE op[q] # "delete" /\ at[q].file = None
        <4>1. DirWalk(q, DirOf(q)) /\ rego[Sub(q)] = None
          BY <1>1, <1>2, <3>1 DEF PlainInv, Asked, FileWalk, DirWalk
        <4>2. DirWalk(q, DirOf(q))'
          BY <1>3, <2>2, <4>1
        <4> QED
          BY <1>1, <1>3, <2>1, <4>1, <4>2 DEF PlainInv, Asked, FileWalk, DirWalk
      <3>2. CASE op[q] # "delete" /\ at[q].file # None
        <4>1. at[q].slash /\ at[q].file = Sub(q) /\ at[q].dir = DirOf(q)
          BY <1>1, <1>2, <3>2 DEF PlainInv, Asked, FileWalk
        <4>2. rego[Sub(q)] = None
          BY <1>3, <2>1, <4>1, AccessAssumption DEF Met, Named, Above
        <4>3. at'[q].slash /\ at'[q].file = None /\ at'[q].dir = DirOf(q)
          BY <1>1, <2>1, <3>2, <4>1 DEF Up, Position
        <4>4. Passed(DirOf(q), DirOf(q))
          BY <1>3, DirAssumption DEF Passed
        <4> QED
          BY <1>1, <1>3, <2>1, <4>2, <4>3, <4>4, SameTree DEF PlainInv, Asked, FileWalk
      <3> QED
        BY <1>1, <3>1, <3>2 DEF PlainInv
    <2>4. FirstInv(q)'
      <3> SUFFICES ASSUME op[q] = "delete", ~guarded[q]
                   PROVE  \/ ~at'[q].slash /\ at'[q].dir = DirOf(q)
                          \/ at'[q].slash /\ at'[q].file = None /\ at'[q].dir = Above
                          \/ DirOf(q) # Root /\ DirWalk(q, Parent[DirOf(q)])'
        BY <1>1, <1>3, <2>1 DEF FirstInv, Asked
      <3>1. CASE ~at[q].slash /\ at[q].dir = DirOf(q) /\ at[q].file # None
        BY <1>1, <2>1, <3>1 DEF Up, Position
      <3>2. CASE ~at[q].slash /\ at[q].dir = DirOf(q) /\ at[q].file = None
        <4>1. at'[q] = [dir |-> IF DirOf(q) = Root THEN Above ELSE Parent[DirOf(q)],
                        slash |-> TRUE, file |-> None]
          BY <1>3, <2>1, <3>2, AccessAssumption DEF Up, Above
        <4>2. DirOf(q) # Root => Passed(Parent[DirOf(q)], Parent[DirOf(q)])
          BY <1>3, DirAssumption DEF Passed
        <4> QED
          BY <1>1, <1>3, <2>1, <4>1, <4>2, SameTree DEF DirWalk
      <3>3. CASE at[q].slash /\ at[q].file = None /\ at[q].dir = Above
        BY <2>1, <3>3 DEF Up
      <3>4. CASE DirOf(q) # Root /\ DirWalk(q, Parent[DirOf(q)])
        BY <1>3, <2>2, <3>4, DirAssumption
      <3> QED
        BY <1>1, <1>2, <3>1, <3>2, <3>3, <3>4 DEF FirstInv, Asked
    <2>5. GuardInv(q)'
      BY <1>1, <1>2, <1>3, <2>1, <2>2, SameTree DEF GuardInv, Asked
    <2> QED
      BY <1>4, <2>3, <2>4, <2>5
  <1>7. CASE LookEnds(q)
    <2>1. stage'[q] = "decided" /\ can'[q] = {} /\ ~Met(at[q]) /\ AtTop(at[q])
      BY <1>7 DEF LookEnds, Decide, Goto, TypeOK
    <2>2. Root # Above /\ rego[Root] = None
      BY <2>1, DirAssumption, AccessAssumption DEF AtTop, Met, Named, Above
    <2>3. ASSUME NEW d \in Dir, Passed(at[q].dir, d) PROVE NearestOf(d) = None
      BY <2>1, <2>2, <2>3, PassedAll DEF AtTop
    <2>4. PlainInv(q)'
      <3>1. op[q] # "delete" => rego[Sub(q)] = None /\ Passed(at[q].dir, DirOf(q))
        BY <1>1, <1>2, <2>1 DEF PlainInv, Asked, FileWalk, AtTop
      <3>2. op[q] # "delete" => Governor(Sub(q)) = None
        BY <1>3, <2>3, <3>1 DEF Governor
      <3> QED
        BY <1>1, <1>3, <2>1, <3>2, SameTree DEF PlainInv, Asked, Grants
    <2>5. FirstInv(q)'
      BY <1>1, <2>1 DEF FirstInv, Asked
    <2>6. GuardInv(q)'
      <3>1. guarded[q] => NearestOf(DirOf(q)) = None
        BY <1>1, <1>2, <1>3, <2>3 DEF GuardInv, Asked, DirWalk
      <3> QED
        BY <1>1, <1>2, <1>3, <2>1, <3>1, SameTree DEF GuardInv, Asked, Grants
    <2> QED
      BY <1>4, <2>4, <2>5, <2>6
  <1> QED
    BY <1>5, <1>6, <1>7

\* What the nearest policy grants is what a lookup that met it reads.
LEMMA ReadCalm ==
  ASSUME TypeOK, Frame, NEW q \in Request, Calm(q), Read(q)
  PROVE  Calm(q)'
  <1> SUFFICES ASSUME calm'[q]
               PROVE  (PlainInv(q) /\ FirstInv(q) /\ GuardInv(q) /\ PostInv(q) /\ FetchInv(q))'
    BY DEF Calm
  <1>1. /\ rego' = rego /\ UNCHANGED <<op, user, target, guarded, calm, linked>>
        /\ stage[q] = "read" /\ stage'[q] = "decided"
        /\ at[q] \in Position
    BY DEF Read, Decide, Goto, TypeOK, job
  <1>2. PlainInv(q) /\ FirstInv(q) /\ GuardInv(q)
    BY <1>1 DEF Calm
  <1>3. DirOf(q)' = DirOf(q) /\ Sub(q)' = Sub(q) /\ DirOf(q) \in Dir
        /\ Sub(q) \in File /\ Sub(q) # None /\ Sub(q).dir = DirOf(q)
    BY <1>1, Places, AccessAssumption DEF DirOf, Sub, Place
  <1>4. can'[q] = Grants(Named(at[q]), user[q])
    <2>1. /\ rego[Named(at[q])] \in Policy \cup {None} /\ Named(at[q]) \in Place
      BY <1>1 DEF Read, TypeOK, Frame
    <2>2. can'[q] = IF rego[Named(at[q])] = None THEN {} ELSE rego[Named(at[q])][user[q]]
      BY DEF Read, Decide, TypeOK
    <2> QED
      BY <2>1, <2>2, AccessAssumption DEF Grants
  <1>5. ASSUME NEW d \in Dir, DirWalk(q, d)
        PROVE  /\ Decides(at[q].dir, d) /\ NearestOf(d) = at[q].dir
               /\ can'[q] = Grants(at[q].dir, user[q])
    BY <1>1, <1>4, <1>5, PassedMet DEF DirWalk, Decides, Named
  <1>6. PlainInv(q)'
    <2>1. CASE op[q] # "delete" /\ at[q].file = None
      <3>1. DirWalk(q, DirOf(q)) /\ rego[Sub(q)] = None
        BY <1>1, <1>2, <2>1 DEF PlainInv, Asked, FileWalk, DirWalk, Named
      <3>2. Governor(Sub(q)) = at[q].dir
        BY <1>3, <1>5, <3>1 DEF Governor
      <3> QED
        BY <1>1, <1>3, <1>5, <3>1, <3>2, SameTree DEF PlainInv, Asked
    <2>2. CASE op[q] # "delete" /\ at[q].file # None
      <3>1. Governor(Sub(q)) = Sub(q) /\ Named(at[q]) = Sub(q)
        BY <1>1, <1>2, <2>2 DEF PlainInv, Asked, FileWalk, Named, Governor
      <3> QED
        BY <1>1, <1>3, <1>4, <3>1, SameTree DEF PlainInv, Asked
    <2> QED
      BY <1>1, <2>1, <2>2 DEF PlainInv
  <1>7. FirstInv(q)'
    <2> SUFFICES ASSUME op[q] = "delete", ~guarded[q]
                 PROVE  /\ DirOf(q) # Root
                        /\ \E a \in Dir : /\ Decides(a, Parent[DirOf(q)])
                                         /\ can'[q] = Grants(a, user[q])
      BY <1>1, <1>3, SameTree DEF FirstInv, Asked
    <2>1. DirOf(q) # Root /\ DirWalk(q, Parent[DirOf(q)])
      BY <1>1, <1>2 DEF FirstInv, Asked
    <2>2. Parent[DirOf(q)] \in Dir
      BY <1>3, DirAssumption
    <2>3. Decides(at[q].dir, Parent[DirOf(q)]) /\ can'[q] = Grants(at[q].dir, user[q])
      BY <1>5, <2>1, <2>2
    <2>4. at[q].dir \in Dir
      BY <2>2, <2>3, DirAssumption DEF Decides, Passed
    <2> QED
      BY <2>1, <2>3, <2>4
  <1>8. GuardInv(q)'
    <2>1. guarded[q] => /\ can'[q] = Grants(NearestOf(DirOf(q)), user[q])
                        /\ NearestOf(DirOf(q)) \in Dir
      BY <1>1, <1>2, <1>3, <1>5, DirAssumption DEF GuardInv, Asked, Decides, Passed
    <2> QED
      BY <1>1, <1>2, <1>3, <2>1, SameTree DEF GuardInv, Asked
  <1> QED
    BY <1>1, <1>6, <1>7, <1>8 DEF PostInv, FetchInv

\* An upload stores a policy that lets its sender write, in place of the policy that did
\* or below it.
LEMMA PostCalm ==
  ASSUME TypeOK, Frame, NEW q \in Request, Calm(q), Create(q) \/ Write(q)
  PROVE  Calm(q)'
  <1> SUFFICES ASSUME calm'[q]
               PROVE  (PlainInv(q) /\ FirstInv(q) /\ GuardInv(q) /\ PostInv(q) /\ FetchInv(q))'
    BY DEF Calm
  <1>1. /\ UNCHANGED <<op, user, target, guarded>> /\ calm[q] /\ op[q] = "post" /\ ~guarded[q]
        /\ stage'[q] \in {"write", "ok"}
        /\ draft'[q] \in Policy
    BY DEF Create, Write, Disturb, Goto, TypeOK, job, Frame
  <1>2. PlainInv(q) /\ PostInv(q)
    BY <1>1 DEF Calm
  <1>3. /\ DirOf(q)' = DirOf(q) /\ Sub(q)' = Sub(q) /\ DirOf(q) \in Dir /\ target[q] \in Place
        /\ Sub(q) \in File /\ Sub(q).dir = DirOf(q) /\ Sub(q) \in Place
        /\ Sub(q) # target[q] => target[q] = DirOf(q)
    BY <1>1, Places, AccessAssumption DEF DirOf, Sub, Place
  <1>4. (PlainInv(q) /\ FirstInv(q) /\ GuardInv(q) /\ FetchInv(q))'
    BY <1>1 DEF PlainInv, FirstInv, GuardInv, FetchInv, Asked
  <1>5. CASE Create(q)
    <2>1. /\ stage'[q] = "write" /\ linked'[q] /\ rego' = [rego EXCEPT ![target[q]] = Empty]
          /\ stage[q] = "decided" /\ "write" \in can[q]
      BY <1>5 DEF Create, Goto, TypeOK
    <2>2. rego[Sub(q)] # None => "write" \in Grants(Sub(q), user[q])
      BY <1>1, <1>2, <2>1 DEF PlainInv, Governor
    <2>3. Sub(q) # target[q] =>
            rego'[Sub(q)] = rego[Sub(q)] /\ Grants(Sub(q), user[q])' = Grants(Sub(q), user[q])
      BY <1>1, <1>3, <2>1 DEF Grants, TypeOK
    <2>4. rego'[target[q]] = Empty
      BY <1>3, <2>1 DEF TypeOK
    <2> QED
      BY <1>1, <1>3, <1>4, <2>1, <2>2, <2>3, <2>4 DEF PostInv, Grants
  <1>6. CASE Write(q)
    <2>1. /\ stage[q] = "write" /\ stage'[q] = "ok" /\ linked[q] /\ rego[target[q]] = Empty
          /\ Sub(q) # target[q] /\ rego[Sub(q)] # None => "write" \in Grants(Sub(q), user[q])
      BY <1>1, <1>2, <1>6 DEF Write, Goto, TypeOK, PostInv
    <2>2. /\ rego' = [rego EXCEPT ![target[q]] = draft[q]]
          /\ draft[q] \in Policy /\ draft[q][user[q]] = Right
      BY <1>6, <2>1 DEF Write, Frame
    <2>3. rego'[target[q]] = draft[q] /\ draft[q] # None
      BY <1>3, <2>2, AccessAssumption DEF TypeOK
    <2>4. Grants(target[q], user[q])' = Right
      BY <1>1, <1>3, <2>2, <2>3, AccessAssumption DEF Grants
    <2>5. CASE Sub(q) = target[q]
      <3>1. Governor(Sub(q))' = target[q]
        BY <1>1, <1>3, <2>3, <2>5 DEF Governor
      <3> QED
        BY <1>1, <1>3, <1>4, <2>1, <2>4, <3>1 DEF PostInv, Right
    <2>6. CASE Sub(q) # target[q] /\ rego[Sub(q)] # None
      <3>1. rego'[Sub(q)] = rego[Sub(q)]
        BY <1>3, <2>2, <2>6 DEF TypeOK
      <3>2. Governor(Sub(q))' = Sub(q)
        BY <1>3, <2>6, <3>1 DEF Governor
      <3>3. "write" \in Grants(Sub(q), user[q])'
        BY <1>1, <1>3, <2>1, <2>6, <3>1 DEF Grants
      <3> QED
        BY <1>1, <1>3, <1>4, <2>1, <3>2, <3>3 DEF PostInv
    <2>7. CASE Sub(q) # target[q] /\ rego[Sub(q)] = None
      <3>1. rego'[Sub(q)] = None
        BY <1>3, <2>2, <2>7 DEF TypeOK
      <3>2. NearestOf(DirOf(q))' = DirOf(q)
        BY <1>3, <2>3, <2>7, DirAssumption DEF NearestOf, Enclosing
      <3>3. Governor(Sub(q))' = target[q]
        BY <1>3, <2>7, <3>1, <3>2 DEF Governor
      <3> QED
        BY <1>1, <1>3, <1>4, <2>1, <2>4, <3>3 DEF PostInv, Right
    <2> QED
      BY <2>5, <2>6, <2>7
  <1> QED
    BY <1>5, <1>6

\* What a request does that ends in nothing is claimed nothing of.
LEMMA EndCalm ==
  ASSUME TypeOK, Frame, NEW q \in Request,
         ReadPanics(q) \/ WriteFails(q) \/ RemoveFails(q) \/ Refuse(q) \/ FetchEnds(q)
  PROVE  Calm(q)'
  <1>1. stage'[q] \in {"error", "lost"}
    BY DEF ReadPanics, WriteFails, Filled, RemoveFails, Refuse, FetchEnds, Goto, TypeOK
  <1> QED
    BY <1>1 DEF Calm, PlainInv, FirstInv, GuardInv, PostInv, FetchInv, Asked

\* A delete that the first lookup lets by has its directory's policy below another; what
\* the second one finds is what the guard is asked.
LEMMA GuardCalm ==
  ASSUME TypeOK, Frame, NEW q \in Request, Calm(q), Guard(q) \/ Gone(q)
  PROVE  Calm(q)'
  <1> SUFFICES ASSUME calm'[q]
               PROVE  (PlainInv(q) /\ FirstInv(q) /\ GuardInv(q) /\ PostInv(q) /\ FetchInv(q))'
    BY DEF Calm
  <1>1. /\ rego' = rego /\ UNCHANGED <<op, user, target, calm>>
        /\ stage[q] = "decided" /\ op[q] = "delete" /\ guarded'[q]
    BY DEF Guard, Gone, TypeOK, Frame, job
  <1>2. FirstInv(q) /\ GuardInv(q)
    BY <1>1 DEF Calm
  <1>3. DirOf(q)' = DirOf(q) /\ DirOf(q) \in Dir
    BY <1>1, Places DEF DirOf
  <1>4. stage'[q] # "serve" /\ (PlainInv(q) /\ FirstInv(q) /\ PostInv(q) /\ FetchInv(q))'
    BY <1>1 DEF Guard, Gone, PlainInv, FirstInv, PostInv, FetchInv, Goto, TypeOK
  <1>5. CASE Guard(q)
    <2>1. /\ stage'[q] = "look" /\ ~guarded[q] /\ "write" \in can[q]
          /\ at'[q] = [dir |-> DirOf(q), slash |-> TRUE, file |-> None]
      BY <1>5 DEF Guard, Goto, TypeOK, DirOf
    <2>2. /\ DirOf(q) # Root
          /\ \E a \in Dir : Decides(a, Parent[DirOf(q)]) /\ "write" \in Grants(a, user[q])
      BY <1>1, <1>2, <2>1 DEF FirstInv
    <2>3. DirWalk(q, DirOf(q))'
      BY <1>1, <1>3, <2>1, DirAssumption DEF DirWalk, Passed
    <2>4. GuardInv(q)'
      BY <1>1, <1>3, <2>1, <2>2, <2>3, SameTree DEF GuardInv, Asked
    <2> QED
      BY <1>4, <2>4
  <1>6. CASE Gone(q)
    <2>1. stage'[q] \in {"ok", "remove"} /\ guarded[q] /\ can[q] = Right
      BY <1>6 DEF Gone, Goto, TypeOK
    <2>2. /\ DirOf(q) # Root
          /\ \E a \in Dir : Decides(a, Parent[DirOf(q)]) /\ "write" \in Grants(a, user[q])
          /\ Grants(NearestOf(DirOf(q)), user[q]) = Right
          /\ NearestOf(DirOf(q)) \in Dir \cup {None}
      BY <1>1, <1>2, <2>1 DEF GuardInv
    <2>3. GuardInv(q)'
      BY <1>1, <1>3, <2>1, <2>2, SameTree DEF GuardInv, Asked, Right
    <2> QED
      BY <1>4, <2>3
  <1> QED
    BY <1>5, <1>6

\* Where a policy has gone from a directory, the one above governs.
LEMMA RemoveCalm ==
  ASSUME TypeOK, Frame, NEW q \in Request, Calm(q), Remove(q)
  PROVE  Calm(q)'
  <1> SUFFICES ASSUME calm'[q]
               PROVE  (PlainInv(q) /\ FirstInv(q) /\ GuardInv(q) /\ PostInv(q) /\ FetchInv(q))'
    BY DEF Calm
  <1>1. /\ UNCHANGED <<op, user, target, guarded>> /\ calm[q]
        /\ stage[q] = "remove" /\ stage'[q] = "ok" /\ op[q] = "delete" /\ guarded[q]
        /\ rego' = [rego EXCEPT ![target[q]] = None]
    BY DEF Remove, TypeOK, Frame, Goto, Disturb, job
  <1>2. GuardInv(q)
    BY <1>1 DEF Calm
  <1>3. /\ DirOf(q)' = DirOf(q) /\ DirOf(q) \in Dir /\ target[q] \in Place
        /\ target[q] \in Dir => DirOf(q) = target[q]
        /\ target[q] \notin Dir => target[q] \in File
    BY <1>1, Places DEF DirOf, Place
  <1>4. /\ DirOf(q) # Root
        /\ Grants(NearestOf(DirOf(q)), user[q]) = Right
        /\ NearestOf(DirOf(q)) \in Dir
        /\ \E a \in Dir : Decides(a, Parent[DirOf(q)]) /\ "write" \in Grants(a, user[q])
    BY <1>1, <1>2 DEF GuardInv, Grants, Right
  <1>5. \A p \in Place : rego'[p] = IF p = target[q] THEN None ELSE rego[p]
    BY <1>1, <1>3 DEF TypeOK
  <1>6. \A d \in Dir : d \in Place
    BY DEF Place
  <1>7. "write" \in Grants(NearestOf(DirOf(q)), user[q])'
    <2>1. CASE target[q] \in Dir
      <3>1. PICK a \in Dir : Decides(a, Parent[DirOf(q)]) /\ "write" \in Grants(a, user[q])
        BY <1>4
      <3>2. a \in Ancestors[Parent[DirOf(q)]] /\ DirOf(q) \notin Ancestors[Parent[DirOf(q)]]
        BY <1>3, <1>4, <3>1, DirAssumption DEF Decides, Passed
      <3>3. a # target[q] /\ rego'[a] = rego[a] /\ rego'[target[q]] = None
        BY <1>3, <1>5, <1>6, <2>1, <3>2
      <3>4. Decides(a, DirOf(q))'
        <4>1. a \in Ancestors[DirOf(q)]
          BY <1>3, <1>4, <3>2, DirAssumption
        <4>2. ASSUME NEW e \in Ancestors[DirOf(q)], e \notin Ancestors[a] PROVE rego'[e] = None
          <5>1. e \in Dir /\ (e = DirOf(q) \/ e \in Ancestors[Parent[DirOf(q)]])
            BY <1>3, <1>4, <4>2, DirAssumption
          <5>2. CASE e = DirOf(q)
            BY <1>3, <2>1, <3>3, <5>2
          <5>3. CASE e \in Ancestors[Parent[DirOf(q)]]
            BY <1>5, <1>6, <3>1, <4>2, <5>1, <5>3 DEF Decides, Passed
          <5> QED
            BY <5>1, <5>2, <5>3
        <4> QED
          BY <1>3, <3>1, <3>3, <4>1, <4>2 DEF Decides, Passed
      <3>5. NearestOf(DirOf(q))' = a
        BY <1>3, <3>4, DirAssumption DEF Decides, Passed, NearestOf, Enclosing
      <3>6. a # None /\ Grants(a, user[q])' = Grants(a, user[q])
        BY <1>1, <3>3, AccessAssumption DEF Grants, Place
      <3> QED
        BY <1>1, <3>1, <3>5, <3>6
    <2>2. CASE target[q] \notin Dir
      <3>1. \A d \in Dir : rego'[d] = rego[d]
        BY <1>5, <1>6, <2>2
      <3>2. NearestOf(DirOf(q))' = NearestOf(DirOf(q))
        <4>1. Enclosing(DirOf(q))' = Enclosing(DirOf(q))
          BY <1>3, <3>1, DirAssumption DEF Enclosing
        <4> QED
          BY <1>3, <4>1 DEF NearestOf
      <3> QED
        BY <1>1, <1>4, <3>1, <3>2 DEF Grants, Right
    <2> QED
      BY <2>1, <2>2
  <1>8. GuardInv(q)'
    BY <1>1, <1>3, <1>7 DEF GuardInv, Asked
  <1> QED
    BY <1>1, <1>8 DEF PlainInv, FirstInv, PostInv, FetchInv, Asked

\* A GET goes up to the policy that governs.
LEMMA FetchCalm ==
  ASSUME TypeOK, Frame, NEW q \in Request, Calm(q),
         Fetch(q) \/ FetchMeets(q) \/ FetchUp(q) \/ Serve(q)
  PROVE  Calm(q)'
  <1> SUFFICES ASSUME calm'[q]
               PROVE  (PlainInv(q) /\ FirstInv(q) /\ GuardInv(q) /\ PostInv(q) /\ FetchInv(q))'
    BY DEF Calm
  <1>1. /\ rego' = rego /\ UNCHANGED <<op, user, target, guarded, calm>>
        /\ op[q] = "get" /\ ~guarded[q] /\ at[q] \in Position
        /\ stage'[q] \in {"fetch", "serve", "ok", "error"}
    BY DEF Fetch, FetchMeets, FetchUp, Serve, TypeOK, Frame, Goto, job
  <1>2. FetchInv(q)
    BY <1>1 DEF Calm
  <1>3. /\ DirOf(q)' = DirOf(q) /\ DirOf(q) \in Dir /\ target[q] \in Place
        /\ target[q] \in Dir => DirOf(q) = target[q]
        /\ target[q] \notin Dir => target[q].dir = DirOf(q)
        /\ target[q] # None /\ Wanted(q)' = Wanted(q)
    BY <1>1, Places, SameTree, AccessAssumption DEF DirOf, Wanted
  <1>4. (PlainInv(q) /\ FirstInv(q) /\ GuardInv(q) /\ PostInv(q))'
    BY <1>1 DEF PlainInv, FirstInv, GuardInv, PostInv, Asked
  <1>5. CASE Fetch(q)
    <2>1. /\ stage'[q] = "fetch"
          /\ at'[q] = [dir |-> DirOf(q), slash |-> TRUE,
                       file |-> IF target[q] \in Dir THEN None ELSE target[q]]
      BY <1>5 DEF Fetch, Goto, TypeOK, DirOf
    <2>2. Passed(DirOf(q), DirOf(q))
      BY <1>3, DirAssumption DEF Passed
    <2>3. FetchInv(q)'
      BY <1>1, <1>3, <2>1, <2>2, SameTree DEF FetchInv
    <2> QED
      BY <1>4, <2>3
  <1>6. CASE FetchMeets(q)
    <2>1. /\ stage[q] = "fetch" /\ stage'[q] = "serve" /\ found'[q] = Named(at[q])
          /\ Met(at[q])
      BY <1>6 DEF FetchMeets, Goto, TypeOK
    <2>2. Named(at[q]) = Wanted(q)
      <3>1. CASE at[q].file # None
        BY <1>2, <2>1, <3>1 DEF FetchInv, Named, Met, Wanted, Governor
      <3>2. CASE at[q].file = None
        <4>1. /\ Decides(at[q].dir, DirOf(q)) /\ Named(at[q]) = at[q].dir
              /\ target[q] \in Dir \/ rego[target[q]] = None
          BY <1>2, <2>1, <3>2 DEF FetchInv, Named, Met, Decides
        <4>2. NearestOf(DirOf(q)) = at[q].dir
          BY <1>3, <4>1, PassedMet
        <4> QED
          BY <1>3, <4>1, <4>2 DEF Wanted, Governor
      <3> QED
        BY <3>1, <3>2
    <2>3. FetchInv(q)'
      BY <1>3, <2>1, <2>2 DEF FetchInv
    <2> QED
      BY <1>4, <2>3
  <1>7. CASE FetchUp(q)
    <2>1. stage[q] = "fetch" /\ stage' = stage /\ at'[q] = Up(at[q]) /\ ~Met(at[q])
      BY <1>7 DEF FetchUp, TypeOK
    <2>2. CASE at[q].file # None
      <3>1. rego[target[q]] = None /\ at[q].slash /\ at[q].dir = DirOf(q)
        BY <1>2, <1>3, <2>1, <2>2, AccessAssumption DEF FetchInv, Met, Named, Above
      <3>2. at'[q].slash /\ at'[q].file = None /\ at'[q].dir = DirOf(q)
        BY <1>1, <2>1, <2>2, <3>1 DEF Up, Position
      <3>3. Passed(DirOf(q), DirOf(q))
        BY <1>3, DirAssumption DEF Passed
      <3>4. FetchInv(q)'
        BY <1>1, <1>3, <2>1, <3>1, <3>2, <3>3, SameTree DEF FetchInv
      <3> QED
        BY <1>4, <3>4
    <2>3. CASE at[q].file = None /\ at[q].dir \in {Root, Above}
      <3>1. at'[q].slash /\ at'[q].file = None /\ at'[q].dir = Above
        BY <2>1, <2>3 DEF Up
      <3>2. FetchInv(q)'
        BY <2>1, <3>1 DEF FetchInv
      <3> QED
        BY <1>4, <3>2
    <2>4. CASE at[q].file = None /\ at[q].dir \notin {Root, Above}
      <3>1. /\ at[q].slash /\ Passed(at[q].dir, DirOf(q))
            /\ target[q] \in Dir \/ rego[target[q]] = None
        BY <1>2, <2>1, <2>4 DEF FetchInv
      <3>2. rego[at[q].dir] = None
        BY <2>1, <2>4, <3>1 DEF Met, Named
      <3>3. Passed(Parent[at[q].dir], DirOf(q))
        BY <1>3, <2>4, <3>1, <3>2, PassedUp
      <3>4. at'[q].slash /\ at'[q].file = None /\ at'[q].dir = Parent[at[q].dir]
        BY <2>1, <2>4 DEF Up
      <3>5. FetchInv(q)'
        BY <1>1, <1>3, <2>1, <3>1, <3>3, <3>4, SameTree DEF FetchInv
      <3> QED
        BY <1>4, <3>5
    <2> QED
      BY <2>2, <2>3, <2>4
  <1>8. CASE Serve(q)
    <2>1. stage[q] = "serve" /\ stage'[q] \in {"ok", "error"} /\ found' = found
      BY <1>8 DEF Serve, Goto, TypeOK
    <2>2. FetchInv(q)'
      BY <1>2, <1>3, <2>1 DEF FetchInv
    <2> QED
      BY <1>4, <2>2
  <1> QED
    BY <1>5, <1>6, <1>7, <1>8

-----------------------------------------------------------------------------
(* The invariant.                                                          *)

\* Every step of a request keeps what the calm ones have.
LEMMA StepCalm ==
  ASSUME IInv, NEW q \in Request, Begin(q) \/ Step(q), NEW r \in Request
  PROVE  Calm(r)'
  <1>1. TypeOK /\ Frame /\ Calm(q) /\ Calm(r)
    BY DEF IInv
  <1>2. CASE r = q
    BY <1>1, <1>2, BeginCalm, LookCalm, ReadCalm, PostCalm, EndCalm, GuardCalm, RemoveCalm,
       FetchCalm DEF Step
  <1>3. CASE r # q
    <2>1. /\ UNCHANGED <<op, user, target>>
          /\ stage'[r] = stage[r] /\ at'[r] = at[r] /\ can'[r] = can[r]
          /\ guarded'[r] = guarded[r] /\ draft'[r] = draft[r] /\ found'[r] = found[r]
          /\ calm'[r] => calm[r] /\ rego' = rego /\ linked'[r] = linked[r]
      BY <1>1, <1>3, Others
    <2> QED
      BY <1>1, <2>1, Kept
  <1> QED
    BY <1>2, <1>3

\* A file that is half a policy has its upload, under way or not ended well.
LEMMA StepTorn ==
  ASSUME IInv, NEW q \in Request, Begin(q) \/ Step(q)
  PROVE  TornByFailure'
  <1> USE DEF TypeOK, job, Goto, Decide, Disturb
  <1>1. TypeOK /\ Frame /\ TornByFailure /\ Calm(q) /\ target[q] \in Place
    BY Places DEF IInv
  <1>2. ASSUME UNCHANGED <<rego, target, linked>>,
               \A r \in Request : calm'[r] => calm[r] \/ ~linked[r],
               \A r \in Request : stage'[r] = "ok" => stage[r] = "ok" \/ ~linked[r]
        PROVE  TornByFailure'
    BY <1>1, <1>2 DEF TornByFailure
  <1>3. CASE Begin(q)
    BY <1>1, <1>2, <1>3 DEF Begin, Frame
  <1>4. CASE LookMeets(q) \/ LookUp(q) \/ LookEnds(q) \/ Read(q) \/ ReadPanics(q)
    BY <1>1, <1>2, <1>4 DEF LookMeets, LookUp, LookEnds, Read, ReadPanics
  <1>5. CASE Guard(q) \/ RemoveFails(q) \/ Refuse(q)
    BY <1>1, <1>2, <1>5 DEF Guard, RemoveFails, Refuse
  <1>6. CASE Gone(q) \/ Serve(q)
    BY <1>1, <1>2, <1>6 DEF Gone, Serve, Frame
  <1>7. CASE Fetch(q) \/ FetchMeets(q) \/ FetchUp(q) \/ FetchEnds(q)
    BY <1>1, <1>2, <1>7 DEF Fetch, FetchMeets, FetchUp, FetchEnds
  <1>8. CASE Create(q)
    <2>1. /\ rego' = [rego EXCEPT ![target[q]] = Empty] /\ target' = target
          /\ linked'[q] /\ stage'[q] = "write"
          /\ \A r \in Request : r # q => stage'[r] = stage[r] /\ linked'[r] = linked[r]
          /\ \A r \in Request : r # q => ~calm'[r]
      BY <1>1, <1>8 DEF Create
    <2> SUFFICES ASSUME NEW p \in Place, rego'[p] \in {Empty, Garbage}
                 PROVE  \E r \in Request :
                          target'[r] = p /\ linked'[r] /\ (stage'[r] # "ok" \/ ~calm'[r])
      BY DEF TornByFailure
    <2>2. CASE p = target[q]
      BY <2>1, <2>2
    <2>3. CASE p # target[q]
      <3>1. PICK r \in Request : target[r] = p /\ linked[r]
        BY <1>1, <2>1, <2>3 DEF TornByFailure
      <3> QED
        BY <2>1, <2>3, <3>1
    <2> QED
      BY <2>2, <2>3
  <1>9. CASE Write(q) /\ ~linked[q]
    BY <1>1, <1>2, <1>9 DEF Write
  <1>10. CASE Write(q) /\ linked[q]
    <2>1. /\ target' = target /\ linked' = linked
          /\ \A r \in Request : r # q => stage'[r] = stage[r] /\ ~calm'[r]
          /\ calm'[q] => calm[q]
      BY <1>1, <1>10 DEF Write
    <2>2. PICK new \in {draft[q], Garbage} : /\ rego[target[q]] = Empty => new = draft[q]
                                            /\ rego' = [rego EXCEPT ![target[q]] = new]
      BY <1>10 DEF Write
    <2>3. draft[q] \in Policy /\ stage[q] = "write" /\ op[q] = "post"
      BY <1>1, <1>10 DEF Write, Frame
    <2> SUFFICES ASSUME NEW p \in Place, rego'[p] \in {Empty, Garbage}
                 PROVE  \E r \in Request :
                          target'[r] = p /\ linked'[r] /\ (stage'[r] # "ok" \/ ~calm'[r])
      BY DEF TornByFailure
    <2>4. CASE p = target[q]
      <3>1. rego'[p] = new
        BY <1>1, <2>2, <2>4
      <3>2. rego[target[q]] # Empty
        BY <2>2, <2>3, <3>1, AccessAssumption
      <3>3. ~calm[q]
        BY <1>1, <2>3, <3>2 DEF Calm, PostInv
      <3> QED
        BY <1>10, <2>1, <2>4, <3>3
    <2>5. CASE p # target[q]
      <3>1. PICK r \in Request : target[r] = p /\ linked[r]
        BY <1>1, <2>2, <2>5 DEF TornByFailure
      <3> QED
        BY <2>1, <2>5, <3>1
    <2> QED
      BY <2>4, <2>5
  <1>11. CASE WriteFails(q) /\ rego' = rego
    BY <1>1, <1>2, <1>11 DEF WriteFails, Filled
  <1>12. CASE WriteFails(q) /\ rego' # rego
    <2>1. /\ target' = target /\ linked' = linked /\ linked[q]
          /\ \A r \in Request : r # q => stage'[r] = stage[r] /\ ~calm'[r]
          /\ stage'[q] = "error" /\ rego' = [rego EXCEPT ![target[q]] = Garbage]
      BY <1>1, <1>12 DEF WriteFails, Filled
    <2> SUFFICES ASSUME NEW p \in Place, rego'[p] \in {Empty, Garbage}
                 PROVE  \E r \in Request :
                          target'[r] = p /\ linked'[r] /\ (stage'[r] # "ok" \/ ~calm'[r])
      BY DEF TornByFailure
    <2>2. CASE p = target[q]
      BY <2>1, <2>2
    <2>3. CASE p # target[q]
      <3>1. PICK r \in Request : target[r] = p /\ linked[r]
        BY <1>1, <2>1, <2>3 DEF TornByFailure
      <3> QED
        BY <2>1, <2>3, <3>1
    <2> QED
      BY <2>2, <2>3
  <1>13. CASE Remove(q)
    <2>1. /\ target' = target /\ rego' = [rego EXCEPT ![target[q]] = None]
          /\ \A r \in Request : linked'[r] = (linked[r] /\ target[r] # target[q])
          /\ \A r \in Request : r # q => stage'[r] = stage[r] /\ ~calm'[r]
          /\ ~linked[q]
      BY <1>1, <1>13 DEF Remove, Frame
    <2> SUFFICES ASSUME NEW p \in Place, rego'[p] \in {Empty, Garbage}
                 PROVE  \E r \in Request :
                          target'[r] = p /\ linked'[r] /\ (stage'[r] # "ok" \/ ~calm'[r])
      BY DEF TornByFailure
    <2>2. p # target[q]
      BY <1>1, <2>1, AccessAssumption
    <2>3. PICK r \in Request : target[r] = p /\ linked[r]
      BY <1>1, <2>1, <2>2 DEF TornByFailure
    <2> QED
      BY <2>1, <2>2, <2>3
  <1> QED
    BY <1>3, <1>4, <1>5, <1>6, <1>7, <1>8, <1>9, <1>10, <1>11, <1>12, <1>13 DEF Step

\* A restart loses what was under way and leaves the rest.
LEMMA CrashIInv ==
  ASSUME IInv, Crash
  PROVE  IInv'
  <1>1. /\ UNCHANGED <<rego, op, user, target, draft, at, can, guarded, linked, found, calm>>
        /\ stage' = [r \in Request |-> IF stage[r] \in Active THEN "lost" ELSE stage[r]]
    BY DEF Crash, job
  <1>2. TypeOK /\ Frame /\ TornByFailure /\ \A r \in Request : Calm(r)
    BY DEF IInv
  <1>3. TypeOK'
    BY <1>1, <1>2 DEF TypeOK, Ended
  <1>4. Frame'
    BY <1>1, <1>2 DEF Frame, Active
  <1>5. TornByFailure'
    BY <1>1, <1>2 DEF TornByFailure
  <1>6. ASSUME NEW r \in Request PROVE Calm(r)'
    <2>1. stage'[r] = stage[r] \/ stage'[r] = "lost"
      BY <1>1
    <2> QED
      BY <1>1, <1>2, <2>1, Kept
  <1> QED
    BY <1>3, <1>4, <1>5, <1>6 DEF IInv

\* The invariant is inductive.
LEMMA StepIInv == IInv /\ [Next]_vars => IInv'
  <1> SUFFICES ASSUME IInv, [Next]_vars PROVE IInv'
    OBVIOUS
  <1>1. ASSUME NEW q \in Request, Begin(q) \/ Step(q) PROVE IInv'
    BY <1>1, StepType, StepCalm, StepTorn DEF IInv
  <1>2. CASE Crash
    BY <1>2, CrashIInv
  <1>3. CASE UNCHANGED vars
    <2>1. UNCHANGED <<rego, stage, op, user, target, draft, at, can, guarded, linked, found,
                      calm>>
      BY <1>3 DEF vars
    <2>2. TypeOK' /\ Frame' /\ TornByFailure'
      BY <2>1 DEF IInv, TypeOK, Frame, TornByFailure, Named
    <2>3. \A r \in Request : Calm(r)'
      BY <2>1, Kept DEF IInv
    <2> QED
      BY <2>2, <2>3 DEF IInv
  <1> QED
    BY <1>1, <1>2, <1>3 DEF Next

\* It holds in every state.
LEMMA Invariant == Spec => []IInv
  BY InitIInv, StepIInv, PTL DEF Spec

-----------------------------------------------------------------------------
(* The theorems.                                                           *)

\* The types: every lookup looks at places in the tree, or above it.
THEOREM TypeCorrect == Spec => []TypeOK
  <1>1. IInv => TypeOK
    BY DEF IInv
  <1> QED
    BY <1>1, Invariant, PTL

\* The walk up from a file, one existence test after another (attrs.go), finds the
\* nearest policy that encloses it, in every tree, if nobody changes one meanwhile.
THEOREM NearestIsUsed == Spec => []NearestUsed
  <1>1. IInv => NearestUsed
    BY DEF IInv, Calm, PlainInv, NearestUsed, Sub
  <1> QED
    BY <1>1, Invariant, PTL

\* Whoever has had a policy accepted may write where it governs (post.go): what it may
\* do there now is by its own policy, or by one nearer that already let it write.
THEOREM PostersCanRepair == Spec => []PosterCanRepair
  <1>1. IInv => PosterCanRepair
    BY DEF IInv, Calm, PostInv, PosterCanRepair, Sub
  <1> QED
    BY <1>1, Invariant, PTL

\* Whoever has had a delete of a policy accepted may still write in its directory
\* (delete.go): the first lookup was for the policy that governs there now, the second
\* one for the policy that may have gone.
THEOREM DeletersCanRepair == Spec => []DeleterCanRepair
  <1>1. ASSUME IInv, NEW q \in Request, stage[q] = "ok", op[q] = "delete", calm[q]
        PROVE  "write" \in Grants(NearestOf(In(target[q])), user[q])
    BY <1>1 DEF IInv, Frame, Calm, GuardInv, DirOf
  <1>2. IInv => DeleterCanRepair
    BY <1>1 DEF DeleterCanRepair
  <1> QED
    BY <1>2, Invariant, PTL

\* The walk of a GET (get.go) comes to the policy that the lookup comes to.
THEOREM FetchesFindGovernor == Spec => []FetchFindsGovernor
  <1>1. ASSUME IInv, NEW q \in Request, stage[q] = "ok", op[q] = "get", calm[q]
        PROVE  found[q] = Wanted(q)
    BY <1>1 DEF IInv, Calm, FetchInv
  <1>2. IInv => FetchFindsGovernor
    BY <1>1 DEF FetchFindsGovernor, Wanted
  <1> QED
    BY <1>2, Invariant, PTL

\* Half a policy is left only by an upload that failed or was not alone (post.go).
THEOREM TornOnlyByFailure == Spec => []TornByFailure
  <1>1. IInv => TornByFailure
    BY DEF IInv
  <1> QED
    BY <1>1, Invariant, PTL

-----------------------------------------------------------------------------
(* The walks come to an end, however the policies change under them.       *)

\* Where a walk is.  Only the path of a delete's first lookup lacks its slash; past the
\* root goes only what is about the root itself, and of lookups only that one.
Whereabouts(q) ==
  /\ stage[q] = "look" =>
       \/ at[q].dir \in Dir /\ (at[q].slash \/ (op[q] = "delete" /\ at[q].dir = DirOf(q)))
       \/ at[q].dir = Above /\ DirOf(q) = Root /\ op[q] = "delete" /\ ~guarded[q]
  /\ stage[q] = "look" /\ guarded[q] => at[q].slash
  /\ stage[q] = "fetch" =>
       at[q].slash /\ (at[q].dir \in Dir \/ (at[q].dir = Above /\ DirOf(q) = Root))

WalkInv == \A q \in Request : Whereabouts(q)

\* A step up: from the file to its directory, or to a directory that this one is in.
Climbs(q) ==
  \/ at[q].file # None /\ at'[q] = [at[q] EXCEPT !.file = None]
  \/ /\ at[q].file = None /\ at'[q].file = None
     /\ at'[q].dir \in Ancestors[at[q].dir] \ {at[q].dir}

\* The way out of the tree.
Strays(q) == DirOf(q) = Root /\ at'[q].dir = Above /\ (stage[q] = "look" => op[q] = "delete")

\* A directory lies in the one above it, and that one not in it.
LEMMA ParentAbove ==
  \A d \in Dir \ {Root} : Parent[d] \in Dir /\ Parent[d] \in Ancestors[d] \ {d}
<1>. TAKE d \in Dir \ {Root}
<1>1. Parent[d] \in Dir /\ Parent[d] # d /\ Ancestors[d] = {d} \cup Ancestors[Parent[d]]
  BY DirAssumption
<1>2. Parent[d] \in Ancestors[Parent[d]]
  BY <1>1, DirAssumption
<1>. QED
  BY <1>1, <1>2

\* A step up climbs or leaves the tree, and the walk is where it may be.
LEMMA UpClimbs ==
  ASSUME TypeOK, Frame, NEW q \in Request, Whereabouts(q), LookUp(q) \/ FetchUp(q)
  PROVE  Whereabouts(q)' /\ (Climbs(q) \/ Strays(q))
<1>. DEFINE a == at[q]
<1>1. /\ at'[q] = Up(a) /\ stage'[q] = stage[q] /\ stage[q] \in {"look", "fetch"}
      /\ stage[q] = "look" => ~AtTop(a)
      /\ stage[q] = "fetch" => ~AtTop(a) \/ DirOf(q) = Root
      /\ a.dir \in Dir \cup {Above} /\ a.file \in File \cup {None} /\ a.slash \in BOOLEAN
      /\ guarded[q] => op[q] = "delete"
  BY DEF TypeOK, Frame, Position, LookUp, FetchUp, FetchedOut, DirOf
<1>2. DirOf(q)' = DirOf(q) /\ op' = op /\ guarded' = guarded
  BY DEF LookUp, FetchUp, job, DirOf
<1>3. Above \notin Dir /\ None \notin File /\ Root \in Dir
  BY AccessAssumption, DirAssumption DEF Above, Place
<1>4. CASE a.file # None
  <2>1. at'[q] = [a EXCEPT !.file = None] /\ at'[q].dir = a.dir /\ at'[q].slash = a.slash
    BY <1>1, <1>4 DEF Up, TypeOK, Position
  <2>. QED  BY <1>1, <1>2, <1>4, <2>1 DEF Whereabouts, Climbs
<1>5. CASE a.file = None
  <2>1. /\ at'[q].file = None /\ at'[q].slash
        /\ at'[q].dir = IF a.dir \in {Root, Above} THEN Above ELSE Parent[a.dir]
    BY <1>1, <1>5 DEF Up
  <2>2. CASE a.dir \in Dir \ {Root}
    <3>1. at'[q].dir = Parent[a.dir]
      BY <1>3, <2>1, <2>2
    <3>2. Parent[a.dir] \in Dir /\ Parent[a.dir] \in Ancestors[a.dir] \ {a.dir}
      BY <2>2, ParentAbove
    <3>. QED  BY <1>1, <1>2, <1>5, <2>1, <3>1, <3>2 DEF Whereabouts, Climbs
  <2>3. CASE a.dir \in {Root, Above}
    <3>1. at'[q].dir = Above
      BY <2>1, <2>3
    <3>2. /\ DirOf(q) = Root
          /\ stage[q] = "look" => op[q] = "delete" /\ ~guarded[q]
      BY <1>1, <1>3, <1>5, <2>3 DEF Whereabouts, AtTop
    <3>. QED  BY <1>1, <1>2, <2>1, <3>1, <3>2 DEF Whereabouts, Strays
  <2>. QED  BY <1>1, <2>2, <2>3
<1>. QED  BY <1>4, <1>5

\* Every step keeps the walks where they may be.
LEMMA WalkNext == TypeOK /\ Frame /\ WalkInv /\ [Next]_vars => WalkInv'
<1>. SUFFICES ASSUME TypeOK, Frame, WalkInv, [Next]_vars, NEW r \in Request
              PROVE  Whereabouts(r)'
  BY DEF WalkInv
<1>0. Whereabouts(r)
  BY DEF WalkInv
<1>1. ASSUME NEW q \in Request, Begin(q) \/ Step(q), r # q  PROVE Whereabouts(r)'
  BY <1>0, <1>1, Others DEF Whereabouts, DirOf
<1>2. ASSUME Begin(r) \/ Step(r)  PROVE Whereabouts(r)'
  <2>1. CASE LookUp(r) \/ FetchUp(r)
    BY <1>0, <2>1, UpClimbs
  <2>2. CASE Begin(r)
    <3>1. /\ at'[r].dir = DirOf(r) /\ at'[r].slash = (op[r] # "delete") /\ stage'[r] = "look"
          /\ UNCHANGED <<op, target, guarded>> /\ ~guarded[r] /\ DirOf(r) \in Dir
      BY <2>2, Places DEF TypeOK, Frame, Begin, Goto, job, DirOf
    <3>. QED  BY <3>1 DEF Whereabouts, DirOf
  <2>3. CASE Guard(r) \/ Fetch(r)
    <3>1. /\ at'[r].dir = DirOf(r) /\ at'[r].slash /\ stage'[r] \in {"look", "fetch"}
          /\ UNCHANGED <<op, target>> /\ DirOf(r) \in Dir
      BY <2>3, Places DEF TypeOK, Guard, Fetch, Goto, job, DirOf
    <3>. QED  BY <3>1 DEF Whereabouts, DirOf
  <2>4. CASE ~(LookUp(r) \/ FetchUp(r) \/ Begin(r) \/ Guard(r) \/ Fetch(r))
    <3>1. stage'[r] \notin {"look", "fetch"}
      BY <1>2, <2>4
      DEF TypeOK, Step, Goto, Decide, LookMeets, LookEnds, Read, ReadPanics, Create, Write,
          WriteFails, Gone, Remove, RemoveFails, Refuse, FetchMeets, FetchEnds, Serve
    <3>. QED  BY <3>1 DEF Whereabouts
  <2>. QED  BY <2>1, <2>2, <2>3, <2>4
<1>3. CASE Crash
  BY <1>0, <1>3 DEF Crash, Active, job, Whereabouts, DirOf
<1>4. CASE UNCHANGED vars
  BY <1>0, <1>4 DEF vars, Whereabouts, DirOf
<1>. QED
  BY <1>1, <1>2, <1>3, <1>4 DEF Next

\* Every step up of a lookup, or of the walk for a policy that is not there, goes from a
\* file to its directory or to a directory above, however policies come and go under it:
\* in a tree of finite depth it ends at the root.  Only what is about the root itself
\* gets past it, and of lookups only a delete's (attrs.go:44-57, get.go:257-280).
THEOREM WalksClimb ==
  Spec => [][\A q \in Request : LookUp(q) \/ FetchUp(q) => Climbs(q) \/ Strays(q)]_vars
<1>1. IInv /\ WalkInv /\ [Next]_vars => WalkInv'
  BY WalkNext DEF IInv
<1>2. IInv /\ WalkInv /\ [Next]_vars =>
        [\A q \in Request : LookUp(q) \/ FetchUp(q) => Climbs(q) \/ Strays(q)]_vars
  BY UpClimbs DEF IInv, WalkInv
<1>3. Init => WalkInv
  BY DEF Init, WalkInv, Whereabouts
<1>. QED  BY Invariant, <1>1, <1>2, <1>3, PTL DEF Spec
=============================================================================
