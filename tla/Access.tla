------------------------------- MODULE Access -------------------------------
(***************************************************************************)
(* Who may do what with a file is in a rego policy, and policies are files *)
(* of the same tree: "f--permissions.rego" beside a file f governs f, and  *)
(* "permissions.rego" in a directory governs what is in it and has nothing *)
(* nearer.  A request looks for the policy from the file upwards, one      *)
(* existence test after another, while other requests upload and delete    *)
(* policies.                                                               *)
(*                                                                         *)
(* The requests here are for policy files: what a request for a plain file *)
(* f looks up is what one for "f--permissions.rego" does.  What a policy   *)
(* says to a user (OPA's part) is given.                                   *)
(***************************************************************************)
EXTENDS Tree

CONSTANTS
  Request,      \* each served once
  User,         \* signed-in users
  File,         \* the files that may have a policy of their own
  Target,       \* the policies that requests name
  Policy,       \* what a rego file grants to each user
  None, Empty, Garbage
    \* nothing there; a file just truncated; one two uploads wrote over

Right == {"read", "write"}

\* A policy is known by what it governs: a directory, or a file.
Place == Dir \cup File

\* The name a directory's policy has, which may have a policy of its own.
RegoFile(d) == [dir |-> d, name |-> "permissions.rego"]

ASSUME AccessAssumption ==
  /\ File \subseteq [dir : Dir, name : STRING]
  /\ \A d \in Dir : RegoFile(d) \in File
  /\ Dir \cap File = {} /\ "above" \notin Dir
  /\ Target \subseteq Place
  /\ Policy \subseteq [User -> SUBSET Right]
  /\ {None, Empty, Garbage} \cap Policy = {}
  /\ None \notin Place /\ None # Empty /\ None # Garbage /\ Empty # Garbage

VARIABLES
  rego,    \* what is at each place
  stage,   \* what each request does next
  op,      \* "get", "post" or "delete"
  user, target,  \* by whom, and the policy it is about
  draft,   \* POST: the policy it uploads
  at,      \* where its lookup, or its walk for the policy, is
  can,     \* what the lookup found the user may do
  guarded, \* DELETE: this is the second lookup, the guard's
  linked,  \* POST: the file it has open is the one in the tree
  found,   \* GET: the policy it serves
  calm     \* history: no other request changed a policy since it began

vars == <<rego, stage, op, user, target, draft, at, can, guarded, linked, found, calm>>
job  == <<op, user, target>>

Ended  == {"ok", "error", "lost"}
Active == {"look", "read", "decided", "write", "remove", "fetch", "serve"}

\* A step of a walk: a directory, or one above the root, whether its path ends
\* in a slash, and the file in it that is looked at first.
Above == "above"
Position == [dir : Dir \cup {Above}, slash : BOOLEAN, file : File \cup {None}]

\* The types of the variables: a lookup looks only at places in the tree, or above
\* it (getAttrsPermission), and only for the file that its request is about.
TypeOK ==
  /\ rego \in [Place -> Policy \cup {None, Empty, Garbage}]
  /\ stage \in [Request -> Active \cup Ended \cup {"new"}]
  /\ op \in [Request -> {"get", "post", "delete"}]
  /\ user \in [Request -> User]
  /\ target \in [Request -> Target]
  /\ draft \in [Request -> Policy \cup {None}]
  /\ at \in [Request -> Position]
  /\ can \in [Request -> SUBSET Right]
  /\ guarded \in [Request -> BOOLEAN]
  /\ linked \in [Request -> BOOLEAN]
  /\ found \in [Request -> Place \cup {None}]
  /\ calm \in [Request -> BOOLEAN]

\* The directory a policy file is in, and the file a lookup for it begins with:
\* what is before the last "--", or "permissions.rego" itself.
In(p)      == IF p \in Dir THEN p ELSE p.dir
SubjectItself(p) == p  \* Mutant: a directory's policy is taken for a name.
Subject(p)       == IF p \in Dir THEN RegoFile(p) ELSE p

\* An installation that was cut short leaves the root without a policy; the rest
\* is of requests that came before.
Init ==
  /\ rego \in [Place -> Policy \cup {None}]
  /\ \A p \in Place \ (Target \cup {Root}) : rego[p] = None
  /\ stage = [q \in Request |-> "new"]
  /\ op \in [Request -> {"get", "post", "delete"}]
  /\ user \in [Request -> User]
  /\ target \in [Request -> Target]
  /\ draft = [q \in Request |-> None]
  /\ at = [q \in Request |-> [dir |-> Root, slash |-> TRUE, file |-> None]]
  /\ can = [q \in Request |-> {}]
  /\ guarded = [q \in Request |-> FALSE]
  /\ linked = [q \in Request |-> FALSE]
  /\ found = [q \in Request |-> None]
  /\ calm = [q \in Request |-> FALSE]

Goto(q, s) == stage' = [stage EXCEPT ![q] = s]

\* Request q changes a policy: the others are disturbed.
Disturb(q) == calm' = [r \in Request |-> r = q /\ calm[q]]

-----------------------------------------------------------------------------
(* The lookup: GetAttrs and getAttrsPermission.                            *)

\* GET and POST hand over the directory with a slash, DELETE without.
Begin(q) ==
  /\ stage[q] = "new"
  /\ at' = [at EXCEPT ![q] = [dir |-> In(target[q]), file |-> Subject(target[q]),
                              slash |-> op[q] # "delete"]]
  /\ calm' = [calm EXCEPT ![q] = TRUE]
  /\ Goto(q, "look")
  /\ UNCHANGED <<rego, job, draft, can, guarded, linked, found>>

\* The policy a position names.  Without its slash a directory runs together
\* with the file name, and above the root there are none.
Named(a) == IF a.file # None THEN a.file ELSE a.dir

Met(a) == a.slash /\ a.dir # Above /\ rego[Named(a)] # None

AtTop(a) == a.slash /\ a.dir = Root /\ a.file = None

\* Mutant: from the file the walk goes on above its directory.
UpSkips(a) == [dir |-> IF a.dir \in {Root, Above} THEN Above ELSE Parent[a.dir],
               slash |-> TRUE, file |-> None]

\* Mutant: path.Dir alone, which of a path that ends in a slash is that path.
UpStays(a) == [a EXCEPT !.file = None]

\* path.Dir(path.Clean(...)): past the root it stays at "//".
Up(a) ==
  IF a.file # None THEN [a EXCEPT !.file = None]
  ELSE [dir |-> IF a.dir \in {Root, Above} THEN Above ELSE Parent[a.dir],
        slash |-> TRUE, file |-> None]

LookMeets(q) ==
  /\ stage[q] = "look"
  /\ Met(at[q])
  /\ Goto(q, "read")
  /\ UNCHANGED <<rego, job, draft, at, can, guarded, linked, found, calm>>

LookUp(q) ==
  /\ stage[q] = "look"
  /\ ~Met(at[q]) /\ ~AtTop(at[q])
  /\ at' = [at EXCEPT ![q] = Up(@)]
  /\ UNCHANGED <<rego, stage, job, draft, can, guarded, linked, found, calm>>

Decide(q, rights) == can' = [can EXCEPT ![q] = rights] /\ Goto(q, "decided")

\* No policy anywhere.
LookEnds(q) ==
  /\ stage[q] = "look"
  /\ ~Met(at[q]) /\ AtTop(at[q])
  /\ Decide(q, {})
  /\ UNCHANGED <<rego, job, draft, at, guarded, linked, found, calm>>

\* A policy that went away since it was met grants nothing.
Read(q) ==
  /\ stage[q] = "read"
  /\ LET policy == rego[Named(at[q])] IN
       /\ policy \notin {Empty, Garbage}
       /\ Decide(q, IF policy = None THEN {} ELSE policy[user[q]])
  /\ UNCHANGED <<rego, job, draft, at, guarded, linked, found, calm>>

\* One that does not parse leaves no calculation to look into: the handler
\* panics.
ReadPanics(q) ==
  /\ stage[q] = "read"
  /\ rego[Named(at[q])] \in {Empty, Garbage}
  /\ Goto(q, "lost")
  /\ UNCHANGED <<rego, job, draft, at, can, guarded, linked, found, calm>>

-----------------------------------------------------------------------------
(* POST: CanWrite, badUploadPermissions, putFileOnDisk.                    *)

\* Mutant: it is enough that the sender may read.
CreateReadable(q) ==
  /\ stage[q] = "decided" /\ op[q] = "post" /\ "write" \in can[q]
  /\ \E p \in Policy : /\ "read" \in p[user[q]]
                       /\ draft' = [draft EXCEPT ![q] = p]
  /\ rego' = [rego EXCEPT ![target[q]] = Empty]
  /\ linked' = [linked EXCEPT ![q] = TRUE]
  /\ Disturb(q)
  /\ Goto(q, "write")
  /\ UNCHANGED <<job, at, can, guarded, found>>

\* The policy must let its sender read and write.
Create(q) ==
  /\ stage[q] = "decided" /\ op[q] = "post" /\ "write" \in can[q]
  /\ \E p \in Policy : /\ p[user[q]] = Right
                       /\ draft' = [draft EXCEPT ![q] = p]
  /\ rego' = [rego EXCEPT ![target[q]] = Empty]
  /\ linked' = [linked EXCEPT ![q] = TRUE]
  /\ Disturb(q)
  /\ Goto(q, "write")
  /\ UNCHANGED <<job, at, can, guarded, found>>

\* The file may have been removed, or written by another upload that has it
\* open, since it was truncated.
Write(q) ==
  /\ stage[q] = "write"
  /\ IF ~linked[q] THEN UNCHANGED <<rego, calm>>
     ELSE /\ \E new \in {draft[q], Garbage} :
               /\ rego[target[q]] = Empty => new = draft[q]
               /\ rego' = [rego EXCEPT ![target[q]] = new]
          /\ Disturb(q)
  /\ Goto(q, "ok")
  /\ UNCHANGED <<job, draft, at, can, guarded, linked, found>>

\* The disk is full, after nothing or a part of it.
Filled(q) ==
  /\ stage[q] = "write"
  /\ \/ UNCHANGED <<rego, calm>>
     \/ /\ linked[q]
        /\ rego' = [rego EXCEPT ![target[q]] = Garbage]
        /\ Disturb(q)
  /\ UNCHANGED <<job, draft, at, can, guarded, linked, found>>

\* Mutant: nobody looks at what io.Copy returned.
WriteFailsQuietly(q) == Filled(q) /\ Goto(q, "ok")
WriteFails(q)        == Filled(q) /\ Goto(q, "error")

-----------------------------------------------------------------------------
(* DELETE: deleteHandler.                                                  *)

\* GetAttrs of the directory the policy is in, from that directory's policy on.
Guard(q) ==
  /\ stage[q] = "decided" /\ op[q] = "delete" /\ ~guarded[q] /\ "write" \in can[q]
  /\ guarded' = [guarded EXCEPT ![q] = TRUE]
  /\ at' = [at EXCEPT ![q] = [dir |-> In(target[q]), slash |-> TRUE, file |-> None]]
  /\ Goto(q, "look")
  /\ UNCHANGED <<rego, job, draft, can, linked, found, calm>>

\* Mutant: the second lookup's answer is not looked at.
GoneUnasked(q) ==
  /\ stage[q] = "decided" /\ guarded[q]
  /\ Goto(q, IF rego[target[q]] = None THEN "ok" ELSE "remove")
  /\ UNCHANGED <<rego, job, draft, at, can, guarded, linked, found, calm>>

\* "If it's gone, then it's deleted."
Gone(q) ==
  /\ stage[q] = "decided" /\ guarded[q] /\ can[q] = Right
  /\ Goto(q, IF rego[target[q]] = None THEN "ok" ELSE "remove")
  /\ UNCHANGED <<rego, job, draft, at, can, guarded, linked, found, calm>>

Remove(q) ==
  /\ stage[q] = "remove" /\ rego[target[q]] # None
  /\ rego' = [rego EXCEPT ![target[q]] = None]
  /\ linked' = [r \in Request |-> linked[r] /\ target[r] # target[q]]
  /\ Disturb(q)
  /\ Goto(q, "ok")
  /\ UNCHANGED <<job, draft, at, can, guarded, found>>

\* Another delete came first.
RemoveFails(q) ==
  /\ stage[q] = "remove" /\ rego[target[q]] = None
  /\ Goto(q, "error")
  /\ UNCHANGED <<rego, job, draft, at, can, guarded, linked, found, calm>>

\* A lookup or a guard says no.
Refuse(q) ==
  /\ stage[q] = "decided"
  /\ \/ op[q] = "post"
     \/ op[q] = "delete" /\ ~guarded[q] /\ "write" \notin can[q]
     \/ guarded[q] /\ can[q] # Right
  /\ Goto(q, "error")
  /\ UNCHANGED <<rego, job, draft, at, can, guarded, linked, found, calm>>

-----------------------------------------------------------------------------
(* GET: handleFiles, which goes up the tree for a policy that is not there *)
(* after it has told the user's rights in the headers.                     *)

\* Mutant: the policy a file has for itself is passed over.
FetchDirOnly(q) ==
  /\ stage[q] = "decided" /\ op[q] = "get"
  /\ at' = [at EXCEPT ![q] = [dir |-> In(target[q]), slash |-> TRUE, file |-> None]]
  /\ Goto(q, "fetch")
  /\ UNCHANGED <<rego, job, draft, can, guarded, linked, found, calm>>

Fetch(q) ==
  /\ stage[q] = "decided" /\ op[q] = "get"
  /\ at' = [at EXCEPT ![q] = [dir |-> In(target[q]), slash |-> TRUE,
                              file |-> IF target[q] \in Dir THEN None ELSE target[q]]]
  /\ Goto(q, "fetch")
  /\ UNCHANGED <<rego, job, draft, can, guarded, linked, found, calm>>

FetchMeets(q) ==
  /\ stage[q] = "fetch"
  /\ Met(at[q])
  /\ found' = [found EXCEPT ![q] = Named(at[q])]
  /\ Goto(q, "serve")
  /\ UNCHANGED <<rego, job, draft, at, can, guarded, linked, calm>>

\* The loop tests for the root after it has gone up.
FetchedOut(q) == AtTop(at[q]) /\ In(target[q]) # Root

FetchUp(q) ==
  /\ stage[q] = "fetch"
  /\ ~Met(at[q]) /\ ~FetchedOut(q)
  /\ at' = [at EXCEPT ![q] = Up(@)]
  /\ UNCHANGED <<rego, stage, job, draft, can, guarded, linked, found, calm>>

FetchEnds(q) ==
  /\ stage[q] = "fetch"
  /\ ~Met(at[q]) /\ FetchedOut(q)
  /\ Goto(q, "error")
  /\ UNCHANGED <<rego, job, draft, at, can, guarded, linked, found, calm>>

Serve(q) ==
  /\ stage[q] = "serve"
  /\ Goto(q, IF rego[found[q]] = None THEN "error" ELSE "ok")
  /\ UNCHANGED <<rego, job, draft, at, can, guarded, linked, found, calm>>

-----------------------------------------------------------------------------

Crash ==
  /\ \E q \in Request : stage[q] \in Active
  /\ stage' = [q \in Request |-> IF stage[q] \in Active THEN "lost" ELSE stage[q]]
  /\ UNCHANGED <<rego, job, draft, at, can, guarded, linked, found, calm>>

Step(q) ==
  \/ LookMeets(q) \/ LookUp(q) \/ LookEnds(q) \/ Read(q) \/ ReadPanics(q)
  \/ Create(q) \/ Write(q) \/ WriteFails(q)
  \/ Guard(q) \/ Gone(q) \/ Remove(q) \/ RemoveFails(q) \/ Refuse(q)
  \/ Fetch(q) \/ FetchMeets(q) \/ FetchUp(q) \/ FetchEnds(q) \/ Serve(q)

Next == Crash \/ \E q \in Request : Begin(q) \/ Step(q)

Spec == Init /\ [][Next]_vars

\* A request that has begun runs on.
FairSpec == Spec /\ \A q \in Request : WF_vars(Step(q))

-----------------------------------------------------------------------------
(* What governs a file: the nearest policy that encloses it.               *)

Enclosing(d) == {e \in Ancestors[d] : rego[e] # None}

\* The directory policy nearest to d, None if there is none.
NearestOf(d) ==
  IF Enclosing(d) = {} THEN None
  ELSE CHOOSE e \in Enclosing(d) : Enclosing(d) \subseteq Ancestors[e]

Governor(f) == IF rego[f] # None THEN f ELSE NearestOf(f.dir)

\* What the policy at a place grants a user.
Grants(p, u) == IF p = None \/ rego[p] \notin Policy THEN {} ELSE rego[p][u]

\* A lookup that nobody disturbs finds the rights that the nearest enclosing
\* policy grants: "the first one found is used to set them all" (attrs.go:13-57).
NearestUsed ==
  \A q \in Request :
    stage[q] = "decided" /\ calm[q] /\ op[q] # "delete"
      => can[q] = Grants(Governor(Subject(target[q])), user[q])

\* "Permissions in rego files apply to all the directories inside" (README), for a
\* delete as for the rest.  The delete's lookup starts without the slash that the
\* walk counts on.
DeleteAsksNearest ==
  \A q \in Request :
    stage[q] = "decided" /\ calm[q] /\ op[q] = "delete" /\ ~guarded[q]
      => can[q] = Grants(Governor(Subject(target[q])), user[q])

\* "Reject requests that would get this user stuck in fixing it": whoever has had
\* a policy accepted can upload it again, until somebody else changes a policy
\* (post.go:113-126).
PosterCanRepair ==
  \A q \in Request :
    stage[q] = "ok" /\ op[q] = "post" /\ calm[q]
      => "write" \in Grants(Governor(Subject(target[q])), user[q])

\* Whoever has had a delete of a policy accepted may still write in its directory,
\* and so upload another: what the first lookup of a delete passes over by mistake
\* (DeleteAsksNearest) is the policy that goes, and what it passes over besides, the
\* guard looks at (delete.go:13-36).
DeleterCanRepair ==
  \A q \in Request :
    stage[q] = "ok" /\ op[q] = "delete" /\ calm[q]
      => "write" \in Grants(NearestOf(In(target[q])), user[q])

\* "If this would break our access, then don't allow it": whoever has had a delete
\* of a policy accepted may still read and write in its directory (delete.go:23).
DeleterKeepsAccess ==
  \A q \in Request :
    stage[q] = "ok" /\ op[q] = "delete" /\ calm[q]
      => Grants(NearestOf(In(target[q])), user[q]) = Right

\* A GET of a policy that is not there serves the one that governs in its place
\* (get.go:257-280).
FetchFindsGovernor ==
  \A q \in Request :
    stage[q] = "ok" /\ op[q] = "get" /\ calm[q]
      => found[q] = IF target[q] \in Dir THEN NearestOf(target[q])
                    ELSE Governor(target[q])

\* A policy that does not parse, and so panics whoever looks it up, is what an
\* upload that did not end well, or that ran beside another, left: one at a time
\* and to their end, uploads leave policies whole (post.go:342-358).
TornByFailure ==
  \A p \in Place : rego[p] \in {Empty, Garbage} =>
    \E q \in Request : target[q] = p /\ linked[q] /\ (stage[q] # "ok" \/ ~calm[q])

\* Every request is answered, however often others change the policies under its walk,
\* but for two that get past the root, where nothing ends them: a GET of a policy of
\* the root, or of a file in it, when neither is there (get.go:269-277), and a DELETE
\* in the root (attrs.go:47-54).
Answered ==
  \A q \in Request :
    stage[q] # "new" ~> \/ stage[q] \in Ended
                        \/ at[q].dir = Above /\ In(target[q]) = Root /\ op[q] # "post"
=============================================================================
