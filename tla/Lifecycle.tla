----------------------------- MODULE Lifecycle -----------------------------
(***************************************************************************)
(* The server process and what it keeps in memory of files that others     *)
(* change: TheConfig, which a goroutine reloads when config.json has       *)
(* changed, and a template, which an upload recompiles.  The template is   *)
(* the one that users' home policies are made from on their first visit,   *)
(* so that visits and uploads meet in it.                                  *)
(*                                                                         *)
(* An uploaded text is stored by the handler of uploads, as a home policy  *)
(* is; who may upload is decided elsewhere (Access).                       *)
(***************************************************************************)
EXTENDS Naturals

CONSTANTS
  Request,   \* each served once
  User,      \* those a configuration may know, by their secret
  Config,    \* what config.json may say: the users it knows
  Text,      \* what may be uploaded as the template
  Parsable,  \* the texts that are templates
  LetsIn,    \* those that give a policy by which its user may read and write
  Default,   \* the template's file, defaultPermissions.rego.templ
  MaxEdits,  \* bound on the edits of config.json
  None, Empty, Garbage
    \* nothing; a file just truncated; one that two uploads wrote over

Place == User \cup {Default}

ASSUME LifecycleAssumption ==
  /\ Config \subseteq SUBSET User
  /\ LetsIn \subseteq Parsable /\ LetsIn \subseteq Text
  /\ Parsable \subseteq Text \cup {Empty} /\ Empty \in Parsable
  /\ MaxEdits \in Nat
  /\ Default \notin User
  /\ {None, Empty, Garbage} \cap (Text \cup Config) = {}
  /\ None # Empty /\ None # Garbage /\ Empty # Garbage

VARIABLES
  up,        \* the process: "down", "starting", "serving"
  file,      \* config.json, Garbage when it does not parse
  past,      \* history: what it has said before since the process began
  edits,     \* how often it was edited
  config,    \* TheConfig
  hash,      \* the configuration whose hash is lastHash
  tested,    \* what the loader has just parsed and found changed
  disk,      \* the template and the users' home policies
  compiled,  \* compiledDefaultPermissionsTemplate
  stage,     \* what each request does next
  place,     \* the user who visits, or Default: an upload of the template
  draft,     \* what the request is to store
  opened,    \* it has created its file
  got        \* what it has read back to compile

loader   == <<config, hash, tested>>
request  == <<stage, place, draft, opened, got>>
editing  == <<file, past, edits>>
vars     == <<up, editing, loader, disk, compiled, request>>

Ended  == {"ok", "error", "lost"}
Active == {"find", "make", "create", "write", "compile", "assign"}

\* The types of the variables: in particular what is compiled parses, and the
\* texts kept on disk are texts that some upload or template gave.
TypeOK ==
  /\ up \in {"down", "starting", "serving"}
  /\ file \in Config \cup {Garbage}
  /\ past \subseteq Config
  /\ edits \in 0..MaxEdits
  /\ config \in Config \cup {None}
  /\ hash \in Config \cup {None}
  /\ tested \in Config \cup {None}
  /\ disk \in [Place -> Text \cup {None, Empty, Garbage}]
  /\ compiled \in Parsable \cup {None}
  /\ stage \in [Request -> {"new"} \cup Active \cup Ended]
  /\ place \in [Request -> Place]
  /\ draft \in [Request -> Text \cup {None}]
  /\ opened \in [Request -> BOOLEAN]
  /\ got \in [Request -> Parsable \cup {None}]

\* The image comes with a template, and nobody has visited.
Init ==
  /\ up = "starting"
  /\ file \in Config
  /\ past = {}
  /\ edits = 0
  /\ config = None /\ hash = None /\ tested = None
  /\ \E t \in LetsIn : disk = [p \in Place |-> IF p = Default THEN t ELSE None]
  /\ compiled = None
  /\ stage = [q \in Request |-> "new"]
  /\ place \in [Request -> Place]
  /\ draft \in [Request -> Text \cup {None}]
  /\ \A q \in Request : draft[q] = None <=> place[q] # Default
  /\ opened = [q \in Request |-> FALSE]
  /\ got = [q \in Request |-> None]

Goto(q, s) == stage' = [stage EXCEPT ![q] = s]

-----------------------------------------------------------------------------
(* The process.                                                            *)

\* Memory goes, files stay.
Die ==
  /\ up' = "down"
  /\ config' = None /\ hash' = None /\ tested' = None /\ compiled' = None
  /\ past' = {}
  /\ stage' = [q \in Request |-> IF stage[q] \in Active THEN "lost" ELSE stage[q]]
  /\ got' = [q \in Request |-> None]
  /\ UNCHANGED <<file, edits, disk, place, draft, opened>>

Crash == up # "down" /\ Die

Boot ==
  /\ up = "down"
  /\ up' = "starting"
  /\ UNCHANGED <<editing, loader, disk, compiled, request>>

\* TemplatesInit, which panics on a text that does not parse, and Setup.
Listen ==
  /\ up = "starting" /\ disk[Default] \in Parsable
  /\ up' = "serving"
  /\ compiled' = disk[Default]
  /\ UNCHANGED <<editing, loader, disk, request>>

StartFails == up = "starting" /\ disk[Default] \notin Parsable /\ Die

-----------------------------------------------------------------------------
(* config.json: whoever edits it, loadUsers and LoadConfig.                *)

\* Garbage: in the middle of an edit, or by mistake.
Edit ==
  /\ edits < MaxEdits
  /\ \E f \in Config \cup {Garbage} : f # file /\ file' = f
  /\ past' = past \cup ({file} \ {Garbage})
  /\ edits' = edits + 1
  /\ UNCHANGED <<up, loader, disk, compiled, request>>

\* Every five seconds: read, parse, compare.
Test ==
  /\ up # "down" /\ tested = None
  /\ file \in Config \ {hash}
  /\ tested' = file
  /\ UNCHANGED <<up, editing, config, hash, disk, compiled, request>>

\* Mutant: the hash is of what is read now, what is loaded of what was tested.
LoadTested ==
  /\ tested # None /\ file \in Config
  /\ config' = tested
  /\ hash' = file
  /\ tested' = None
  /\ UNCHANGED <<up, editing, disk, compiled, request>>

\* LoadConfig reads the file again; the hash is that of what was tested.
Load ==
  /\ tested # None /\ file \in Config
  /\ config' = file
  /\ hash' = tested
  /\ tested' = None
  /\ UNCHANGED <<up, editing, disk, compiled, request>>

\* CheckErr panics, outside of any handler.
LoadPanics == tested # None /\ file \notin Config /\ Die

-----------------------------------------------------------------------------
(* Requests: getHandler and ensureThatHomeDirExists for a visit,           *)
(* postFileHandler and recompileTemplates for an upload.                   *)

\* GetUser: a cookie is looked up in TheConfig, which may not be there yet.
Arrive(q) ==
  /\ up = "serving" /\ stage[q] = "new"
  /\ \/ config = None /\ Goto(q, "lost")
     \/ config # None /\ place[q] = Default /\ Goto(q, "create")
     \/ config # None /\ place[q] \in config /\ Goto(q, "find")
     \/ config # None /\ place[q] \notin config \cup {Default} /\ Goto(q, "ok")
  /\ UNCHANGED <<up, editing, loader, disk, compiled, place, draft, opened, got>>

FindHome(q) ==
  /\ stage[q] = "find"
  /\ Goto(q, IF disk[place[q]] = None THEN "make" ELSE "ok")
  /\ UNCHANGED <<up, editing, loader, disk, compiled, place, draft, opened, got>>

\* Mutant: what the template gives is not looked at.
DraftAny(q) ==
  /\ stage[q] = "make" /\ compiled \in Text
  /\ draft' = [draft EXCEPT ![q] = compiled]
  /\ Goto(q, "create")
  /\ UNCHANGED <<up, editing, loader, disk, compiled, place, opened, got>>

\* detectNewUser executes the template, badUploadPermissions evaluates the result.
Draft(q) ==
  /\ stage[q] = "make" /\ compiled \in LetsIn
  /\ draft' = [draft EXCEPT ![q] = compiled]
  /\ Goto(q, "create")
  /\ UNCHANGED <<up, editing, loader, disk, compiled, place, opened, got>>

\* What it gives is no policy or shuts the user out; or it lacks a field, or has one
\* of another type, and the handler panics (CalculateRego).
DraftFails(q) ==
  /\ stage[q] = "make" /\ compiled \notin LetsIn
  /\ \E s \in {"error", "lost"} : Goto(q, s)
  /\ UNCHANGED <<up, editing, loader, disk, compiled, place, draft, opened, got>>

\* It cannot be executed, and the goroutine that tries panics, outside of any handler.
ExecutePanics(q) ==
  stage[q] = "make" /\ compiled \notin LetsIn \cup {Empty} /\ Die

Create(q) ==
  /\ stage[q] = "create"
  /\ disk' = [disk EXCEPT ![place[q]] = Empty]
  /\ opened' = [opened EXCEPT ![q] = TRUE]
  /\ Goto(q, "write")
  /\ UNCHANGED <<up, editing, loader, compiled, place, draft, got>>

\* What is stored is indexed, or not: the last thing that may go wrong.
Indexed(q) == \E s \in {"ok", "error"} : Goto(q, s)

\* What another request that has the file open wrote may stick out behind.
Write(q) ==
  /\ stage[q] = "write"
  /\ \E new \in {draft[q], Garbage} :
       /\ disk[place[q]] \in {Empty, draft[q]} => new = draft[q]
       /\ disk' = [disk EXCEPT ![place[q]] = new]
  /\ IF place[q] = Default THEN Goto(q, "compile")
     ELSE Indexed(q)
  /\ UNCHANGED <<up, editing, loader, compiled, place, draft, opened, got>>

\* The disk is full, after nothing or a part of it.
Filled(q) ==
  /\ stage[q] = "write"
  /\ \E new \in {disk[place[q]], Garbage} : disk' = [disk EXCEPT ![place[q]] = new]
  /\ UNCHANGED <<up, editing, loader, compiled, place, draft, opened, got>>

\* Mutant: nobody looks at what io.Copy returned.
WriteFailsQuietly(q) == Filled(q) /\ Goto(q, "ok")
WriteFails(q)        == Filled(q) /\ Goto(q, "error")

\* Mutant: a text that does not parse is passed over.
CompileQuietly(q) ==
  /\ stage[q] = "compile"
  /\ got' = [got EXCEPT ![q] = IF disk[Default] \in Parsable THEN disk[Default] ELSE None]
  /\ Goto(q, IF disk[Default] \in Parsable THEN "assign" ELSE "ok")
  /\ UNCHANGED <<up, editing, loader, disk, compiled, place, draft, opened>>

\* Mutant: whatever is read back is used.
CompileAny(q) ==
  /\ stage[q] = "compile"
  /\ got' = [got EXCEPT ![q] = disk[Default]]
  /\ Goto(q, "assign")
  /\ UNCHANGED <<up, editing, loader, disk, compiled, place, draft, opened>>

\* compileTemplate reads the file back and panics if it does not parse.
Compile(q) ==
  /\ stage[q] = "compile"
  /\ got' = [got EXCEPT ![q] = IF disk[Default] \in Parsable THEN disk[Default] ELSE None]
  /\ Goto(q, IF disk[Default] \in Parsable THEN "assign" ELSE "lost")
  /\ UNCHANGED <<up, editing, loader, disk, compiled, place, draft, opened>>

Assign(q) ==
  /\ stage[q] = "assign"
  /\ compiled' = got[q]
  /\ got' = [got EXCEPT ![q] = None]
  /\ Indexed(q)
  /\ UNCHANGED <<up, editing, loader, disk, place, draft, opened>>

-----------------------------------------------------------------------------

Step(q) ==
  \/ FindHome(q) \/ Draft(q) \/ DraftFails(q) \/ ExecutePanics(q)
  \/ Create(q) \/ Write(q) \/ WriteFails(q) \/ Compile(q) \/ Assign(q)

LoadUsers == Test \/ Load \/ LoadPanics

Next ==
  \/ Crash \/ Boot \/ Listen \/ StartFails \/ Edit \/ LoadUsers
  \/ \E q \in Request : Arrive(q) \/ Step(q)

Spec == Init /\ [][Next]_vars

\* The loader loops, and an accepted request runs on.
FairSpec == Spec /\ WF_vars(LoadUsers) /\ \A q \in Request : WF_vars(Step(q))

-----------------------------------------------------------------------------

\* The server can be started again after any uploads of the template that were
\* answered well: a text it would panic on at start-up (templates.go:16) is left
\* only by an upload that is not over, or was not answered well.
StartsAgain ==
  disk[Default] \notin Parsable =>
    \E q \in Request : place[q] = Default /\ opened[q] /\ stage[q] # "ok"

\* A home policy, once whole, lets its user in, whatever became of the template
\* between compiling, executing and storing: it was evaluated before it was stored
\* (toplevel.go:52-86, post.go:360-385).
HomeLetsIn == \A u \in User : disk[u] \in Text => disk[u] \in LetsIn

\* Two first visits of one user may write the same file at once.  A home policy is
\* torn only when one was cut short, or when an upload of the template came between
\* the two (toplevel.go:59-70).
HomeTorn ==
  \A u \in User : disk[u] \in {Empty, Garbage} =>
    \E q \in Request :
      /\ place[q] = u /\ opened[q]
      /\ \/ stage[q] # "ok"
         \/ \E r \in Request : place[r] = u /\ opened[r] /\ draft[r] # draft[q]

\* When the loader takes config.json for loaded, because its hash is the last one,
\* it is what was loaded, although it was read twice: only a text that comes back
\* after another can deceive it (main.go:18-44).
KnowsWhatItLoaded ==
  tested = None /\ hash = file /\ file \notin past => config = file

\* "The user database, which hot-reloads" (docker-compose.yaml): what config.json
\* says in the end is what the server goes by.
HotReloads ==
  \A c \in Config : <>[](up = "serving" /\ file = c) => <>[](config = c)

\* "Make sure that these are re-compiled on upload": when no upload is under way and
\* all of them were answered well, the template in use is the one on disk
\* (post.go:122).
Recompiled ==
  up = "serving" /\ (\A q \in Request : place[q] = Default => stage[q] \in {"new", "ok"})
    => compiled = disk[Default]
=============================================================================
