----------------------------- MODULE Repositories -----------------------------
(***************************************************************************)
(* The life of a repository under one slug: RepositoriesService.create and *)
(* remove, the directory that svnadmin makes, and the hooks in it that     *)
(* HooksService writes (HooksService also runs at the start of the API).   *)
(*                                                                         *)
(* The row in the database and the directory on disk change in separate    *)
(* steps of requests that run side by side; nothing is undone when a later *)
(* step fails.  That svnadmin refuses a directory with something in it is  *)
(* all that keeps two creations of one slug apart.                         *)
(***************************************************************************)
EXTENDS Naturals, FiniteSets

CONSTANTS
  Clients,   \* requests in flight
  MaxIds,    \* bound: repositories created under the slug
  MaxFaults  \* bound: crashes and failing commands

ASSUME RepositoriesAssumption == MaxIds \in Nat /\ MaxFaults \in Nat

VARIABLES
  row,     \* the id of the Repository row with this slug, or None
  ids,     \* ids given out: each row has one of its own
  dir,     \* what is in the directory of the slug
  hook,    \* the repository the hooks in the directory report to, or None
  owner,   \* the row has its OWNER
  indexed, \* revision 1 of the row is indexed
  call,    \* call[c]: the step of the request in flight, and the id it works for
  faults,
  overlap  \* history: a removal has run beside the creation of what it removes

files == <<dir, hook>>
vars == <<row, ids, dir, hook, owner, indexed, call, faults, overlap>>

None == 0
\* "empty" is a directory in the middle of its removal; "hooks" one with hooks alone.
Dirs == {"absent", "empty", "hooks", "bare", "layout"}
Steps == {"idle", "create", "mkdir", "insert", "hooks", "owner", "index", "clear", "rmdir"}
Idle == [step |-> "idle", id |-> None]

Init ==
  /\ row = None /\ ids = 0
  /\ dir = "absent" /\ hook = None
  /\ owner = FALSE /\ indexed = FALSE
  /\ call = [c \in Clients |-> Idle]
  /\ faults = 0
  /\ overlap = FALSE

At(c, s) == call[c].step = s
GoTo(c, s) == call' = [call EXCEPT ![c].step = s]
Finish(c) == call' = [call EXCEPT ![c] = Idle]
Fault == faults < MaxFaults /\ faults' = faults + 1

-----------------------------------------------------------------------------
(***************************************************************************)
(* RepositoriesService.create.                                             *)
(***************************************************************************)

\* create: neither slug nor name is taken.
Create(c) ==
  /\ At(c, "idle")
  /\ row = None
  /\ GoTo(c, "create")
  /\ UNCHANGED <<row, ids, files, owner, indexed, faults, overlap>>

\* A plausible slip: any directory will do, as with mkdir -p.
SvnAdminCreateAnyway(c) ==
  /\ At(c, "create")
  /\ dir' = "bare" /\ hook' = None
  /\ GoTo(c, "mkdir")
  /\ UNCHANGED <<row, ids, owner, indexed, faults, overlap>>

\* createRepository: svnadmin create, which refuses a directory that is not empty.
SvnAdminCreate(c) ==
  /\ At(c, "create")
  /\ IF dir \in {"absent", "empty"}
     THEN dir' = "bare" /\ hook' = None /\ GoTo(c, "mkdir")
     ELSE Finish(c) /\ UNCHANGED files
  /\ UNCHANGED <<row, ids, owner, indexed, faults, overlap>>

\* createRepository: svn mkdir of trunk, branches and tags is revision 1.
SvnMkdir(c) ==
  /\ At(c, "mkdir")
  /\ IF dir = "bare"
     THEN dir' = "layout" /\ GoTo(c, "insert")
     ELSE Finish(c) /\ UNCHANGED dir
  /\ UNCHANGED <<row, ids, hook, owner, indexed, faults, overlap>>

\* create: the row; the unique slug refuses a second one.
InsertRow(c) ==
  /\ At(c, "insert")
  /\ \/ /\ row = None
        /\ ids < MaxIds
        /\ ids' = ids + 1
        /\ row' = ids'
        /\ owner' = FALSE /\ indexed' = FALSE
        /\ call' = [call EXCEPT ![c] = [step |-> "hooks", id |-> ids']]
     \/ /\ row # None
        /\ Finish(c)
        /\ UNCHANGED <<row, ids, owner, indexed>>
  /\ UNCHANGED <<files, faults, overlap>>

\* installHooks: mkdir -p makes the directory again if it is gone.
InstallHooks(c) ==
  /\ At(c, "hooks")
  /\ hook' = call[c].id
  /\ dir' = IF dir \in {"absent", "empty"} THEN "hooks" ELSE dir
  /\ GoTo(c, "owner")
  /\ UNCHANGED <<row, ids, owner, indexed, faults, overlap>>

\* create: the creator becomes OWNER; without its row the foreign key refuses it.
MakeOwner(c) ==
  /\ At(c, "owner")
  /\ IF row = call[c].id
     THEN owner' = TRUE /\ GoTo(c, "index")
     ELSE Finish(c) /\ UNCHANGED owner
  /\ UNCHANGED <<row, ids, files, indexed, faults, overlap>>

\* create: revision 1 is indexed.  The rebuild of authz that follows is in AuthzSync.
IndexFirst(c) ==
  /\ At(c, "index")
  /\ indexed' = (indexed \/ (row = call[c].id /\ dir = "layout"))
  /\ Finish(c)
  /\ UNCHANGED <<row, ids, files, owner, faults, overlap>>

-----------------------------------------------------------------------------
(***************************************************************************)
(* RepositoriesService.remove.                                             *)
(***************************************************************************)

Creating(id) == \E c \in Clients : call[c].id = id /\ call[c].step \in {"hooks", "owner", "index"}

\* A plausible slip: the directory goes first.
RemoveFilesFirst(c) ==
  /\ At(c, "idle")
  /\ row # None
  /\ overlap' = (overlap \/ Creating(row))
  /\ dir' = "absent" /\ hook' = None
  /\ GoTo(c, "clear")
  /\ UNCHANGED <<row, ids, owner, indexed, faults>>

\* remove: the row, with all that hangs on it.  Two removals cannot both delete it.
RemoveRow(c) ==
  /\ At(c, "idle")
  /\ row # None
  /\ overlap' = (overlap \/ Creating(row))
  /\ row' = None
  /\ owner' = FALSE /\ indexed' = FALSE
  /\ GoTo(c, "clear")
  /\ UNCHANGED <<ids, files, faults>>

\* deleteRepository: rm -r empties the directory and then removes it,
RemoveContents(c) ==
  /\ At(c, "clear")
  /\ dir' = IF dir = "absent" THEN "absent" ELSE "empty"
  /\ hook' = None
  /\ GoTo(c, "rmdir")
  /\ UNCHANGED <<row, ids, owner, indexed, faults, overlap>>

\* unless something has been put into it meanwhile.
RemoveDirectory(c) ==
  /\ At(c, "rmdir")
  /\ dir' = IF dir = "empty" THEN "absent" ELSE dir
  /\ Finish(c)
  /\ UNCHANGED <<row, ids, hook, owner, indexed, faults, overlap>>

-----------------------------------------------------------------------------
(***************************************************************************)
(* Failures, and the start of the API.                                     *)
(***************************************************************************)

\* A command or a query fails: the request is answered with an error where it stands.
Fails(c) ==
  /\ ~At(c, "idle")
  /\ Fault
  /\ Finish(c)
  /\ UNCHANGED <<row, ids, files, owner, indexed, overlap>>

\* The API stops and starts: every request in flight is gone, and onModuleInit of
\* HooksService (production only) writes the hooks of every repository again.
RestartApi ==
  /\ Fault
  /\ call' = [c \in Clients |-> Idle]
  /\ hook' \in {hook, IF row # None THEN row ELSE hook}
  /\ UNCHANGED <<row, ids, dir, owner, indexed, overlap>>

Next ==
  \/ \E c \in Clients :
       \/ Create(c) \/ SvnAdminCreate(c) \/ SvnMkdir(c) \/ InsertRow(c)
       \/ InstallHooks(c) \/ MakeOwner(c) \/ IndexFirst(c)
       \/ RemoveRow(c) \/ RemoveContents(c) \/ RemoveDirectory(c)
       \/ Fails(c)
  \/ RestartApi

Spec == Init /\ [][Next]_vars

-----------------------------------------------------------------------------

TypeOK ==
  /\ row \in Nat /\ ids \in Nat /\ row <= ids
  /\ dir \in Dirs /\ hook \in Nat
  /\ owner \in BOOLEAN /\ indexed \in BOOLEAN /\ overlap \in BOOLEAN
  /\ call \in [Clients -> [step : Steps, id : Nat]]
  /\ faults \in Nat

\* Every repository of the database has its directory, with the layout in it, whatever
\* creations and removals of the same slug run side by side and fail where they like.
RowHasDirectory == row # None => dir = "layout"

\* Unless something failed or a removal ran beside the creation of what it removes, a
\* slug at rest is whole or free: either row, layout, hooks that report to this very row,
\* OWNER and revision 1 are all there, or nothing is and the name can be created again.
QuietIsWhole ==
  faults = 0 /\ ~overlap /\ (\A c \in Clients : At(c, "idle")) =>
    \/ row # None /\ dir = "layout" /\ hook = row /\ owner /\ indexed
    \/ row = None /\ dir = "absent" /\ hook = None

=============================================================================
