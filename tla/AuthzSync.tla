------------------------------ MODULE AuthzSync ------------------------------
(***************************************************************************)
(* The authz file of Apache and the database rows it is compiled from:     *)
(* AuthzService.rebuildAll and the operations of teams, permissions,       *)
(* repositories and users that change those rows.                          *)
(*                                                                         *)
(* An operation writes its rows and then awaits rebuildAll, which reads    *)
(* the groups, the repositories and the administrators by one query after  *)
(* the other, inside the process-wide mutex, and replaces the file by a    *)
(* rename.  Rows are abstracted to version numbers: every write raises the *)
(* version of what it changes, and the file holds the versions it was      *)
(* compiled from.  `uses` is the version of the groups that the team links *)
(* of the repositories refer to, by the names their teams have: a file     *)
(* with older groups names a group it does not define.                     *)
(***************************************************************************)
EXTENDS Mutex

CONSTANTS
  Boot,        \* the caller that stands for onModuleInit
  MaxChanges,  \* bound: writes in a behaviour
  MaxFaults    \* bound: failures and crashes in a behaviour

ASSUME AuthzAssumption ==
  /\ Boot \in Callers
  /\ MaxChanges \in Nat
  /\ MaxFaults \in Nat

VARIABLES
  db,       \* the versions in the database
  tmp,      \* svn-authz.tmp
  file,     \* svn-authz, what Apache reads
  op,       \* op[c]: the operation in flight: its step, what it wrote, what it has read
  up,       \* the API serves requests
  promised, \* history: the versions that answered operations have promised
  changes,  \* writes so far
  faults    \* faults so far

store == <<db, changes>>
disk == <<tmp, file>>
vars == <<mutexVars, store, disk, op, up, promised, faults>>

Requests == Callers \ {Boot}
Parts == {"groups", "repos", "uses", "admins"}
Versions == [Parts -> Nat]
Zero == [x \in Parts |-> 0]
AtMost(v, w) == \A x \in Parts : v[x] <= w[x]

Steps == {"idle", "disband", "call", "groups", "repos", "admins", "open", "write",
          "rename", "chown"}
\* A file that is missing or not completely written.
Torn == [whole |-> FALSE, has |-> Zero]
IdleOp == [step |-> "idle", wrote |-> Zero, got |-> Zero]

Init ==
  /\ MutexInit
  /\ db = Zero
  /\ tmp = Torn
  /\ file = [whole |-> TRUE, has |-> Zero]
  /\ op = [c \in Callers |-> IdleOp]
  /\ up = TRUE
  /\ promised = Zero
  /\ changes = 0
  /\ faults = 0

At(c, s) == op[c].step = s
GoTo(c, s) == op' = [op EXCEPT ![c].step = s]

-----------------------------------------------------------------------------
(***************************************************************************)
(* The writes.                                                             *)
(***************************************************************************)

Bump(parts) == [x \in Parts |-> IF x \in parts THEN db[x] + 1 ELSE db[x]]

\* A write of request c, after which it stands at step s.
Write(c, new, s) ==
  /\ db' = new
  /\ op' = [op EXCEPT ![c] = [IdleOp EXCEPT !.step = s, !.wrote = new]]
  /\ UNCHANGED <<mutexVars, disk, up, promised, faults>>

\* The first write of an operation.
Begin(c, new, s) ==
  /\ up
  /\ At(c, "idle")
  /\ changes < MaxChanges
  /\ changes' = changes + 1
  /\ Write(c, new, s)

\* TeamsService: create, updateBySlug, addMember, removeMember.
ChangeTeam(c) == Begin(c, Bump({"groups"}), "call")

\* updateBySlug, when it renames a team that repositories are linked to: their rules
\* name the group by its new name from now on.
RenameTeam(c) ==
  Begin(c, [Bump({"groups", "repos"}) EXCEPT !["uses"] = db["groups"] + 1], "call")

\* PermissionsService: members and path permissions; RepositoriesService.create;
\* TeamsService: updateRepoTeam, unlinkRepoTeam.
ChangeAccess(c) == Begin(c, Bump({"repos"}), "call")

\* A plausible slip: the link is answered without a rebuild.
LinkTeamOnly(c) == Begin(c, [Bump({"repos"}) EXCEPT !["uses"] = db["groups"]], "idle")

\* TeamsService.linkRepoTeam: a repository refers to a team that exists by now.
LinkTeam(c) == Begin(c, [Bump({"repos"}) EXCEPT !["uses"] = db["groups"]], "call")

\* TeamsService.deleteBySlug: the path permissions of the team, and then the team
\* with its members and its links to repositories.
DisbandPermissions(c) == Begin(c, Bump({"repos"}), "disband")
DisbandTeam(c) ==
  At(c, "disband") /\ Write(c, Bump({"groups", "repos"}), "call") /\ UNCHANGED changes

\* UsersService.updateAdmin: a deactivation changes no row that compileAll reads,
\* but it rebuilds the file, and isAdmin may change with it.
Deactivate(c) ==
  \E parts \in SUBSET {"admins"} : Begin(c, Bump(parts), "call")

\* UsersService: isAdmin alone changes.  The request answers without a rebuild.
ChangeAdmin(c) == Begin(c, Bump({"admins"}), "idle")

\* RepositoriesService.remove: the repository's row goes, without a rebuild.
RemoveRepository(c) == Begin(c, Bump({"repos"}), "idle")

-----------------------------------------------------------------------------
(***************************************************************************)
(* rebuildAll.                                                             *)
(***************************************************************************)

\* rebuildAll asks for the mutex.
CallRebuild(c) ==
  /\ At(c, "call")
  /\ Enter(c)
  /\ GoTo(c, "groups")
  /\ UNCHANGED <<store, disk, up, promised, faults>>

\* A plausible slip: each query replaces what the one before has read.
QueryForgets(c, from, parts, to) ==
  /\ phase[c] = "in"
  /\ At(c, from)
  /\ op' = [op EXCEPT ![c].step = to, ![c].got = [x \in parts |-> db[x]]]
  /\ UNCHANGED <<mutexVars, store, disk, up, promised, faults>>

\* compileAll: a query that reads `parts`, when c has the mutex.
Query(c, from, parts, to) ==
  /\ phase[c] = "in"
  /\ At(c, from)
  /\ op' = [op EXCEPT ![c].step = to,
                      ![c].got = [x \in Parts |-> IF x \in parts THEN db[x] ELSE @[x]]]
  /\ UNCHANGED <<mutexVars, store, disk, up, promised, faults>>

\* A plausible slip: the groups are carried over from the file as it stands.
ReadGroupsOld(c) ==
  /\ phase[c] = "in"
  /\ At(c, "groups")
  /\ op' = [op EXCEPT ![c].step = "repos", ![c].got["groups"] = file.has["groups"]]
  /\ UNCHANGED <<mutexVars, store, disk, up, promised, faults>>

ReadGroups(c) == Query(c, "groups", {"groups"}, "repos")
ReadRepositories(c) == Query(c, "repos", {"repos", "uses"}, "admins")
ReadAdmins(c) == Query(c, "admins", {"admins"}, "open")

\* A plausible slip: the file itself is opened for writing.
OpenInPlace(c) ==
  /\ At(c, "open")
  /\ tmp' = Torn
  /\ file' = Torn
  /\ GoTo(c, "write")
  /\ UNCHANGED <<mutexVars, store, up, promised, faults>>

\* writeFile truncates the temporary file, and some time later it is complete.
OpenTmp(c) ==
  /\ At(c, "open")
  /\ tmp' = Torn
  /\ GoTo(c, "write")
  /\ UNCHANGED <<mutexVars, store, file, up, promised, faults>>

WriteTmp(c) ==
  /\ At(c, "write")
  /\ tmp' = [whole |-> TRUE, has |-> op[c].got]
  /\ op' = [op EXCEPT ![c].step = "rename", ![c].got = Zero]
  /\ UNCHANGED <<mutexVars, store, file, up, promised, faults>>

\* The temporary file takes the place of the authz file.
RenameTmp(c) ==
  /\ At(c, "rename")
  /\ file' = tmp
  /\ tmp' = Torn
  /\ GoTo(c, "chown")
  /\ UNCHANGED <<mutexVars, store, up, promised, faults>>

\* The ownership is set, the mutex is released and the operation answers.
Answer(c) ==
  /\ At(c, "chown")
  /\ Leave(c)
  /\ op' = [op EXCEPT ![c] = IdleOp]
  /\ up' = (up \/ c = Boot)
  /\ promised' = [x \in Parts |-> IF op[c].wrote[x] > promised[x]
                                  THEN op[c].wrote[x] ELSE promised[x]]
  /\ UNCHANGED <<store, disk, faults>>

-----------------------------------------------------------------------------
(***************************************************************************)
(* Failures.                                                               *)
(***************************************************************************)

Fault == faults < MaxFaults /\ faults' = faults + 1

\* Something throws before or in rebuildAll: the request answers with an error and
\* its write stands; the startup logs the error and serves all the same.
Fail(c) ==
  /\ Fault
  /\ \/ ~At(c, "idle") /\ phase[c] = "out" /\ UNCHANGED mutexVars
     \/ Leave(c)
  /\ op' = [op EXCEPT ![c] = IdleOp]
  /\ up' = (up \/ c = Boot)
  /\ UNCHANGED <<store, disk, promised>>

\* The process dies, and a new one rebuilds the file before it serves.
Crash ==
  /\ Fault
  /\ Restart
  /\ up' = FALSE
  /\ op' = [c \in Callers |-> IF c = Boot THEN [IdleOp EXCEPT !.step = "call"] ELSE IdleOp]
  /\ UNCHANGED <<store, disk, promised>>

-----------------------------------------------------------------------------

Change(c) ==
  \/ ChangeTeam(c) \/ RenameTeam(c) \/ ChangeAccess(c) \/ LinkTeam(c)
  \/ DisbandPermissions(c) \/ Deactivate(c) \/ ChangeAdmin(c)
  \/ RemoveRepository(c)

Step(c) ==
  \/ DisbandTeam(c) \/ CallRebuild(c)
  \/ ReadGroups(c) \/ ReadRepositories(c) \/ ReadAdmins(c)
  \/ OpenTmp(c) \/ WriteTmp(c) \/ RenameTmp(c) \/ Answer(c)

Next ==
  \/ \E c \in Requests : Change(c)
  \/ \E c \in Callers : Step(c) \/ Fail(c)
  \/ Crash

Spec == Init /\ [][Next]_vars

\* The event loop carries every operation on; nobody has to start one or to fail.
FairSpec == Spec /\ \A c \in Callers : WF_vars(Step(c))

-----------------------------------------------------------------------------

Content == [whole : BOOLEAN, has : Versions]

TypeOK ==
  /\ MutexTypeOK
  /\ db \in Versions
  /\ tmp \in Content
  /\ file \in Content
  /\ op \in [Callers -> [step : Steps, wrote : Versions, got : Versions]]
  /\ up \in BOOLEAN
  /\ promised \in Versions
  /\ changes \in Nat
  /\ faults \in Nat

\* The file Apache reads is never one that is still being written: nobody opens
\* the common temporary file between another's last write and its rename.
FileWhole == file.whole

\* Once an operation has answered, the file shows what it wrote, and goes on to:
\* no later rebuild, started from older reads, a failed one included, and no
\* restart takes it back.
AnswersHold == AtMost(promised, file.has)

\* When nothing is in flight and nothing has failed, the file shows the database,
\* but for the administrators and removed repositories, whose operations do not
\* rebuild it.
InSyncWhenQuiet ==
  (faults = 0 /\ \A c \in Callers : At(c, "idle")) =>
    \A x \in {"groups", "uses"} : file.has[x] = db[x]

\* A file that names a group it does not define, which Apache cannot load, is there
\* only while an operation that changed the groups or renamed one has still to rebuild it.
DanglingOnlyInFlight ==
  (faults = 0 /\ file.has["groups"] < file.has["uses"]) =>
    \E c \in Callers : ~At(c, "idle") /\ op[c].wrote["groups"] >= file.has["uses"]

\* Every operation is answered, whatever fails: nobody waits for the mutex forever.
EveryOperationEnds == \A c \in Callers : ~At(c, "idle") ~> At(c, "idle")

\* What PLAN-svnhub-mvp.md says: the native client sees the rules of the web, those
\* about administrators too.
SameRulesAsTheWeb ==
  (faults = 0 /\ \A c \in Callers : At(c, "idle")) => file.has["admins"] = db["admins"]

=============================================================================
