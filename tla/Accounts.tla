------------------------------- MODULE Accounts -------------------------------
(***************************************************************************)
(* User accounts, their sessions and the htpasswd file of Apache:          *)
(* UsersService, AuthService and HtpasswdService.                          *)
(*                                                                         *)
(* Every operation reads the user's row, spends a while on argon2 or on    *)
(* another query, writes, and then rewrites the whole file inside the      *)
(* process-wide mutex.  Passwords are version numbers, 0 for none.  The    *)
(* rebuild of authz that ends a deactivation is modelled in AuthzSync.     *)
(***************************************************************************)
EXTENDS Mutex, FiniteSets

CONSTANTS
  Users,
  Admins,       \* those with isAdmin; changes of isAdmin are in AuthzSync
  Directory,    \* those the LDAP directory knows
  MaxStarts,    \* bound: operations in a behaviour
  MaxFaults     \* bound: crashes and failures of the file

VARIABLES
  account,   \* account[u]: the row of User
  session,   \* the rows of RefreshToken, deleted ones included, oldest first
  htpasswd,  \* htpasswd[u]: the password in the file
  job,       \* job[c]: the operation in flight: its step and what it has read
  fresh,     \* passwords chosen so far
  starts,    \* operations so far
  faults,    \* faults so far
  section,   \* history: what the last section for each user left in the file
  excused    \* history: users whose deactivation met a race or a fault

rows == <<account, session, fresh>>
history == <<section, excused>>
vars == <<mutexVars, rows, htpasswd, job, starts, faults, history>>

Absent == [there |-> FALSE, active |-> FALSE, local |-> FALSE, pwd |-> 0]
Nothing == [u \in Users |-> 0]

Idle == [step |-> "idle", kind |-> "", user |-> CHOOSE u \in Users : TRUE, seen |-> Absent,
         set |-> 0, got |-> Nothing, token |-> 0]

Init ==
  /\ MutexInit
  /\ \E present \in SUBSET Users :
       /\ Admins \subseteq present
       /\ account = [u \in Users |-> IF u \in present
                       THEN [there |-> TRUE, active |-> TRUE, local |-> TRUE, pwd |-> 1]
                       ELSE Absent]
  /\ htpasswd = [u \in Users |-> account[u].pwd]
  /\ session = <<>>
  /\ job = [c \in Callers |-> Idle]
  /\ fresh = 1
  /\ starts = 0
  /\ faults = 0
  /\ section = htpasswd
  /\ excused = {}

At(c, s) == job[c].step = s
GoTo(c, s) == job' = [job EXCEPT ![c].step = s]
Finish(c) == job' = [job EXCEPT ![c] = Idle]
Excuse(users) == excused' = excused \cup users /\ UNCHANGED section

\* The operation of kind k on u starts at step s, with the row it read.
Start(c, k, u, s, token) ==
  /\ At(c, "idle")
  /\ starts < MaxStarts
  /\ starts' = starts + 1
  /\ job' = [job EXCEPT ![c] = [Idle EXCEPT !.kind = k, !.user = u, !.step = s,
                                            !.seen = account[u], !.token = token]]
  /\ UNCHANGED <<mutexVars, htpasswd, fresh, faults>>

-----------------------------------------------------------------------------
(***************************************************************************)
(* UsersService.                                                           *)
(***************************************************************************)

\* createAdmin: the names are free, and argon2 hashes the password.
CreateUser(c, u) ==
  /\ ~account[u].there
  /\ Start(c, "create", u, "insert", 0)
  /\ UNCHANGED <<account, session, history>>

\* createAdmin: the row; a unique constraint refuses it if the names are taken by now.
InsertUser(c) ==
  LET u == job[c].user IN
  /\ At(c, "insert")
  /\ IF account[u].there
     THEN Finish(c) /\ UNCHANGED <<account, fresh>>
     ELSE /\ fresh' = fresh + 1
          /\ account' = [account EXCEPT ![u] =
                           [there |-> TRUE, active |-> TRUE, local |-> TRUE, pwd |-> fresh']]
          /\ job' = [job EXCEPT ![c].step = "enter", ![c].set = fresh']
  /\ UNCHANGED <<mutexVars, session, htpasswd, starts, faults, history>>

\* changePassword and resetPasswordAdmin: local accounts only; then argon2.
ChangePassword(c, u) ==
  /\ account[u].local /\ account[u].pwd # 0
  /\ Start(c, "change", u, "hash", 0)
  /\ UNCHANGED <<account, session, history>>

ResetPassword(c, u) ==
  /\ account[u].local
  /\ Start(c, "reset", u, "hash", 0)
  /\ UNCHANGED <<account, session, history>>

\* changePassword looks at the isActive it read at its start, resetPasswordAdmin at
\* the one its update returns.
SetFile(c) == IF job[c].kind = "change" THEN job[c].seen.active
              ELSE account[job[c].user].active

StorePassword(c) ==
  LET u == job[c].user IN
  /\ At(c, "hash")
  /\ fresh' = fresh + 1
  /\ account' = [account EXCEPT ![u].pwd = fresh']
  /\ IF SetFile(c)
     THEN job' = [job EXCEPT ![c].step = "enter", ![c].set = fresh']
     ELSE Finish(c)
  /\ UNCHANGED <<mutexVars, session, htpasswd, starts, faults, history>>

\* updateAdmin with isActive: administrators cannot deactivate themselves.
UpdateUser(c, u, active) ==
  /\ account[u].there
  /\ \E actor \in Admins : active \/ u \notin Admins \/ actor # u
  /\ Start(c, IF active THEN "activate" ELSE "deactivate", u, "update", 0)
  /\ UNCHANGED <<account, session, history>>

\* updateAdmin: the row, and what handleDeactivation still has to do.  A request that
\* read the account inactive while another activates it does nothing more.
UpdateRow(c) ==
  LET u == job[c].user
      active == job[c].kind = "activate"
  IN
  /\ At(c, "update")
  /\ account' = [account EXCEPT ![u].active = active]
  /\ IF ~active /\ job[c].seen.active THEN GoTo(c, "revoke") ELSE Finish(c)
  /\ Excuse(IF ~active /\ ~job[c].seen.active /\ account[u].active THEN {u} ELSE {})
  /\ UNCHANGED <<mutexVars, session, htpasswd, fresh, starts, faults>>

Revoked(u) == [i \in DOMAIN session |->
                 IF session[i].user = u THEN [session[i] EXCEPT !.live = FALSE] ELSE session[i]]

\* A plausible slip: the tokens live on until they expire.
DeactivateKeepsTokens(c) ==
  /\ At(c, "revoke")
  /\ IF job[c].seen.local THEN GoTo(c, "enter") ELSE Finish(c)
  /\ UNCHANGED <<mutexVars, rows, htpasswd, starts, faults, history>>

\* handleDeactivation: all refresh tokens go; a local account leaves the file too.
Deactivate(c) ==
  /\ At(c, "revoke")
  /\ session' = Revoked(job[c].user)
  /\ IF job[c].seen.local THEN GoTo(c, "enter") ELSE Finish(c)
  /\ UNCHANGED <<mutexVars, account, fresh, htpasswd, starts, faults, history>>

-----------------------------------------------------------------------------
(***************************************************************************)
(* HtpasswdService: upsertUser (set # 0) and removeUser (set = 0).         *)
(***************************************************************************)

\* A plausible slip: the entries are read before the mutex is entered.
ReadEarly(c) ==
  /\ At(c, "enter")
  /\ Enter(c)
  /\ job' = [job EXCEPT ![c].step = "write", ![c].got = htpasswd]
  /\ UNCHANGED <<rows, htpasswd, starts, faults, history>>

EnterSection(c) ==
  /\ At(c, "enter")
  /\ Enter(c)
  /\ GoTo(c, "read")
  /\ UNCHANGED <<rows, htpasswd, starts, faults, history>>

\* readEntries.
ReadEntries(c) ==
  /\ At(c, "read") /\ phase[c] = "in"
  /\ job' = [job EXCEPT ![c].step = "write", ![c].got = htpasswd]
  /\ UNCHANGED <<mutexVars, rows, htpasswd, starts, faults, history>>

\* readEntries: any error of readFile counts as a file without entries.
Misread(c) ==
  /\ At(c, "read") /\ phase[c] = "in"
  /\ faults < MaxFaults
  /\ faults' = faults + 1
  /\ job' = [job EXCEPT ![c].step = "write"]
  /\ section' = Nothing
  /\ UNCHANGED <<mutexVars, rows, htpasswd, starts, excused>>

\* writeEntries: the temporary file and its rename.  Nobody else touches the temporary
\* file, so both are one step.
WriteEntries(c) ==
  LET u == job[c].user
      late == job[c].set # 0 /\ ~account[u].active /\ (job[c].kind = "change" => job[c].seen.active)
  IN
  /\ At(c, "write") /\ phase[c] = "in"
  /\ htpasswd' = [job[c].got EXCEPT ![u] = job[c].set]
  /\ GoTo(c, "chown")
  /\ section' = [section EXCEPT ![u] = job[c].set]
  /\ excused' = IF late THEN excused \cup {u} ELSE excused
  /\ UNCHANGED <<mutexVars, rows, starts, faults>>

\* writeFile or rename throws: the file stays, and the rest of the request is not run.
WriteFails(c) ==
  /\ At(c, "write")
  /\ faults < MaxFaults
  /\ faults' = faults + 1
  /\ Leave(c)
  /\ Finish(c)
  /\ section' = htpasswd
  /\ excused' = excused \cup {job[c].user}
  /\ UNCHANGED <<rows, htpasswd, starts>>

\* ensureApacheSvnFileOwnership, and the mutex is released.
LeaveSection(c) ==
  /\ At(c, "chown")
  /\ Leave(c)
  /\ Finish(c)
  /\ UNCHANGED <<rows, htpasswd, starts, faults, history>>

-----------------------------------------------------------------------------
(***************************************************************************)
(* AuthService.                                                            *)
(***************************************************************************)

\* login, local: the row, and argon2 on its hash.
Login(c, u) ==
  /\ account[u].there /\ account[u].local /\ account[u].active /\ account[u].pwd # 0
  /\ Start(c, "login", u, "issue", 0)
  /\ UNCHANGED <<account, session, history>>

\* login, when the directory accepts the password: the row is made an LDAP account (its
\* password and its entry in the file stay), or created as one.  An inactive account is
\* refused after the upsert.
LoginByDirectory(c, u) ==
  LET row == IF account[u].there THEN [account[u] EXCEPT !.local = FALSE]
             ELSE [there |-> TRUE, active |-> TRUE, local |-> FALSE, pwd |-> 0]
  IN
  /\ u \in Directory
  /\ account' = [account EXCEPT ![u] = row]
  /\ Start(c, "login", u, IF row.active THEN "issue" ELSE "idle", 0)
  /\ UNCHANGED <<session, history>>

\* refresh: the row of the token and its user.
Refresh(c, t) ==
  /\ session[t].live
  /\ account[session[t].user].active
  /\ Start(c, "refresh", session[t].user, "rotate", t)
  /\ UNCHANGED <<account, session, history>>

\* refresh deletes the row it found; delete throws when somebody else has done so.
Rotate(c) ==
  LET t == job[c].token IN
  /\ At(c, "rotate")
  /\ \/ session[t].live /\ session' = [session EXCEPT ![t].live = FALSE] /\ GoTo(c, "issue")
     \/ ~session[t].live /\ Finish(c) /\ UNCHANGED session
  /\ UNCHANGED <<mutexVars, account, fresh, htpasswd, starts, faults, history>>

\* issueTokens, for the row read at the start.
IssueTokens(c) ==
  LET u == job[c].user IN
  /\ At(c, "issue")
  /\ session' = Append(session, [user |-> u, live |-> TRUE])
  /\ Finish(c)
  /\ Excuse(IF account[u].active THEN {} ELSE {u})
  /\ UNCHANGED <<mutexVars, account, fresh, htpasswd, starts, faults>>

\* logout: deleteMany.
Logout(t) ==
  /\ session[t].live
  /\ session' = [session EXCEPT ![t].live = FALSE]
  /\ UNCHANGED <<mutexVars, account, fresh, htpasswd, job, starts, faults, history>>

-----------------------------------------------------------------------------

\* reconcileWithDatabase at the start of a production API, before it serves: entries
\* of users that are not active local accounts go.  Elsewhere, or when it fails (the
\* error is logged), the file stays.
Reconciled == [u \in Users |-> IF account[u].active /\ account[u].local THEN htpasswd[u] ELSE 0]

RestartApi ==
  /\ faults < MaxFaults
  /\ faults' = faults + 1
  /\ Restart
  /\ job' = [c \in Callers |-> Idle]
  /\ htpasswd' \in {htpasswd, Reconciled}
  /\ section' = htpasswd'
  /\ excused' = excused \cup {job[c].user : c \in {d \in Callers : ~At(d, "idle")}}
  /\ UNCHANGED <<rows, starts>>

Next ==
  \/ \E c \in Callers, u \in Users :
       \/ CreateUser(c, u) \/ ChangePassword(c, u) \/ ResetPassword(c, u)
       \/ \E active \in BOOLEAN : UpdateUser(c, u, active)
       \/ Login(c, u) \/ LoginByDirectory(c, u)
  \/ \E c \in Callers, t \in DOMAIN session : Refresh(c, t)
  \/ \E t \in DOMAIN session : Logout(t)
  \/ \E c \in Callers :
       \/ InsertUser(c) \/ StorePassword(c) \/ UpdateRow(c) \/ Deactivate(c)
       \/ EnterSection(c) \/ ReadEntries(c) \/ Misread(c)
       \/ WriteEntries(c) \/ WriteFails(c) \/ LeaveSection(c)
       \/ Rotate(c) \/ IssueTokens(c)
  \/ RestartApi

Spec == Init /\ [][Next]_vars

-----------------------------------------------------------------------------

\* The file is rewritten as a whole by every operation, and yet none undoes what an
\* operation for another user has written: between two sections it holds, for every
\* user, what the last section for that user left.
NoLostUpdate == ~locked => htpasswd = section

\* No request on u that can still change the file or the sessions because it saw u active.
Settled(u) == \A c \in Callers : job[c].user = u => job[c].step = "idle"

\* An account made here, with a password, that a login of the directory has taken over.
TakenOver(u) == ~account[u].local /\ account[u].pwd # 0

\* A deactivation that no race and no fault has met shuts both ways in: once nothing is
\* in flight for the account, it has no session and no entry in the file.  Only an account
\* that a login of the directory has taken over keeps its entry, although nothing raced:
\* what handleDeactivation removes depends on isLocal, which the login has cleared.
DeactivationCloses ==
  \A u \in Users :
    account[u].there /\ ~account[u].active /\ Settled(u) /\ u \notin excused =>
      /\ ~TakenOver(u) => htpasswd[u] = 0
      /\ \A i \in DOMAIN session : session[i].user = u => ~session[i].live

=============================================================================
