--------------------------- MODULE ServicesProofs ---------------------------
(***************************************************************************)
(* What holds of the services of module Services for any number of users,  *)
(* requests, repositories and jobs: for each an inductive invariant, and   *)
(* the promises that follow from it.                                       *)
(***************************************************************************)
EXTENDS Services, MutexProofs, FiniteSetTheorems, SequenceTheorems, WellFoundedInduction, TLAPS

\* The instances count as the library does.
LEMMA IssuesCardinality == \A S : Is!Cardinality(S) = Cardinality(S)
  BY DEF Is!Cardinality, Cardinality

\* The instances count as the library does.
LEMMA BackupsCardinality == \A S : Ba!Cardinality(S) = Cardinality(S)
  BY DEF Ba!Cardinality, Cardinality

-----------------------------------------------------------------------------
(***************************************************************************)
(* Accounts.  The mutex is held from "read" to the end of the write, so    *)
(* whoever is there has read the file as it is (Places, FileInv): nobody's *)
(* change is undone.  A deactivation closes what the operations in flight  *)
(* can no longer open: for each inactive user, either the file and the     *)
(* sessions are closed, or an operation that will close them is on its way *)
(* (Closing), and none that would open them again is (SawRight), unless    *)
(* the user is excused. An account that never was local has no password    *)
(* and no entry (LocalOnly); one that was and is not any more is TakenOver.*)
(***************************************************************************)

UserRow == [there : BOOLEAN, active : BOOLEAN, local : BOOLEAN, pwd : Nat]
Passwords == [Users -> Nat]
OperationKinds == {"", "create", "change", "reset", "activate", "deactivate", "login", "refresh"}
InFile == {"read", "write", "chown"}
OperationSteps == {"idle", "insert", "hash", "update", "revoke", "enter", "issue", "rotate"} \cup InFile
Operation == [step : OperationSteps, kind : OperationKinds, user : Users, seen : UserRow, set : Nat, got : Passwords, token : Nat]
Session == [user : Users, live : BOOLEAN]

AccountsTypeOK ==
  /\ account \in [Users -> UserRow]
  /\ session \in Seq(Session)
  /\ htpasswd \in Passwords /\ section \in Passwords
  /\ job \in [Callers -> Operation]
  /\ fresh \in Nat
  /\ excused \subseteq Users

\* Who is in the mutex, or waits for it, is at a step of the section.
Places ==
  \A c \in Callers : /\ phase[c] = "out" <=> job[c].step \notin InFile
                     /\ phase[c] = "waiting" => job[c].step = "read"

\* What a caller relies on about the file.
FileInv ==
  /\ \A c \in Callers :
       /\ job[c].step \notin {"write", "chown"} => job[c].got = Ac!Nothing
       /\ Ac!At(c, "write") =>
            /\ job[c].got = section
            /\ \A u \in Users : job[c].got[u] \in {0, htpasswd[u]}
  /\ (\A c \in Callers : ~Ac!At(c, "write")) => htpasswd = section

Writes(j) == j.step \in {"enter", "read", "write"}

\* What kind of operation is at which step, and what it will write.
KindOK(j) ==
  /\ j.step = "insert" => j.kind = "create"
  /\ j.step = "hash" => j.kind \in {"change", "reset"}
  /\ j.step = "update" => j.kind \in {"activate", "deactivate"}
  /\ j.step = "revoke" => j.kind = "deactivate" /\ j.seen.active
  /\ j.step \in {"enter"} \cup InFile => j.kind \in {"create", "change", "reset", "deactivate"}
  /\ j.kind = "deactivate" => j.set = 0
  /\ Writes(j) =>
       /\ j.set = 0 => j.kind = "deactivate"
       /\ j.kind = "change" => j.seen.active

\* Not local, without and with a password, and what every row keeps to.
Foreign(a) == ~a.local /\ a.pwd = 0
Taken(a) == ~a.local /\ a.pwd # 0
AccountOK(a) == (a.local => a.pwd # 0) /\ (~a.there => Foreign(a))

\* Only a local account gets an entry, and a deactivation that saw none saw right.
LocalOnly(u) ==
  Foreign(account[u]) =>
    /\ htpasswd[u] = 0
    /\ \A c \in Callers : job[c].user = u => ~Ac!At(c, "hash") /\ (Writes(job[c]) => job[c].set = 0)

SawRight(j, a) ==
  j.kind = "deactivate" /\ j.step \in {"update", "revoke"} /\ ~j.seen.local =>
    a[j.user].there /\ ~a[j.user].local

\* A deactivation of u that still has to revoke its sessions, or to take its entry away.
Revoking(j, u) == j.step = "revoke" /\ j.user = u
Removing(j, u) ==
  /\ j.user = u
  /\ \/ j.step = "revoke" /\ j.seen.local
     \/ Writes(j) /\ j.kind = "deactivate"

HasSession(s, u) == \E i \in DOMAIN s : s[i].user = u /\ s[i].live

Closing(u) ==
  u \notin excused /\ ~account[u].active =>
    /\ Taken(account[u]) \/ htpasswd[u] = 0 \/ \E c \in Callers : Removing(job[c], u)
    /\ HasSession(session, u) => \E c \in Callers : Revoking(job[c], u)

ClosedInv ==
  /\ \A c \in Callers : KindOK(job[c]) /\ SawRight(job[c], account)
  /\ \A u \in Users : LocalOnly(u) /\ Closing(u) /\ AccountOK(account[u])
  /\ fresh # 0

AccountsInv == AccountsTypeOK /\ MutexInv /\ Places /\ FileInv /\ ClosedInv

-----------------------------------------------------------------------------

\* What an operation that is over holds.
LEMMA IdleType == Ac!Nothing \in Passwords /\ Ac!Absent \in UserRow /\ Ac!Idle \in Operation
<1>1. Ac!Nothing \in Passwords /\ Ac!Absent \in UserRow
  BY DEF Ac!Nothing, Passwords, Ac!Absent, UserRow
<1>2. (CHOOSE u \in Users : TRUE) \in Users
  BY AccountsAssumption
<1> QED BY <1>1, <1>2 DEF Ac!Idle, Operation, OperationSteps, OperationKinds

\* The fields of an idle operation that the rest looks at.
LEMMA IdleFields ==
  /\ Ac!Idle.step = "idle" /\ Ac!Idle.kind = "" /\ Ac!Idle.set = 0 /\ Ac!Idle.got = Ac!Nothing /\ Ac!Idle.token = 0
  /\ Ac!Idle.seen = Ac!Absent
  BY DEF Ac!Idle

\* The operations after one of them has moved.
OperationMoved(c, j) ==
  /\ job' \in [Callers -> Operation]
  /\ job'[c] = j
  /\ \A d \in Callers : d # c => job'[d] = job[d]

\* One operation moves to step s, and no other moves.
LEMMA OperationGoes ==
  ASSUME AccountsTypeOK, NEW c \in Callers, NEW s \in OperationSteps, Ac!GoTo(c, s)
  PROVE  /\ OperationMoved(c, [job[c] EXCEPT !.step = s])
         /\ job'[c].step = s /\ job'[c].kind = job[c].kind /\ job'[c].user = job[c].user
         /\ job'[c].seen = job[c].seen /\ job'[c].set = job[c].set /\ job'[c].got = job[c].got
         /\ job'[c].token = job[c].token
<1>1. job[c] \in Operation
  BY DEF AccountsTypeOK
<1>2. job' = [job EXCEPT ![c] = [job[c] EXCEPT !.step = s]]
  BY DEF Ac!GoTo, AccountsTypeOK
<1>3. [job[c] EXCEPT !.step = s] \in Operation
  BY <1>1 DEF Operation
<1>4. OperationMoved(c, [job[c] EXCEPT !.step = s])
  BY <1>2, <1>3 DEF AccountsTypeOK, OperationMoved
<1> QED BY <1>1, <1>4 DEF OperationMoved, Operation

\* One operation ends.
LEMMA FinishMoves ==
  ASSUME AccountsTypeOK, NEW c \in Callers, Ac!Finish(c)
  PROVE  OperationMoved(c, Ac!Idle)
  BY IdleType DEF AccountsTypeOK, Ac!Finish, OperationMoved

\* One operation begins.
LEMMA StartMoves ==
  ASSUME AccountsTypeOK, NEW c \in Callers, NEW k \in OperationKinds, NEW u \in Users, NEW s \in OperationSteps, NEW t \in Nat,
         Ac!Start(c, k, u, s, t)
  PROVE  /\ OperationMoved(c, job'[c])
         /\ job'[c].step = s /\ job'[c].kind = k /\ job'[c].user = u /\ job'[c].seen = account[u]
         /\ job'[c].set = 0 /\ job'[c].got = Ac!Nothing
<1> DEFINE x == account[u]
           j == [Ac!Idle EXCEPT !.kind = k, !.user = u, !.step = s, !.seen = x, !.token = t]
<1>1. x \in UserRow
  BY DEF AccountsTypeOK
<1>2. job' = [job EXCEPT ![c] = j]
  BY DEF Ac!Start
<1> HIDE DEF x
<1>3. j \in Operation
  BY <1>1, IdleType DEF Operation
<1>4. j.step = s /\ j.kind = k /\ j.user = u /\ j.seen = x /\ j.set = 0 /\ j.got = Ac!Nothing
  BY IdleFields, IdleType DEF Operation
<1> HIDE DEF j
<1>5. OperationMoved(c, j)
  BY <1>2, <1>3 DEF AccountsTypeOK, OperationMoved
<1> QED BY <1>4, <1>5 DEF x, OperationMoved

\* The fields step and set, or step and got, change.
LEMMA SetMoves ==
  ASSUME AccountsTypeOK, NEW c \in Callers, NEW s \in OperationSteps, NEW n \in Nat,
         job' = [job EXCEPT ![c].step = s, ![c].set = n]
  PROVE  /\ OperationMoved(c, job'[c])
         /\ job'[c].step = s /\ job'[c].kind = job[c].kind /\ job'[c].user = job[c].user
         /\ job'[c].seen = job[c].seen /\ job'[c].set = n /\ job'[c].got = job[c].got
<1> DEFINE j == [job[c] EXCEPT !.step = s, !.set = n]
<1>1. job[c] \in Operation
  BY DEF AccountsTypeOK
<1>2. job' = [job EXCEPT ![c] = j]
  BY DEF AccountsTypeOK
<1>3. j \in Operation
  BY <1>1 DEF Operation
<1>4. /\ j.step = s /\ j.kind = job[c].kind /\ j.user = job[c].user
      /\ j.seen = job[c].seen /\ j.set = n /\ j.got = job[c].got
  BY <1>1 DEF Operation
<1> HIDE DEF j
<1> QED BY <1>2, <1>3, <1>4 DEF AccountsTypeOK, OperationMoved

\* The section has read the file.
LEMMA GotMoves ==
  ASSUME AccountsTypeOK, NEW c \in Callers, NEW s \in OperationSteps, NEW g \in Passwords,
         job' = [job EXCEPT ![c].step = s, ![c].got = g]
  PROVE  /\ OperationMoved(c, job'[c])
         /\ job'[c].step = s /\ job'[c].kind = job[c].kind /\ job'[c].user = job[c].user
         /\ job'[c].seen = job[c].seen /\ job'[c].set = job[c].set /\ job'[c].got = g
<1> DEFINE j == [job[c] EXCEPT !.step = s, !.got = g]
<1>1. job[c] \in Operation
  BY DEF AccountsTypeOK
<1>2. job' = [job EXCEPT ![c] = j]
  BY DEF AccountsTypeOK
<1>3. j \in Operation
  BY <1>1 DEF Operation
<1>4. /\ j.step = s /\ j.kind = job[c].kind /\ j.user = job[c].user
      /\ j.seen = job[c].seen /\ j.set = job[c].set /\ j.got = g
  BY <1>1 DEF Operation
<1> HIDE DEF j
<1> QED BY ZenonT(60), <1>2, <1>3, <1>4 DEF AccountsTypeOK, OperationMoved

\* The initial values have their types.
LEMMA AccountsTypeInit == Ac!Init => AccountsTypeOK
<1> SUFFICES ASSUME Ac!Init PROVE AccountsTypeOK
  OBVIOUS
<1>1. account \in [Users -> UserRow]
  BY IdleType DEF Ac!Init, UserRow
<1>2. htpasswd \in Passwords /\ section \in Passwords
  BY <1>1 DEF Ac!Init, Passwords, UserRow
<1>3. session \in Seq(Session)
  BY EmptySeq DEF Ac!Init
<1> QED BY <1>1, <1>2, <1>3, IdleType DEF Ac!Init, AccountsTypeOK

\* All sessions of one user are revoked: no other is touched.
LEMMA RevokedType ==
  ASSUME AccountsTypeOK, NEW u
  PROVE  /\ Ac!Revoked(u) \in Seq(Session)
         /\ DOMAIN Ac!Revoked(u) = DOMAIN session
         /\ \A i \in DOMAIN session :
              /\ Ac!Revoked(u)[i].user = session[i].user
              /\ Ac!Revoked(u)[i].live => session[i].live /\ session[i].user # u
<1>1. PICK n \in Nat : DOMAIN session = 1..n /\ \A i \in 1..n : session[i] \in Session
  BY DEF AccountsTypeOK
<1>2. \A i \in 1..n : /\ [session[i] EXCEPT !.live = FALSE] \in Session
                      /\ [session[i] EXCEPT !.live = FALSE].user = session[i].user
                      /\ ~[session[i] EXCEPT !.live = FALSE].live
  BY <1>1 DEF Session
<1> DEFINE x == [i \in 1..n |-> IF session[i].user = u THEN [session[i] EXCEPT !.live = FALSE]
                                 ELSE session[i]]
<1>3. x = Ac!Revoked(u)
  BY <1>1 DEF Ac!Revoked
<1>4. x \in [1..n -> Session]
  BY <1>1, <1>2
<1>5. x \in Seq(Session)
  <2> HIDE DEF x
  <2> QED BY <1>4
<1>6. \A i \in 1..n : x[i].user = session[i].user /\ (x[i].live => session[i].live /\ session[i].user # u)
  BY <1>1, <1>2
<1> HIDE DEF x
<1> QED BY <1>1, <1>3, <1>4, <1>5, <1>6

\* One session ends.
LEMMA EndSession ==
  ASSUME AccountsTypeOK, NEW t, session' = [session EXCEPT ![t].live = FALSE]
  PROVE  /\ session' \in Seq(Session)
         /\ DOMAIN session' = DOMAIN session
         /\ \A i \in DOMAIN session : /\ session'[i].user = session[i].user
                                      /\ session'[i].live => session[i].live
<1>1. PICK n \in Nat : DOMAIN session = 1..n /\ \A i \in 1..n : session[i] \in Session
  BY DEF AccountsTypeOK
<1>2. \A i \in 1..n : /\ [session[i] EXCEPT !.live = FALSE] \in Session
                      /\ [session[i] EXCEPT !.live = FALSE].user = session[i].user
                      /\ ~[session[i] EXCEPT !.live = FALSE].live
  BY <1>1 DEF Session
<1> DEFINE x == [i \in 1..n |-> IF i = t THEN [session[i] EXCEPT !.live = FALSE] ELSE session[i]]
<1>3. session' = x
  BY <1>1
<1>4. x \in [1..n -> Session] /\ \A i \in 1..n : x[i].user = session[i].user /\ (x[i].live => session[i].live)
  BY <1>1, <1>2
<1>5. x \in Seq(Session)
  <2> HIDE DEF x
  <2> QED BY <1>4
<1> HIDE DEF x
<1> QED BY <1>1, <1>3, <1>4, <1>5

\* A new session.
LEMMA NewSession ==
  ASSUME AccountsTypeOK, NEW u \in Users, session' = Append(session, [user |-> u, live |-> TRUE])
  PROVE  /\ session' \in Seq(Session)
         /\ \A i \in DOMAIN session' : i \in DOMAIN session \/ session'[i].user = u
         /\ \A i \in DOMAIN session : session'[i] = session[i]
<1>1. [user |-> u, live |-> TRUE] \in Session
  BY DEF Session
<1> QED BY <1>1 DEF AccountsTypeOK

\* Every step keeps the types.
LEMMA AccountsTypeStep == AccountsTypeOK /\ [Ac!Next]_(Ac!vars) => AccountsTypeOK'
<1> SUFFICES ASSUME AccountsTypeOK, [Ac!Next]_(Ac!vars) PROVE AccountsTypeOK'
  OBVIOUS
<1>a. /\ account \in [Users -> UserRow] /\ session \in Seq(Session) /\ htpasswd \in Passwords
      /\ section \in Passwords /\ job \in [Callers -> Operation] /\ fresh \in Nat /\ excused \subseteq Users
  BY DEF AccountsTypeOK
<1>b. ASSUME NEW c \in Callers
      PROVE  job[c] \in Operation /\ job[c].user \in Users /\ job[c].set \in Nat /\ job[c].got \in Passwords
  BY <1>a DEF Operation
<1>1. ASSUME NEW c \in Callers, NEW u \in Users, NEW k \in OperationKinds, NEW s \in OperationSteps, NEW t \in Nat,
             Ac!Start(c, k, u, s, t), account' \in [Users -> UserRow],
             UNCHANGED <<session, section>>, excused' \subseteq Users
      PROVE  AccountsTypeOK'
  <2>1. job' \in [Callers -> Operation]
    BY <1>1, StartMoves DEF OperationMoved
  <2> QED BY <1>1, <1>a, <2>1 DEF AccountsTypeOK, Ac!Start
<1>2. ASSUME NEW c \in Callers, NEW u \in Users,
             \/ Ac!CreateUser(c, u) \/ Ac!ChangePassword(c, u) \/ Ac!ResetPassword(c, u) \/ Ac!Login(c, u)
             \/ \E usable \in BOOLEAN : Ac!UpdateUser(c, u, usable)
      PROVE  AccountsTypeOK'
  <2>1. PICK k \in OperationKinds, s \in OperationSteps : Ac!Start(c, k, u, s, 0) /\ UNCHANGED <<account, session, Ac!history>>
    BY <1>2 DEF Ac!CreateUser, Ac!ChangePassword, Ac!ResetPassword, Ac!Login, Ac!UpdateUser, OperationKinds, OperationSteps
  <2> QED BY <1>1, <1>a, <2>1 DEF Ac!history
<1>3. ASSUME NEW c \in Callers, NEW u \in Users, Ac!LoginByDirectory(c, u) PROVE AccountsTypeOK'
  <2> DEFINE r == IF account[u].there THEN [account[u] EXCEPT !.local = FALSE]
                    ELSE [there |-> TRUE, active |-> TRUE, local |-> FALSE, pwd |-> 0]
  <2>1. r \in UserRow
    BY <1>a DEF UserRow
  <2>2. account' = [account EXCEPT ![u] = r]
    BY <1>3 DEF Ac!LoginByDirectory
  <2>3. PICK s \in {"issue", "idle"} : Ac!Start(c, "login", u, s, 0)
    BY <1>3 DEF Ac!LoginByDirectory
  <2>4. excused' \subseteq Users /\ UNCHANGED <<session, section>>
    BY <1>3, <1>a DEF Ac!LoginByDirectory, Ac!history
  <2>5. account' \in [Users -> UserRow]
    <3> HIDE DEF r
    <3> QED BY <1>a, <2>1, <2>2
  <2> QED BY <1>1, <2>3, <2>4, <2>5 DEF OperationKinds, OperationSteps
<1>4. ASSUME NEW c \in Callers, NEW t \in DOMAIN session, Ac!Refresh(c, t) PROVE AccountsTypeOK'
  <2>1. session[t].user \in Users /\ t \in Nat
    <3>1. PICK n \in Nat : DOMAIN session = 1..n /\ \A i \in 1..n : session[i] \in Session
      BY <1>a
    <3> QED BY <3>1 DEF Session
  <2> QED BY <1>1, <1>4, <1>a, <2>1 DEF Ac!Refresh, Ac!history, OperationKinds, OperationSteps
<1>5. ASSUME NEW t \in DOMAIN session, Ac!Logout(t) PROVE AccountsTypeOK'
  BY <1>5, <1>a, EndSession DEF Ac!Logout, AccountsTypeOK, Ac!history
<1>6. ASSUME NEW c \in Callers, Ac!InsertUser(c) PROVE AccountsTypeOK'
  <2>1. CASE account[job[c].user].there
    BY <1>6, <1>a, <2>1, FinishMoves DEF Ac!InsertUser, OperationMoved, AccountsTypeOK, Ac!history
  <2>2. CASE ~account[job[c].user].there
    <3> DEFINE r == [there |-> TRUE, active |-> TRUE, local |-> TRUE, pwd |-> fresh']
    <3>1. fresh' \in Nat /\ r \in UserRow
      BY <1>6, <1>a, <2>2 DEF Ac!InsertUser, UserRow
    <3>2. account' = [account EXCEPT ![job[c].user] = r]
      BY <1>6, <2>2 DEF Ac!InsertUser
    <3>3. account' \in [Users -> UserRow]
      <4> HIDE DEF r
      <4> QED BY <1>a, <3>1, <3>2
    <3>4. job' \in [Callers -> Operation]
      BY <1>6, <2>2, <3>1, SetMoves DEF Ac!InsertUser, OperationMoved, OperationSteps
    <3> QED BY <1>6, <1>a, <3>1, <3>3, <3>4 DEF Ac!InsertUser, AccountsTypeOK, Ac!history
  <2> QED BY <2>1, <2>2
<1>7. ASSUME NEW c \in Callers, Ac!StorePassword(c) PROVE AccountsTypeOK'
  <2> DEFINE u == job[c].user
  <2>1. fresh' \in Nat /\ account' = [account EXCEPT ![u].pwd = fresh']
    BY <1>7, <1>a DEF Ac!StorePassword
  <2>2. [account[u] EXCEPT !.pwd = fresh'] \in UserRow
    BY <1>a, <1>b, <2>1 DEF UserRow
  <2>3. account' \in [Users -> UserRow]
    BY <1>a, <2>1, <2>2
  <2>4. job' \in [Callers -> Operation]
    <3>1. CASE Ac!SetFile(c)
      <4>1. job' = [job EXCEPT ![c].step = "enter", ![c].set = fresh']
        BY <1>7, <3>1 DEF Ac!StorePassword
      <4> QED BY <2>1, <4>1, SetMoves DEF OperationMoved, OperationSteps
    <3>2. CASE ~Ac!SetFile(c)
      BY <1>7, <3>2, FinishMoves DEF Ac!StorePassword, OperationMoved
    <3> QED BY <3>1, <3>2
  <2> QED BY <1>7, <1>a, <2>1, <2>3, <2>4 DEF Ac!StorePassword, AccountsTypeOK, Ac!history
<1>8. ASSUME NEW c \in Callers, Ac!UpdateRow(c) PROVE AccountsTypeOK'
  <2> DEFINE u == job[c].user
             usable == job[c].kind = "activate"
  <2>1. [account[u] EXCEPT !.active = usable] \in UserRow
    BY <1>a, <1>b DEF UserRow
  <2>2. account' \in [Users -> UserRow]
    BY <1>8, <1>a, <2>1 DEF Ac!UpdateRow
  <2>3. job' \in [Callers -> Operation]
    BY <1>8, OperationGoes, FinishMoves DEF Ac!UpdateRow, OperationMoved, OperationSteps
  <2>4. excused' \subseteq Users /\ section' = section
    BY <1>8, <1>a, <1>b DEF Ac!UpdateRow, Ac!Excuse
  <2> QED BY <1>8, <1>a, <2>2, <2>3, <2>4 DEF Ac!UpdateRow, AccountsTypeOK
<1>9. ASSUME NEW c \in Callers, Ac!Deactivate(c) PROVE AccountsTypeOK'
  <2>1. session' \in Seq(Session)
    BY <1>9, RevokedType DEF Ac!Deactivate
  <2>2. job' \in [Callers -> Operation]
    BY <1>9, OperationGoes, FinishMoves DEF Ac!Deactivate, OperationMoved, OperationSteps
  <2> QED BY <1>9, <1>a, <2>1, <2>2 DEF Ac!Deactivate, AccountsTypeOK, Ac!history
<1>10. ASSUME NEW c \in Callers, Ac!EnterSection(c) \/ Ac!LeaveSection(c) PROVE AccountsTypeOK'
  <2>1. job' \in [Callers -> Operation]
    BY <1>10, OperationGoes, FinishMoves DEF Ac!EnterSection, Ac!LeaveSection, OperationMoved, OperationSteps, InFile
  <2> QED BY <1>10, <1>a, <2>1 DEF Ac!EnterSection, Ac!LeaveSection, AccountsTypeOK, Ac!history, Ac!rows
<1>11. ASSUME NEW c \in Callers, Ac!ReadEntries(c) PROVE AccountsTypeOK'
  <2>1. job' \in [Callers -> Operation]
    BY <1>11, <1>a, GotMoves DEF Ac!ReadEntries, OperationMoved, OperationSteps, InFile
  <2> QED BY <1>11, <1>a, <2>1 DEF Ac!ReadEntries, AccountsTypeOK, Ac!history, Ac!rows
<1>12. ASSUME NEW c \in Callers, Ac!Misread(c) PROVE AccountsTypeOK'
  <2>1. Ac!GoTo(c, "write")
    BY <1>12 DEF Ac!Misread, Ac!GoTo
  <2>2. job' \in [Callers -> Operation]
    BY <2>1, OperationGoes DEF OperationMoved, OperationSteps, InFile
  <2> QED BY <1>12, <1>a, <2>2, IdleType DEF Ac!Misread, AccountsTypeOK, Ac!rows
<1>13. ASSUME NEW c \in Callers, Ac!WriteEntries(c) PROVE AccountsTypeOK'
  <2>1. job' \in [Callers -> Operation]
    BY <1>13, OperationGoes DEF Ac!WriteEntries, OperationMoved, OperationSteps, InFile
  <2>2. htpasswd' \in Passwords /\ section' \in Passwords
    BY <1>13, <1>a, <1>b DEF Ac!WriteEntries, Passwords
  <2>3. excused' \subseteq Users
    BY <1>13, <1>a, <1>b DEF Ac!WriteEntries
  <2> QED BY <1>13, <1>a, <2>1, <2>2, <2>3 DEF Ac!WriteEntries, AccountsTypeOK, Ac!rows
<1>14. ASSUME NEW c \in Callers, Ac!WriteFails(c) PROVE AccountsTypeOK'
  <2>1. job' \in [Callers -> Operation]
    BY <1>14, FinishMoves DEF Ac!WriteFails, OperationMoved
  <2> QED BY <1>14, <1>a, <1>b, <2>1 DEF Ac!WriteFails, AccountsTypeOK, Ac!rows
<1>15. ASSUME NEW c \in Callers, Ac!Rotate(c) PROVE AccountsTypeOK'
  <2>1. job' \in [Callers -> Operation]
    BY <1>15, OperationGoes, FinishMoves DEF Ac!Rotate, OperationMoved, OperationSteps
  <2>2. session' \in Seq(Session)
    BY <1>15, <1>a, EndSession DEF Ac!Rotate
  <2> QED BY <1>15, <1>a, <2>1, <2>2 DEF Ac!Rotate, AccountsTypeOK, Ac!history
<1>16. ASSUME NEW c \in Callers, Ac!IssueTokens(c) PROVE AccountsTypeOK'
  <2>1. job' \in [Callers -> Operation]
    BY <1>16, FinishMoves DEF Ac!IssueTokens, OperationMoved
  <2>2. session' \in Seq(Session) /\ excused' \subseteq Users /\ section' = section
    BY <1>16, <1>a, <1>b, NewSession DEF Ac!IssueTokens, Ac!Excuse
  <2> QED BY <1>16, <1>a, <2>1, <2>2 DEF Ac!IssueTokens, AccountsTypeOK
<1>17. ASSUME Ac!RestartApi PROVE AccountsTypeOK'
  <2>1. Ac!Reconciled \in Passwords
    BY <1>a DEF Ac!Reconciled, Passwords
  <2>2. excused' \subseteq Users
    BY <1>17, <1>a, <1>b DEF Ac!RestartApi
  <2> QED BY <1>17, <1>a, <2>1, <2>2, IdleType DEF Ac!RestartApi, AccountsTypeOK, Ac!rows
<1>18. ASSUME UNCHANGED Ac!vars PROVE AccountsTypeOK'
  BY <1>18 DEF Ac!vars, Ac!rows, Ac!history, AccountsTypeOK
<1>19. ASSUME Ac!Next PROVE AccountsTypeOK'
  BY <1>2, <1>3, <1>4, <1>5, <1>6, <1>7, <1>8, <1>9, <1>10, <1>11, <1>12, <1>13, <1>14, <1>15, <1>16,
     <1>17, <1>19, Zenon DEF Ac!Next
<1> QED BY <1>18, <1>19

-----------------------------------------------------------------------------

\* A step of c that is not one of the section.
Apart(c) ==
  /\ OperationMoved(c, job'[c])
  /\ job[c].step \notin InFile /\ job'[c].step \notin InFile
  /\ job'[c].got \in {job[c].got, Ac!Nothing}
  /\ UNCHANGED <<Ac!mutexVars, htpasswd, section>>

\* A step of an operation outside the section leaves the section to the one in it.
LEMMA ApartSteps ==
  ASSUME AccountsTypeOK, NEW c \in Callers,
         \/ \E u \in Users : \/ Ac!CreateUser(c, u) \/ Ac!ChangePassword(c, u) \/ Ac!ResetPassword(c, u)
                             \/ \E usable \in BOOLEAN : Ac!UpdateUser(c, u, usable)
                             \/ Ac!Login(c, u) \/ Ac!LoginByDirectory(c, u)
         \/ \E t \in DOMAIN session : Ac!Refresh(c, t)
         \/ Ac!InsertUser(c) \/ Ac!StorePassword(c) \/ Ac!UpdateRow(c) \/ Ac!Deactivate(c)
         \/ Ac!Rotate(c) \/ Ac!IssueTokens(c)
  PROVE  Apart(c)
<1>a. Ac!Idle.step \notin InFile /\ Ac!Idle.got = Ac!Nothing
  BY IdleFields DEF InFile
<1>1. ASSUME NEW k \in OperationKinds, NEW u \in Users, NEW s \in OperationSteps \ InFile, NEW t \in Nat,
             Ac!Start(c, k, u, s, t), section' = section
      PROVE  Apart(c)
  <2>1. OperationMoved(c, job'[c]) /\ job'[c].step = s /\ job'[c].got = Ac!Nothing
    BY <1>1, StartMoves
  <2>2. job[c].step = "idle" /\ UNCHANGED <<Ac!mutexVars, htpasswd, section>>
    BY <1>1 DEF Ac!Start, Ac!At
  <2> QED BY <2>1, <2>2 DEF Apart, InFile
<1>2. ASSUME NEW s \in OperationSteps \ InFile, Ac!GoTo(c, s) \/ Ac!Finish(c), job[c].step \notin InFile,
             UNCHANGED <<Ac!mutexVars, htpasswd, section>>
      PROVE  Apart(c)
  <2>1. CASE Ac!GoTo(c, s)
    BY <1>2, <2>1, OperationGoes DEF Apart, OperationMoved
  <2>2. CASE Ac!Finish(c)
    BY <1>2, <1>a, <2>2, FinishMoves DEF Apart, OperationMoved
  <2> QED BY <1>2, <2>1, <2>2
<1>3. ASSUME NEW n \in Nat, job' = [job EXCEPT ![c].step = "enter", ![c].set = n], job[c].step \notin InFile,
             UNCHANGED <<Ac!mutexVars, htpasswd, section>>
      PROVE  Apart(c)
  BY ZenonT(60), <1>3, SetMoves DEF Apart, InFile, OperationSteps
<1>4. ASSUME NEW u \in Users,
             \/ Ac!CreateUser(c, u) \/ Ac!ChangePassword(c, u) \/ Ac!ResetPassword(c, u) \/ Ac!Login(c, u)
             \/ \E usable \in BOOLEAN : Ac!UpdateUser(c, u, usable)
      PROVE  Apart(c)
  BY <1>1, <1>4 DEF Ac!CreateUser, Ac!ChangePassword, Ac!ResetPassword, Ac!Login, Ac!UpdateUser, OperationKinds, OperationSteps, InFile, Ac!history
<1>5. ASSUME NEW u \in Users, Ac!LoginByDirectory(c, u) PROVE Apart(c)
  <2>1. section' = section /\ "login" \in OperationKinds /\ {"issue", "idle"} \subseteq OperationSteps \ InFile
    BY <1>5 DEF Ac!LoginByDirectory, Ac!history, OperationKinds, OperationSteps, InFile
  <2>2. PICK s \in {"issue", "idle"} : Ac!Start(c, "login", u, s, 0)
    BY <1>5 DEF Ac!LoginByDirectory
  <2>3. s \in OperationSteps \ InFile
    BY <2>1
  <2> QED BY ONLY <1>1, <2>1, <2>2, <2>3, Zenon
<1>6. ASSUME NEW t \in DOMAIN session, Ac!Refresh(c, t) PROVE Apart(c)
  <2>1. PICK n \in Nat : DOMAIN session = 1..n /\ \A i \in 1..n : session[i] \in Session
    BY DEF AccountsTypeOK
  <2>2. session[t].user \in Users /\ t \in Nat
    BY <2>1 DEF Session
  <2> QED BY <1>1, <1>6, <2>2 DEF Ac!Refresh, OperationKinds, OperationSteps, InFile, Ac!history
<1>7. ASSUME Ac!InsertUser(c) PROVE Apart(c)
  <2>1. CASE account[job[c].user].there
    BY <1>2, <1>7, <2>1 DEF Ac!InsertUser, Ac!history, Ac!At, InFile, OperationSteps
  <2>2. CASE ~account[job[c].user].there
    <3>1. fresh' \in Nat
      BY <1>7, <2>2 DEF Ac!InsertUser, AccountsTypeOK
    <3>2. job' = [job EXCEPT ![c].step = "enter", ![c].set = fresh']
      BY <1>7, <2>2 DEF Ac!InsertUser
    <3> QED BY <1>3, <1>7, <3>1, <3>2 DEF Ac!InsertUser, Ac!history, Ac!At, InFile
  <2> QED BY <2>1, <2>2
<1>8. ASSUME Ac!StorePassword(c) PROVE Apart(c)
  <2>1. CASE Ac!SetFile(c)
    <3>1. fresh' \in Nat
      BY <1>8 DEF Ac!StorePassword, AccountsTypeOK
    <3>2. job' = [job EXCEPT ![c].step = "enter", ![c].set = fresh']
      BY <1>8, <2>1 DEF Ac!StorePassword
    <3> QED BY <1>3, <1>8, <3>1, <3>2 DEF Ac!StorePassword, Ac!history, Ac!At, InFile
  <2>2. CASE ~Ac!SetFile(c)
    BY <1>2, <1>8, <2>2 DEF Ac!StorePassword, Ac!history, Ac!At, InFile, OperationSteps
  <2> QED BY <2>1, <2>2
<1>9. ASSUME Ac!UpdateRow(c) PROVE Apart(c)
  BY <1>2, <1>9 DEF Ac!UpdateRow, Ac!Excuse, Ac!At, InFile, OperationSteps
<1>10. ASSUME Ac!Deactivate(c) PROVE Apart(c)
  BY <1>2, <1>10 DEF Ac!Deactivate, Ac!history, Ac!At, InFile, OperationSteps
<1>11. ASSUME Ac!Rotate(c) PROVE Apart(c)
  BY <1>2, <1>11 DEF Ac!Rotate, Ac!history, Ac!At, InFile, OperationSteps
<1>12. ASSUME Ac!IssueTokens(c) PROVE Apart(c)
  BY <1>2, <1>12 DEF Ac!IssueTokens, Ac!Excuse, Ac!At, InFile, OperationSteps
<1> QED BY <1>4, <1>5, <1>6, <1>7, <1>8, <1>9, <1>10, <1>11, <1>12, Zenon

\* The accounts of the mutex depend on its variables only.
LEMMA MutexStutter == MutexInv /\ UNCHANGED Ac!mutexVars => MutexInv'
  BY DEF MutexInv, MutexTypeOK, LockAccounted, Exclusive, Ac!mutexVars

\* Whoever writes is alone in the mutex.
LEMMA OneWriter ==
  ASSUME MutexInv, Places, NEW c \in Callers, NEW d \in Callers, c # d, phase[c] = "in"
  PROVE  job[d].step \notin {"write", "chown"}
<1>1. phase[d] # "in" /\ phase[d] \in {"out", "waiting", "in"}
  BY DEF MutexInv, MutexTypeOK, LockAccounted, Exclusive
<1> QED BY <1>1 DEF Places, InFile

\* Every step keeps the mutex, the places in it, and what is known of the file.
LEMMA FileStep ==
  AccountsTypeOK /\ AccountsTypeOK' /\ MutexInv /\ Places /\ FileInv /\ [Ac!Next]_(Ac!vars) => MutexInv' /\ Places' /\ FileInv'
<1> SUFFICES ASSUME AccountsTypeOK, AccountsTypeOK', MutexInv, Places, FileInv, [Ac!Next]_(Ac!vars)
             PROVE  MutexInv' /\ Places' /\ FileInv'
  OBVIOUS
<1> DEFINE Goal == MutexInv' /\ Places' /\ FileInv'
<1>a. phase \in [Callers -> {"out", "waiting", "in"}] /\ DOMAIN phase = Callers
  BY DEF MutexInv, MutexTypeOK
<1>1. ASSUME NEW c \in Callers, Apart(c) PROVE Goal
  <2>1. MutexInv'
    BY <1>1, MutexStutter DEF Apart
  <2>2. Places'
    BY <1>1 DEF Apart, OperationMoved, Places, Ac!mutexVars
  <2>3. FileInv'
    BY <1>1 DEF Apart, OperationMoved, FileInv, Ac!At, InFile
  <2> QED BY <2>1, <2>2, <2>3
<1>2. ASSUME NEW t \in DOMAIN session, Ac!Logout(t) PROVE Goal
  BY <1>2, MutexStutter DEF Ac!Logout, Places, FileInv, Ac!At, Ac!mutexVars, Ac!history
<1>3. ASSUME NEW c \in Callers, Ac!EnterSection(c) PROVE Goal
  <2>1. MutexInv'
    BY <1>3, EnterInv DEF Ac!EnterSection, Ac!Enter, Enter
  <2>2. /\ OperationMoved(c, job'[c]) /\ job'[c].step = "read" /\ job'[c].got = job[c].got
        /\ job[c].step = "enter" /\ UNCHANGED <<htpasswd, section>>
    BY <1>3, OperationGoes DEF Ac!EnterSection, OperationMoved, OperationSteps, InFile, Ac!At, Ac!history
  <2>3. /\ phase'[c] # "out" /\ \A d \in Callers : d # c => phase'[d] = phase[d]
    BY <1>3, <1>a DEF Ac!EnterSection, Ac!Enter
  <2>4. Places'
    BY <2>2, <2>3 DEF Places, OperationMoved, InFile
  <2>5. FileInv'
    BY <2>2 DEF FileInv, OperationMoved, Ac!At
  <2> QED BY <2>1, <2>4, <2>5
<1>4. ASSUME NEW c \in Callers, Ac!ReadEntries(c) PROVE Goal
  <2>1. MutexInv'
    BY <1>4, MutexStutter DEF Ac!ReadEntries
  <2>2. /\ OperationMoved(c, job'[c]) /\ job'[c].step = "write" /\ job'[c].got = htpasswd
        /\ job[c].step = "read" /\ phase[c] = "in" /\ UNCHANGED <<htpasswd, section, Ac!mutexVars>>
    <3>1. htpasswd \in Passwords
      BY DEF AccountsTypeOK
    <3> QED BY ZenonT(60), <1>4, <3>1, GotMoves DEF Ac!ReadEntries, OperationSteps, InFile, Ac!At, Ac!history
  <2>3. \A d \in Callers : ~Ac!At(d, "write")
    BY <2>2, OneWriter DEF Ac!At
  <2>4. Places'
    BY <2>2 DEF Places, OperationMoved, InFile, Ac!mutexVars
  <2>5. FileInv'
    BY <2>2, <2>3 DEF FileInv, OperationMoved, Ac!At
  <2> QED BY <2>1, <2>4, <2>5
<1>5. ASSUME NEW c \in Callers, Ac!Misread(c) PROVE Goal
  <2>1. MutexInv'
    BY <1>5, MutexStutter DEF Ac!Misread
  <2>0. Ac!GoTo(c, "write")
    BY <1>5 DEF Ac!Misread, Ac!GoTo
  <2>2. /\ OperationMoved(c, job'[c]) /\ job'[c].step = "write" /\ job'[c].got = job[c].got
        /\ job[c].step = "read" /\ phase[c] = "in" /\ UNCHANGED <<htpasswd, Ac!mutexVars>> /\ section' = Ac!Nothing
    BY <1>5, <2>0, OperationGoes DEF Ac!Misread, OperationMoved, OperationSteps, InFile, Ac!At
  <2>3. \A d \in Callers : ~Ac!At(d, "write")
    BY <2>2, OneWriter DEF Ac!At
  <2>4. Places'
    BY <2>2 DEF Places, OperationMoved, InFile, Ac!mutexVars
  <2>5. FileInv'
    BY <2>2, <2>3 DEF FileInv, OperationMoved, Ac!At, Ac!Nothing
  <2> QED BY <2>1, <2>4, <2>5
<1>6. ASSUME NEW c \in Callers, Ac!WriteEntries(c) PROVE Goal
  <2>1. MutexInv'
    BY <1>6, MutexStutter DEF Ac!WriteEntries
  <2>2. /\ OperationMoved(c, job'[c]) /\ job'[c].step = "chown"
        /\ job[c].step = "write" /\ phase[c] = "in" /\ UNCHANGED Ac!mutexVars
        /\ htpasswd' = [job[c].got EXCEPT ![job[c].user] = job[c].set]
        /\ section' = [section EXCEPT ![job[c].user] = job[c].set]
    BY <1>6, OperationGoes DEF Ac!WriteEntries, OperationMoved, OperationSteps, InFile, Ac!At
  <2>3. \A d \in Callers : d # c => ~Ac!At(d, "write")
    BY <2>2, OneWriter DEF Ac!At
  <2>4. Places'
    BY <2>2 DEF Places, OperationMoved, InFile, Ac!mutexVars
  <2>5. htpasswd' = section'
    BY <2>2 DEF FileInv, Ac!At
  <2>6. FileInv'
    BY ZenonT(60), <2>2, <2>3, <2>5 DEF FileInv, OperationMoved, Ac!At
  <2> QED BY <2>1, <2>4, <2>6
<1>7. ASSUME NEW c \in Callers, Ac!WriteFails(c) \/ Ac!LeaveSection(c) PROVE Goal
  <2>1. MutexInv' /\ phase[c] = "in"
    BY <1>7, LeaveInv DEF Ac!WriteFails, Ac!LeaveSection, Ac!Leave, Leave
  <2>2. /\ OperationMoved(c, job'[c]) /\ job'[c].step = "idle" /\ job'[c].got = Ac!Nothing
        /\ job[c].step \in {"write", "chown"} /\ htpasswd' = htpasswd
        /\ section' = IF Ac!At(c, "write") THEN htpasswd ELSE section
    BY <1>7, FinishMoves, IdleFields DEF Ac!WriteFails, Ac!LeaveSection, OperationMoved, Ac!At, Ac!history
  <2>3. \A d \in Callers : d # c => ~Ac!At(d, "write")
    BY <2>1, OneWriter DEF Ac!At
  <2>4. phase'[c] = "out" /\ \A d \in Callers : d # c =>
           phase'[d] = phase[d] \/ (phase[d] = "waiting" /\ phase'[d] = "in")
    <3>1. Ac!Leave(c)
      BY <1>7 DEF Ac!WriteFails, Ac!LeaveSection
    <3>2. CASE waiting = <<>>
      <4>1. phase' = [phase EXCEPT ![c] = "out"]
        BY <3>1, <3>2 DEF Ac!Leave
      <4> QED BY <1>a, <4>1
    <3>3. CASE waiting # <<>>
      <4> DEFINE h == Head(waiting)
      <4>1. 1 \in DOMAIN waiting /\ h = waiting[1] /\ h \in Callers
        BY <3>3 DEF MutexInv, MutexTypeOK
      <4>2. phase[h] = "waiting"
        BY <4>1 DEF MutexInv, LockAccounted
      <4>3. phase' = [phase EXCEPT ![c] = "out", ![h] = "in"]
        BY <3>1, <3>3 DEF Ac!Leave
      <4> HIDE DEF h
      <4>4. h # c /\ phase'[c] = "out" /\ phase'[h] = "in"
        BY <1>a, <2>1, <4>1, <4>2, <4>3
      <4>5. \A d \in Callers : d # c /\ d # h => phase'[d] = phase[d]
        BY <1>a, <4>3
      <4> QED BY <4>2, <4>4, <4>5
    <3> QED BY <3>2, <3>3
  <2>5. Places'
    BY <2>2, <2>4 DEF Places, OperationMoved, InFile
  <2>6. FileInv'
    BY <2>2, <2>3 DEF FileInv, OperationMoved, Ac!At
  <2> QED BY <2>1, <2>5, <2>6
<1>8. ASSUME Ac!RestartApi PROVE Goal
  <2>1. MutexInv'
    BY <1>8, RestartInv DEF Ac!RestartApi, Ac!Restart, Restart
  <2>2. Places'
    BY <1>8, IdleFields DEF Ac!RestartApi, Ac!Restart, Places, InFile
  <2>3. FileInv'
    BY <1>8, IdleFields DEF Ac!RestartApi, FileInv, Ac!At
  <2> QED BY <2>1, <2>2, <2>3
<1>9. ASSUME UNCHANGED Ac!vars PROVE Goal
  BY <1>9, MutexStutter DEF Ac!vars, Ac!rows, Ac!history, Ac!mutexVars, Places, FileInv, Ac!At
<1>10. ASSUME Ac!Next PROVE Goal
  <2>1. (\E c \in Callers : Apart(c)) \/ (\E t \in DOMAIN session : Ac!Logout(t)) \/ Ac!RestartApi
        \/ \E c \in Callers : \/ Ac!EnterSection(c) \/ Ac!ReadEntries(c) \/ Ac!Misread(c) \/ Ac!WriteEntries(c)
                              \/ Ac!WriteFails(c) \/ Ac!LeaveSection(c)
    BY <1>10, ApartSteps, Zenon DEF Ac!Next
  <2> HIDE DEF Goal
  <2> QED BY <1>1, <1>2, <1>3, <1>4, <1>5, <1>6, <1>7, <1>8, <2>1
<1> QED BY <1>9, <1>10

-----------------------------------------------------------------------------

\* A step that changes no more than the operation of c keeps ClosedInv, if what c does next is allowed.
LEMMA ClosedMove ==
  ASSUME AccountsTypeOK, ClosedInv, NEW c \in Callers, OperationMoved(c, job'[c]), KindOK(job'[c]),
         SawRight(job'[c], account'), fresh' # 0, excused \subseteq excused',
         \A u \in Users : account[u].there /\ ~account[u].local => account'[u].there /\ ~account'[u].local,
         \A u \in Users : AccountOK(account'[u]) /\ (Taken(account[u]) => Taken(account'[u])),
         \A u \in Users : Foreign(account'[u]) =>
           /\ Foreign(account[u])
           /\ htpasswd'[u] \in {0, htpasswd[u]}
           /\ job'[c].user = u =>
                job'[c].step # "hash" /\ (Writes(job'[c]) => job'[c].set = 0),
         \A u \in Users : u \notin excused' /\ ~account'[u].active =>
           /\ \/ Taken(account'[u]) \/ htpasswd'[u] = 0
              \/ Removing(job'[c], u)
              \/ ~account[u].active /\ htpasswd'[u] = htpasswd[u] /\ ~Removing(job[c], u)
           /\ \/ ~HasSession(session', u)
              \/ Revoking(job'[c], u)
              \/ ~account[u].active /\ HasSession(session, u) /\ ~Revoking(job[c], u)
  PROVE  ClosedInv'
<1>1. ASSUME NEW d \in Callers PROVE KindOK(job'[d]) /\ SawRight(job'[d], account')
  <2>1. CASE d = c
    BY <2>1
  <2>2. CASE d # c
    <3>1. job'[d] = job[d] /\ KindOK(job[d]) /\ SawRight(job[d], account) /\ job[d].user \in Users
      BY <2>2 DEF OperationMoved, ClosedInv, AccountsTypeOK, Operation
    <3> QED BY <3>1 DEF SawRight
  <2> QED BY <2>1, <2>2
<1>2. ASSUME NEW u \in Users PROVE LocalOnly(u)'
  <2> SUFFICES ASSUME Foreign(account'[u])
               PROVE  /\ htpasswd'[u] = 0
                      /\ \A d \in Callers : job'[d].user = u =>
                           job'[d].step # "hash" /\ (Writes(job'[d]) => job'[d].set = 0)
    BY DEF LocalOnly, Ac!At
  <2>1. htpasswd[u] = 0 /\ \A d \in Callers : job[d].user = u =>
                           job[d].step # "hash" /\ (Writes(job[d]) => job[d].set = 0)
    BY DEF ClosedInv, LocalOnly, Ac!At
  <2> QED BY <2>1 DEF OperationMoved
<1>3. ASSUME NEW u \in Users PROVE Closing(u)'
  <2> SUFFICES ASSUME u \notin excused', ~account'[u].active
               PROVE  /\ Taken(account'[u]) \/ htpasswd'[u] = 0 \/ \E d \in Callers : Removing(job'[d], u)
                      /\ HasSession(session', u) => \E d \in Callers : Revoking(job'[d], u)
    BY DEF Closing
  <2>1. \A d \in Callers : d # c => (Removing(job'[d], u) <=> Removing(job[d], u)) /\ (Revoking(job'[d], u) <=> Revoking(job[d], u))
    BY DEF OperationMoved
  <2>b. u \notin excused
    OBVIOUS
  <2>2. ~account[u].active =>
          /\ Taken(account[u]) \/ htpasswd[u] = 0 \/ \E d \in Callers : Removing(job[d], u)
          /\ HasSession(session, u) => \E d \in Callers : Revoking(job[d], u)
    BY <2>b DEF ClosedInv, Closing
  <2>a. /\ \/ Taken(account'[u]) \/ htpasswd'[u] = 0
           \/ Removing(job'[c], u)
           \/ ~account[u].active /\ htpasswd'[u] = htpasswd[u] /\ ~Removing(job[c], u)
        /\ \/ ~HasSession(session', u)
           \/ Revoking(job'[c], u)
           \/ ~account[u].active /\ HasSession(session, u) /\ ~Revoking(job[c], u)
    OBVIOUS
  <2>3. Taken(account'[u]) \/ htpasswd'[u] = 0 \/ \E d \in Callers : Removing(job'[d], u)
    <3>1. CASE Taken(account'[u]) \/ htpasswd'[u] = 0
      BY <3>1
    <3>2. CASE Removing(job'[c], u)
      BY <3>2
    <3>3. CASE ~account[u].active /\ htpasswd'[u] = htpasswd[u] /\ ~Removing(job[c], u)
      <4>1. Taken(account[u]) \/ htpasswd[u] = 0 \/ \E d \in Callers : Removing(job[d], u)
        BY <2>2, <2>b, <3>3
      <4>2. ASSUME NEW d \in Callers, Removing(job[d], u) PROVE Removing(job'[d], u)
        BY <2>1, <3>3, <4>2
      <4> QED BY <3>3, <4>1, <4>2
    <3> QED BY <2>a, <3>1, <3>2, <3>3
  <2>4. HasSession(session', u) => \E d \in Callers : Revoking(job'[d], u)
    <3>2. CASE Revoking(job'[c], u)
      BY <3>2
    <3>3. CASE ~account[u].active /\ HasSession(session, u) /\ ~Revoking(job[c], u)
      <4>1. \E d \in Callers : Revoking(job[d], u)
        BY <2>2, <2>b, <3>3
      <4>2. ASSUME NEW d \in Callers, Revoking(job[d], u) PROVE Revoking(job'[d], u)
        BY <2>1, <3>3, <4>2
      <4> QED BY <4>1, <4>2
    <3> QED BY <2>a, <3>2, <3>3
  <2> QED BY <2>3, <2>4
<1> QED BY <1>1, <1>2, <1>3 DEF ClosedInv

\* A step that changes neither the rows nor the file, and ends no deactivation.
LEMMA PlainMove ==
  ASSUME AccountsTypeOK, ClosedInv, NEW c \in Callers, OperationMoved(c, job'[c]), KindOK(job'[c]),
         SawRight(job'[c], account), UNCHANGED <<account, session, htpasswd, excused, fresh>>,
         LET u == job'[c].user IN
         Foreign(account[u]) =>
           job'[c].step # "hash" /\ (Writes(job'[c]) => job'[c].set = 0),
         \A u \in Users : /\ Removing(job[c], u) => Removing(job'[c], u)
                          /\ Revoking(job[c], u) => Revoking(job'[c], u)
  PROVE  ClosedInv'
<1>1. \A u \in Users : HasSession(session', u) <=> HasSession(session, u)
  BY DEF HasSession
<1>2. fresh' # 0 /\ SawRight(job'[c], account') /\ \A u \in Users : AccountOK(account'[u])
  BY DEF ClosedInv
<1>3. ASSUME NEW u \in Users, Foreign(account'[u])
      PROVE  /\ Foreign(account[u])
             /\ htpasswd'[u] \in {0, htpasswd[u]}
             /\ job'[c].user = u =>
                  job'[c].step # "hash" /\ (Writes(job'[c]) => job'[c].set = 0)
  BY <1>3
<1>4. ASSUME NEW u \in Users, u \notin excused', ~account'[u].active
      PROVE  /\ \/ Taken(account'[u]) \/ htpasswd'[u] = 0
                \/ Removing(job'[c], u)
                \/ ~account[u].active /\ htpasswd'[u] = htpasswd[u] /\ ~Removing(job[c], u)
             /\ \/ ~HasSession(session', u)
                \/ Revoking(job'[c], u)
                \/ ~account[u].active /\ HasSession(session, u) /\ ~Revoking(job[c], u)
  BY <1>1, <1>4
<1> QED BY <1>2, <1>3, <1>4, ClosedMove

\* An operation that is over threatens nothing.
LEMMA OperationIdle == KindOK(Ac!Idle) /\ (\A a : SawRight(Ac!Idle, a)) /\ ~Writes(Ac!Idle) /\ Ac!Idle.step # "hash"
  BY IdleFields DEF KindOK, SawRight, Writes, InFile

\* Nothing is open at the start that should not be.
LEMMA ClosedInit == Ac!Init => ClosedInv
<1> SUFFICES ASSUME Ac!Init PROVE ClosedInv
  OBVIOUS
<1>1. \A c \in Callers : job[c] = Ac!Idle
  BY DEF Ac!Init
<1>2. \A u \in Users : ~account[u].local \/ ~account[u].active => htpasswd[u] = 0
  BY DEF Ac!Init, Ac!Absent
<1>3. \A u \in Users : ~HasSession(session, u)
  BY EmptySeq DEF Ac!Init, HasSession
<1>4. fresh # 0 /\ \A u \in Users : AccountOK(account[u])
  BY DEF Ac!Init, Ac!Absent, AccountOK, Foreign
<1> QED BY <1>1, <1>2, <1>3, <1>4, OperationIdle DEF ClosedInv, LocalOnly, Closing, Ac!At, Foreign

\* Every step keeps a deactivated account closed, or on its way to it.
LEMMA ClosedStep == AccountsInv /\ AccountsTypeOK' /\ [Ac!Next]_(Ac!vars) => ClosedInv'
<1> SUFFICES ASSUME AccountsInv, AccountsTypeOK', [Ac!Next]_(Ac!vars) PROVE ClosedInv'
  OBVIOUS
<1> USE DEF AccountsInv
<1>a. fresh # 0 /\ fresh \in Nat /\ \A v \in Users : AccountOK(account[v])
  BY DEF ClosedInv, AccountsTypeOK
\* What is known of the operation of a caller.
<1>b. ASSUME NEW c \in Callers
      PROVE  /\ job[c] \in Operation /\ job[c].user \in Users /\ KindOK(job[c]) /\ SawRight(job[c], account)
             /\ LocalOnly(job[c].user) /\ account[job[c].user] \in UserRow
  BY DEF AccountsTypeOK, Operation, ClosedInv
<1>1. ASSUME NEW c \in Callers, NEW k \in OperationKinds, NEW u \in Users, NEW s \in OperationSteps, NEW t \in Nat,
             Ac!Start(c, k, u, s, t), UNCHANGED <<account, session, Ac!history>>,
             \/ k = "create" /\ s = "insert"
             \/ k \in {"change", "reset"} /\ s = "hash" /\ account[u].local
             \/ k \in {"activate", "deactivate"} /\ s = "update" /\ account[u].there
             \/ k = "login" /\ s = "issue"
             \/ k = "refresh" /\ s = "rotate"
      PROVE  ClosedInv'
  <2>1. /\ OperationMoved(c, job'[c]) /\ job'[c].step = s /\ job'[c].kind = k /\ job'[c].user = u
        /\ job'[c].seen = account[u] /\ job'[c].set = 0
    BY <1>1, StartMoves
  <2>2. job[c].step = "idle" /\ UNCHANGED <<account, session, htpasswd, excused, fresh>>
    BY <1>1 DEF Ac!Start, Ac!At, Ac!history
  <2>3. KindOK(job'[c]) /\ SawRight(job'[c], account) /\ ~Writes(job'[c])
    BY <1>1, <2>1 DEF KindOK, SawRight, Writes, InFile
  <2>4. \A v \in Users : ~Removing(job[c], v) /\ ~Revoking(job[c], v)
    BY <2>2 DEF Removing, Revoking, Writes, Ac!At
  <2>5. LET v == job'[c].user IN
        Foreign(account[v]) =>
           job'[c].step # "hash" /\ (Writes(job'[c]) => job'[c].set = 0)
    BY <1>1, <2>1 DEF Foreign
  <2> QED BY <2>1, <2>2, <2>3, <2>4, <2>5, PlainMove
<1>2. ASSUME NEW c \in Callers, NEW u \in Users,
             \/ Ac!CreateUser(c, u) \/ Ac!ChangePassword(c, u) \/ Ac!ResetPassword(c, u) \/ Ac!Login(c, u)
             \/ \E usable \in BOOLEAN : Ac!UpdateUser(c, u, usable)
      PROVE  ClosedInv'
  <2>1. CASE Ac!CreateUser(c, u)
    BY <1>1, <2>1 DEF Ac!CreateUser, OperationKinds, OperationSteps
  <2>2. CASE Ac!ChangePassword(c, u)
    BY <1>1, <2>2 DEF Ac!ChangePassword, OperationKinds, OperationSteps
  <2>3. CASE Ac!ResetPassword(c, u)
    BY <1>1, <2>3 DEF Ac!ResetPassword, OperationKinds, OperationSteps
  <2>4. CASE Ac!Login(c, u)
    BY <1>1, <2>4 DEF Ac!Login, OperationKinds, OperationSteps
  <2>5. ASSUME NEW usable \in BOOLEAN, Ac!UpdateUser(c, u, usable) PROVE ClosedInv'
    <3>1. PICK k \in {"activate", "deactivate"} : Ac!Start(c, k, u, "update", 0)
      BY <2>5 DEF Ac!UpdateUser
    <3> QED BY <1>1, <2>5, <3>1 DEF Ac!UpdateUser, OperationKinds, OperationSteps
  <2> QED BY <1>2, <2>1, <2>2, <2>3, <2>4, <2>5
<1>3. ASSUME NEW c \in Callers, NEW u \in Users, Ac!LoginByDirectory(c, u) PROVE ClosedInv'
  <2>1. PICK s \in {"issue", "idle"} : Ac!Start(c, "login", u, s, 0)
    BY <1>3 DEF Ac!LoginByDirectory
  <2>2. /\ OperationMoved(c, job'[c]) /\ job'[c].step = s /\ job'[c].kind = "login" /\ job'[c].user = u
        /\ job'[c].set = 0
    <3>1. "login" \in OperationKinds /\ s \in OperationSteps
      BY DEF OperationKinds, OperationSteps
    <3> QED BY <2>1, <3>1, StartMoves
  <2>3. job[c].step = "idle" /\ htpasswd' = htpasswd /\ fresh' = fresh
    BY <2>1 DEF Ac!Start, Ac!At
  <2>4. /\ account'[u].there /\ ~account'[u].local /\ (~account'[u].active => ~account[u].active)
        /\ \A v \in Users : v # u => account'[v] = account[v]
    BY <1>3 DEF Ac!LoginByDirectory, AccountsTypeOK, UserRow
  <2>5. excused' = excused /\ session' = session
    BY <1>3 DEF Ac!LoginByDirectory, Ac!history
  <2>a. account'[u].pwd = IF account[u].there THEN account[u].pwd ELSE 0
    BY <1>3 DEF Ac!LoginByDirectory, AccountsTypeOK, UserRow
  <2>b. /\ AccountOK(account'[u]) /\ (Taken(account[u]) => Taken(account'[u]))
        /\ Foreign(account'[u]) => Foreign(account[u])
    BY <1>a, <2>4, <2>a DEF AccountOK, Foreign, Taken
  <2>6. KindOK(job'[c]) /\ SawRight(job'[c], account') /\ ~Writes(job'[c])
    BY <2>2 DEF KindOK, SawRight, Writes, InFile
  <2>7. \A v \in Users : ~Removing(job[c], v) /\ ~Revoking(job[c], v)
    BY <2>3 DEF Removing, Revoking, Writes
  <2>8. ASSUME NEW v \in Users, Foreign(account'[v])
        PROVE  /\ Foreign(account[v])
               /\ htpasswd'[v] \in {0, htpasswd[v]}
               /\ job'[c].user = v =>
                    job'[c].step # "hash" /\ (Writes(job'[c]) => job'[c].set = 0)
    BY <2>2, <2>3, <2>4, <2>5, <2>6, <2>8, <2>b
  <2>9. ASSUME NEW v \in Users, v \notin excused', ~account'[v].active
        PROVE  /\ ~account[v].active /\ htpasswd'[v] = htpasswd[v]
               /\ HasSession(session', v) => HasSession(session, v)
    BY <2>3, <2>4, <2>5, <2>9
  <2> QED BY <1>a, <2>2, <2>3, <2>4, <2>5, <2>6, <2>7, <2>8, <2>9, <2>b, ClosedMove
<1>4. ASSUME NEW c \in Callers, NEW t \in DOMAIN session, Ac!Refresh(c, t) PROVE ClosedInv'
  <2>0. PICK n \in Nat : DOMAIN session = 1..n /\ \A i \in 1..n : session[i] \in Session
    BY DEF AccountsTypeOK
  <2>1. session[t].user \in Users /\ t \in Nat
    BY <2>0 DEF Session
  <2> QED BY <1>1, <1>4, <2>1 DEF Ac!Refresh, OperationKinds, OperationSteps
<1>5. ASSUME NEW t \in DOMAIN session, Ac!Logout(t) PROVE ClosedInv'
  <2>1. \A u : HasSession(session', u) => HasSession(session, u)
    BY <1>5, EndSession DEF Ac!Logout, HasSession
  <2> QED BY <1>5, <2>1 DEF Ac!Logout, Ac!history, ClosedInv, LocalOnly, Closing, Ac!At
<1>6. ASSUME NEW c \in Callers, Ac!InsertUser(c) PROVE ClosedInv'
  <2> DEFINE u == job[c].user
  <2>0. u \in Users /\ job[c].step = "insert" /\ job[c].kind = "create"
    BY <1>6, <1>b DEF Ac!InsertUser, Ac!At, KindOK
  <2>1. \A v \in Users : ~Removing(job[c], v) /\ ~Revoking(job[c], v)
    BY <2>0 DEF Removing, Revoking, Writes
  <2>2. UNCHANGED <<session, htpasswd, excused>>
    BY <1>6 DEF Ac!InsertUser, Ac!history
  <2>3. CASE account[u].there
    <3>1. OperationMoved(c, Ac!Idle) /\ job'[c] = Ac!Idle /\ UNCHANGED <<account, fresh>>
      BY <1>6, <2>3, FinishMoves DEF Ac!InsertUser, OperationMoved
    <3> QED BY <2>1, <2>2, <3>1, OperationIdle, PlainMove
  <2>4. CASE ~account[u].there
    <3>1. /\ fresh' = fresh + 1 /\ fresh' \in Nat
          /\ job' = [job EXCEPT ![c].step = "enter", ![c].set = fresh']
      BY <1>6, <1>a, <2>4 DEF Ac!InsertUser
    <3>2. /\ OperationMoved(c, job'[c]) /\ job'[c].step = "enter" /\ job'[c].kind = "create"
          /\ job'[c].user = u /\ job'[c].set = fresh'
      BY <2>0, <3>1, SetMoves DEF OperationSteps
    <3>3. /\ account'[u].there /\ account'[u].active /\ account'[u].local /\ account'[u].pwd = fresh'
          /\ \A v \in Users : v # u => account'[v] = account[v]
      BY <1>6, <2>0, <2>4 DEF Ac!InsertUser, AccountsTypeOK
    <3>4. KindOK(job'[c]) /\ SawRight(job'[c], account') /\ fresh' # 0
      BY <1>a, <3>1, <3>2 DEF KindOK, SawRight, Writes, InFile
    <3>5. \A v \in Users : account[v].there /\ ~account[v].local => account'[v].there /\ ~account'[v].local
      BY <2>4, <3>3
    <3>8. /\ AccountOK(account'[u]) /\ ~Foreign(account'[u]) /\ ~Taken(account[u])
      BY <1>a, <2>0, <2>4, <3>1, <3>3 DEF AccountOK, Foreign, Taken
    <3>6. ASSUME NEW v \in Users, Foreign(account'[v])
          PROVE  /\ Foreign(account[v])
                 /\ htpasswd'[v] \in {0, htpasswd[v]}
                 /\ job'[c].user = v =>
                      job'[c].step # "hash" /\ (Writes(job'[c]) => job'[c].set = 0)
      BY <2>2, <3>2, <3>3, <3>6, <3>8
    <3>7. ASSUME NEW v \in Users, v \notin excused', ~account'[v].active
          PROVE  /\ ~account[v].active /\ htpasswd'[v] = htpasswd[v]
                 /\ HasSession(session', v) => HasSession(session, v)
      BY <2>2, <3>3, <3>7
    <3> QED BY <1>a, <2>1, <2>2, <3>2, <3>3, <3>4, <3>5, <3>6, <3>7, <3>8, ClosedMove
  <2> QED BY <2>3, <2>4
<1>7. ASSUME NEW c \in Callers, Ac!StorePassword(c) PROVE ClosedInv'
  <2> DEFINE u == job[c].user
  <2>0. u \in Users /\ job[c].step = "hash" /\ job[c].kind \in {"change", "reset"}
    BY <1>7, <1>b DEF Ac!StorePassword, Ac!At, KindOK
  <2>1. \A v \in Users : ~Removing(job[c], v) /\ ~Revoking(job[c], v)
    BY <2>0 DEF Removing, Revoking, Writes
  <2>2. UNCHANGED <<session, htpasswd, excused>> /\ fresh' = fresh + 1 /\ fresh' # 0 /\ fresh' \in Nat
    BY <1>7, <1>a DEF Ac!StorePassword, Ac!history
  <2>3. \A v \in Users : /\ account'[v].there = account[v].there /\ account'[v].active = account[v].active
                         /\ account'[v].local = account[v].local
    BY <1>7, <2>0 DEF Ac!StorePassword, AccountsTypeOK, UserRow
  <2>4. /\ ~Foreign(account'[u]) /\ AccountOK(account'[u]) /\ (Taken(account[u]) => Taken(account'[u]))
        /\ \A v \in Users : v # u => account'[v] = account[v]
    <3>1. account'[u].pwd = fresh' /\ \A v \in Users : v # u => account'[v] = account[v]
      BY <1>7, <2>0 DEF Ac!StorePassword, AccountsTypeOK, UserRow
    <3>2. Foreign(account[u]) => FALSE
      BY <1>b, <2>0 DEF LocalOnly, Ac!At
    <3> QED BY <1>a, <2>0, <2>2, <2>3, <3>1, <3>2 DEF Foreign, Taken, AccountOK
  <2>5. /\ OperationMoved(c, job'[c]) /\ KindOK(job'[c]) /\ SawRight(job'[c], account')
        /\ job'[c].step # "hash" /\ (Writes(job'[c]) => job'[c].user = u)
    <3>1. CASE Ac!SetFile(c)
      <4>1. job' = [job EXCEPT ![c].step = "enter", ![c].set = fresh']
        BY <1>7, <3>1 DEF Ac!StorePassword
      <4>2. /\ OperationMoved(c, job'[c]) /\ job'[c].step = "enter" /\ job'[c].kind = job[c].kind
            /\ job'[c].user = u /\ job'[c].set = fresh' /\ job'[c].seen = job[c].seen
        BY ZenonT(60), <2>2, <4>1, SetMoves DEF OperationSteps
      <4>3. job[c].kind = "change" => job[c].seen.active
        BY <3>1 DEF Ac!SetFile
      <4> QED BY <2>0, <2>2, <4>2, <4>3 DEF KindOK, SawRight, Writes, InFile
    <3>2. CASE ~Ac!SetFile(c)
      BY <1>7, <3>2, FinishMoves, OperationIdle DEF Ac!StorePassword, OperationMoved
    <3> QED BY <3>1, <3>2
  <2>6. ASSUME NEW v \in Users, Foreign(account'[v])
        PROVE  /\ Foreign(account[v])
               /\ htpasswd'[v] \in {0, htpasswd[v]}
               /\ job'[c].user = v =>
                    job'[c].step # "hash" /\ (Writes(job'[c]) => job'[c].set = 0)
    BY <2>2, <2>3, <2>4, <2>5, <2>6
  <2>7. ASSUME NEW v \in Users, v \notin excused', ~account'[v].active
        PROVE  /\ ~account[v].active /\ htpasswd'[v] = htpasswd[v]
               /\ HasSession(session', v) => HasSession(session, v)
    BY <2>2, <2>3, <2>7
  <2> QED BY <1>a, <2>0, <2>1, <2>2, <2>3, <2>4, <2>5, <2>6, <2>7, ClosedMove
<1>8. ASSUME NEW c \in Callers, Ac!UpdateRow(c) PROVE ClosedInv'
  <2> DEFINE u == job[c].user
  <2>0. u \in Users /\ job[c].step = "update" /\ job[c].kind \in {"activate", "deactivate"}
    BY <1>8, <1>b DEF Ac!UpdateRow, Ac!At, KindOK
  <2>1. \A v \in Users : ~Removing(job[c], v) /\ ~Revoking(job[c], v)
    BY <2>0 DEF Removing, Revoking, Writes
  <2>2. UNCHANGED <<session, htpasswd, fresh>>
    BY <1>8 DEF Ac!UpdateRow
  <2>3. /\ \A v \in Users : /\ account'[v].there = account[v].there
                            /\ account'[v].local = account[v].local
                            /\ account'[v].pwd = account[v].pwd
        /\ account'[u].active = (job[c].kind = "activate")
        /\ \A v \in Users : v # u => account'[v].active = account[v].active
    <3>1. account' = [account EXCEPT ![u].active = (job[c].kind = "activate")]
      BY <1>8 DEF Ac!UpdateRow
    <3> QED BY <2>0, <3>1 DEF AccountsTypeOK, UserRow
  <2>a. \A v \in Users : /\ AccountOK(account'[v]) /\ (Taken(account[v]) <=> Taken(account'[v]))
                         /\ Foreign(account[v]) <=> Foreign(account'[v])
    BY <1>a, <2>3 DEF AccountOK, Taken, Foreign
  <2>4. /\ excused \subseteq excused'
        /\ job[c].kind = "deactivate" /\ ~job[c].seen.active /\ account[u].active => u \in excused'
    BY <1>8 DEF Ac!UpdateRow, Ac!Excuse
  <2>5. CASE job[c].kind = "deactivate" /\ job[c].seen.active
    <3>1. Ac!GoTo(c, "revoke")
      BY <1>8, <2>5 DEF Ac!UpdateRow
    <3>2. /\ OperationMoved(c, job'[c]) /\ job'[c].step = "revoke" /\ job'[c].kind = "deactivate"
          /\ job'[c].user = u /\ job'[c].set = job[c].set /\ job'[c].seen = job[c].seen
      BY <2>5, <3>1, OperationGoes DEF OperationSteps, OperationMoved
    <3>3. ~job[c].seen.local => account[u].there /\ ~account[u].local
      BY <1>b, <2>0, <2>5 DEF SawRight
    <3>4. job[c].set = 0
      BY <1>b, <2>5 DEF KindOK
    <3>5. KindOK(job'[c]) /\ SawRight(job'[c], account') /\ ~Writes(job'[c])
      BY <2>0, <2>3, <2>5, <3>2, <3>3, <3>4 DEF KindOK, SawRight, Writes, InFile
    <3>6. Revoking(job'[c], u) /\ (job[c].seen.local => Removing(job'[c], u))
      BY <3>2 DEF Revoking, Removing
    <3>7. ~account[u].local => htpasswd[u] = 0 \/ Taken(account'[u])
      BY <1>b, <2>0, <2>a DEF LocalOnly, Foreign, Taken
    <3>8. ASSUME NEW v \in Users, Foreign(account'[v])
          PROVE  /\ Foreign(account[v])
                 /\ htpasswd'[v] \in {0, htpasswd[v]}
                 /\ job'[c].user = v =>
                      job'[c].step # "hash" /\ (Writes(job'[c]) => job'[c].set = 0)
      BY <2>2, <2>3, <2>a, <3>2, <3>5, <3>8
    <3>9. ASSUME NEW v \in Users, v \notin excused', ~account'[v].active
          PROVE  /\ \/ Taken(account'[v]) \/ htpasswd'[v] = 0
                    \/ Removing(job'[c], v)
                    \/ ~account[v].active /\ htpasswd'[v] = htpasswd[v] /\ ~Removing(job[c], v)
                 /\ \/ ~HasSession(session', v)
                    \/ Revoking(job'[c], v)
                    \/ ~account[v].active /\ HasSession(session, v) /\ ~Revoking(job[c], v)
      <4>1. CASE v = u
        BY <2>2, <2>4, <3>3, <3>6, <3>7, <3>9, <4>1
      <4>2. CASE v # u
        BY <2>1, <2>2, <2>3, <3>9, <4>2
      <4> QED BY <4>1, <4>2
    <3> QED BY <1>a, <2>2, <2>3, <2>4, <2>a, <3>2, <3>5, <3>8, <3>9, ClosedMove
  <2>6. CASE ~(job[c].kind = "deactivate" /\ job[c].seen.active)
    <3>1. Ac!Finish(c)
      BY <1>8, <2>0, <2>6 DEF Ac!UpdateRow
    <3>2. OperationMoved(c, Ac!Idle) /\ job'[c] = Ac!Idle
      BY <3>1, FinishMoves DEF OperationMoved
    <3>3. ASSUME NEW v \in Users, v \notin excused', ~account'[v].active
          PROVE  /\ ~account[v].active /\ htpasswd'[v] = htpasswd[v]
                 /\ HasSession(session', v) => HasSession(session, v)
      BY <2>0, <2>2, <2>3, <2>4, <2>6, <3>3
    <3> QED BY <1>a, <2>1, <2>2, <2>3, <2>4, <2>a, <3>2, <3>3, OperationIdle, ClosedMove
  <2> QED BY <2>5, <2>6
<1>9. ASSUME NEW c \in Callers, Ac!Deactivate(c) PROVE ClosedInv'
  <2> DEFINE u == job[c].user
  <2>0. /\ u \in Users /\ job[c].step = "revoke" /\ job[c].kind = "deactivate" /\ job[c].set = 0
        /\ job[c].seen.active
    BY <1>9, <1>b DEF Ac!Deactivate, Ac!At, KindOK
  <2>1. \A v \in Users : v # u => ~Removing(job[c], v) /\ ~Revoking(job[c], v)
    BY DEF Removing, Revoking
  <2>2. UNCHANGED <<account, htpasswd, fresh, excused>> /\ session' = Ac!Revoked(u)
    BY <1>9 DEF Ac!Deactivate, Ac!history
  <2>3. ~HasSession(session', u) /\ \A v : HasSession(session', v) => HasSession(session, v)
    BY <2>2, RevokedType DEF HasSession
  <2>4. /\ OperationMoved(c, job'[c]) /\ KindOK(job'[c]) /\ SawRight(job'[c], account') /\ job'[c].step # "hash"
        /\ (Writes(job'[c]) => job'[c].set = 0) /\ (job[c].seen.local => Removing(job'[c], u))
    <3>1. CASE job[c].seen.local
      <4>1. Ac!GoTo(c, "enter")
        BY <1>9, <3>1 DEF Ac!Deactivate
      <4>2. /\ OperationMoved(c, job'[c]) /\ job'[c].step = "enter" /\ job'[c].kind = "deactivate"
            /\ job'[c].user = u /\ job'[c].set = 0 /\ job'[c].seen = job[c].seen
        BY <2>0, <4>1, OperationGoes DEF OperationSteps, OperationMoved
      <4> QED BY <4>2 DEF KindOK, SawRight, Writes, InFile, Removing
    <3>2. CASE ~job[c].seen.local
      BY <1>9, <3>2, FinishMoves, OperationIdle DEF Ac!Deactivate, OperationMoved
    <3> QED BY <3>1, <3>2
  <2>5. ~job[c].seen.local => account[u].there /\ ~account[u].local
    BY <1>b, <2>0 DEF SawRight
  <2>6. ~account[u].local => htpasswd[u] = 0 \/ Taken(account[u])
    BY <1>b DEF LocalOnly, Foreign, Taken
  <2>7. ASSUME NEW v \in Users, v \notin excused', ~account'[v].active
        PROVE  /\ \/ Taken(account'[v]) \/ htpasswd'[v] = 0
                  \/ Removing(job'[c], v)
                  \/ ~account[v].active /\ htpasswd'[v] = htpasswd[v] /\ ~Removing(job[c], v)
               /\ \/ ~HasSession(session', v)
                  \/ Revoking(job'[c], v)
                  \/ ~account[v].active /\ HasSession(session, v) /\ ~Revoking(job[c], v)
    <3>1. CASE v = u
      BY <2>2, <2>3, <2>4, <2>5, <2>6, <2>7, <3>1
    <3>2. CASE v # u
      BY <2>1, <2>2, <2>3, <2>7, <3>2
    <3> QED BY <3>1, <3>2
  <2> QED BY <1>a, <2>2, <2>4, <2>7, ClosedMove
<1>10. ASSUME NEW c \in Callers, Ac!EnterSection(c) \/ Ac!ReadEntries(c) \/ Ac!Misread(c) PROVE ClosedInv'
  <2>1. PICK s \in {"read", "write"} : /\ OperationMoved(c, job'[c]) /\ job'[c].step = s
                                       /\ job'[c].kind = job[c].kind /\ job'[c].user = job[c].user
                                       /\ job'[c].seen = job[c].seen /\ job'[c].set = job[c].set
    <3>1. CASE Ac!EnterSection(c)
      BY <3>1, OperationGoes DEF Ac!EnterSection, OperationMoved, OperationSteps, InFile
    <3>2. CASE Ac!ReadEntries(c)
      <4>1. htpasswd \in Passwords
        BY DEF AccountsTypeOK
      <4> QED BY <3>2, <4>1, GotMoves DEF Ac!ReadEntries, OperationSteps, InFile
    <3>3. CASE Ac!Misread(c)
      <4>1. Ac!GoTo(c, "write")
        BY <3>3 DEF Ac!Misread, Ac!GoTo
      <4> QED BY <4>1, OperationGoes DEF OperationMoved, OperationSteps, InFile
    <3> QED BY <1>10, <3>1, <3>2, <3>3
  <2>2. job[c].step \in {"enter", "read"} /\ UNCHANGED <<account, session, htpasswd, excused, fresh>>
    BY <1>10 DEF Ac!EnterSection, Ac!ReadEntries, Ac!Misread, Ac!At, Ac!rows, Ac!history
  <2>3. Writes(job[c]) /\ Writes(job'[c])
    BY <2>1, <2>2 DEF Writes
  <2>4. KindOK(job'[c]) /\ SawRight(job'[c], account)
    BY <1>b, <2>1, <2>2, <2>3 DEF KindOK, SawRight, InFile
  <2>5. Foreign(account[job[c].user]) => job[c].set = 0
    BY <1>b, <2>3 DEF LocalOnly
  <2>6. \A v \in Users : /\ Removing(job[c], v) => Removing(job'[c], v)
                         /\ ~Revoking(job[c], v)
    BY <2>1, <2>2, <2>3 DEF Removing, Revoking
  <2> QED BY <2>1, <2>2, <2>4, <2>5, <2>6, PlainMove
<1>11. ASSUME NEW c \in Callers, Ac!LeaveSection(c) PROVE ClosedInv'
  <2>1. /\ OperationMoved(c, Ac!Idle) /\ job'[c] = Ac!Idle /\ job[c].step = "chown"
        /\ UNCHANGED <<account, session, htpasswd, excused, fresh>>
    BY <1>11, FinishMoves DEF Ac!LeaveSection, OperationMoved, Ac!At, Ac!rows, Ac!history
  <2>2. \A v \in Users : ~Removing(job[c], v) /\ ~Revoking(job[c], v)
    BY <2>1 DEF Removing, Revoking, Writes
  <2> QED BY <2>1, <2>2, OperationIdle, PlainMove
<1>13. ASSUME NEW c \in Callers, Ac!WriteEntries(c) PROVE ClosedInv'
  <2> DEFINE u == job[c].user
  <2>1. /\ OperationMoved(c, job'[c]) /\ job'[c].step = "chown" /\ job'[c].kind = job[c].kind
        /\ job'[c].user = u /\ job'[c].set = job[c].set
    BY <1>13, OperationGoes DEF Ac!WriteEntries, OperationMoved, OperationSteps, InFile
  <2>2. /\ job[c].step = "write" /\ Writes(job[c]) /\ UNCHANGED <<account, session, fresh>>
        /\ htpasswd' = [job[c].got EXCEPT ![u] = job[c].set] /\ excused \subseteq excused'
    BY <1>13 DEF Ac!WriteEntries, Ac!At, Ac!rows, Writes
  <2>3. /\ htpasswd'[u] = job[c].set
        /\ \A v \in Users : v # u => htpasswd'[v] \in {0, htpasswd[v]}
    <3>1. job[c].got \in Passwords /\ \A v \in Users : job[c].got[v] \in {0, htpasswd[v]}
      BY <1>b, <2>2 DEF Operation, FileInv, Ac!At
    <3> QED BY <1>b, <2>2, <3>1 DEF Passwords
  <2>4. KindOK(job'[c]) /\ SawRight(job'[c], account') /\ ~Writes(job'[c])
    BY <1>b, <2>1, <2>2 DEF KindOK, SawRight, Writes, InFile
  <2>5. job[c].set # 0 /\ ~account[u].active => u \in excused'
    BY <1>13, <1>b, <2>2 DEF Ac!WriteEntries, KindOK
  <2>6. Foreign(account[u]) => job[c].set = 0
    BY <1>b, <2>2 DEF LocalOnly
  <2>7. \A v \in Users : ~Revoking(job[c], v) /\ (v # u => ~Removing(job[c], v))
    BY <2>2 DEF Removing, Revoking
  <2>8. ASSUME NEW v \in Users, Foreign(account'[v])
        PROVE  /\ Foreign(account[v])
               /\ htpasswd'[v] \in {0, htpasswd[v]}
               /\ job'[c].user = v =>
                    job'[c].step # "hash" /\ (Writes(job'[c]) => job'[c].set = 0)
    BY <2>1, <2>2, <2>3, <2>4, <2>6, <2>8
  <2>9. ASSUME NEW v \in Users, v \notin excused', ~account'[v].active
        PROVE  /\ \/ Taken(account'[v]) \/ htpasswd'[v] = 0
                  \/ Removing(job'[c], v)
                  \/ ~account[v].active /\ htpasswd'[v] = htpasswd[v] /\ ~Removing(job[c], v)
               /\ \/ ~HasSession(session', v)
                  \/ Revoking(job'[c], v)
                  \/ ~account[v].active /\ HasSession(session, v) /\ ~Revoking(job[c], v)
    BY <2>2, <2>3, <2>5, <2>7, <2>9
  <2> QED BY <1>a, <2>1, <2>2, <2>4, <2>8, <2>9, ClosedMove
<1>14. ASSUME NEW c \in Callers, Ac!WriteFails(c) PROVE ClosedInv'
  <2> DEFINE u == job[c].user
  <2>1. /\ OperationMoved(c, Ac!Idle) /\ job'[c] = Ac!Idle /\ excused' = excused \cup {u}
        /\ UNCHANGED <<account, session, htpasswd, fresh>>
    BY <1>14, FinishMoves DEF Ac!WriteFails, OperationMoved, Ac!rows
  <2>2. \A v \in Users : v # u => ~Removing(job[c], v) /\ ~Revoking(job[c], v)
    BY DEF Removing, Revoking
  <2>3. ASSUME NEW v \in Users, v \notin excused', ~account'[v].active
        PROVE  /\ ~account[v].active /\ htpasswd'[v] = htpasswd[v] /\ v # u
               /\ HasSession(session', v) => HasSession(session, v)
    BY <2>1, <2>3
  <2> QED BY <1>a, <2>1, <2>2, <2>3, OperationIdle, ClosedMove
<1>15. ASSUME NEW c \in Callers, Ac!Rotate(c) PROVE ClosedInv'
  <2>1. /\ job[c].step = "rotate"
        /\ Ac!GoTo(c, "issue") \/ Ac!Finish(c)
        /\ UNCHANGED <<account, htpasswd, fresh, excused>>
    BY <1>15 DEF Ac!Rotate, Ac!At, Ac!history
  <2>2. \A v \in Users : ~Removing(job[c], v) /\ ~Revoking(job[c], v)
    BY <2>1 DEF Removing, Revoking, Writes
  <2>3. \A v : HasSession(session', v) => HasSession(session, v)
    <3>1. CASE session' = session
      BY <3>1
    <3>2. CASE session' = [session EXCEPT ![job[c].token].live = FALSE]
      BY <3>2, EndSession DEF HasSession
    <3> QED BY <1>15, <3>1, <3>2 DEF Ac!Rotate
  <2>4. /\ OperationMoved(c, job'[c]) /\ KindOK(job'[c]) /\ SawRight(job'[c], account')
        /\ ~Writes(job'[c]) /\ job'[c].step # "hash"
    <3>1. CASE Ac!GoTo(c, "issue")
      <4>1. /\ OperationMoved(c, job'[c]) /\ job'[c].step = "issue" /\ job'[c].kind = job[c].kind
            /\ job'[c].set = job[c].set
        BY <3>1, OperationGoes DEF OperationMoved, OperationSteps
      <4> QED BY <1>b, <4>1 DEF KindOK, SawRight, Writes, InFile
    <3>2. CASE Ac!Finish(c)
      BY <3>2, FinishMoves, OperationIdle DEF OperationMoved
    <3> QED BY <2>1, <3>1, <3>2
  <2> QED BY <1>a, <2>1, <2>2, <2>3, <2>4, ClosedMove
<1>16. ASSUME NEW c \in Callers, Ac!IssueTokens(c) PROVE ClosedInv'
  <2> DEFINE u == job[c].user
  <2>1. /\ OperationMoved(c, Ac!Idle) /\ job'[c] = Ac!Idle /\ job[c].step = "issue"
        /\ excused' = excused \cup (IF account[u].active THEN {} ELSE {u})
        /\ UNCHANGED <<account, htpasswd, fresh>>
        /\ session' = Append(session, [user |-> u, live |-> TRUE])
    BY <1>16, FinishMoves DEF Ac!IssueTokens, Ac!Excuse, OperationMoved, Ac!At
  <2>2. \A v \in Users : ~Removing(job[c], v) /\ ~Revoking(job[c], v)
    BY <2>1 DEF Removing, Revoking, Writes
  <2>3. \A v : v # u /\ HasSession(session', v) => HasSession(session, v)
    BY <1>b, <2>1, NewSession DEF HasSession
  <2>4. ASSUME NEW v \in Users, v \notin excused', ~account'[v].active
        PROVE  /\ ~account[v].active /\ htpasswd'[v] = htpasswd[v]
               /\ HasSession(session', v) => HasSession(session, v)
    BY <2>1, <2>3, <2>4
  <2> QED BY <1>a, <2>1, <2>2, <2>4, OperationIdle, ClosedMove
<1>17. ASSUME Ac!RestartApi PROVE ClosedInv'
  <2>1. /\ \A c \in Callers : job'[c] = Ac!Idle
        /\ UNCHANGED <<account, session, fresh>> /\ excused \subseteq excused'
        /\ \A c \in Callers : job[c].step # "idle" => job[c].user \in excused'
    BY <1>17 DEF Ac!RestartApi, Ac!rows, Ac!At
  <2>2. \A u \in Users : htpasswd'[u] \in {0, htpasswd[u]}
    BY <1>17 DEF Ac!RestartApi, Ac!Reconciled
  <2>3. ASSUME NEW u \in Users, u \notin excused', ~account'[u].active
        PROVE  (Taken(account'[u]) \/ htpasswd'[u] = 0) /\ ~HasSession(session', u)
    <3>1. \A c \in Callers : ~Removing(job[c], u) /\ ~Revoking(job[c], u)
      BY <2>1, <2>3 DEF Removing, Revoking, Writes
    <3>2. Closing(u)
      BY DEF ClosedInv
    <3> QED BY <2>1, <2>2, <2>3, <3>1, <3>2 DEF Closing
  <2>4. \A u \in Users : Closing(u)'
    BY <2>3 DEF Closing
  <2>5. \A u \in Users : LocalOnly(u)'
    BY <2>1, <2>2, OperationIdle DEF ClosedInv, LocalOnly, Ac!At
  <2> QED BY <1>a, <2>1, <2>4, <2>5, OperationIdle DEF ClosedInv
<1>18. ASSUME UNCHANGED Ac!vars PROVE ClosedInv'
  BY <1>18 DEF Ac!vars, Ac!rows, Ac!history, ClosedInv, LocalOnly, Closing, Ac!At, Removing, Revoking, HasSession
<1>19. ASSUME Ac!Next PROVE ClosedInv'
  BY <1>2, <1>3, <1>4, <1>5, <1>6, <1>7, <1>8, <1>9, <1>10, <1>11, <1>13, <1>14, <1>15, <1>16,
     <1>17, <1>19, Zenon DEF Ac!Next
<1> QED BY <1>18, <1>19

-----------------------------------------------------------------------------

\* At the start the file is what the last section left.
LEMMA AccountsFileInit == Ac!Init => MutexInv /\ Places /\ FileInv
<1> SUFFICES ASSUME Ac!Init PROVE MutexInv /\ Places /\ FileInv
  OBVIOUS
<1>1. MutexInv
  BY MutexInitInv DEF Ac!Init, Ac!MutexInit, MutexInit
<1>2. \A c \in Callers : job[c] = Ac!Idle /\ phase[c] = "out"
  BY DEF Ac!Init, Ac!MutexInit
<1>3. htpasswd = section
  BY DEF Ac!Init
<1> QED BY <1>1, <1>2, <1>3, IdleFields DEF Places, FileInv, InFile, Ac!At

\* The invariant of the accounts.
LEMMA AccountsInductive == Ac!Spec => []AccountsInv
<1>1. Ac!Init => AccountsInv
  BY AccountsTypeInit, AccountsFileInit, ClosedInit DEF AccountsInv
<1>2. AccountsInv /\ [Ac!Next]_(Ac!vars) => AccountsInv'
  BY AccountsTypeStep, FileStep, ClosedStep DEF AccountsInv
<1> QED BY <1>1, <1>2, PTL DEF Ac!Spec

\* Nobody's rewrite of the htpasswd file undoes another's: the file holds for every user what
\* the last section for that user left there.
THEOREM AccountsLoseNoUpdate == Ac!Spec => []Ac!NoLostUpdate
<1>1. AccountsInv => Ac!NoLostUpdate
  BY DEF AccountsInv, MutexInv, MutexTypeOK, LockAccounted, Places, FileInv, Ac!NoLostUpdate, InFile, Ac!At
<1> QED BY <1>1, AccountsInductive, PTL

\* Once what handleDeactivation has to do is done, a deactivated user is not in the file and
\* has no live session, unless the deactivation met a race or a fault; but the entry of an
\* account that a login of the directory has taken over stays.
THEOREM AccountsClose == Ac!Spec => []Ac!DeactivationCloses
<1>1. AccountsInv => Ac!DeactivationCloses
  <2> SUFFICES ASSUME AccountsInv, NEW u \in Users, account[u].there, ~account[u].active, Ac!Settled(u), u \notin excused
               PROVE  /\ ~Ac!TakenOver(u) => htpasswd[u] = 0
                      /\ \A i \in DOMAIN session : session[i].user = u => ~session[i].live
    BY DEF Ac!DeactivationCloses
  <2>1. \A c \in Callers : ~Removing(job[c], u) /\ ~Revoking(job[c], u)
    BY DEF Ac!Settled, Removing, Revoking, Writes
  <2>2. Closing(u)
    BY DEF AccountsInv, ClosedInv
  <2> QED BY <2>1, <2>2 DEF Closing, HasSession, Taken, Ac!TakenOver
<1> QED BY <1>1, AccountsInductive, PTL

-----------------------------------------------------------------------------
(***************************************************************************)
(* Access.  Every query is brought down to the same set, the roles a user  *)
(* has (RolesOf): the guard asks for the highest of them, the lists for    *)
(* any, the notifications for one that is high enough, and the authz file  *)
(* grants what they grant together.                                        *)
(***************************************************************************)

AccessTypeOK ==
  /\ admin \subseteq Users /\ active \subseteq Users /\ reviewed \subseteq Users
  /\ member \in [Users -> Ax!Roles \cup {NoRole}]
  /\ team \subseteq born /\ born \subseteq Teams /\ dying \subseteq team
  /\ squad \in [Teams -> [Users -> {"MEMBER", "ADMIN", NoRole}]]
  /\ link \in [Teams -> Ax!Roles \cup {NoRole}]
  /\ rules \subseteq Ax!Rule
  /\ commits \in [Users -> Nat]
  /\ changes \in Nat

\* A team that is gone has left no member and no link.
GoneIsGone ==
  \A t \in Teams \ team : link[t] = NoRole /\ \A u \in Users : squad[t][u] = NoRole

\* The levels of the four roles.
LEMMA Levels ==
  /\ Ax!Level["READER"] = 0 /\ Ax!Level["DEVELOPER"] = 1 /\ Ax!Level["MAINTAINER"] = 2 /\ Ax!Level["OWNER"] = 3
  /\ \A r \in Ax!Roles : Ax!Level[r] \in 0..3
<1>1. Ax!Level["READER"] = 0 /\ Ax!Level["DEVELOPER"] = 1 /\ Ax!Level["MAINTAINER"] = 2 /\ Ax!Level["OWNER"] = 3
  BY DEF Ax!Level
<1> QED BY <1>1 DEF Ax!Roles

\* The highest of several roles suffices exactly when one of them does.
LEMMA HighestSuffices ==
  ASSUME NEW S \in SUBSET (Ax!Roles \cup {NoRole}), NEW q \in Ax!Roles
  PROVE  Ax!HasMinimum(Ax!MaxRole(S), q) <=> \E r \in S \ {NoRole} : Ax!Level[r] >= Ax!Level[q]
<1> DEFINE given == S \ {NoRole}
<1>1. given \subseteq Ax!Roles /\ NoRole \notin Ax!Roles
  BY AccessAssumption DEF Ax!Roles
<1>2. CASE given = {}
  BY <1>2 DEF Ax!MaxRole, Ax!HasMinimum
<1>3. CASE given # {}
  <2>1. \E r \in given : \A p \in given : Ax!Level[p] <= Ax!Level[r]
    <3>1. CASE "OWNER" \in given
      BY <1>1, <3>1, Levels
    <3>2. CASE "OWNER" \notin given /\ "MAINTAINER" \in given
      BY <1>1, <3>2, Levels DEF Ax!Roles
    <3>3. CASE "OWNER" \notin given /\ "MAINTAINER" \notin given /\ "DEVELOPER" \in given
      BY <1>1, <3>3, Levels DEF Ax!Roles
    <3>4. CASE "OWNER" \notin given /\ "MAINTAINER" \notin given /\ "DEVELOPER" \notin given
      <4>1. given = {"READER"}
        BY <1>1, <1>3, <3>4 DEF Ax!Roles
      <4> QED BY <4>1, Levels
    <3> QED BY <3>1, <3>2, <3>3, <3>4
  <2> DEFINE m == Ax!MaxRole(S)
  <2>2. m \in given /\ \A p \in given : Ax!Level[p] <= Ax!Level[m]
    BY <1>3, <2>1 DEF Ax!MaxRole
  <2>3. Ax!HasMinimum(m, q) <=> Ax!Level[m] >= Ax!Level[q]
    BY <1>1, <2>2 DEF Ax!HasMinimum
  <2>4. \A p \in given : Ax!Level[p] \in 0..3
    BY <1>1, Levels
  <2>5. Ax!Level[q] \in 0..3
    BY Levels
  <2> HIDE DEF m, given
  <2>6. Ax!Level[m] >= Ax!Level[q] <=> \E r \in given : Ax!Level[r] >= Ax!Level[q]
    BY <2>2, <2>4, <2>5
  <2> QED BY <2>3, <2>6 DEF m, given
<1> QED BY <1>2, <1>3

\* The roles a user has, directly and by teams.
RolesOf(u) == ({member[u]} \cup {link[t] : t \in Ax!TeamsOf(u)}) \ {NoRole}

\* What EffectiveRole finds is the highest of the roles a user has.
LEMMA RolesFound ==
  ASSUME AccessTypeOK, NEW u \in Users
  PROVE  /\ RolesOf(u) \subseteq Ax!Roles
         /\ Ax!TeamsOf(u) \subseteq Teams
         /\ member[u] \in Ax!Roles \cup {NoRole} /\ NoRole \notin Ax!Roles
         /\ \A q \in Ax!Roles : Ax!HasMinimum(Ax!EffectiveRole(u), q) <=> \E r \in RolesOf(u) : Ax!Level[r] >= Ax!Level[q]
<1>1. Ax!TeamsOf(u) \subseteq Teams /\ member[u] \in Ax!Roles \cup {NoRole} /\ NoRole \notin Ax!Roles
  BY AccessAssumption DEF AccessTypeOK, Ax!TeamsOf, Ax!Roles
<1>2. \A t \in Teams : link[t] \in Ax!Roles \cup {NoRole}
  BY DEF AccessTypeOK
<1> DEFINE S == {member[u]} \cup {link[t] : t \in Ax!TeamsOf(u)}
<1>3. S \in SUBSET (Ax!Roles \cup {NoRole})
  BY <1>1, <1>2
<1>4. RolesOf(u) = S \ {NoRole}
  BY DEF RolesOf
<1>5. RolesOf(u) \subseteq Ax!Roles
  BY <1>3, <1>4
<1> HIDE DEF S
<1>6. Ax!EffectiveRole(u) = Ax!MaxRole(S)
  BY DEF Ax!EffectiveRole, S
<1> QED BY <1>1, <1>3, <1>4, <1>5, <1>6, HighestSuffices

\* The initial values have their types.
LEMMA AccessTypeInit == Ax!Init => AccessTypeOK /\ GoneIsGone
  BY AccessAssumption DEF Ax!Init, AccessTypeOK, GoneIsGone, Ax!Roles

\* Every request keeps them.
LEMMA AccessTypeStep == AccessTypeOK /\ GoneIsGone /\ [Ax!Next]_(Ax!vars) => AccessTypeOK' /\ GoneIsGone'
<1> SUFFICES ASSUME AccessTypeOK, GoneIsGone, [Ax!Next]_(Ax!vars) PROVE AccessTypeOK' /\ GoneIsGone'
  OBVIOUS
<1> USE DEF AccessTypeOK
<1>1. ASSUME NEW a \in Users, NEW u \in Users,
             \/ \E role \in Ax!Roles : Ax!SetMember(a, u, role)
             \/ Ax!RemoveMember(a, u)
             \/ \E isAdmin, isActive \in BOOLEAN : Ax!UpdateAdmin(a, u, isAdmin, isActive)
      PROVE  AccessTypeOK' /\ GoneIsGone'
  BY <1>1 DEF Ax!SetMember, Ax!RemoveMember, Ax!UpdateAdmin, Ax!Count, GoneIsGone
<1>2. ASSUME NEW a \in Users, NEW u \in Users, NEW t \in Teams, NEW role \in {"MEMBER", "ADMIN", NoRole},
             Ax!SetSquad(a, t, u, role)
      PROVE  AccessTypeOK' /\ GoneIsGone'
  BY <1>2 DEF Ax!SetSquad, Ax!Count, GoneIsGone
<1>3. ASSUME NEW a \in Users, NEW r \in Ax!Rule, Ax!UpsertRule(a, r) \/ Ax!DeleteRule(a, r)
      PROVE  AccessTypeOK' /\ GoneIsGone'
  BY <1>3 DEF Ax!UpsertRule, Ax!DeleteRule, Ax!Count, GoneIsGone
<1>4. ASSUME NEW a \in Users, NEW t \in Teams, Ax!CreateTeam(a, t) \/ Ax!DeleteTeamRules(a, t)
      PROVE  AccessTypeOK' /\ GoneIsGone'
  BY <1>4 DEF Ax!CreateTeam, Ax!DeleteTeamRules, Ax!Count, GoneIsGone
<1>5. ASSUME NEW a \in Users, NEW t \in Teams, Ax!Unlink(a, t) \/ \E role \in Ax!Roles : Ax!SetLink(a, t, role)
      PROVE  AccessTypeOK' /\ GoneIsGone'
  BY <1>5 DEF Ax!Unlink, Ax!SetLink, Ax!Count, GoneIsGone
<1>6. ASSUME NEW a \in Users, Ax!Review(a) \/ Ax!Commit(a)
      PROVE  AccessTypeOK' /\ GoneIsGone'
  BY <1>6 DEF Ax!Review, Ax!Commit, Ax!Count, GoneIsGone
<1>7. ASSUME NEW t \in Teams, Ax!DeleteTeamRow(t)
      PROVE  AccessTypeOK' /\ GoneIsGone'
  BY <1>7 DEF Ax!DeleteTeamRow, GoneIsGone
<1>8. CASE UNCHANGED Ax!vars
  BY <1>8 DEF Ax!vars, GoneIsGone
<1> QED BY <1>1, <1>2, <1>3, <1>4, <1>5, <1>6, <1>7, <1>8 DEF Ax!Next

\* The types hold; and a team that is gone has left no member and no link, though it goes in two
\* queries, between which members and links are still given to it.
THEOREM AccessInductive == Ax!Spec => [](AccessTypeOK /\ GoneIsGone)
  BY AccessTypeInit, AccessTypeStep, PTL DEF Ax!Spec

\* A role is one of the four, so any role is enough to read.
LEMMA ReaderIsAny ==
  ASSUME AccessTypeOK, NEW u \in Users
  PROVE  Ax!HasMinimum(Ax!EffectiveRole(u), "READER") <=> member[u] # NoRole \/ \E t \in Ax!TeamsOf(u) : link[t] # NoRole
<1>1. Ax!HasMinimum(Ax!EffectiveRole(u), "READER") <=> \E r \in RolesOf(u) : Ax!Level[r] >= Ax!Level["READER"]
  BY RolesFound DEF Ax!Roles
<1>2. \A r \in RolesOf(u) : Ax!Level[r] >= Ax!Level["READER"]
  BY RolesFound, Levels
<1>3. RolesOf(u) # {} <=> member[u] # NoRole \/ \E t \in Ax!TeamsOf(u) : link[t] # NoRole
  BY DEF RolesOf
<1> QED BY <1>1, <1>2, <1>3

\* The query for those with a sufficient role finds them.
LEMMA HoldersHave ==
  ASSUME AccessTypeOK, NEW q \in Ax!Roles
  PROVE  Ax!Holders(q) = {u \in Users : Ax!HasMinimum(Ax!EffectiveRole(u), q)}
<1> DEFINE ranked == {r \in Ax!Roles : Ax!Level[r] >= Ax!Level[q]}
<1>1. ASSUME NEW u \in Users
      PROVE  Ax!HasMinimum(Ax!EffectiveRole(u), q) <=> member[u] \in ranked \/ \E t \in Ax!TeamsOf(u) : link[t] \in ranked
  <2>1. Ax!HasMinimum(Ax!EffectiveRole(u), q) <=> \E r \in RolesOf(u) : r \in ranked
    BY RolesFound
  <2>2. NoRole \notin ranked
    BY RolesFound
  <2> QED BY <2>1, <2>2 DEF RolesOf
<1> QED BY <1>1 DEF Ax!Holders

\* The guard, the lists, the search, the dashboard and the two queries for recipients of
\* notifications name the same users, for any users, teams, roles and requests.
THEOREM AccessQueriesAgree == Ax!Spec => []Ax!QueriesAgree
<1>1. AccessTypeOK => Ax!QueriesAgree
  <2> SUFFICES ASSUME AccessTypeOK PROVE Ax!QueriesAgree
    OBVIOUS
  <2>1. Ax!ListedMeansOpens
    BY ReaderIsAny DEF Ax!ListedMeansOpens, Ax!Listed, Ax!Allowed, Ax!Recent, Ax!Found, Ax!ViewerAccess, AccessTypeOK
  <2>2. ASSUME NEW author \in Users
        PROVE Ax!EligiblePrReviewers(author) =
                {u \in Users \ {author} : Ax!HasMinimum(Ax!EffectiveRole(u), "DEVELOPER") /\ u \notin reviewed}
    BY HoldersHave DEF Ax!EligiblePrReviewers, Ax!Roles
  <2>3. ASSUME NEW author \in Users, NEW u \in Ax!EligiblePrReviewers(author) \cap active
        PROVE u \in Ax!ReviewRequested(author)
    <3>1. u \in Users \ {author} /\ Ax!HasMinimum(Ax!EffectiveRole(u), "DEVELOPER") /\ u \notin reviewed /\ u \in active
      BY <2>2, <2>3
    <3>2. Ax!HasMinimum(Ax!EffectiveRole(u), "READER")
      <4>1. \E r \in RolesOf(u) : Ax!Level[r] >= Ax!Level["DEVELOPER"]
        BY <3>1, RolesFound DEF Ax!Roles
      <4>2. \E r \in RolesOf(u) : Ax!Level[r] >= Ax!Level["READER"]
        BY <3>1, <4>1, RolesFound, Levels
      <4> QED BY <3>1, <4>2, RolesFound DEF Ax!Roles
    <3> QED BY <3>1, <3>2, ReaderIsAny DEF Ax!ReviewRequested, Ax!Found, Ax!ViewerAccess
  <2>4. Ax!RepoMaintainers = {u \in Users : Ax!HasMinimum(Ax!EffectiveRole(u), "MAINTAINER")}
    BY HoldersHave DEF Ax!RepoMaintainers, Ax!Roles
  <2> QED BY <2>1, <2>2, <2>3, <2>4 DEF Ax!QueriesAgree
<1> QED BY <1>1, AccessInductive, PTL

\* What the roles of a user grant together is what the highest of them grants.
LEMMA RoleGives ==
  ASSUME AccessTypeOK, NEW u \in Users
  PROVE  UNION {Ax!RoleAccess(r) : r \in RolesOf(u)} =
           IF Ax!HasMinimum(Ax!EffectiveRole(u), "MAINTAINER") THEN {"r", "w"}
           ELSE IF Ax!HasMinimum(Ax!EffectiveRole(u), "READER") THEN {"r"} ELSE {}
<1>1. Ax!HasMinimum(Ax!EffectiveRole(u), "MAINTAINER") <=> \E r \in RolesOf(u) : r \in {"OWNER", "MAINTAINER"}
  <2>1. \A r \in Ax!Roles : Ax!Level[r] >= Ax!Level["MAINTAINER"] <=> r \in {"OWNER", "MAINTAINER"}
    BY Levels DEF Ax!Roles
  <2> QED BY <2>1, RolesFound DEF Ax!Roles
<1>2. Ax!HasMinimum(Ax!EffectiveRole(u), "READER") <=> RolesOf(u) # {}
  BY ReaderIsAny DEF RolesOf
<1> HIDE DEF RolesOf
<1>3. CASE \E r \in RolesOf(u) : r \in {"OWNER", "MAINTAINER"}
  BY <1>1, <1>3 DEF Ax!RoleAccess
<1>4. CASE ~(\E r \in RolesOf(u) : r \in {"OWNER", "MAINTAINER"}) /\ RolesOf(u) # {}
  BY <1>1, <1>2, <1>4 DEF Ax!RoleAccess
<1>5. CASE RolesOf(u) = {}
  BY <1>1, <1>2, <1>5
<1> QED BY <1>3, <1>4, <1>5

\* Where no path permission grants a user or a team of his something at the root or on the trunk,
\* the native client gets there what his role on the web says; the tags are read by everybody, and
\* written by nobody without a permission there.
THEOREM AccessSvnFollows == Ax!Spec => []Ax!SvnFollowsRole
<1>1. AccessTypeOK => Ax!SvnFollowsRole
  <2>8. ASSUME NEW u \in Users, NEW p \in Ax!Paths, ~Ax!NamedAt(p, u)
        PROVE  Ax!RulesAt(p, u) = {} /\ \A t \in Ax!TeamsOf(u) : Ax!RulesAt(p, t) = {}
    BY <2>8 DEF Ax!RulesAt, Ax!NamedAt
  <2>9. ASSUME NEW u \in Users, ~Ax!NamedAt("/tags", u) PROVE Ax!SvnGrants("/tags", u) = {"r"}
    <3>1. Ax!UserEntry("/tags", u) = {} /\ \A t \in Ax!TeamsOf(u) : Ax!TeamEntry("/tags", t) = {}
      BY <2>8, <2>9 DEF Ax!UserEntry, Ax!TeamEntry, Ax!Paths
    <3> QED BY <3>1 DEF Ax!SvnGrants, Ax!Entries, Ax!EveryonesEntry
  <2> SUFFICES ASSUME AccessTypeOK, NEW u \in Users, ~Ax!NamedAt("/", u), ~Ax!NamedAt("/trunk", u)
               PROVE  Ax!SvnGrants("/trunk", u) =
                        IF Ax!Allowed(u, "MAINTAINER") THEN {"r", "w"}
                        ELSE IF Ax!Allowed(u, "READER") THEN {"r"} ELSE {}
    BY <2>9 DEF Ax!SvnFollowsRole
  <2>1. \A p \in {"/", "/trunk"} : Ax!RulesAt(p, u) = {} /\ \A t \in Ax!TeamsOf(u) : Ax!RulesAt(p, t) = {}
    BY <2>8 DEF Ax!Paths
  <2>2. Ax!UserEntry("/trunk", u) = {} /\ \A t \in Ax!TeamsOf(u) : Ax!TeamEntry("/trunk", t) = {}
    BY <2>1 DEF Ax!UserEntry, Ax!TeamEntry
  <2>3. Ax!Entries("/trunk", u) = {} /\ Ax!EveryonesEntry("/") = {}
    BY <2>2 DEF Ax!Entries, Ax!EveryonesEntry
  <2>4. Ax!SvnGrants("/trunk", u) = Ax!Entries("/", u)
    BY <2>3 DEF Ax!SvnGrants
  <2>5. \A t \in Ax!TeamsOf(u) : Ax!TeamEntry("/", t) = IF link[t] # NoRole THEN Ax!RoleAccess(link[t]) ELSE {}
    BY <2>1 DEF Ax!TeamEntry
  <2>6. CASE u \in admin
    <3>1. Ax!UserEntry("/", u) = {"r", "w"}
      BY <2>6 DEF Ax!UserEntry
    <3>2. \A t \in Ax!TeamsOf(u) : Ax!TeamEntry("/", t) \subseteq {"r", "w"}
      BY <2>5 DEF Ax!RoleAccess
    <3>3. Ax!Entries("/", u) = {"r", "w"}
      BY <2>3, <3>1, <3>2 DEF Ax!Entries
    <3> QED BY <2>4, <2>6, <3>3 DEF Ax!Allowed
  <2>7. CASE u \notin admin
    <3>1. Ax!UserEntry("/", u) = IF member[u] # NoRole THEN Ax!RoleAccess(member[u]) ELSE {}
      BY <2>1, <2>7 DEF Ax!UserEntry
    <3>2. Ax!Entries("/", u) = UNION {Ax!RoleAccess(r) : r \in RolesOf(u)}
      <4> HIDE DEF Ax!RoleAccess
      <4> QED BY <2>3, <2>5, <3>1 DEF Ax!Entries, RolesOf
    <3> QED BY <2>4, <2>7, <3>2, RoleGives DEF Ax!Allowed
  <2> QED BY <2>6, <2>7
<1> QED BY <1>1, AccessInductive, PTL

-----------------------------------------------------------------------------
(***************************************************************************)
(* Issues.  The numbers given are 1..k (Dense), and a creation under way   *)
(* counts right how many others have been created since it began           *)
(* (CountingOK), so the creation that gives up was beaten as often as it   *)
(* tried.  While no two requests on an issue overlap, its row is what the  *)
(* last one asked for, but for the steps that one still has to do (RowOK)  *)
(* and those that requests which failed have left undone (AsAsked).        *)
(***************************************************************************)

IssueStatuses == {"OPEN", "CLOSED"}
IssueRow == [there : BOOLEAN, status : IssueStatuses, closedBy : Merges \cup {Is!NoMerge}, labels : SUBSET Labels]
IssueSteps == {"idle", "max", "insert", "announce", "row", "unlabel", "label", "close"}
IssueRequest == [op : {"none", "create", "update", "close"}, step : IssueSteps, n : Is!Numbers \cup {0},
            seen : IssueRow, status : IssueStatuses \cup {"same"}, labels : SUBSET Labels,
            relabel : BOOLEAN, merge : Merges \cup {Is!NoMerge}, tries : Nat, base : Nat]

IssuesTypeOK ==
  /\ issue \in [Is!Numbers -> IssueRow] /\ asked \in [Is!Numbers -> IssueRow]
  /\ label \subseteq born /\ born \subseteq Labels
  /\ call \in [Clients -> IssueRequest]
  /\ announced \in [Is!Numbers -> IssueStatuses \cup {"none"}]
  /\ calm \in [Is!Numbers -> BOOLEAN]
  /\ undone \in [Is!Numbers -> SUBSET {"labels", "news"}]
  /\ beaten \in Nat

\* The issues there are, by their count.
IssueCount == Is!Cardinality(Is!Existing)
Dense == Is!Existing = 1..IssueCount /\ IssueCount \in Nat

\* What the creation q relies on when there are k issues.
CountingOK(q, k) ==
  /\ q.base <= k
  /\ q.step = "max" => k >= q.base + q.tries - 1
  /\ q.step = "insert" => q.n >= q.base + q.tries /\ k >= q.n - 1

DenseInv ==
  /\ Dense
  /\ \A c \in Clients : CountingOK(call[c], IssueCount)
  /\ beaten >= MaxAttempts

\* Handlers that may write the row of n.
Acts(c, n) == call[c].n = n /\ call[c].step \notin {"idle", "insert"}

\* The row i is what was asked for, a, but for what is undone, u.
AsAsked(i, a, u) ==
  /\ i.there = a.there /\ i.status = a.status /\ i.closedBy = a.closedBy
  /\ "labels" \notin u => i.labels = a.labels

\* The status announced, s, is that of the row i, but for what is undone.
Told(i, s, u) == "news" \notin u => s = i.status

\* What a request q on an issue relies on while no other touches it: the row i, what was
\* asked for a, the status announced s, the labels of the repository ls, what is undone u.
RowOK(q, i, a, s, ls, u) ==
  /\ q.step \in {"row", "close", "announce"} => AsAsked(i, a, u)
  /\ q.step \in {"unlabel", "label"} =>
       /\ q.op = "update" /\ q.relabel
       /\ i.there = a.there /\ i.status = a.status /\ i.closedBy = a.closedBy
       /\ q.labels \subseteq ls => a.labels = q.labels
  /\ q.step = "label" => i.labels = {}
  /\ q.step \in {"row", "close"} => Told(i, s, u)
  /\ q.step \in {"unlabel", "label", "announce"} /\ q.op = "update" =>
       /\ "news" \notin u => s = q.seen.status
       /\ i.status = IF q.status = "same" THEN q.seen.status ELSE q.status
  /\ q.step = "row" => q.op = "update" /\ q.seen.status = i.status
  /\ q.step = "announce" => q.op # "none"
  /\ q.step = "announce" /\ q.op = "create" => i.status = "OPEN"
  /\ q.step = "close" => q.op = "close"
  /\ q.step = "announce" /\ q.op = "close" => i.status = "CLOSED"

CalmInv ==
  /\ \A c \in Clients :
       /\ call[c].labels \subseteq born
       /\ call[c].op = "none" => call[c].step = "idle"
       /\ call[c].step \in {"max", "insert"} => call[c].op = "create"
       /\ call[c].step = "insert" => call[c].n # 0
       /\ call[c].step \notin {"idle", "max", "insert"} => call[c].n # 0 /\ issue[call[c].n].there
       /\ call[c].step \in {"idle", "max"} => call[c].n = 0
  /\ \A n \in Is!Numbers : calm[n] =>
       /\ \A c, d \in Clients : Acts(c, n) /\ Acts(d, n) => c = d
       /\ \A c \in Clients : Acts(c, n) => RowOK(call[c], issue[n], asked[n], announced[n], label, undone[n])
       /\ issue[n].there /\ (\A c \in Clients : ~Acts(c, n)) =>
            AsAsked(issue[n], asked[n], undone[n]) /\ Told(issue[n], announced[n], undone[n])

IssuesInv == IssuesTypeOK /\ DenseInv /\ CalmInv

\* No issue, and no request.
LEMMA FreeType == Is!NoIssue \in IssueRow /\ Is!Free \in IssueRequest
<1>1. Is!NoIssue \in IssueRow
  BY DEF Is!NoIssue, IssueRow, IssueStatuses, Is!NoMerge
<1> QED BY <1>1 DEF Is!Free, IssueRequest, IssueStatuses, Is!NoMerge, IssueSteps

\* The initial values have their types.
LEMMA IssuesTypeInit == Is!Init => IssuesTypeOK
<1> SUFFICES ASSUME Is!Init PROVE IssuesTypeOK
  OBVIOUS
<1>1. calm \in [Is!Numbers -> BOOLEAN]
  BY DEF Is!Init
<1> QED BY <1>1, FreeType, IssuesAssumption DEF Is!Init, IssuesTypeOK

\* The requests after one of them has moved.
CallMoved(c, r) ==
  /\ call' \in [Clients -> IssueRequest]
  /\ call'[c] = r
  /\ \A d \in Clients : d # c => call'[d] = call[d]

\* The request of c moves to step s.
LEMMA GoToType ==
  ASSUME IssuesTypeOK, NEW c \in Clients, NEW s \in IssueSteps, Is!GoTo(c, s)
  PROVE  CallMoved(c, [call[c] EXCEPT !.step = s])
  BY DEF IssuesTypeOK, Is!GoTo, IssueRequest, CallMoved

\* The request of c ends.
LEMMA FinishType ==
  ASSUME IssuesTypeOK, NEW c \in Clients, Is!Finish(c)
  PROVE  CallMoved(c, Is!Free)
  BY FreeType DEF IssuesTypeOK, Is!Finish, CallMoved

\* The request of c ends between two of its queries.
LEMMA BreaksType ==
  ASSUME IssuesTypeOK, NEW c \in Clients, Is!Breaks(c)
  PROVE  /\ CallMoved(c, Is!Free)
         /\ undone' \in [Is!Numbers -> SUBSET {"labels", "news"}]
         /\ \A m \in Is!Numbers :
              undone'[m] = IF m = call[c].n THEN undone[m] \cup Is!Owes(c) ELSE undone[m]
<1>1. Is!Owes(c) \subseteq {"labels", "news"}
  BY DEF Is!Owes
<1> QED BY <1>1, FinishType DEF Is!Breaks, IssuesTypeOK

\* A request of c begins.
LEMMA BeginType ==
  ASSUME IssuesTypeOK, NEW c \in Clients, NEW r \in IssueRequest, Is!Begin(c, r)
  PROVE  /\ CallMoved(c, r)
         /\ calm' \in [Is!Numbers -> BOOLEAN]
         /\ \A n \in Is!Numbers : calm'[n] => calm[n] /\ ~(n = r.n /\ Is!Busy(n))
  BY DEF IssuesTypeOK, Is!Begin, CallMoved

\* A row with another status.
LEMMA WithStatusType ==
  ASSUME NEW r \in IssueRow, NEW s \in IssueStatuses \cup {"same"}
  PROVE  /\ Is!WithStatus(r, s) \in IssueRow
         /\ Is!WithStatus(r, s).status = IF s = "same" THEN r.status ELSE s
         /\ Is!WithStatus(r, s).there = r.there
         /\ Is!WithStatus(r, s).labels = r.labels
         /\ Is!WithStatus(r, s).closedBy = IF s = "OPEN" THEN Is!NoMerge ELSE r.closedBy
<1>1. CASE s = "same"
  BY <1>1 DEF Is!WithStatus
<1>2. CASE s = "OPEN"
  BY <1>2 DEF Is!WithStatus, IssueRow, IssueStatuses, Is!NoMerge
<1>3. CASE s = "CLOSED"
  BY <1>3 DEF Is!WithStatus, IssueRow, IssueStatuses, Is!NoMerge
<1> QED BY <1>1, <1>2, <1>3 DEF IssueStatuses

\* What each handler does to its own request: the number that was read,
LEMMA ReadMaxMoves ==
  ASSUME IssuesTypeOK, NEW c \in Clients, Is!ReadMax(c)
  PROVE  CallMoved(c, [call[c] EXCEPT !.step = "insert", !.seen = issue[Is!NextNumber], !.n = Is!NextNumber])
<1> DEFINE k == Is!NextNumber
           x == issue[k]
<1>1. k \in Is!Numbers /\ x \in IssueRow
  BY DEF Is!ReadMax, IssuesTypeOK
<1>2. call' = [call EXCEPT ![c].step = "insert", ![c].seen = x, ![c].n = k]
  BY DEF Is!ReadMax
<1> HIDE DEF k, x
<1>3. CallMoved(c, [call[c] EXCEPT !.step = "insert", !.seen = x, !.n = k])
  <2>1. call[c] \in IssueRequest /\ call \in [Clients -> IssueRequest]
    BY DEF IssuesTypeOK
  <2> DEFINE q == [call[c] EXCEPT !.step = "insert", !.seen = x, !.n = k]
  <2>2. call' = [call EXCEPT ![c] = q]
    BY <1>2, <2>1
  <2>3. q \in IssueRequest
    BY <1>1, <2>1 DEF IssueRequest, IssueSteps
  <2> QED BY <2>1, <2>2, <2>3 DEF CallMoved
<1> QED BY <1>3 DEF k, x

\* one more attempt,
LEMMA RetryMoves ==
  ASSUME IssuesTypeOK, NEW c \in Clients,
         call' = [call EXCEPT ![c].step = "max", ![c].n = 0, ![c].tries = @ + 1]
  PROVE  CallMoved(c, [call[c] EXCEPT !.step = "max", !.n = 0, !.tries = @ + 1])
  BY DEF IssuesTypeOK, IssueRequest, CallMoved, IssueSteps

\* a creation,
LEMMA CreateMoves ==
  ASSUME IssuesTypeOK, NEW c \in Clients, NEW ls \in SUBSET Labels, Is!Create(c, ls), IssueCount \in Nat
  PROVE  /\ CallMoved(c, [Is!Free EXCEPT !.op = "create", !.step = "max", !.labels = ls, !.tries = 1,
                                  !.base = IssueCount])
         /\ call' \in [Clients -> IssueRequest]
         /\ calm' \in [Is!Numbers -> BOOLEAN]
         /\ \A n \in Is!Numbers : calm'[n] => calm[n]
<1> DEFINE r == [Is!Free EXCEPT !.op = "create", !.step = "max", !.labels = ls, !.tries = 1,
                            !.base = IssueCount]
<1>1. r \in IssueRequest
  BY FreeType DEF IssueRequest, IssueSteps
<1>2. Is!Begin(c, r)
  BY DEF Is!Create, IssueCount
<1> QED BY <1>1, <1>2, BeginType DEF CallMoved

\* an update,
LEMMA UpdateMoves ==
  ASSUME IssuesTypeOK, NEW c \in Clients, NEW n \in Is!Numbers, NEW s \in IssueStatuses \cup {"same"},
         NEW relabel \in BOOLEAN, NEW ls \in SUBSET Labels, Is!Update(c, n, s, relabel, ls)
  PROVE  /\ CallMoved(c, [Is!Free EXCEPT !.op = "update", !.step = "row", !.n = n, !.seen = issue[n],
                           !.status = s, !.relabel = relabel, !.labels = ls])
         /\ call' \in [Clients -> IssueRequest]
         /\ calm' \in [Is!Numbers -> BOOLEAN]
         /\ \A m \in Is!Numbers : calm'[m] => calm[m] /\ ~(n = m /\ Is!Busy(m))
<1> DEFINE r == [Is!Free EXCEPT !.op = "update", !.step = "row", !.n = n, !.seen = issue[n],
                           !.status = s, !.relabel = relabel, !.labels = ls]
<1>1. r \in IssueRequest
  BY FreeType DEF IssueRequest, IssueSteps, IssuesTypeOK
<1>2. Is!Begin(c, r)
  BY DEF Is!Update
<1>3. r.n = n
  BY DEF Is!Free
<1> QED BY ZenonT(60), <1>1, <1>2, <1>3, BeginType DEF CallMoved

\* and a merge that closes.
LEMMA CloseMoves ==
  ASSUME IssuesTypeOK, NEW c \in Clients, NEW n \in Is!Numbers, NEW m \in Merges, Is!Close(c, n, m)
  PROVE  /\ CallMoved(c, [Is!Free EXCEPT !.op = "close", !.step = "close", !.n = n, !.seen = issue[n], !.merge = m])
         /\ call' \in [Clients -> IssueRequest]
         /\ calm' \in [Is!Numbers -> BOOLEAN]
         /\ \A k \in Is!Numbers : calm'[k] => calm[k] /\ ~(n = k /\ Is!Busy(k))
<1> DEFINE r == [Is!Free EXCEPT !.op = "close", !.step = "close", !.n = n, !.seen = issue[n], !.merge = m]
<1>1. r \in IssueRequest
  BY FreeType DEF IssueRequest, IssueSteps, IssuesTypeOK
<1>2. Is!Begin(c, r)
  BY DEF Is!Close
<1>3. r.n = n
  BY DEF Is!Free
<1> QED BY ZenonT(60), <1>1, <1>2, <1>3, BeginType DEF CallMoved

\* A handler that writes the row of its issue knows one.
LEMMA OnIssue ==
  ASSUME IssuesTypeOK, CalmInv, NEW c \in Clients, call[c].step \notin {"idle", "max"}
  PROVE  /\ call[c].n \in Is!Numbers /\ call[c] \in IssueRequest
         /\ call[c].step # "insert" => issue[call[c].n].there
  BY DEF IssuesTypeOK, CalmInv, IssueRequest

\* An update that begins keeps the types.
LEMMA UpdateTypes ==
  ASSUME IssuesTypeOK, NEW c \in Clients, NEW n \in Is!Numbers, NEW s \in IssueStatuses \cup {"same"},
         NEW relabel \in BOOLEAN, NEW ls \in SUBSET Labels, Is!Update(c, n, s, relabel, ls)
  PROVE  IssuesTypeOK'
<1>1. call' \in [Clients -> IssueRequest] /\ calm' \in [Is!Numbers -> BOOLEAN]
  BY ZenonT(60), UpdateMoves
<1>2. requests' = requests + 1 /\ UNCHANGED <<issue, label, born, announced, undone, beaten, asked>>
  BY DEF Is!Update, Is!Begin
<1> QED BY <1>1, <1>2 DEF IssuesTypeOK

\* Every step keeps the types.
LEMMA IssuesTypeStep == IssuesTypeOK /\ CalmInv /\ Dense /\ beaten' \in Nat /\ [Is!Next]_(Is!vars) => IssuesTypeOK'
<1> SUFFICES ASSUME IssuesTypeOK, CalmInv, Dense, beaten' \in Nat, [Is!Next]_(Is!vars) PROVE IssuesTypeOK'
  OBVIOUS
<1>4. ASSUME NEW c \in Clients, NEW n \in Is!Numbers, NEW s \in IssueStatuses \cup {"same"},
             NEW relabel \in BOOLEAN, NEW ls \in SUBSET Labels, Is!Update(c, n, s, relabel, ls)
      PROVE  IssuesTypeOK'
  BY ZenonT(60), <1>4, UpdateTypes
<1> USE DEF IssuesTypeOK, Dense
<1>1. ASSUME NEW c \in Clients, NEW ls \in SUBSET Labels, Is!Create(c, ls) PROVE IssuesTypeOK'
  <2>1. call' \in [Clients -> IssueRequest] /\ calm' \in [Is!Numbers -> BOOLEAN]
    BY <1>1, CreateMoves
  <2> QED BY <1>1, <2>1 DEF Is!Create, Is!Begin
<1>2. ASSUME NEW c \in Clients, Is!ReadMax(c) PROVE IssuesTypeOK'
  BY <1>2, ReadMaxMoves DEF Is!ReadMax, CallMoved, Is!history
<1>3. ASSUME NEW c \in Clients, Is!Insert(c) PROVE IssuesTypeOK'
  <2>1. /\ UNCHANGED <<label, born, announced, calm, undone>>
        /\ call' \in [Clients -> IssueRequest]
    BY <1>3, RetryMoves, FinishType, GoToType DEF Is!Insert, CallMoved, IssueSteps
  <2>2. issue' \in [Is!Numbers -> IssueRow] /\ asked' \in [Is!Numbers -> IssueRow]
    <3>1. call[c].labels \in SUBSET Labels
      BY DEF IssueRequest
    <3>2. [Is!NoIssue EXCEPT !.there = TRUE, !.labels = call[c].labels] \in IssueRow
      BY <3>1 DEF IssueRow, Is!NoIssue, IssueStatuses, Is!NoMerge
    <3>3. issue' \in [Is!Numbers -> IssueRow]
      BY <1>3, <3>2 DEF Is!Insert
    <3>4. call[c].n \in Is!Numbers
      BY <1>3, OnIssue DEF Is!Insert, Is!At
    <3> QED BY <1>3, <3>2, <3>3, <3>4 DEF Is!Insert
  <2> QED BY <2>1, <2>2
<1>5. ASSUME NEW c \in Clients, Is!UpdateRow(c) PROVE IssuesTypeOK'
  <2>1. call' \in [Clients -> IssueRequest]
    BY <1>5, GoToType DEF Is!UpdateRow, CallMoved, IssueSteps
  <2>2. /\ call[c].status \in IssueStatuses \cup {"same"} /\ call[c].labels \in SUBSET Labels
        /\ call[c].n \in Is!Numbers
    BY <1>5, OnIssue DEF Is!UpdateRow, Is!At, IssueRequest
  <2>3. /\ Is!WithStatus(issue[call[c].n], call[c].status) \in IssueRow
        /\ Is!WithStatus(asked[call[c].n], call[c].status) \in IssueRow
    BY <2>2, WithStatusType
  <2>4. issue' \in [Is!Numbers -> IssueRow]
    BY <1>5, <2>3 DEF Is!UpdateRow
  <2>5. asked' \in [Is!Numbers -> IssueRow]
    BY <1>5, <2>2, <2>3 DEF Is!UpdateRow, IssueRow, Is!NoMerge
  <2> QED BY <1>5, <2>1, <2>4, <2>5 DEF Is!UpdateRow
<1>6. ASSUME NEW c \in Clients, Is!DeleteLabels(c) PROVE IssuesTypeOK'
  <2>1. call' \in [Clients -> IssueRequest]
    BY <1>6, GoToType DEF Is!DeleteLabels, CallMoved, IssueSteps
  <2>2. issue' \in [Is!Numbers -> IssueRow]
    <3>1. [issue[call[c].n] EXCEPT !.labels = {}] \in IssueRow
      <4>1. issue[call[c].n] \in IssueRow
        BY <1>6, OnIssue DEF Is!DeleteLabels, Is!At
      <4> QED BY <4>1 DEF IssueRow
    <3> QED BY <1>6, <3>1 DEF Is!DeleteLabels
  <2>3. undone' \in [Is!Numbers -> SUBSET {"labels", "news"}]
    BY <1>6 DEF Is!DeleteLabels
  <2> QED BY <1>6, <2>1, <2>2, <2>3 DEF Is!DeleteLabels
<1>7. ASSUME NEW c \in Clients, Is!AddLabels(c) PROVE IssuesTypeOK'
  <2>1. call' \in [Clients -> IssueRequest]
    BY <1>7, GoToType, BreaksType DEF Is!AddLabels, CallMoved, IssueSteps
  <2>2. issue' \in [Is!Numbers -> IssueRow] /\ calm' \in [Is!Numbers -> BOOLEAN]
    <3>1. /\ issue[call[c].n] \in IssueRow /\ call[c].labels \in SUBSET Labels
          /\ call[c].n \in Is!Numbers
      BY <1>7, OnIssue DEF Is!AddLabels, Is!At, IssueRequest
    <3>2. [issue[call[c].n] EXCEPT !.labels = @ \cup call[c].labels] \in IssueRow
      BY <3>1 DEF IssueRow
    <3> QED BY <1>7, <3>2 DEF Is!AddLabels
  <2>3. undone' \in [Is!Numbers -> SUBSET {"labels", "news"}]
    BY <1>7, BreaksType DEF Is!AddLabels
  <2> QED BY <1>7, <2>1, <2>2, <2>3 DEF Is!AddLabels
<1>8. ASSUME NEW c \in Clients, Is!Announce(c) PROVE IssuesTypeOK'
  <2>1. call' \in [Clients -> IssueRequest]
    BY <1>8, FinishType DEF Is!Announce, CallMoved
  <2>2. call[c] \in IssueRequest /\ call[c].n \in Is!Numbers
    BY <1>8, OnIssue DEF Is!Announce, Is!At
  <2>3. announced' \in [Is!Numbers -> IssueStatuses \cup {"none"}]
    <3>1. call[c].op \in {"create", "close", "update"}
      BY <1>8, <2>2 DEF Is!Announce, Is!At, CalmInv, IssueRequest
    <3>2. Is!Newsworthy(c) /\ call[c].op = "update" => call[c].status \in IssueStatuses
      BY <2>2 DEF Is!Newsworthy, IssueRequest
    <3> QED BY <1>8, <2>2, <3>1, <3>2 DEF Is!Announce, IssueStatuses
  <2>4. undone' \in [Is!Numbers -> SUBSET {"labels", "news"}]
    BY <1>8 DEF Is!Announce
  <2> QED BY <1>8, <2>1, <2>3, <2>4 DEF Is!Announce
<1>9. ASSUME NEW c \in Clients, NEW n \in Is!Numbers, NEW m \in Merges, Is!Close(c, n, m) PROVE IssuesTypeOK'
  <2>1. call' \in [Clients -> IssueRequest] /\ calm' \in [Is!Numbers -> BOOLEAN]
    BY <1>9, CloseMoves
  <2> QED BY <1>9, <2>1 DEF Is!Close, Is!Begin
<1>10. ASSUME NEW c \in Clients, Is!CloseRow(c) PROVE IssuesTypeOK'
  <2>1. call' \in [Clients -> IssueRequest]
    BY <1>10, GoToType DEF Is!CloseRow, CallMoved, IssueSteps
  <2>2. issue' \in [Is!Numbers -> IssueRow] /\ asked' \in [Is!Numbers -> IssueRow]
    <3> DEFINE n == call[c].n
               m == call[c].merge
    <3>1. n \in Is!Numbers /\ m \in Merges \cup {Is!NoMerge}
      BY <1>10, OnIssue DEF Is!CloseRow, Is!At, IssueRequest
    <3>2. /\ [issue[n] EXCEPT !.status = "CLOSED", !.closedBy = m] \in IssueRow
          /\ [asked[n] EXCEPT !.status = "CLOSED", !.closedBy = m] \in IssueRow
      <4>1. issue[n] \in IssueRow /\ asked[n] \in IssueRow
        BY <3>1
      <4> HIDE DEF n, m
      <4> QED BY <3>1, <4>1 DEF IssueRow, IssueStatuses
    <3>3. /\ issue' = [issue EXCEPT ![n] = [@ EXCEPT !.status = "CLOSED", !.closedBy = m]]
          /\ asked' = [asked EXCEPT ![n] = [@ EXCEPT !.status = "CLOSED", !.closedBy = m]]
      BY <1>10 DEF Is!CloseRow
    <3> QED BY <3>1, <3>2, <3>3
  <2> QED BY <1>10, <2>1, <2>2 DEF Is!CloseRow
<1>11. ASSUME NEW l \in Labels, Is!CreateLabel(l) PROVE IssuesTypeOK'
  BY <1>11 DEF Is!CreateLabel, Is!history
<1>12. ASSUME NEW l \in Labels, Is!RemoveLabel(l) PROVE IssuesTypeOK'
  <2>1. issue' \in [Is!Numbers -> IssueRow] /\ asked' \in [Is!Numbers -> IssueRow]
    BY ZenonT(60), <1>12 DEF Is!RemoveLabel, IssueRow
  <2> QED BY <1>12, <2>1 DEF Is!RemoveLabel
<1>15. ASSUME NEW c \in Clients, Is!Fail(c) PROVE IssuesTypeOK'
  BY <1>15, BreaksType DEF Is!Fail, CallMoved
<1>13. ASSUME UNCHANGED Is!vars PROVE IssuesTypeOK'
  BY <1>13 DEF Is!vars, Is!history
<1>14. ASSUME Is!Next PROVE IssuesTypeOK'
  <2>1. {} \in SUBSET Labels
    OBVIOUS
  <2> QED BY <1>1, <1>2, <1>3, <1>4, <1>5, <1>6, <1>7, <1>8, <1>9, <1>10, <1>11, <1>12, <1>14, <1>15, <2>1, Zenon
     DEF Is!Next, IssueStatuses
<1> QED BY <1>13, <1>14

-----------------------------------------------------------------------------

\* The greatest number given is the number of issues.
LEMMA MaxOfInterval ==
  ASSUME NEW k \in Nat
  PROVE  Is!Max((1..k) \cup {0}) = k
<1>1. k \in (1..k) \cup {0} /\ \A y \in (1..k) \cup {0} : k >= y
  OBVIOUS
<1>2. \A x \in (1..k) \cup {0} : (\A y \in (1..k) \cup {0} : x >= y) => x = k
  <2> SUFFICES ASSUME NEW x \in (1..k) \cup {0}, \A y \in (1..k) \cup {0} : x >= y
               PROVE  x = k
    OBVIOUS
  <2>1. x >= k
    BY <1>1
  <2> QED BY <2>1
<1> QED BY <1>1, <1>2 DEF Is!Max

\* One issue more: who counts the others counts one more, at most.
LEMMA CountingGrows ==
  ASSUME NEW q \in IssueRequest, NEW k \in Nat, NEW l \in Nat, k <= l, CountingOK(q, k)
  PROVE  CountingOK(q, l)
<1>1. q.base \in Nat /\ q.tries \in Nat /\ q.n \in Int
  BY IssuesAssumption DEF IssueRequest, Is!Numbers
<1> QED BY <1>1 DEF CountingOK

\* Only an insert changes which issues there are.
LEMMA DenseKeeps ==
  ASSUME IssuesTypeOK, IssuesTypeOK', DenseInv, NEW c \in Clients, NEW r, CallMoved(c, r), CountingOK(r, IssueCount),
         \A n \in Is!Numbers : issue'[n].there = issue[n].there,
         beaten' >= MaxAttempts
  PROVE  DenseInv'
<1>1. Is!Existing' = Is!Existing /\ IssueCount' = IssueCount
  BY DEF Is!Existing, IssueCount
<1>2. \A d \in Clients : CountingOK(call'[d], IssueCount)
  BY DEF CallMoved, DenseInv
<1> QED BY <1>1, <1>2 DEF DenseInv, Dense

\* Every step keeps the numbers dense, and the counting right.
LEMMA DenseStep == IssuesInv /\ IssuesTypeOK' /\ [Is!Next]_(Is!vars) => DenseInv'
<1> SUFFICES ASSUME IssuesInv, IssuesTypeOK', [Is!Next]_(Is!vars) PROVE DenseInv'
  OBVIOUS
<1> USE DEF IssuesInv
<1>a. IssueCount \in Nat /\ Is!Existing = 1..IssueCount /\ beaten >= MaxAttempts
  BY DEF DenseInv, Dense
<1>b. ASSUME NEW c \in Clients, NEW s \in IssueSteps \ {"max", "insert"},
             CallMoved(c, [call[c] EXCEPT !.step = s])
      PROVE  CountingOK([call[c] EXCEPT !.step = s], IssueCount)
  <2>1. call[c] \in IssueRequest /\ CountingOK(call[c], IssueCount)
    BY DEF IssuesTypeOK, DenseInv
  <2> QED BY <2>1 DEF CountingOK, IssueRequest
<1>c. CountingOK(Is!Free, IssueCount)
  BY <1>a DEF Is!Free, CountingOK
<1>1. ASSUME NEW c \in Clients, NEW ls \in SUBSET Labels, Is!Create(c, ls) PROVE DenseInv'
  <2> DEFINE r == [Is!Free EXCEPT !.op = "create", !.step = "max", !.labels = ls, !.tries = 1,
                              !.base = IssueCount]
  <2>1. CallMoved(c, r)
    BY <1>1, <1>a, CreateMoves
  <2>2. CountingOK(r, IssueCount)
    BY <1>a DEF CountingOK, Is!Free
  <2> QED BY <1>1, <1>a, <2>1, <2>2, DenseKeeps DEF Is!Create, Is!Begin
<1>2. ASSUME NEW c \in Clients, Is!ReadMax(c) PROVE DenseInv'
  <2>1. Is!NextNumber = IssueCount + 1
    BY <1>a, MaxOfInterval DEF Is!NextNumber
  <2> DEFINE x == issue[Is!NextNumber]
             r == [call[c] EXCEPT !.step = "insert", !.seen = x, !.n = Is!NextNumber]
  <2>2. CallMoved(c, r)
    BY <1>2, ReadMaxMoves
  <2>3. call[c] \in IssueRequest /\ CountingOK(call[c], IssueCount) /\ call[c].step = "max"
    BY <1>2 DEF IssuesTypeOK, DenseInv, Is!ReadMax, Is!At
  <2>4. r.step = "insert" /\ r.n = IssueCount + 1 /\ r.base = call[c].base /\ r.tries = call[c].tries
    <3> HIDE DEF x
    <3> QED BY <2>1, <2>3 DEF IssueRequest
  <2>5. CountingOK(r, IssueCount)
    <3>1. call[c].base \in Nat /\ call[c].tries \in Nat
      BY <2>3 DEF IssueRequest
    <3> HIDE DEF r
    <3> QED BY <1>a, <2>3, <2>4, <3>1 DEF CountingOK
  <2> QED BY <1>2, <1>a, <2>2, <2>5, DenseKeeps DEF Is!ReadMax, Is!history
<1>3. ASSUME NEW c \in Clients, Is!Insert(c) PROVE DenseInv'
  <2> DEFINE n == call[c].n
             q == call[c]
  <2>1. /\ q \in IssueRequest /\ CountingOK(q, IssueCount) /\ q.step = "insert" /\ n \in Is!Numbers
        /\ q.base \in Nat /\ q.tries \in Nat
    BY <1>3, OnIssue DEF DenseInv, Is!Insert, Is!At, IssueRequest
  <2>2. n >= q.base + q.tries /\ IssueCount >= n - 1 /\ n \in Nat
    BY <2>1, IssuesAssumption DEF CountingOK, Is!Numbers
  <2>3. CASE issue[n].there
    <3>1. n <= IssueCount
      BY <1>a, <2>1, <2>3 DEF Is!Existing
    <3>2. CASE ~Is!GivesUp(c)
      <4> DEFINE r == [q EXCEPT !.step = "max", !.n = 0, !.tries = @ + 1]
      <4>1. CallMoved(c, r) /\ UNCHANGED <<issue, beaten>>
        BY <1>3, <2>3, <3>2, RetryMoves DEF Is!Insert
      <4>2. r.step = "max" /\ r.base = q.base /\ r.tries = q.tries + 1
        BY <2>1 DEF IssueRequest
      <4> HIDE DEF r
      <4>3. CountingOK(r, IssueCount)
        BY <1>a, <2>1, <2>2, <3>1, <4>2 DEF CountingOK
      <4> QED BY <1>a, <4>1, <4>3, DenseKeeps
    <3>3. CASE Is!GivesUp(c)
      <4>1. CallMoved(c, Is!Free) /\ UNCHANGED issue
            /\ beaten' = Is!Min({beaten, Is!Cardinality(Is!Existing) - q.base})
        BY <1>3, <2>3, <3>3, FinishType DEF Is!Insert
      <4>2. IssueCount - q.base >= MaxAttempts
        BY <1>a, <2>1, <2>2, <3>1, <3>3, IssuesAssumption DEF Is!GivesUp
      <4>3. beaten' >= MaxAttempts
        <5>1. beaten \in Int /\ IssueCount - q.base \in Int
          BY <1>a, <2>1 DEF IssuesTypeOK
        <5>2. beaten' \in {beaten, IssueCount - q.base}
          <6> DEFINE a == beaten
                     b == IssueCount - q.base
          <6>1. beaten' = Is!Min({a, b})
            BY <4>1 DEF IssueCount
          <6>2. a <= b \/ b <= a
            BY <5>1
          <6>3. \E x \in {a, b} : \A y \in {a, b} : x <= y
            BY <6>2, <5>1
          <6> QED BY <6>1, <6>3 DEF Is!Min
        <5> QED BY <1>a, <4>2, <5>2
      <4> QED BY <1>c, <4>1, <4>3, DenseKeeps
    <3> QED BY <3>2, <3>3
  <2>4. CASE ~issue[n].there /\ q.labels \subseteq label
    <3>1. /\ CallMoved(c, [q EXCEPT !.step = "announce"]) /\ UNCHANGED beaten
          /\ issue' = [issue EXCEPT ![n] = [Is!NoIssue EXCEPT !.there = TRUE, !.labels = call[c].labels]]
      BY <1>3, <2>4, GoToType DEF Is!Insert, IssueSteps
    <3>2. n = IssueCount + 1
      <4>1. n \notin 1..IssueCount
        BY <1>a, <2>1, <2>4 DEF Is!Existing
      <4>2. n >= 1
        BY <2>1, IssuesAssumption DEF Is!Numbers
      <4> HIDE DEF n
      <4> QED BY <1>a, <2>2, <4>1, <4>2
    <3>3. Is!Existing' = Is!Existing \cup {n}
      BY <2>1, <3>1 DEF Is!Existing, IssuesTypeOK, Is!NoIssue
    <3>4. Is!Existing' = 1..(IssueCount + 1)
      BY <1>a, <3>2, <3>3
    <3>5. IssueCount' = IssueCount + 1
      BY <1>a, <3>4, FS_Interval, IssuesCardinality DEF IssueCount
    <3>6. \A d \in Clients : CountingOK(call'[d], IssueCount)
      <4>1. CountingOK([q EXCEPT !.step = "announce"], IssueCount)
        BY <1>b, <3>1 DEF IssueSteps
      <4> QED BY <3>1, <4>1 DEF CallMoved, DenseInv
    <3>7. \A d \in Clients : CountingOK(call'[d], IssueCount')
      <4> SUFFICES ASSUME NEW d \in Clients PROVE CountingOK(call'[d], IssueCount')
        OBVIOUS
      <4>1. call'[d] \in IssueRequest
        BY DEF IssuesTypeOK
      <4> QED BY <1>a, <3>5, <3>6, <4>1, CountingGrows
    <3> QED BY <1>a, <3>1, <3>4, <3>5, <3>7 DEF DenseInv, Dense
  <2>5. CASE ~issue[n].there /\ ~(q.labels \subseteq label)
    <3>1. CallMoved(c, Is!Free) /\ UNCHANGED <<issue, beaten>>
      BY <1>3, <2>5, FinishType DEF Is!Insert
    <3> QED BY <1>a, <1>c, <3>1, DenseKeeps
  <2> QED BY <2>3, <2>4, <2>5
<1>4. ASSUME NEW c \in Clients, NEW n \in Is!Numbers, NEW s \in IssueStatuses \cup {"same"},
             NEW relabel \in BOOLEAN, NEW ls \in SUBSET Labels, Is!Update(c, n, s, relabel, ls)
      PROVE  DenseInv'
  <2> DEFINE r == [Is!Free EXCEPT !.op = "update", !.step = "row", !.n = n, !.seen = issue[n],
                           !.status = s, !.relabel = relabel, !.labels = ls]
  <2>1. CallMoved(c, r)
    BY ZenonT(60), <1>4, UpdateMoves
  <2>2. CountingOK(r, IssueCount)
    BY <1>a DEF CountingOK, Is!Free
  <2> QED BY <1>4, <1>a, <2>1, <2>2, DenseKeeps DEF Is!Update, Is!Begin
<1>5. ASSUME NEW c \in Clients, Is!UpdateRow(c) PROVE DenseInv'
  <2>1. PICK s \in {"unlabel", "announce"} : Is!GoTo(c, s)
    BY <1>5 DEF Is!UpdateRow
  <2>2. CallMoved(c, [call[c] EXCEPT !.step = s])
    BY <2>1, GoToType DEF IssueSteps
  <2>3. call[c].n \in Is!Numbers /\ call[c].status \in IssueStatuses \cup {"same"}
    BY <1>5, OnIssue DEF Is!UpdateRow, Is!At, IssueRequest
  <2>4. \A m \in Is!Numbers : issue'[m].there = issue[m].there
    BY <1>5, <2>3, WithStatusType DEF Is!UpdateRow, IssuesTypeOK
  <2> QED BY <1>5, <1>a, <1>b, <2>2, <2>4, DenseKeeps DEF Is!UpdateRow, IssueSteps
<1>6. ASSUME NEW c \in Clients, Is!DeleteLabels(c) PROVE DenseInv'
  <2>1. PICK s \in {"label", "announce"} : Is!GoTo(c, s)
    BY <1>6 DEF Is!DeleteLabels
  <2>2. CallMoved(c, [call[c] EXCEPT !.step = s])
    BY <2>1, GoToType DEF IssueSteps
  <2>3. \A m \in Is!Numbers : issue'[m].there = issue[m].there
    BY <1>6 DEF Is!DeleteLabels, IssuesTypeOK, IssueRow
  <2> QED BY <1>6, <1>a, <1>b, <2>2, <2>3, DenseKeeps DEF Is!DeleteLabels, IssueSteps
<1>7. ASSUME NEW c \in Clients, Is!AddLabels(c) PROVE DenseInv'
  <2>1. \A m \in Is!Numbers : issue'[m].there = issue[m].there
    BY <1>7 DEF Is!AddLabels, IssuesTypeOK, IssueRow
  <2>2. CASE Is!GoTo(c, "announce")
    <3>1. CallMoved(c, [call[c] EXCEPT !.step = "announce"])
      BY <2>2, GoToType DEF IssueSteps
    <3> QED BY <1>7, <1>a, <1>b, <2>1, <3>1, DenseKeeps DEF Is!AddLabels, IssueSteps
  <2>3. CASE Is!Breaks(c)
    BY <1>7, <1>a, <1>c, <2>1, <2>3, BreaksType, DenseKeeps DEF Is!AddLabels
  <2> QED BY <1>7, <2>2, <2>3 DEF Is!AddLabels
<1>8. ASSUME NEW c \in Clients, Is!Announce(c) PROVE DenseInv'
  BY <1>8, <1>a, <1>c, FinishType, DenseKeeps DEF Is!Announce
<1>9. ASSUME NEW c \in Clients, NEW n \in Is!Numbers, NEW m \in Merges, Is!Close(c, n, m) PROVE DenseInv'
  <2> DEFINE r == [Is!Free EXCEPT !.op = "close", !.step = "close", !.n = n, !.seen = issue[n], !.merge = m]
  <2>1. CallMoved(c, r)
    BY <1>9, CloseMoves
  <2>2. CountingOK(r, IssueCount)
    BY <1>a DEF CountingOK, Is!Free
  <2> QED BY <1>9, <1>a, <2>1, <2>2, DenseKeeps DEF Is!Close, Is!Begin
<1>10. ASSUME NEW c \in Clients, Is!CloseRow(c) PROVE DenseInv'
  <2>1. CallMoved(c, [call[c] EXCEPT !.step = "announce"])
    BY <1>10, GoToType DEF Is!CloseRow, IssueSteps
  <2>2. \A m \in Is!Numbers : issue'[m].there = issue[m].there
    BY <1>10 DEF Is!CloseRow, IssuesTypeOK, IssueRow
  <2> QED BY <1>10, <1>a, <1>b, <2>1, <2>2, DenseKeeps DEF Is!CloseRow, IssueSteps
<1>11. ASSUME call' = call, beaten' = beaten, \A m \in Is!Numbers : issue'[m].there = issue[m].there
       PROVE  DenseInv'
  <2>1. Is!Existing' = Is!Existing /\ IssueCount' = IssueCount
    BY <1>11 DEF Is!Existing, IssueCount
  <2> QED BY <1>11, <2>1 DEF DenseInv, Dense
<1>12. ASSUME NEW l \in Labels, Is!CreateLabel(l) PROVE DenseInv'
  BY <1>11, <1>12 DEF Is!CreateLabel, Is!history
<1>13. ASSUME NEW l \in Labels, Is!RemoveLabel(l) PROVE DenseInv'
  <2>1. \A m \in Is!Numbers : issue'[m].there = issue[m].there
    BY <1>13 DEF Is!RemoveLabel, IssuesTypeOK, IssueRow
  <2> QED BY <1>11, <1>13, <2>1 DEF Is!RemoveLabel
<1>14. ASSUME UNCHANGED Is!vars PROVE DenseInv'
  BY <1>11, <1>14 DEF Is!vars, Is!history
<1>16. ASSUME NEW c \in Clients, Is!Fail(c) PROVE DenseInv'
  BY <1>16, <1>a, <1>c, BreaksType, DenseKeeps DEF Is!Fail
<1>15. ASSUME Is!Next PROVE DenseInv'
  <2>1. {} \in SUBSET Labels
    OBVIOUS
  <2> QED BY <1>1, <1>2, <1>3, <1>4, <1>5, <1>6, <1>7, <1>8, <1>9, <1>10, <1>12, <1>13, <1>15, <1>16, <2>1, Zenon
     DEF Is!Next, IssueStatuses
<1> QED BY <1>14, <1>15

-----------------------------------------------------------------------------

\* The step of one handler, which at most writes the row of n.
LEMMA CalmMove ==
  ASSUME IssuesTypeOK, CalmInv, NEW c \in Clients, NEW r, CallMoved(c, r), NEW n \in Is!Numbers \cup {0},
         label' = label, born' = born,
         \A m \in Is!Numbers : m # n => /\ issue'[m] = issue[m] /\ asked'[m] = asked[m]
                                        /\ announced'[m] = announced[m] /\ undone'[m] = undone[m],
         \A m \in Is!Numbers : calm'[m] => calm[m],
         \A m \in Is!Numbers : issue[m].there => issue'[m].there,
         r.labels \subseteq born,
         r.op = "none" => r.step = "idle",
         r.step \in {"max", "insert"} => r.op = "create",
         r.step = "insert" => r.n # 0,
         r.step \in {"idle", "max"} => r.n = 0,
         call[c].n = n \/ call[c].step \in {"idle", "max", "insert"},
         r.step \notin {"idle", "max", "insert"} => r.n = n /\ n # 0 /\ issue'[n].there,
         n # 0 /\ calm'[n] =>
           /\ \A d \in Clients : d # c => ~Acts(d, n)
           /\ r.step \notin {"idle", "max", "insert"} => RowOK(r, issue'[n], asked'[n], announced'[n], label, undone'[n])
           /\ r.step \in {"idle", "max", "insert"} /\ issue'[n].there =>
                AsAsked(issue'[n], asked'[n], undone'[n]) /\ Told(issue'[n], announced'[n], undone'[n])
  PROVE  CalmInv'
<1>1. ASSUME NEW d \in Clients
      PROVE  /\ call'[d].labels \subseteq born'
             /\ call'[d].op = "none" => call'[d].step = "idle"
             /\ call'[d].step \in {"max", "insert"} => call'[d].op = "create"
             /\ call'[d].step = "insert" => call'[d].n # 0
             /\ call'[d].step \notin {"idle", "max", "insert"} => call'[d].n # 0 /\ issue'[call'[d].n].there
             /\ call'[d].step \in {"idle", "max"} => call'[d].n = 0
  <2>1. CASE d = c
    BY <2>1 DEF CallMoved
  <2>2. CASE d # c
    <3>1. call'[d] = call[d] /\ call[d].n \in Is!Numbers \cup {0}
      BY <2>2 DEF CallMoved, IssuesTypeOK, IssueRequest
    <3> QED BY <3>1 DEF CalmInv
  <2> QED BY <2>1, <2>2
<1>2. ASSUME NEW m \in Is!Numbers, calm'[m]
      PROVE  /\ \A d, e \in Clients : Acts(d, m)' /\ Acts(e, m)' => d = e
             /\ \A d \in Clients : Acts(d, m)' => RowOK(call'[d], issue'[m], asked'[m], announced'[m], label, undone'[m])
             /\ issue'[m].there /\ (\A d \in Clients : ~Acts(d, m)') =>
                  AsAsked(issue'[m], asked'[m], undone'[m]) /\ Told(issue'[m], announced'[m], undone'[m])
  <2>0. calm[m] /\ m # 0
    BY <1>2, IssuesAssumption DEF Is!Numbers
  <2>a. \A d \in Clients : d # c => (Acts(d, m)' <=> Acts(d, m)) /\ call'[d] = call[d]
    BY DEF Acts, CallMoved
  <2>b. Acts(c, m)' <=> r.n = m /\ r.step \notin {"idle", "insert"}
    BY DEF Acts, CallMoved
  <2>1. CASE m = n
    <3>1. \A d \in Clients : d # c => ~Acts(d, m)'
      BY <1>2, <2>0, <2>1, <2>a
    <3>2. Acts(c, m)' => r.step \notin {"idle", "max", "insert"}
      BY <2>0, <2>b
    <3>3. ~Acts(c, m)' => r.step \in {"idle", "max", "insert"}
      BY <2>1, <2>b
    <3>4. \A d \in Clients : Acts(d, m)' => RowOK(call'[d], issue'[m], asked'[m], announced'[m], label, undone'[m])
      BY <1>2, <2>0, <2>1, <3>1, <3>2 DEF CallMoved
    <3> QED BY <1>2, <2>0, <2>1, <3>1, <3>3, <3>4
  <2>2. CASE m # n
    <3>1. ~Acts(c, m) /\ ~Acts(c, m)'
      BY <2>0, <2>2, <2>b DEF Acts, CalmInv
    <3>2. issue'[m] = issue[m] /\ asked'[m] = asked[m] /\ announced'[m] = announced[m] /\ undone'[m] = undone[m]
      BY <2>2
    <3> QED BY <2>0, <2>a, <3>1, <3>2 DEF CalmInv
  <2> QED BY <2>1, <2>2
<1> QED BY <1>1, <1>2 DEF CalmInv

\* The step of a handler that goes on with the row it is at.
LEMMA CalmActs ==
  ASSUME IssuesTypeOK, CalmInv, NEW c \in Clients, NEW r, CallMoved(c, r), NEW n \in Is!Numbers, call[c].n = n,
         label' = label, born' = born, announced' = announced, calm' = calm,
         issue'[n].there,
         \A m \in Is!Numbers : m # n => /\ issue'[m] = issue[m] /\ asked'[m] = asked[m]
                                        /\ undone'[m] = undone[m],
         r.labels \subseteq born, r.n = n, r.op # "none",
         r.step \in {"row", "close", "unlabel", "label", "announce"},
         calm[n] => /\ \A d \in Clients : d # c => ~Acts(d, n)
                    /\ RowOK(r, issue'[n], asked'[n], announced[n], label, undone'[n])
  PROVE  CalmInv'
<1>1. n # 0
  BY IssuesAssumption DEF Is!Numbers
<1>2. \A m \in Is!Numbers : issue[m].there => issue'[m].there
  BY <1>1
<1>3. n # 0 /\ calm'[n] =>
        /\ \A d \in Clients : d # c => ~Acts(d, n)
        /\ r.step \notin {"idle", "max", "insert"} => RowOK(r, issue'[n], asked'[n], announced'[n], label, undone'[n])
        /\ r.step \in {"idle", "max", "insert"} /\ issue'[n].there =>
             AsAsked(issue'[n], asked'[n], undone'[n]) /\ Told(issue'[n], announced'[n], undone'[n])
  OBVIOUS
<1> QED BY <1>1, <1>2, <1>3, CalmMove

\* There is no issue at the start.
LEMMA CalmInit == Is!Init => CalmInv
  BY IssuesAssumption DEF Is!Init, CalmInv, Is!NoIssue, Is!Free, Acts, Is!Numbers

\* Every step keeps an undisturbed issue as it was asked for.
LEMMA CalmStep == IssuesInv /\ IssuesTypeOK' /\ [Is!Next]_(Is!vars) => CalmInv'
<1> SUFFICES ASSUME IssuesInv, IssuesTypeOK', [Is!Next]_(Is!vars) PROVE CalmInv'
  OBVIOUS
<1> USE DEF IssuesInv
<1>a. 0 \in Is!Numbers \cup {0} /\ 0 \notin Is!Numbers
  BY IssuesAssumption DEF Is!Numbers
<1>b. Is!Free.labels \subseteq born /\ Is!Free.step = "idle" /\ Is!Free.n = 0 /\ Is!Free.op = "none"
  BY DEF Is!Free
\* What the only handler at the row of an issue knows of it.
<1>c. ASSUME NEW c \in Clients, call[c].step \notin {"idle", "max", "insert"}
      PROVE  LET n == call[c].n IN
             /\ n \in Is!Numbers /\ call[c] \in IssueRequest /\ issue[n].there
             /\ issue[n] \in IssueRow /\ asked[n] \in IssueRow /\ call[c].labels \subseteq born
             /\ call[c].op # "none"
             /\ calm[n] => /\ \A d \in Clients : d # c => ~Acts(d, n)
                           /\ RowOK(call[c], issue[n], asked[n], announced[n], label, undone[n])
  <2>1. call[c].n \in Is!Numbers /\ call[c] \in IssueRequest /\ issue[call[c].n].there
    BY <1>c, OnIssue
  <2>2. Acts(c, call[c].n)
    BY <1>c DEF Acts
  <2>3. call[c].labels \subseteq born /\ call[c].op # "none"
    BY <1>c DEF CalmInv
  <2>4. issue[call[c].n] \in IssueRow /\ asked[call[c].n] \in IssueRow
    BY <2>1 DEF IssuesTypeOK
  <2>5. calm[call[c].n] => /\ \A d \in Clients : d # c => ~Acts(d, call[c].n)
                           /\ RowOK(call[c], issue[call[c].n], asked[call[c].n], announced[call[c].n], label, undone[call[c].n])
    BY <2>1, <2>2 DEF CalmInv
  <2> QED BY <2>1, <2>3, <2>4, <2>5
\* A row that no handler is at, if it is calm.
<1>d. ASSUME NEW c \in Clients, Is!At(c, "idle"), NEW n \in Is!Numbers, ~Is!Busy(n), calm[n]
      PROVE  /\ \A d \in Clients : ~Acts(d, n)
             /\ issue[n].there => AsAsked(issue[n], asked[n], undone[n]) /\ Told(issue[n], announced[n], undone[n])
  <2>1. \A d \in Clients : ~Acts(d, n)
    BY <1>d DEF Is!Busy, Acts
  <2> QED BY <1>d, <2>1 DEF CalmInv
\* A request that ends where it is.
<1>e. ASSUME NEW c \in Clients, Is!Breaks(c), call[c].step # "idle",
             UNCHANGED <<issue, label, born, announced, asked, calm>>
      PROVE  CalmInv'
  <2> DEFINE q == call[c]
             n == q.n
             u == undone[n] \cup Is!Owes(c)
  <2>1. /\ CallMoved(c, Is!Free)
        /\ \A m \in Is!Numbers : undone'[m] = IF m = n THEN u ELSE undone[m]
    BY <1>e, BreaksType
  <2>2. CASE q.step \in {"max", "insert"}
    <3>1. Is!Owes(c) = {}
      BY <2>2 DEF Is!Owes
    <3>2. \A m \in Is!Numbers : undone'[m] = undone[m]
      BY <2>1, <3>1
    <3> QED BY <1>a, <1>b, <1>e, <2>1, <2>2, <3>2, CalmMove
  <2>3. CASE q.step \notin {"max", "insert"}
    <3>1. /\ n \in Is!Numbers /\ q \in IssueRequest /\ q.op # "none"
          /\ calm[n] => /\ \A d \in Clients : d # c => ~Acts(d, n)
                        /\ RowOK(q, issue[n], asked[n], announced[n], label, undone[n])
      BY <1>c, <1>e, <2>3
    <3>2. undone'[n] = u /\ \A m \in Is!Numbers : m # n => undone'[m] = undone[m]
      BY <2>1, <3>1
    <3> DEFINE i == issue[n]
               a == asked[n]
    <3>3. calm[n] => AsAsked(i, a, u) /\ Told(i, announced[n], u)
      <4> SUFFICES ASSUME calm[n] PROVE AsAsked(i, a, u) /\ Told(i, announced[n], u)
        OBVIOUS
      <4>1. RowOK(q, i, a, announced[n], label, undone[n])
        BY <3>1
      <4>2. q.step \in {"row", "close", "unlabel", "label", "announce"} /\ q.op \in {"create", "update", "close"}
        BY <1>e, <2>3, <3>1 DEF IssueRequest, IssueSteps
      <4>3. AsAsked(i, a, u)
        BY <4>1, <4>2 DEF RowOK, AsAsked, Is!Owes
      <4>4. Told(i, announced[n], u)
        <5>1. CASE q.step \in {"row", "close"}
          BY <4>1, <5>1 DEF RowOK, Told
        <5>2. CASE q.step \in {"unlabel", "label", "announce"} /\ Is!Newsworthy(c)
          BY <5>2 DEF Told, Is!Owes
        <5>3. CASE q.step \in {"unlabel", "label", "announce"} /\ ~Is!Newsworthy(c)
          BY <4>1, <5>3 DEF RowOK, Told, Is!Newsworthy
        <5> QED BY <4>2, <5>1, <5>2, <5>3
      <4> QED BY <4>3, <4>4
    <3> HIDE DEF u
    <3> QED BY <1>a, <1>b, <1>e, <2>1, <2>3, <3>1, <3>2, <3>3, CalmMove
  <2> QED BY <2>2, <2>3
<1>1. ASSUME NEW c \in Clients, NEW ls \in SUBSET Labels, Is!Create(c, ls) PROVE CalmInv'
  <2> DEFINE r == [Is!Free EXCEPT !.op = "create", !.step = "max", !.labels = ls, !.tries = 1,
                              !.base = IssueCount]
  <2>1. CallMoved(c, r) /\ \A n \in Is!Numbers : calm'[n] => calm[n]
    BY <1>1, CreateMoves DEF DenseInv, Dense
  <2>2. r.step = "max" /\ r.n = 0 /\ r.labels = ls /\ r.op = "create"
    BY DEF Is!Free
  <2>3. ls \subseteq born /\ call[c].step = "idle" /\ UNCHANGED <<issue, label, born, asked, announced, undone>>
    BY <1>1 DEF Is!Create, Is!ValidLabels, Is!Begin, Is!At, IssuesTypeOK
  <2> HIDE DEF r
  <2> QED BY <1>a, <2>1, <2>2, <2>3, CalmMove
<1>2. ASSUME NEW c \in Clients, Is!ReadMax(c) PROVE CalmInv'
  <2> DEFINE r == [call[c] EXCEPT !.step = "insert", !.seen = issue[Is!NextNumber], !.n = Is!NextNumber]
  <2>1. CallMoved(c, r)
    BY <1>2, ReadMaxMoves
  <2>2. call[c].step = "max" /\ UNCHANGED <<issue, label, born, asked, announced, calm, undone>>
        /\ Is!NextNumber \in Is!Numbers
    BY <1>2 DEF Is!ReadMax, Is!At, Is!history
  <2>3. call[c] \in IssueRequest
    BY DEF IssuesTypeOK
  <2>4. r.step = "insert" /\ r.n # 0 /\ r.op = call[c].op /\ r.labels = call[c].labels
    <3> DEFINE x == issue[Is!NextNumber]
    <3> HIDE DEF x
    <3> QED BY <1>a, <2>2, <2>3 DEF IssueRequest
  <2>5. r.op = "create" /\ r.labels \subseteq born
    BY <2>2, <2>4 DEF CalmInv
  <2> HIDE DEF r
  <2> QED BY <1>a, <2>1, <2>2, <2>4, <2>5, CalmMove
<1>3. ASSUME NEW c \in Clients, Is!Insert(c) PROVE CalmInv'
  <2> DEFINE q == call[c]
             n == q.n
  <2>1. /\ q \in IssueRequest /\ q.step = "insert" /\ n \in Is!Numbers /\ q.op = "create"
        /\ q.labels \subseteq born /\ UNCHANGED <<label, born, announced, calm, undone>>
    BY <1>3, OnIssue DEF Is!Insert, Is!At, CalmInv
  <2>2. CASE issue[n].there /\ ~Is!GivesUp(c)
    <3> DEFINE r == [q EXCEPT !.step = "max", !.n = 0, !.tries = @ + 1]
    <3>1. CallMoved(c, r) /\ UNCHANGED <<issue, asked>>
      BY <1>3, <2>2, RetryMoves DEF Is!Insert
    <3>2. r.step = "max" /\ r.n = 0 /\ r.labels = q.labels /\ r.op = "create"
      BY <2>1 DEF IssueRequest
    <3> HIDE DEF r
    <3> QED BY <1>a, <2>1, <3>1, <3>2, CalmMove
  <2>3. CASE \/ issue[n].there /\ Is!GivesUp(c)
             \/ ~issue[n].there /\ ~(q.labels \subseteq label)
    <3>1. CallMoved(c, Is!Free) /\ UNCHANGED <<issue, asked>>
      BY <1>3, <2>3, FinishType DEF Is!Insert
    <3> QED BY <1>a, <1>b, <2>1, <3>1, CalmMove
  <2>4. CASE ~issue[n].there /\ q.labels \subseteq label
    <3> DEFINE r == [q EXCEPT !.step = "announce"]
               x == [Is!NoIssue EXCEPT !.there = TRUE, !.labels = call[c].labels]
    <3>1. /\ CallMoved(c, r)
          /\ issue' = [issue EXCEPT ![n] = x] /\ asked' = [asked EXCEPT ![n] = issue'[n]]
      BY <1>3, <2>4, GoToType DEF Is!Insert, IssueSteps
    <3>2. r.step = "announce" /\ r.n = n /\ r.labels = q.labels /\ r.op = "create"
      BY <2>1 DEF IssueRequest
    <3>3. x.there /\ x.status = "OPEN"
      BY DEF Is!NoIssue
    <3>4. \A d \in Clients : ~Acts(d, n)
      BY <1>a, <2>1, <2>4 DEF Acts, CalmInv
    <3> HIDE DEF r, x
    <3>5. issue'[n] = x /\ asked'[n] = x
      BY <2>1, <3>1 DEF IssuesTypeOK
    <3>6. RowOK(r, x, x, announced'[n], label, undone'[n])
      BY <3>2, <3>3 DEF RowOK, AsAsked
    <3> QED BY <1>a, <2>1, <3>1, <3>2, <3>3, <3>4, <3>5, <3>6, CalmMove
  <2> QED BY <2>2, <2>3, <2>4
<1>4. ASSUME NEW c \in Clients, NEW n \in Is!Numbers, NEW s \in IssueStatuses \cup {"same"},
             NEW relabel \in BOOLEAN, NEW ls \in SUBSET Labels, relabel \/ ls = {},
             Is!Update(c, n, s, relabel, ls)
      PROVE  CalmInv'
  <2> DEFINE r == [Is!Free EXCEPT !.op = "update", !.step = "row", !.n = n, !.seen = issue[n],
                           !.status = s, !.relabel = relabel, !.labels = ls]
  <2>1. CallMoved(c, r) /\ \A m \in Is!Numbers : calm'[m] => calm[m] /\ ~(n = m /\ Is!Busy(m))
    BY ZenonT(60), <1>4, UpdateMoves
  <2>2. r.step = "row" /\ r.n = n /\ r.labels = ls /\ r.op = "update" /\ r.seen = issue[n]
    BY DEF Is!Free
  <2>3. /\ ls \subseteq born /\ Is!At(c, "idle") /\ issue[n].there
        /\ UNCHANGED <<issue, label, born, asked, announced, undone>>
    BY <1>4 DEF Is!Update, Is!ValidLabels, Is!Begin, IssuesTypeOK
  <2>4. calm'[n] => /\ \A d \in Clients : ~Acts(d, n)
                    /\ RowOK(r, issue[n], asked[n], announced[n], label, undone[n])
    BY <1>d, <2>1, <2>2, <2>3 DEF RowOK
  <2> HIDE DEF r
  <2> QED BY <1>a, <2>1, <2>2, <2>3, <2>4, CalmMove DEF Is!At
<1>5. ASSUME NEW c \in Clients, Is!UpdateRow(c) PROVE CalmInv'
  <2> DEFINE q == call[c]
             n == q.n
             s == IF q.relabel THEN "unlabel" ELSE "announce"
             r == [q EXCEPT !.step = s]
             i == issue[n]
             a == asked[n]
  <2>1. /\ n \in Is!Numbers /\ q \in IssueRequest /\ i.there /\ i \in IssueRow /\ a \in IssueRow
        /\ q.labels \subseteq born /\ q.op # "none" /\ q.step = "row"
        /\ q.status \in IssueStatuses \cup {"same"}
        /\ calm[n] => (\A d \in Clients : d # c => ~Acts(d, n)) /\ RowOK(q, i, a, announced[n], label, undone[n])
    BY <1>5, <1>c DEF Is!UpdateRow, Is!At, IssueRequest
  <2>2. /\ CallMoved(c, r) /\ UNCHANGED <<label, born, announced, calm, undone>>
        /\ issue' = [issue EXCEPT ![n] = Is!WithStatus(i, q.status)]
    BY <1>5, GoToType DEF Is!UpdateRow, IssueSteps
  <2>3. /\ r.step = s /\ r.n = n /\ r.labels = q.labels /\ r.op = q.op /\ r.seen = q.seen
        /\ r.status = q.status /\ r.relabel = q.relabel
    BY <2>1 DEF IssueRequest
  <2> DEFINE w == Is!WithStatus(i, q.status)
             v == Is!WithStatus(a, q.status)
             z == [v EXCEPT !.closedBy = IF q.status = "OPEN" THEN Is!NoMerge ELSE @,
                            !.labels = IF q.relabel THEN q.labels ELSE @]
  <2>4. /\ w \in IssueRow /\ w.there = i.there /\ w.labels = i.labels
        /\ w.status = IF q.status = "same" THEN i.status ELSE q.status
        /\ w.closedBy = IF q.status = "OPEN" THEN Is!NoMerge ELSE i.closedBy
    <3>1. i \in IssueRow /\ q.status \in IssueStatuses \cup {"same"}
      BY <2>1
    <3> HIDE DEF i, q
    <3> QED BY <3>1, WithStatusType
  <2>a. /\ v \in IssueRow /\ v.there = a.there /\ v.labels = a.labels
        /\ v.status = IF q.status = "same" THEN a.status ELSE q.status
        /\ v.closedBy = IF q.status = "OPEN" THEN Is!NoMerge ELSE a.closedBy
    <3>1. a \in IssueRow /\ q.status \in IssueStatuses \cup {"same"}
      BY <2>1
    <3> HIDE DEF a, q
    <3> QED BY <3>1, WithStatusType
  <2>6. asked' = [asked EXCEPT ![n] = z]
    BY <1>5 DEF Is!UpdateRow
  <2>8. /\ z.there = a.there /\ z.status = v.status
        /\ z.closedBy = v.closedBy
        /\ z.labels = IF q.relabel THEN q.labels ELSE v.labels
        /\ z \in IssueRow
    <3>1. q.labels \subseteq Labels
      BY <2>1 DEF IssueRequest
    <3> HIDE DEF v, q
    <3> QED BY <2>a, <3>1 DEF IssueRow, Is!NoMerge
  <2>10. calm[n] => RowOK(r, w, z, announced[n], label, undone[n])
    <3> SUFFICES ASSUME calm[n] PROVE RowOK(r, w, z, announced[n], label, undone[n])
      OBVIOUS
    <3>1. /\ AsAsked(i, a, undone[n]) /\ Told(i, announced[n], undone[n]) /\ q.op = "update"
          /\ q.seen.status = i.status
      BY <2>1 DEF RowOK
    <3> HIDE DEF r, w, z, v
    <3>2. w.there = z.there /\ w.status = z.status /\ w.closedBy = z.closedBy
      BY <2>4, <2>a, <2>8, <3>1 DEF AsAsked
    <3>3. ~q.relabel => AsAsked(w, z, undone[n])
      BY <2>4, <2>a, <2>8, <3>1, <3>2 DEF AsAsked
    <3>4. "news" \notin undone[n] => announced[n] = q.seen.status
      BY <3>1 DEF Told
    <3> HIDE DEF i, a
    <3> QED BY <2>3, <2>4, <2>8, <3>1, <3>2, <3>3, <3>4 DEF RowOK
  <2>11. s \in {"unlabel", "announce"}
    OBVIOUS
  <2> HIDE DEF r, w, z, v, i, a, s
  <2>12. /\ issue'[n] = w /\ asked'[n] = z
         /\ \A m \in Is!Numbers : m # n => issue'[m] = issue[m] /\ asked'[m] = asked[m]
    <3>1. issue'[n] = w /\ \A m \in Is!Numbers : m # n => issue'[m] = issue[m]
      <4>1. n \in Is!Numbers /\ issue' = [issue EXCEPT ![n] = w] /\ DOMAIN issue = Is!Numbers
        BY <2>1, <2>2 DEF IssuesTypeOK, w
      <4> HIDE DEF n
      <4> QED BY <4>1
    <3>2. asked'[n] = z /\ \A m \in Is!Numbers : m # n => asked'[m] = asked[m]
      BY <2>1, <2>6 DEF IssuesTypeOK
    <3> QED BY <3>1, <3>2
  <2>13. issue'[n].there /\ (calm[n] => RowOK(r, issue'[n], asked'[n], announced[n], label, undone'[n]))
    BY <2>1, <2>2, <2>4, <2>10, <2>12
  <2>14. \A m \in Is!Numbers : m # n => issue'[m] = issue[m] /\ asked'[m] = asked[m] /\ undone'[m] = undone[m]
    BY <2>2, <2>12
  <2>15. calm[n] => /\ \A d \in Clients : d # c => ~Acts(d, n)
                    /\ RowOK(r, issue'[n], asked'[n], announced[n], label, undone'[n])
    BY <2>1, <2>13
  <2>16. /\ r.labels \subseteq born /\ r.n = n /\ r.op # "none"
         /\ r.step \in {"row", "close", "unlabel", "label", "announce"}
    BY <2>1, <2>3, <2>11
  <2>17. CallMoved(c, r) /\ label' = label /\ born' = born /\ announced' = announced /\ calm' = calm
    BY <2>2
  <2>18. call[c].n = n /\ n \in Is!Numbers /\ IssuesTypeOK /\ CalmInv
    BY <2>1
  <2> HIDE DEF q, n
  <2> QED BY <2>13, <2>14, <2>15, <2>16, <2>17, <2>18, CalmActs
<1>6. ASSUME NEW c \in Clients, Is!DeleteLabels(c) PROVE CalmInv'
  <2> DEFINE q == call[c]
             n == q.n
             s == IF q.labels = {} THEN "announce" ELSE "label"
             r == [q EXCEPT !.step = s]
             i == issue[n]
             w == [i EXCEPT !.labels = {}]
  <2>1. /\ n \in Is!Numbers /\ q \in IssueRequest /\ i.there /\ i \in IssueRow /\ asked[n] \in IssueRow
        /\ q.labels \subseteq born /\ q.op # "none" /\ q.step = "unlabel"
        /\ calm[n] => (\A d \in Clients : d # c => ~Acts(d, n)) /\ RowOK(q, i, asked[n], announced[n], label, undone[n])
    BY <1>6, <1>c DEF Is!DeleteLabels, Is!At
  <2>2. /\ CallMoved(c, r) /\ UNCHANGED <<label, born, announced, calm, asked>>
        /\ issue' = [issue EXCEPT ![n] = w]
    BY <1>6, GoToType DEF Is!DeleteLabels, IssueSteps
  <2>5. undone' = IF s = "label" THEN undone ELSE [undone EXCEPT ![n] = @ \ {"labels"}]
    BY <1>6 DEF Is!DeleteLabels
  <2>6. /\ undone'[n] = IF s = "label" THEN undone[n] ELSE undone[n] \ {"labels"}
        /\ \A m \in Is!Numbers : m # n => undone'[m] = undone[m]
    <3> HIDE DEF s, n
    <3> QED BY <2>1, <2>5 DEF IssuesTypeOK
  <2>3. /\ r.step = s /\ r.n = n /\ r.labels = q.labels /\ r.op = q.op /\ r.seen = q.seen
        /\ r.status = q.status /\ r.relabel = q.relabel
    BY <2>1 DEF IssueRequest
  <2>4. /\ w \in IssueRow /\ w.there = i.there /\ w.labels = {}
        /\ w.status = i.status /\ w.closedBy = i.closedBy
    <3> HIDE DEF i
    <3> QED BY <2>1 DEF IssueRow
  <2> HIDE DEF w, r, i
  <2>10. calm[n] => RowOK(r, w, asked[n], announced[n], label, undone'[n])
    <3> SUFFICES ASSUME calm[n] PROVE RowOK(r, w, asked[n], announced[n], label, undone'[n])
      OBVIOUS
    <3>1. RowOK(q, i, asked[n], announced[n], label, undone[n])
      BY <2>1
    <3>2. s = "announce" => AsAsked(w, asked[n], undone'[n])
      BY <2>1, <2>4, <3>1 DEF RowOK, AsAsked
    <3>3. "news" \in undone'[n] <=> "news" \in undone[n]
      BY <2>6
    <3> HIDE DEF s
    <3> QED BY <2>1, <2>3, <2>4, <3>1, <3>2, <3>3 DEF RowOK, s
  <2>11. s \in {"label", "announce"}
    OBVIOUS
  <2> HIDE DEF s
  <2>12. /\ issue'[n] = w /\ asked' = asked
         /\ \A m \in Is!Numbers : m # n => issue'[m] = issue[m]
    BY <2>1, <2>2 DEF IssuesTypeOK
  <2>13. issue'[n].there /\ (calm[n] => RowOK(r, issue'[n], asked'[n], announced[n], label, undone'[n]))
    BY <2>1, <2>4, <2>10, <2>12
  <2> QED BY <2>1, <2>2, <2>3, <2>6, <2>11, <2>12, <2>13, CalmActs
<1>7. ASSUME NEW c \in Clients, Is!AddLabels(c) PROVE CalmInv'
  <2> DEFINE q == call[c]
             n == q.n
             i == issue[n]
             w == [i EXCEPT !.labels = @ \cup q.labels]
             clash == i.labels \cap q.labels # {} \/ ~(q.labels \subseteq label)
  <2>1. /\ n \in Is!Numbers /\ q \in IssueRequest /\ i.there /\ i \in IssueRow /\ asked[n] \in IssueRow
        /\ q.labels \subseteq born /\ q.op # "none" /\ q.step = "label"
        /\ calm[n] => (\A d \in Clients : d # c => ~Acts(d, n)) /\ RowOK(q, i, asked[n], announced[n], label, undone[n])
    BY <1>7, <1>c DEF Is!AddLabels, Is!At
  <2>2. UNCHANGED <<label, born, announced, asked, calm>>
    BY <1>7 DEF Is!AddLabels
  <2>3. CASE clash
    <3>1. Is!Breaks(c) /\ UNCHANGED issue
      BY <1>7, <2>3 DEF Is!AddLabels
    <3> QED BY <1>e, <2>1, <2>2, <3>1
  <2>4. CASE ~clash
    <3> DEFINE r == [q EXCEPT !.step = "announce"]
    <3>1. /\ CallMoved(c, r) /\ issue' = [issue EXCEPT ![n] = w]
          /\ undone' = [undone EXCEPT ![n] = @ \ {"labels"}]
      BY <1>7, <2>4, GoToType DEF Is!AddLabels, IssueSteps
    <3>4. undone'[n] = undone[n] \ {"labels"} /\ \A m \in Is!Numbers : m # n => undone'[m] = undone[m]
      BY <2>1, <3>1 DEF IssuesTypeOK
    <3>2. /\ r.step = "announce" /\ r.n = n /\ r.labels = q.labels /\ r.op = q.op /\ r.seen = q.seen
          /\ r.status = q.status /\ r.relabel = q.relabel
      BY <2>1 DEF IssueRequest
    <3>3. /\ w \in IssueRow /\ w.there = i.there /\ w.labels = i.labels \cup q.labels
          /\ w.status = i.status /\ w.closedBy = i.closedBy
      <4>1. q.labels \subseteq Labels
        BY <2>1 DEF IssueRequest
      <4> HIDE DEF i, q, clash
      <4> QED BY <2>1, <4>1 DEF IssueRow
    <3> HIDE DEF w, r, i
    <3>5. calm[n] => RowOK(r, w, asked[n], announced[n], label, undone'[n])
      <4> SUFFICES ASSUME calm[n] PROVE RowOK(r, w, asked[n], announced[n], label, undone'[n])
        OBVIOUS
      <4>1. RowOK(q, i, asked[n], announced[n], label, undone[n]) /\ i.labels = {} /\ q.labels \subseteq label
        BY <2>1, <2>4 DEF RowOK
      <4>2. AsAsked(w, asked[n], undone'[n])
        BY <2>1, <3>3, <4>1 DEF RowOK, AsAsked
      <4>3. "news" \in undone'[n] <=> "news" \in undone[n]
        BY <3>4
      <4> QED BY <2>1, <3>2, <3>3, <4>1, <4>2, <4>3 DEF RowOK
    <3> HIDE DEF clash
    <3>6. /\ issue'[n] = w /\ asked' = asked
          /\ \A m \in Is!Numbers : m # n => issue'[m] = issue[m]
      BY <2>1, <2>2, <3>1 DEF IssuesTypeOK
    <3>7. issue'[n].there /\ (calm[n] => RowOK(r, issue'[n], asked'[n], announced[n], label, undone'[n]))
      BY <2>1, <3>3, <3>5, <3>6
    <3>8. \A m \in Is!Numbers : m # n => issue'[m] = issue[m] /\ asked'[m] = asked[m] /\ undone'[m] = undone[m]
      BY <2>2, <3>4, <3>6
    <3>9. calm[n] => /\ \A d \in Clients : d # c => ~Acts(d, n)
                     /\ RowOK(r, issue'[n], asked'[n], announced[n], label, undone'[n])
      BY <2>1, <3>7
    <3>10. /\ r.labels \subseteq born /\ r.n = n /\ r.op # "none"
           /\ r.step \in {"row", "close", "unlabel", "label", "announce"}
      BY <2>1, <3>2
    <3>11. CallMoved(c, r) /\ label' = label /\ born' = born /\ announced' = announced /\ calm' = calm
      BY <2>2, <3>1
    <3>12. call[c].n = n /\ n \in Is!Numbers /\ IssuesTypeOK /\ CalmInv
      BY <2>1
    <3> HIDE DEF q, n
    <3> QED BY <3>7, <3>8, <3>9, <3>10, <3>11, <3>12, CalmActs
  <2> QED BY <2>3, <2>4
<1>8. ASSUME NEW c \in Clients, Is!Announce(c) PROVE CalmInv'
  <2> DEFINE q == call[c]
             n == q.n
             i == issue[n]
             news == CASE q.op = "create" -> "OPEN"
                       [] q.op = "close" -> "CLOSED"
                       [] q.op = "update" -> q.status
             s == IF Is!Newsworthy(c) THEN news ELSE announced[n]
             u == IF Is!Newsworthy(c) THEN undone[n] \ {"news"} ELSE undone[n]
  <2>1. /\ n \in Is!Numbers /\ q \in IssueRequest /\ q.step = "announce"
        /\ calm[n] => (\A d \in Clients : d # c => ~Acts(d, n)) /\ RowOK(q, i, asked[n], announced[n], label, undone[n])
    BY <1>8, <1>c DEF Is!Announce, Is!At
  <2>2. /\ CallMoved(c, Is!Free)
        /\ UNCHANGED <<issue, label, born, asked, calm>>
    BY <1>8, FinishType DEF Is!Announce
  <2>3. /\ announced'[n] = s /\ undone'[n] = u
        /\ \A m \in Is!Numbers : m # n => announced'[m] = announced[m] /\ undone'[m] = undone[m]
    <3>1. /\ Is!Newsworthy(c) => announced' = [announced EXCEPT ![n] = news]
                                  /\ undone' = [undone EXCEPT ![n] = @ \ {"news"}]
          /\ ~Is!Newsworthy(c) => UNCHANGED <<announced, undone>>
      BY <1>8 DEF Is!Announce
    <3> HIDE DEF news
    <3> QED BY <2>1, <3>1 DEF IssuesTypeOK
  <2>4. calm[n] => AsAsked(i, asked[n], u) /\ Told(i, s, u)
    <3> SUFFICES ASSUME calm[n] PROVE AsAsked(i, asked[n], u) /\ Told(i, s, u)
      OBVIOUS
    <3>1. RowOK(q, i, asked[n], announced[n], label, undone[n])
      BY <2>1
    <3>2. AsAsked(i, asked[n], undone[n]) /\ q.op \in {"create", "close", "update"}
      BY <2>1, <3>1 DEF RowOK, IssueRequest
    <3>6. AsAsked(i, asked[n], u)
      BY <3>2 DEF AsAsked
    <3>3. CASE q.op = "create"
      BY <2>1, <3>1, <3>6, <3>3 DEF RowOK, Told, Is!Newsworthy
    <3>4. CASE q.op = "close"
      BY <2>1, <3>1, <3>6, <3>4 DEF RowOK, Told, Is!Newsworthy
    <3>5. CASE q.op = "update"
      <4>1. /\ "news" \notin undone[n] => announced[n] = q.seen.status
            /\ i.status = IF q.status = "same" THEN q.seen.status ELSE q.status
        BY <2>1, <3>1, <3>5 DEF RowOK
      <4>2. CASE Is!Newsworthy(c)
        BY <3>5, <3>6, <4>1, <4>2 DEF Told, Is!Newsworthy
      <4>3. CASE ~Is!Newsworthy(c)
        BY <3>5, <3>6, <4>1, <4>3 DEF Told, Is!Newsworthy
      <4> QED BY <4>2, <4>3
    <3> QED BY <3>2, <3>3, <3>4, <3>5
  <2> HIDE DEF news, i, s, u
  <2> QED BY <1>a, <1>b, <2>1, <2>2, <2>3, <2>4, CalmMove DEF i
<1>9. ASSUME NEW c \in Clients, NEW n \in Is!Numbers, NEW m \in Merges, Is!Close(c, n, m) PROVE CalmInv'
  <2> DEFINE r == [Is!Free EXCEPT !.op = "close", !.step = "close", !.n = n, !.seen = issue[n], !.merge = m]
  <2>1. CallMoved(c, r) /\ \A k \in Is!Numbers : calm'[k] => calm[k] /\ ~(n = k /\ Is!Busy(k))
    BY <1>9, CloseMoves
  <2>2. r.step = "close" /\ r.n = n /\ r.labels = {} /\ r.op = "close"
    BY DEF Is!Free
  <2>3. /\ Is!At(c, "idle") /\ issue[n].there
        /\ UNCHANGED <<issue, label, born, asked, announced, undone>>
    BY <1>9 DEF Is!Close, Is!Begin
  <2>4. calm'[n] => /\ \A d \in Clients : ~Acts(d, n)
                    /\ RowOK(r, issue[n], asked[n], announced[n], label, undone[n])
    BY <1>d, <2>1, <2>2, <2>3 DEF RowOK
  <2> HIDE DEF r
  <2> QED BY <1>a, <2>1, <2>2, <2>3, <2>4, CalmMove DEF Is!At
<1>10. ASSUME NEW c \in Clients, Is!CloseRow(c) PROVE CalmInv'
  <2> DEFINE q == call[c]
             n == q.n
             i == issue[n]
             a == asked[n]
             r == [q EXCEPT !.step = "announce"]
             w == [i EXCEPT !.status = "CLOSED", !.closedBy = q.merge]
             z == [a EXCEPT !.status = "CLOSED", !.closedBy = q.merge]
  <2>1. /\ n \in Is!Numbers /\ q \in IssueRequest /\ i.there /\ i \in IssueRow /\ a \in IssueRow
        /\ q.labels \subseteq born /\ q.op # "none" /\ q.step = "close"
        /\ calm[n] => (\A d \in Clients : d # c => ~Acts(d, n)) /\ RowOK(q, i, a, announced[n], label, undone[n])
    BY <1>10, <1>c DEF Is!CloseRow, Is!At
  <2>2. /\ CallMoved(c, r) /\ UNCHANGED <<label, born, announced, calm, undone>>
        /\ issue' = [issue EXCEPT ![n] = w] /\ asked' = [asked EXCEPT ![n] = z]
    BY <1>10, GoToType DEF Is!CloseRow, IssueSteps
  <2>3. r.step = "announce" /\ r.n = n /\ r.labels = q.labels /\ r.op = q.op
    BY <2>1 DEF IssueRequest
  <2>4. w.there /\ w.status = "CLOSED" /\ (AsAsked(i, a, undone[n]) => AsAsked(w, z, undone[n]))
    <3> HIDE DEF i, a, q, n
    <3> QED BY <2>1 DEF IssueRow, AsAsked
  <2> HIDE DEF w, r, z, i, a
  <2>5. issue'[n] = w /\ asked'[n] = z
    BY <2>1, <2>2 DEF IssuesTypeOK
  <2>6. calm[n] => RowOK(r, w, z, announced[n], label, undone[n])
    BY <2>1, <2>3, <2>4 DEF RowOK
  <2>7. /\ \A m \in Is!Numbers : m # n => issue'[m] = issue[m] /\ asked'[m] = asked[m]
        /\ \A m \in Is!Numbers : issue[m].there => issue'[m].there
    BY <2>1, <2>2, <2>4, <2>5 DEF IssuesTypeOK, i
  <2> QED BY <1>a, <2>1, <2>2, <2>3, <2>4, <2>5, <2>6, <2>7, CalmMove
<1>12. ASSUME NEW l \in Labels, Is!CreateLabel(l) PROVE CalmInv'
  <2>1. /\ UNCHANGED <<issue, asked, announced, calm, call, undone>> /\ born \subseteq born'
        /\ label' = label \cup {l} /\ l \notin born
    BY <1>12 DEF Is!CreateLabel, Is!history
  <2>2. ASSUME NEW c \in Clients, NEW n \in Is!Numbers, RowOK(call[c], issue[n], asked[n], announced[n], label, undone[n])
        PROVE  RowOK(call[c], issue[n], asked[n], announced[n], label, undone[n])'
    <3>1. call[c].labels \subseteq label' => call[c].labels \subseteq label
      BY <2>1 DEF CalmInv
    <3> QED BY <2>1, <2>2, <3>1 DEF RowOK
  <2> QED BY <2>1, <2>2 DEF CalmInv, Acts
<1>13. ASSUME NEW l \in Labels, Is!RemoveLabel(l) PROVE CalmInv'
  <2>1. /\ UNCHANGED <<announced, calm, call, born, undone>> /\ label' = label \ {l}
        /\ issue' = [n \in Is!Numbers |-> [issue[n] EXCEPT !.labels = @ \ {l}]]
        /\ asked' = [n \in Is!Numbers |-> [asked[n] EXCEPT !.labels = @ \ {l}]]
    BY <1>13 DEF Is!RemoveLabel
  <2>2. ASSUME NEW n \in Is!Numbers
        PROVE  /\ issue'[n].there = issue[n].there /\ issue'[n].status = issue[n].status
               /\ issue'[n].closedBy = issue[n].closedBy /\ issue'[n].labels = issue[n].labels \ {l}
               /\ asked'[n].there = asked[n].there /\ asked'[n].status = asked[n].status
               /\ asked'[n].closedBy = asked[n].closedBy /\ asked'[n].labels = asked[n].labels \ {l}
               /\ \A u : AsAsked(issue[n], asked[n], u) => AsAsked(issue'[n], asked'[n], u)
    <3>1. issue[n] \in IssueRow /\ asked[n] \in IssueRow
      BY DEF IssuesTypeOK
    <3> DEFINE i == issue[n]
               a == asked[n]
    <3>2. issue'[n] = [i EXCEPT !.labels = @ \ {l}] /\ asked'[n] = [a EXCEPT !.labels = @ \ {l}]
      BY <2>1
    <3> HIDE DEF i, a
    <3>3. i \in IssueRow /\ a \in IssueRow
      BY <3>1 DEF i, a
    <3>4. /\ issue'[n].there = i.there /\ issue'[n].status = i.status
          /\ issue'[n].closedBy = i.closedBy /\ issue'[n].labels = i.labels \ {l}
      BY <3>2, <3>3 DEF IssueRow
    <3>5. /\ asked'[n].there = a.there /\ asked'[n].status = a.status
          /\ asked'[n].closedBy = a.closedBy /\ asked'[n].labels = a.labels \ {l}
      BY <3>2, <3>3 DEF IssueRow
    <3>6. \A u : AsAsked(i, a, u) => AsAsked(issue'[n], asked'[n], u)
      BY <3>4, <3>5 DEF AsAsked
    <3> QED BY <3>4, <3>5, <3>6 DEF i, a
  <2>3. ASSUME NEW c \in Clients, NEW n \in Is!Numbers, RowOK(call[c], issue[n], asked[n], announced[n], label, undone[n])
        PROVE  RowOK(call[c], issue[n], asked[n], announced[n], label, undone[n])'
    <3>1. call[c].labels \subseteq label' => call[c].labels \subseteq label /\ l \notin call[c].labels
      BY <2>1
    <3> DEFINE i == issue[n]
               a == asked[n]
               j == issue'[n]
               b == asked'[n]
    <3>2. /\ j.there = i.there /\ j.status = i.status /\ j.closedBy = i.closedBy
          /\ j.labels = i.labels \ {l} /\ b.there = a.there /\ b.status = a.status
          /\ b.closedBy = a.closedBy /\ b.labels = a.labels \ {l}
          /\ (AsAsked(i, a, undone[n]) => AsAsked(j, b, undone[n]))
      BY <2>2
    <3>3. RowOK(call[c], i, a, announced[n], label, undone[n])
      BY <2>3
    <3> HIDE DEF i, a, j, b
    <3>4. /\ call[c].step \in {"row", "close", "announce"} => AsAsked(j, b, undone[n])
          /\ call[c].step \in {"unlabel", "label"} /\ call[c].labels \subseteq label' =>
               b.labels = call[c].labels
      BY <3>1, <3>2, <3>3 DEF RowOK
    <3>6. Told(i, announced[n], undone[n]) => Told(j, announced[n], undone[n])
      BY <3>2 DEF Told
    <3>5. RowOK(call[c], j, b, announced[n], label', undone[n])
      BY <2>1, <3>2, <3>3, <3>4, <3>6 DEF RowOK
    <3> QED BY <2>1, <3>5 DEF j, b
  <2>4. ASSUME NEW c \in Clients
        PROVE  /\ call'[c].labels \subseteq born'
               /\ call'[c].op = "none" => call'[c].step = "idle"
               /\ call'[c].step \in {"max", "insert"} => call'[c].op = "create"
               /\ call'[c].step = "insert" => call'[c].n # 0
               /\ call'[c].step \notin {"idle", "max", "insert"} => call'[c].n # 0 /\ issue'[call'[c].n].there
               /\ call'[c].step \in {"idle", "max"} => call'[c].n = 0
    <3>1. call[c].n # 0 => call[c].n \in Is!Numbers
      BY DEF IssuesTypeOK, IssueRequest
    <3> QED BY <2>1, <2>2, <3>1 DEF CalmInv
  <2>5. ASSUME NEW n \in Is!Numbers, calm'[n]
        PROVE  /\ \A d, e \in Clients : Acts(d, n)' /\ Acts(e, n)' => d = e
               /\ \A d \in Clients : Acts(d, n)' => RowOK(call'[d], issue'[n], asked'[n], announced'[n], label', undone'[n])
               /\ issue'[n].there /\ (\A d \in Clients : ~Acts(d, n)') =>
                    AsAsked(issue'[n], asked'[n], undone'[n]) /\ Told(issue'[n], announced'[n], undone'[n])
    <3>1. \A d \in Clients : Acts(d, n)' <=> Acts(d, n)
      BY <2>1 DEF Acts
    <3>2. Told(issue[n], announced[n], undone[n]) => Told(issue'[n], announced'[n], undone'[n])
      BY <2>1, <2>2 DEF Told
    <3> QED BY ZenonT(60), <2>1, <2>2, <2>3, <2>5, <3>1, <3>2 DEF CalmInv
  <2> QED BY <2>4, <2>5 DEF CalmInv
<1>14. ASSUME UNCHANGED Is!vars PROVE CalmInv'
  BY <1>14 DEF Is!vars, Is!history, CalmInv, Acts, RowOK
<1>16. ASSUME NEW c \in Clients, Is!Fail(c) PROVE CalmInv'
  BY <1>e, <1>16 DEF Is!Fail, Is!At
<1>15. ASSUME Is!Next PROVE CalmInv'
  <2>1. {} \in SUBSET Labels
    OBVIOUS
  <2> QED BY <1>1, <1>2, <1>3, <1>4, <1>5, <1>6, <1>7, <1>8, <1>9, <1>10, <1>12, <1>13, <1>15, <1>16, <2>1, Zenon
     DEF Is!Next, IssueStatuses
<1> QED BY <1>14, <1>15

-----------------------------------------------------------------------------

\* There is no number at the start.
LEMMA DenseInit == Is!Init => DenseInv
<1> SUFFICES ASSUME Is!Init PROVE DenseInv
  OBVIOUS
<1>1. Is!Existing = {}
  BY DEF Is!Init, Is!Existing, Is!NoIssue
<1>2. IssueCount = 0 /\ 1..0 = {}
  BY <1>1, FS_EmptySet, IssuesCardinality DEF IssueCount
<1>3. \A c \in Clients : CountingOK(call[c], 0)
  BY DEF Is!Init, Is!Free, CountingOK
<1> QED BY <1>1, <1>2, <1>3, IssuesAssumption DEF Is!Init, DenseInv, Dense

\* A creation that gives up has been beaten a natural number of times.
LEMMA BeatenType == IssuesInv /\ [Is!Next]_(Is!vars) => beaten' \in Nat
<1> SUFFICES ASSUME IssuesInv, [Is!Next]_(Is!vars) PROVE beaten' \in Nat
  OBVIOUS
<1> USE DEF IssuesInv
<1>1. ASSUME NEW c \in Clients, Is!Insert(c) PROVE beaten' \in Nat
  <2> DEFINE b == Is!Cardinality(Is!Existing) - call[c].base
  <2>1. b \in Nat
    BY DEF DenseInv, Dense, CountingOK, IssueCount, IssuesTypeOK, IssueRequest
  <2>2. beaten \in Nat
    BY DEF IssuesTypeOK
  <2>3. beaten' \in {beaten, Is!Min({beaten, b})}
    BY <1>1 DEF Is!Insert
  <2>4. \E x \in {beaten, b} : \A y \in {beaten, b} : x <= y
    <3> HIDE DEF b
    <3>1. beaten <= b \/ b <= beaten
      BY <2>1, <2>2
    <3> QED BY <2>1, <2>2, <3>1
  <2>5. Is!Min({beaten, b}) \in {beaten, b}
    BY <2>4 DEF Is!Min
  <2> QED BY <2>1, <2>2, <2>3, <2>5
<1>2. ASSUME Is!Next, \A c \in Clients : ~Is!Insert(c) PROVE beaten' = beaten
  <2>1. \A c \in Clients : \A r : Is!Begin(c, r) => beaten' = beaten
    BY DEF Is!Begin
  <2>2. ASSUME NEW c \in Clients,
               \/ Is!ReadMax(c) \/ Is!UpdateRow(c) \/ Is!DeleteLabels(c) \/ Is!AddLabels(c) \/ Is!Announce(c)
               \/ Is!CloseRow(c) \/ Is!Fail(c)
        PROVE  beaten' = beaten
    BY <2>2 DEF Is!ReadMax, Is!UpdateRow, Is!DeleteLabels, Is!AddLabels, Is!Announce, Is!CloseRow, Is!Fail, Is!history
  <2>3. ASSUME NEW l, Is!CreateLabel(l) \/ Is!RemoveLabel(l) PROVE beaten' = beaten
    BY <2>3 DEF Is!CreateLabel, Is!RemoveLabel, Is!history
  <2> QED BY <1>2, <2>1, <2>2, <2>3, Zenon DEF Is!Next, Is!Create, Is!Update, Is!Close
<1> QED BY <1>1, <1>2 DEF IssuesTypeOK, Is!vars, Is!history

\* The invariant of the issues.
LEMMA IssuesInductive == Is!Spec => []IssuesInv
<1>1. Is!Init => IssuesInv
  BY IssuesTypeInit, DenseInit, CalmInit DEF IssuesInv
<1>2. IssuesInv /\ [Is!Next]_(Is!vars) => IssuesInv'
  <2> SUFFICES ASSUME IssuesInv, [Is!Next]_(Is!vars) PROVE IssuesInv'
    OBVIOUS
  <2>1. IssuesTypeOK'
    BY BeatenType, IssuesTypeStep DEF IssuesInv, DenseInv
  <2> QED BY <2>1, DenseStep, CalmStep DEF IssuesInv
<1> QED BY <1>1, <1>2, PTL DEF Is!Spec

\* The numbers of a repository's issues are 1, 2, ... without a gap and without a double, however
\* creations race, and a creation gives up only when it was beaten in all its attempts.
THEOREM IssuesDense == Is!Spec => []Is!NumbersDense
<1>1. IssuesInv => Is!NumbersDense
  BY DEF IssuesInv, DenseInv, Dense, Is!NumbersDense
<1> QED BY <1>1, IssuesInductive, PTL

\* An issue at rest is as the last requests on it asked, and the webhooks were told its status,
\* unless two requests on it overlapped; a request that failed or died between two of its queries
\* leaves undone only the labels it was replacing and the event it was to send.
THEOREM IssuesAsAsked == Is!Spec => []Is!AsAskedUnlessRaced
<1>1. IssuesInv => Is!AsAskedUnlessRaced
  <2> SUFFICES ASSUME IssuesInv, NEW n \in Is!Existing, calm[n], ~Is!Busy(n)
               PROVE  /\ issue[n].status = asked[n].status /\ issue[n].closedBy = asked[n].closedBy
                      /\ "labels" \notin undone[n] => issue[n].labels = asked[n].labels
                      /\ "news" \notin undone[n] => announced[n] = issue[n].status
    BY DEF Is!AsAskedUnlessRaced
  <2>1. n \in Is!Numbers /\ issue[n].there
    BY DEF Is!Existing
  <2>2. \A c \in Clients : ~Acts(c, n)
    BY DEF Is!Busy, Acts
  <2> QED BY <2>1, <2>2 DEF IssuesInv, CalmInv, AsAsked, Told
<1> QED BY <1>1, IssuesInductive, PTL

-----------------------------------------------------------------------------
(***************************************************************************)
(* Avatars.  While requests come one at a time, the version of the row is  *)
(* one no browser has kept a picture for before the file changes, and each *)
(* picture gets one (InTurn).                                              *)
(***************************************************************************)

PageRequest == [kind : {"none", "upload", "removal"}, step : {"none", "write", "update", "answer"}, picture : Nat]

AvatarsTypeOK ==
  /\ file \in Nat /\ url \in Nat /\ clock \in Nat
  /\ request \in [Forms -> PageRequest]
  /\ cache \in [Av!Versions -> Nat]

\* Versions are given in order, and no browser knows one that has not been given.
Given ==
  /\ url <= clock
  /\ \A v \in Av!Versions : v > clock => cache[v] = 0

Uploading(f) == request[f].kind = "upload" /\ request[f].step \in {"write", "update"}

\* The address shows the file, whatever a browser has kept.
Matches ==
  /\ url # 0 => file # 0 /\ cache[url] \in {0, file}
  /\ url = 0 => file = 0

\* One change at a time: an upload gives one number to the picture and one to its
\* address, and only between the file and the row do the two differ.
InTurn ==
  /\ \A f, g \in Forms : request[f] # Av!Idle /\ request[g] # Av!Idle => f = g
  /\ url \in Av!Versions
  /\ \E k \in Nat : /\ (\A f \in Forms : ~Uploading(f)) => clock = 2 * k
                    /\ (\E f \in Forms : Uploading(f)) => clock = 2 * k + 1 /\ k < MaxUploads
  /\ (\A f \in Forms : request[f].step # "update") => Matches
  /\ \A f \in Forms : /\ request[f].step = "update" => (request[f].kind = "upload" <=> file # 0)
                      /\ request[f].step = "write" => request[f].picture # 0 /\ request[f].kind = "upload"
                      /\ request[f].step = "none" => request[f] = Av!Idle

AvatarsInv == AvatarsTypeOK /\ Given /\ (calm => InTurn)

\* The request of f moves, and no other.
LEMMA PageGoes ==
  ASSUME AvatarsTypeOK, NEW f \in Forms, NEW k \in {"none", "upload", "removal"}, NEW s \in {"write", "update", "answer"},
         NEW p \in Nat, Av!Go(f, k, s, p)
  PROVE  /\ request' \in [Forms -> PageRequest]
         /\ request'[f].kind = k /\ request'[f].step = s /\ request'[f].picture = p
         /\ \A g \in Forms : g # f => request'[g] = request[g]
<1> DEFINE r == [kind |-> k, step |-> s, picture |-> p]
<1>1. r \in PageRequest /\ r.kind = k /\ r.step = s /\ r.picture = p
  BY DEF PageRequest
<1>2. request' = [request EXCEPT ![f] = r]
  BY DEF Av!Go
<1> HIDE DEF r
<1> QED BY <1>1, <1>2 DEF AvatarsTypeOK

\* A page that waits for nothing.
LEMMA PageIdle == Av!Idle \in PageRequest /\ Av!Idle.step = "none" /\ Av!Idle.kind = "none"
  BY DEF Av!Idle, PageRequest

\* Nothing is shown at the start.
LEMMA PictureInit == Av!Init => AvatarsInv
<1> SUFFICES ASSUME Av!Init PROVE AvatarsInv
  OBVIOUS
<1>1. 0 \in Av!Versions
  BY AvatarsAssumption DEF Av!Versions
<1>2. AvatarsTypeOK /\ Given
  BY <1>1, PageIdle DEF Av!Init, AvatarsTypeOK, Given, Av!Versions
<1>3. \A f \in Forms : request[f] = Av!Idle /\ ~Uploading(f)
  BY PageIdle DEF Av!Init, Uploading
<1>4. clock = 2 * 0
  BY DEF Av!Init
<1>5. Matches
  BY DEF Av!Init, Matches
<1> QED BY <1>1, <1>2, <1>3, <1>4, <1>5, PageIdle DEF Av!Init, AvatarsInv, InTurn

\* Every step of a page, of the API or of a browser keeps the invariant.
LEMMA PictureStep == AvatarsInv /\ [Av!Next]_(Av!vars) => AvatarsInv'
<1> SUFFICES ASSUME AvatarsInv, [Av!Next]_(Av!vars) PROVE AvatarsInv'
  OBVIOUS
<1> USE DEF AvatarsInv
<1>0. Av!Versions \subseteq Nat /\ \A n \in Nat : n <= 2 * MaxUploads => n \in Av!Versions
  BY AvatarsAssumption DEF Av!Versions
<1>a. ASSUME NEW f \in Forms, request[f] = Av!Idle, calm, Av!Alone(f), InTurn
      PROVE  /\ \A g \in Forms : request[g] = Av!Idle /\ ~Uploading(g) /\ request[g].step = "none"
             /\ Matches
             /\ \E k \in Nat : clock = 2 * k
  BY <1>a, PageIdle DEF Av!Alone, InTurn, Uploading
<1>1. ASSUME NEW f \in Forms, Av!Upload(f) PROVE AvatarsInv'
  <2>1. /\ clock' = clock + 1 /\ clock' \in Nat /\ clock < 2 * MaxUploads /\ request[f] = Av!Idle
        /\ UNCHANGED <<file, url, cache>> /\ calm' = (calm /\ Av!Alone(f)) /\ Av!Go(f, "upload", "write", clock')
    BY <1>1 DEF Av!Upload, AvatarsTypeOK
  <2>2. /\ request' \in [Forms -> PageRequest]
        /\ request'[f].kind = "upload" /\ request'[f].step = "write" /\ request'[f].picture = clock'
        /\ \A g \in Forms : g # f => request'[g] = request[g]
    BY <2>1, PageGoes
  <2>3. AvatarsTypeOK' /\ Given'
    BY <1>0, <2>1, <2>2 DEF AvatarsTypeOK, Given
  <2>4. ASSUME calm' PROVE InTurn'
    <3>1. PICK k \in Nat : clock = 2 * k
      BY <1>a, <2>1, <2>4
    <3>2. (\E g \in Forms : Uploading(g)') /\ clock' = 2 * k + 1 /\ k < MaxUploads
      BY <2>1, <2>2, <3>1, AvatarsAssumption DEF Uploading
    <3>3. Matches' /\ url' \in Av!Versions /\ \A g \in Forms : request[g] = Av!Idle
      BY <1>a, <2>1, <2>4 DEF Matches, InTurn
    <3> QED BY <2>1, <2>2, <3>2, <3>3, PageIdle DEF InTurn, AvatarsTypeOK
  <2> QED BY <2>3, <2>4
<1>2. ASSUME NEW f \in Forms, Av!WriteFile(f) PROVE AvatarsInv'
  <2>1. /\ request[f].step = "write" /\ file' = request[f].picture /\ file' \in Nat
        /\ UNCHANGED <<url, clock, cache, calm>> /\ Av!Go(f, "upload", "update", file')
    BY <1>2 DEF Av!WriteFile, AvatarsTypeOK, PageRequest
  <2>2. /\ request' \in [Forms -> PageRequest]
        /\ request'[f].kind = "upload" /\ request'[f].step = "update"
        /\ \A g \in Forms : g # f => request'[g] = request[g]
    BY <2>1, PageGoes
  <2>3. AvatarsTypeOK' /\ Given'
    BY <2>1, <2>2 DEF AvatarsTypeOK, Given
  <2>4. ASSUME calm' PROVE InTurn'
    <3>1. InTurn /\ request[f] # Av!Idle /\ request[f].kind = "upload" /\ file' # 0 /\ Uploading(f) /\ Uploading(f)'
      BY <2>1, <2>2, <2>4, PageIdle DEF InTurn, Uploading
    <3>2. \A g \in Forms : g # f => request[g] = Av!Idle
      BY <3>1 DEF InTurn
    <3>3. PICK k \in Nat : clock' = 2 * k + 1 /\ k < MaxUploads
      BY <2>1, <3>1 DEF InTurn
    <3> QED BY <2>1, <2>2, <3>1, <3>2, <3>3, PageIdle DEF InTurn
  <2> QED BY <2>3, <2>4
<1>3. ASSUME NEW f \in Forms, Av!SetUrl(f) PROVE AvatarsInv'
  <2>1. /\ request[f].step = "update" /\ UNCHANGED <<file, cache, calm>>
        /\ request[f].kind = "upload" => clock' = clock + 1 /\ url' = clock'
        /\ request[f].kind # "upload" => clock' = clock /\ url' = 0
    BY <1>3 DEF Av!SetUrl
  <2>k. Av!Go(f, request[f].kind, "answer", 0)
    BY <1>3 DEF Av!SetUrl
  <2>2. /\ request' \in [Forms -> PageRequest]
        /\ request'[f].kind = request[f].kind /\ request'[f].step = "answer"
        /\ \A g \in Forms : g # f => request'[g] = request[g]
    BY <2>k, PageGoes DEF AvatarsTypeOK, PageRequest
  <2>3. AvatarsTypeOK' /\ Given'
    BY <1>0, <2>1, <2>2 DEF AvatarsTypeOK, Given
  <2>4. ASSUME calm' PROVE InTurn'
    <3>1. /\ InTurn /\ request[f] # Av!Idle /\ (request[f].kind = "upload" <=> file # 0)
          /\ \A g \in Forms : g # f => request[g] = Av!Idle
      BY <2>1, <2>4, PageIdle DEF InTurn
    <3>2. \A g \in Forms : ~Uploading(g)' /\ request'[g].step \in {"none", "answer"}
      BY <2>2, <3>1, PageIdle DEF Uploading
    <3>3. CASE request[f].kind = "upload"
      <4>1. PICK k \in Nat : clock = 2 * k + 1 /\ k < MaxUploads
        BY <2>1, <3>1, <3>3 DEF InTurn, Uploading
      <4>2. clock' = 2 * (k + 1) /\ k + 1 \in Nat /\ clock' <= 2 * MaxUploads /\ clock' \in Nat /\ clock' > clock
        BY <2>1, <3>3, <4>1, AvatarsAssumption
      <4>3. url' = clock' /\ url' \in Av!Versions /\ cache'[url'] = 0
        BY <1>0, <2>1, <3>3, <4>2 DEF Given
      <4>4. Matches'
        BY <2>1, <3>1, <3>3, <4>2, <4>3 DEF Matches
      <4> QED BY <2>1, <2>2, <3>1, <3>2, <4>2, <4>3, <4>4, PageIdle DEF InTurn
    <3>4. CASE request[f].kind # "upload"
      <4>1. \A g \in Forms : ~Uploading(g)
        BY <3>1, <3>4, PageIdle DEF Uploading
      <4>2. PICK k \in Nat : clock' = 2 * k
        BY <2>1, <3>1, <3>4, <4>1 DEF InTurn
      <4>3. 0 \in Av!Versions
        BY <1>0, AvatarsAssumption
      <4>4. Matches'
        BY <2>1, <3>1, <3>4 DEF Matches
      <4> QED BY <2>1, <2>2, <3>1, <3>2, <3>4, <4>2, <4>3, <4>4, PageIdle DEF InTurn
    <3> QED BY <3>3, <3>4
  <2> QED BY <2>3, <2>4
<1>4. ASSUME NEW f \in Forms, Av!Remove(f) PROVE AvatarsInv'
  <2>1. /\ request[f] = Av!Idle /\ file' = 0 /\ Av!Go(f, "removal", "update", 0)
        /\ calm' = (calm /\ Av!Alone(f)) /\ UNCHANGED <<url, clock, cache>>
    BY <1>4 DEF Av!Remove
  <2>2. /\ request' \in [Forms -> PageRequest]
        /\ request'[f].kind = "removal" /\ request'[f].step = "update"
        /\ \A g \in Forms : g # f => request'[g] = request[g]
    BY <2>1, PageGoes
  <2>3. AvatarsTypeOK' /\ Given'
    BY <2>1, <2>2 DEF AvatarsTypeOK, Given
  <2>4. ASSUME calm' PROVE InTurn'
    <3>1. PICK k \in Nat : clock' = 2 * k
      BY <1>a, <2>1, <2>4
    <3>2. \A g \in Forms : ~Uploading(g)' /\ request[g] = Av!Idle
      BY <1>a, <2>1, <2>2, <2>4 DEF Uploading
    <3> QED BY <2>1, <2>2, <2>4, <3>1, <3>2, PageIdle DEF InTurn
  <2> QED BY <2>3, <2>4
<1>5. ASSUME NEW f \in Forms, Av!Answered(f) PROVE AvatarsInv'
  <2>1. /\ request[f].step = "answer" /\ request' = [request EXCEPT ![f] = Av!Idle]
        /\ UNCHANGED <<file, url, clock, cache, calm>>
    BY <1>5 DEF Av!Answered
  <2>2. /\ request' \in [Forms -> PageRequest] /\ request'[f] = Av!Idle
        /\ \A g \in Forms : g # f => request'[g] = request[g]
    BY <2>1, PageIdle DEF AvatarsTypeOK
  <2>3. AvatarsTypeOK' /\ Given'
    BY <2>1, <2>2 DEF AvatarsTypeOK, Given
  <2>4. ASSUME calm' PROVE InTurn'
    <3>1. \A g \in Forms : Uploading(g)' <=> Uploading(g)
      BY <2>1, <2>2, PageIdle DEF Uploading
    <3>2. InTurn /\ (\A g \in Forms : request'[g].step = "update" <=> request[g].step = "update")
      BY <2>1, <2>2, <2>4, PageIdle
    <3>3. (\A g \in Forms : request'[g].step # "update") => Matches'
      BY <2>1, <3>2 DEF InTurn, Matches
    <3>4. \E k \in Nat : /\ (\A g \in Forms : ~Uploading(g)') => clock' = 2 * k
                         /\ (\E g \in Forms : Uploading(g)') => clock' = 2 * k + 1 /\ k < MaxUploads
      BY <2>1, <3>1, <3>2 DEF InTurn
    <3>5. \A g \in Forms : request'[g] \in {Av!Idle, request[g]}
      BY <2>2
    <3>6. /\ \A g, h \in Forms : request'[g] # Av!Idle /\ request'[h] # Av!Idle => g = h
          /\ \A g \in Forms :
               /\ request'[g].step = "update" => (request'[g].kind = "upload" <=> file' # 0)
               /\ request'[g].step = "write" => request'[g].picture # 0 /\ request'[g].kind = "upload"
               /\ request'[g].step = "none" => request'[g] = Av!Idle
      BY <2>1, <3>2, <3>5, PageIdle DEF InTurn
    <3>7. url' \in Av!Versions
      BY <2>1, <3>2 DEF InTurn
    <3> QED BY <3>3, <3>4, <3>6, <3>7 DEF InTurn
  <2> QED BY <2>3, <2>4
<1>6. ASSUME Av!Stop PROVE AvatarsInv'
  <2>1. /\ request' = [f \in Forms |-> Av!Idle] /\ UNCHANGED <<file, url, clock, cache>>
        /\ calm' = (calm /\ \A f \in Forms : request[f].step \in {"none", "answer"})
    BY <1>6 DEF Av!Stop
  <2>2. \A f \in Forms : request'[f] = Av!Idle /\ ~Uploading(f)'
    BY <2>1, PageIdle DEF Uploading
  <2>3. AvatarsTypeOK' /\ Given'
    BY <2>1, PageIdle DEF AvatarsTypeOK, Given
  <2>4. ASSUME calm' PROVE InTurn'
    <3>1. InTurn /\ (\A f \in Forms : ~Uploading(f)) /\ \A f \in Forms : request[f].step # "update"
      BY <2>1, <2>4 DEF Uploading
    <3>2. PICK k \in Nat : clock' = 2 * k
      BY <2>1, <3>1 DEF InTurn
    <3>3. Matches'
      BY <2>1, <3>1 DEF InTurn, Matches
    <3> QED BY <2>1, <2>2, <3>1, <3>2, <3>3, PageIdle DEF InTurn
  <2> QED BY <2>3, <2>4
<1>7. ASSUME NEW v \in Av!Versions, Av!Serve(v) \/ Av!Expire(v) PROVE AvatarsInv'
  <2>1. /\ UNCHANGED <<file, url, clock, request, calm>>
        /\ \/ v = url /\ file # 0 /\ cache' = [cache EXCEPT ![v] = file]
           \/ cache' = [cache EXCEPT ![v] = 0]
    BY <1>7 DEF Av!Serve, Av!Expire
  <2>2. AvatarsTypeOK' /\ Given'
    BY <1>0, <2>1 DEF AvatarsTypeOK, Given
  <2>3. Matches /\ url \in Av!Versions => Matches'
    BY <2>1 DEF Matches, AvatarsTypeOK
  <2>4. calm' => InTurn'
    BY <2>1, <2>3 DEF InTurn, Uploading
  <2> QED BY <2>2, <2>4
<1>8. CASE UNCHANGED Av!vars
  BY <1>8 DEF Av!vars, AvatarsTypeOK, Given, InTurn, Matches, Uploading
<1> QED BY <1>1, <1>2, <1>3, <1>4, <1>5, <1>6, <1>7, <1>8 DEF Av!Next

\* The invariant of the avatars.
LEMMA AvatarsInductive == Av!Spec => []AvatarsInv
  BY PictureInit, PictureStep, PTL DEF Av!Spec

\* Unless requests overlapped or one was cut short, every page shows the picture in the file,
\* whatever its browser has kept.
THEOREM AvatarsCurrent == Av!Spec => []Av!PictureCurrent
<1>1. AvatarsInv => Av!PictureCurrent
  BY PageIdle DEF AvatarsInv, InTurn, Matches, Av!PictureCurrent, Av!Shown
<1> QED BY <1>1, AvatarsInductive, PTL

-----------------------------------------------------------------------------
(***************************************************************************)
(* Backups.  The row of the hotcopy under way is the newest of its         *)
(* repository, and the retention never takes the newest success (CopyOK),  *)
(* so the newest success stays on disk (KeptInv).  What is VERIFYING and   *)
(* not at its turn waits for a job that was put back, or for its turn in   *)
(* the job at work, unless the queue gave that job up (VerifyInv).         *)
(***************************************************************************)

BackupStatuses == {"RUNNING", "SUCCESS", "FAILED", "gone"}
Backup == [repo : Repos, status : BackupStatuses, there : BOOLEAN]
Single == {"hotcopy-repo", "verify-repo"}
BackupJob == [name : Single \cup {"hotcopy-all", "verify-all"}, repo : Repos \cup {NoRepo},
        tries : Nat, stalled : BOOLEAN]
Copies == {"copy", "retain", "remove", "forget"}
Work == [job : BackupJob \cup {Ba!NoJob}, step : {"idle", "next", "verify"} \cup Copies,
         todo : Seq(Repos), doomed : SUBSET Nat]

JobOK(j) == j.name \in Single => j.repo \in Repos

BackupsTypeOK ==
  /\ repos \subseteq Repos
  /\ rows \in Seq(Backup)
  /\ keep \in 1..2
  /\ health \in [Repos -> {"UNKNOWN", "VERIFYING", "HEALTHY", "UNHEALTHY"}]
  /\ queue \in Seq(BackupJob) /\ \A i \in DOMAIN queue : JobOK(queue[i])
  /\ work \in Work
  /\ faults \in Nat

\* What the worker does is for a job, and for a repository while it does it.
WorkOK ==
  /\ work.step # "idle" => work.job \in BackupJob /\ JobOK(work.job)
  /\ work.step \notin {"idle", "next"} => work.todo # <<>>
  /\ work.step \in Copies => Ba!Copying
  /\ work.step = "verify" => ~Ba!Copying
  /\ work.job.name \in Single => \A i \in DOMAIN work.todo : work.todo[i] = work.job.repo

\* The row of the hotcopy under way is the newest of its repository, and the retention
\* spares it.
CopyOK ==
  work.step \in Copies =>
    /\ \E m \in DOMAIN rows :
         /\ rows[m].repo = Ba!Repo
         /\ \A i \in DOMAIN rows : rows[i].repo = Ba!Repo => i <= m
         /\ Ba!At("copy") /\ Ba!Repo \in repos => rows[m].status = "RUNNING"
         /\ ~Ba!At("copy") /\ Ba!Repo \in repos => rows[m].status = "SUCCESS" /\ rows[m].there
         /\ work.step \in {"remove", "forget"} /\ Ba!Repo \in repos => m \notin work.doomed
    /\ work.step \in {"remove", "forget"} => \A i \in work.doomed : i \in DOMAIN rows /\ rows[i].repo = Ba!Repo
    /\ Ba!At("forget") => work.doomed # {}

Kept(r) == \E m \in Ba!Successes(r) : rows[m].there /\ \A i \in Ba!Successes(r) : i <= m
KeptInv == \A r \in (had \cap repos) \ spoiled : Kept(r)

Turn(r) == Ba!At("verify") /\ Ba!Repo = r
Ahead(r) == /\ work.step \in {"next", "verify"} /\ Ba!Verifies(work.job, r)
            /\ \E i \in DOMAIN work.todo : work.todo[i] = r
Waits(r) == \E i \in DOMAIN queue : Ba!Verifies(queue[i], r)

\* What is left VERIFYING is verified again, unless the queue gave up.
VerifyInv ==
  \A r \in repos \ forsaken : health[r] = "VERIFYING" /\ ~Turn(r) => Waits(r) \/ Ahead(r)

BackupsInv == BackupsTypeOK /\ WorkOK /\ CopyOK /\ KeptInv /\ VerifyInv

-----------------------------------------------------------------------------

\* A worker at rest.
LEMMA RestingOK ==
  /\ Ba!Resting \in Work /\ Ba!Resting.step = "idle" /\ Ba!Resting.job = Ba!NoJob /\ Ba!Resting.todo = <<>>
  /\ Ba!NoJob.name = "none" /\ ~Ba!NoJob.stalled /\ Ba!NoJob.name \notin Single
  BY EmptySeq DEF Ba!Resting, Ba!NoJob, Work, Single

\* The worker goes to step s, with the same job.
LEMMA WorkGoes ==
  ASSUME BackupsTypeOK, NEW s \in {"idle", "next", "verify"} \cup Copies, Ba!GoTo(s)
  PROVE  /\ work' \in Work /\ work'.step = s /\ work'.job = work.job
         /\ work'.todo = work.todo /\ work'.doomed = work.doomed
  BY DEF BackupsTypeOK, Work, Ba!GoTo

\* The next repository's turn.
LEMMA TailMoves ==
  ASSUME BackupsTypeOK, work.todo # <<>>, work' = [work EXCEPT !.step = "next", !.todo = Tail(@)]
  PROVE  /\ work' \in Work /\ work'.step = "next" /\ work'.job = work.job /\ work'.doomed = work.doomed
         /\ \A i \in DOMAIN work'.todo : \E k \in DOMAIN work.todo : work'.todo[i] = work.todo[k]
         /\ \A k \in DOMAIN work.todo : work.todo[k] = Ba!Repo \/ \E i \in DOMAIN work'.todo : work'.todo[i] = work.todo[k]
<1> DEFINE todo == work.todo
<1>1. todo \in Seq(Repos) /\ todo # <<>>
  BY DEF BackupsTypeOK, Work
<1>2. /\ Tail(todo) \in Seq(Repos) /\ Head(todo) = todo[1]
      /\ DOMAIN Tail(todo) = 1..(Len(todo) - 1) /\ DOMAIN todo = 1..Len(todo) /\ Len(todo) \in Nat
      /\ \A i \in DOMAIN Tail(todo) : Tail(todo)[i] = todo[i + 1]
  BY <1>1
<1> HIDE DEF todo
<1>3. \A i \in DOMAIN Tail(todo) : i + 1 \in DOMAIN todo /\ Tail(todo)[i] = todo[i + 1]
  BY <1>2
<1>4. \A k \in DOMAIN todo : k = 1 \/ (k - 1 \in DOMAIN Tail(todo) /\ Tail(todo)[k - 1] = todo[k])
  BY <1>2
<1>5. /\ work' \in Work /\ work'.step = "next" /\ work'.job = work.job /\ work'.doomed = work.doomed
      /\ work'.todo = Tail(todo)
  BY <1>2 DEF BackupsTypeOK, Work, todo
<1> QED BY SMTT(30), <1>2, <1>3, <1>4, <1>5 DEF Ba!Repo, todo

\* The head of the queue, and the rest of it.
LEMMA HeadOfQueue ==
  ASSUME BackupsTypeOK, queue # <<>>, queue' = Tail(queue)
  PROVE  /\ Head(queue) \in BackupJob /\ JobOK(Head(queue)) /\ 1 \in DOMAIN queue /\ Head(queue) = queue[1]
         /\ queue' \in Seq(BackupJob) /\ \A i \in DOMAIN queue' : JobOK(queue'[i])
         /\ \A i \in DOMAIN queue' : \E k \in DOMAIN queue : queue'[i] = queue[k]
         /\ \A k \in DOMAIN queue : queue[k] = Head(queue) \/ \E i \in DOMAIN queue' : queue'[i] = queue[k]
<1>1. /\ Tail(queue) \in Seq(BackupJob) /\ Head(queue) = queue[1] /\ 1 \in DOMAIN queue /\ queue[1] \in BackupJob
      /\ DOMAIN Tail(queue) = 1..(Len(queue) - 1) /\ DOMAIN queue = 1..Len(queue) /\ Len(queue) \in Nat
      /\ \A i \in DOMAIN Tail(queue) : Tail(queue)[i] = queue[i + 1]
  BY DEF BackupsTypeOK
<1>2. \A i \in DOMAIN Tail(queue) : i + 1 \in DOMAIN queue /\ Tail(queue)[i] = queue[i + 1]
  BY <1>1
<1>3. \A k \in DOMAIN queue : k = 1 \/ (k - 1 \in DOMAIN Tail(queue) /\ Tail(queue)[k - 1] = queue[k])
  BY <1>1
<1> QED BY <1>1, <1>2, <1>3 DEF BackupsTypeOK

\* A job at the end of the queue.
LEMMA QueueGrows ==
  ASSUME BackupsTypeOK, NEW j \in BackupJob, JobOK(j), queue' = Append(queue, j)
  PROVE  /\ queue' \in Seq(BackupJob) /\ \A i \in DOMAIN queue' : JobOK(queue'[i])
         /\ \A i \in DOMAIN queue : i \in DOMAIN queue' /\ queue'[i] = queue[i]
         /\ \E i \in DOMAIN queue' : queue'[i] = j
<1>1. /\ queue' \in Seq(BackupJob) /\ DOMAIN queue' = 1..(Len(queue) + 1) /\ DOMAIN queue = 1..Len(queue)
      /\ Len(queue) \in Nat /\ queue'[Len(queue) + 1] = j
      /\ \A i \in DOMAIN queue : queue'[i] = queue[i]
  BY DEF BackupsTypeOK
<1>2. \A i \in DOMAIN queue' : i = Len(queue) + 1 \/ i \in DOMAIN queue
  BY <1>1
<1>3. \A i \in DOMAIN queue : i \in DOMAIN queue'
  BY <1>1
<1> QED BY <1>1, <1>2, <1>3 DEF BackupsTypeOK

\* A job in front of the queue.
LEMMA QueueAhead ==
  ASSUME BackupsTypeOK, NEW j \in BackupJob, JobOK(j), queue' = <<j>> \o queue
  PROVE  /\ queue' \in Seq(BackupJob) /\ \A i \in DOMAIN queue' : JobOK(queue'[i])
         /\ 1 \in DOMAIN queue' /\ queue'[1] = j
         /\ \A k \in DOMAIN queue : \E i \in DOMAIN queue' : queue'[i] = queue[k]
<1>1. <<j>> \in Seq(BackupJob) /\ Len(<<j>>) = 1 /\ queue \in Seq(BackupJob) /\ Len(queue) \in Nat
  BY DEF BackupsTypeOK
<1>2. /\ queue' \in Seq(BackupJob) /\ DOMAIN queue' = 1..(1 + Len(queue)) /\ queue'[1] = j
      /\ \A i \in DOMAIN queue' : i = 1 \/ (i - 1 \in DOMAIN queue /\ queue'[i] = queue[i - 1])
      /\ \A k \in DOMAIN queue : k + 1 \in DOMAIN queue' /\ queue'[k + 1] = queue[k]
  BY <1>1
<1>3. \A k \in DOMAIN queue : \E i \in DOMAIN queue' : queue'[i] = queue[k]
  BY <1>2, Zenon
<1>5. 1 \in DOMAIN queue'
  <2>1. 1 \in 1..(1 + Len(queue))
    BY <1>1
  <2> QED BY <1>2, <2>1
<1>4. ASSUME NEW i \in DOMAIN queue' PROVE JobOK(queue'[i])
  <2>1. CASE i = 1
    BY <1>2, <2>1
  <2>2. CASE i - 1 \in DOMAIN queue /\ queue'[i] = queue[i - 1]
    <3>1. JobOK(queue[i - 1])
      BY <2>2 DEF BackupsTypeOK
    <3> QED BY <2>2, <3>1
  <2> QED BY <1>2, <2>1, <2>2
<1> QED BY <1>2, <1>3, <1>4, <1>5

\* The processor throws: the worker rests, and its job comes into the queue or is given up.
LEMMA ThrowMoves ==
  ASSUME BackupsTypeOK, WorkOK, work.step # "idle", Ba!Throw(work.job)
  PROVE  /\ work' = Ba!Resting
         /\ queue' \in Seq(BackupJob) /\ \A i \in DOMAIN queue' : JobOK(queue'[i])
         /\ \A i \in DOMAIN queue : i \in DOMAIN queue' /\ queue'[i] = queue[i]
         /\ forsaken \subseteq forsaken'
         /\ \A r \in Repos \ forsaken' : Ba!Verifies(work.job, r) =>
              \E i \in DOMAIN queue' : Ba!Verifies(queue'[i], r)
<1>1. work.job \in BackupJob /\ JobOK(work.job)
  BY DEF WorkOK
<1> DEFINE j == [work.job EXCEPT !.tries = @ + 1]
<1>2. j \in BackupJob /\ JobOK(j) /\ \A r : Ba!Verifies(work.job, r) => Ba!Verifies(j, r)
  BY <1>1 DEF BackupJob, JobOK, Ba!Verifies
<1>3. work' = Ba!Resting
  BY DEF Ba!Throw
<1>4. CASE queue' = Append(queue, j) /\ forsaken' = forsaken
  <2> HIDE DEF j
  <2>1. /\ queue' \in Seq(BackupJob) /\ \A i \in DOMAIN queue' : JobOK(queue'[i])
        /\ \A i \in DOMAIN queue : i \in DOMAIN queue' /\ queue'[i] = queue[i]
        /\ \E i \in DOMAIN queue' : queue'[i] = j
    BY <1>2, <1>4, QueueGrows
  <2> QED BY <1>2, <1>3, <1>4, <2>1
<1>5. CASE Ba!GiveUp(work.job)
  BY <1>3, <1>5 DEF BackupsTypeOK, Ba!GiveUp
<1> QED BY <1>4, <1>5 DEF Ba!Throw

\* The status of one row, or whether it is on disk, changes.
LEMMA StatusChanges ==
  ASSUME BackupsTypeOK, NEW k, NEW s \in BackupStatuses, rows' = [rows EXCEPT ![k].status = s]
  PROVE  /\ rows' \in Seq(Backup) /\ DOMAIN rows' = DOMAIN rows
         /\ \A i \in DOMAIN rows : /\ rows'[i].repo = rows[i].repo /\ rows'[i].there = rows[i].there
                                   /\ rows'[i].status = IF i = k THEN s ELSE rows[i].status
<1>1. PICK n \in Nat : DOMAIN rows = 1..n /\ \A i \in 1..n : rows[i] \in Backup
  BY DEF BackupsTypeOK
<1>2. \A i \in 1..n : /\ [rows[i] EXCEPT !.status = s] \in Backup
                      /\ [rows[i] EXCEPT !.status = s].repo = rows[i].repo
                      /\ [rows[i] EXCEPT !.status = s].there = rows[i].there
                      /\ [rows[i] EXCEPT !.status = s].status = s
  BY <1>1 DEF Backup
<1> DEFINE x == [i \in 1..n |-> IF i = k THEN [rows[i] EXCEPT !.status = s] ELSE rows[i]]
<1>3. rows' = x
  BY <1>1
<1>4. /\ x \in [1..n -> Backup]
      /\ \A i \in 1..n : /\ x[i].repo = rows[i].repo /\ x[i].there = rows[i].there
                         /\ x[i].status = IF i = k THEN s ELSE rows[i].status
  BY <1>1, <1>2
<1>5. x \in Seq(Backup)
  <2> HIDE DEF x
  <2> QED BY <1>4
<1> HIDE DEF x
<1> QED BY <1>1, <1>3, <1>4, <1>5

\* One directory goes.
LEMMA ThereChanges ==
  ASSUME BackupsTypeOK, NEW k, rows' = [rows EXCEPT ![k].there = FALSE]
  PROVE  /\ rows' \in Seq(Backup) /\ DOMAIN rows' = DOMAIN rows
         /\ \A i \in DOMAIN rows : /\ rows'[i].repo = rows[i].repo /\ rows'[i].status = rows[i].status
                                   /\ rows'[i].there = (rows[i].there /\ i # k)
<1>1. PICK n \in Nat : DOMAIN rows = 1..n /\ \A i \in 1..n : rows[i] \in Backup
  BY DEF BackupsTypeOK
<1>2. \A i \in 1..n : /\ [rows[i] EXCEPT !.there = FALSE] \in Backup
                      /\ [rows[i] EXCEPT !.there = FALSE].repo = rows[i].repo
                      /\ [rows[i] EXCEPT !.there = FALSE].there = FALSE
                      /\ [rows[i] EXCEPT !.there = FALSE].status = rows[i].status
                      /\ rows[i].there \in BOOLEAN
  BY <1>1 DEF Backup
<1> DEFINE x == [i \in 1..n |-> IF i = k THEN [rows[i] EXCEPT !.there = FALSE] ELSE rows[i]]
<1>3. rows' = x
  BY <1>1
<1>4. /\ x \in [1..n -> Backup]
      /\ \A i \in 1..n : /\ x[i].repo = rows[i].repo /\ x[i].status = rows[i].status
                         /\ x[i].there = (rows[i].there /\ i # k)
  BY <1>1, <1>2
<1>5. x \in Seq(Backup)
  <2> HIDE DEF x
  <2> QED BY <1>4
<1> HIDE DEF x
<1> QED BY <1>1, <1>3, <1>4, <1>5

\* The hotcopy is there, and its row says so.
LEMMA CopySucceeds ==
  ASSUME BackupsTypeOK, NEW k, rows' = [rows EXCEPT ![k] = [@ EXCEPT !.status = "SUCCESS", !.there = TRUE]]
  PROVE  /\ rows' \in Seq(Backup) /\ DOMAIN rows' = DOMAIN rows
         /\ \A i \in DOMAIN rows : /\ rows'[i].repo = rows[i].repo
                                   /\ i # k => rows'[i] = rows[i]
                                   /\ i = k => rows'[i].status = "SUCCESS" /\ rows'[i].there
<1>1. PICK n \in Nat : DOMAIN rows = 1..n /\ \A i \in 1..n : rows[i] \in Backup
  BY DEF BackupsTypeOK
<1>2. \A i \in 1..n : /\ [rows[i] EXCEPT !.status = "SUCCESS", !.there = TRUE] \in Backup
                      /\ [rows[i] EXCEPT !.status = "SUCCESS", !.there = TRUE].repo = rows[i].repo
                      /\ [rows[i] EXCEPT !.status = "SUCCESS", !.there = TRUE].there
                      /\ [rows[i] EXCEPT !.status = "SUCCESS", !.there = TRUE].status = "SUCCESS"
  BY <1>1 DEF Backup, BackupStatuses
<1> DEFINE x == [i \in 1..n |-> IF i = k THEN [rows[i] EXCEPT !.status = "SUCCESS", !.there = TRUE]
                                 ELSE rows[i]]
<1>3. rows' = x
  BY <1>1
<1>4. /\ x \in [1..n -> Backup]
      /\ \A i \in 1..n : /\ x[i].repo = rows[i].repo
                         /\ i # k => x[i] = rows[i]
                         /\ i = k => x[i].status = "SUCCESS" /\ x[i].there
  BY <1>1, <1>2
<1>5. x \in Seq(Backup)
  <2> HIDE DEF x
  <2> QED BY <1>4
<1> HIDE DEF x
<1> QED BY <1>1, <1>3, <1>4, <1>5

\* The rows of a repository go with it.
LEMMA RowsGo ==
  ASSUME BackupsTypeOK, NEW r,
         rows' = [i \in DOMAIN rows |-> IF rows[i].repo = r THEN [rows[i] EXCEPT !.status = "gone"] ELSE rows[i]]
  PROVE  /\ rows' \in Seq(Backup) /\ DOMAIN rows' = DOMAIN rows
         /\ \A i \in DOMAIN rows : /\ rows'[i].repo = rows[i].repo
                                   /\ rows[i].repo # r => rows'[i] = rows[i]
<1>1. PICK n \in Nat : DOMAIN rows = 1..n /\ \A i \in 1..n : rows[i] \in Backup
  BY DEF BackupsTypeOK
<1>2. \A i \in 1..n : /\ [rows[i] EXCEPT !.status = "gone"] \in Backup
                      /\ [rows[i] EXCEPT !.status = "gone"].repo = rows[i].repo
  BY <1>1 DEF Backup, BackupStatuses
<1> DEFINE x == [i \in 1..n |-> IF rows[i].repo = r THEN [rows[i] EXCEPT !.status = "gone"] ELSE rows[i]]
<1>3. rows' = x
  BY <1>1
<1>4. /\ x \in [1..n -> Backup]
      /\ \A i \in 1..n : x[i].repo = rows[i].repo /\ (rows[i].repo # r => x[i] = rows[i])
  BY <1>1, <1>2
<1>5. x \in Seq(Backup)
  <2> HIDE DEF x
  <2> QED BY <1>4
<1> HIDE DEF x
<1> QED BY <1>1, <1>3, <1>4, <1>5

\* A new row.
LEMMA RowAdded ==
  ASSUME BackupsTypeOK, NEW r \in Repos, rows' = Append(rows, [repo |-> r, status |-> "RUNNING", there |-> FALSE])
  PROVE  /\ rows' \in Seq(Backup)
         /\ \A i \in DOMAIN rows : i \in DOMAIN rows' /\ rows'[i] = rows[i]
         /\ \E m \in DOMAIN rows' : /\ rows'[m].repo = r /\ rows'[m].status = "RUNNING"
                                    /\ \A i \in DOMAIN rows' : i <= m
                                    /\ \A i \in DOMAIN rows' : i # m => i \in DOMAIN rows
<1> DEFINE b == [repo |-> r, status |-> "RUNNING", there |-> FALSE]
<1>1. b \in Backup /\ b.repo = r /\ b.status = "RUNNING"
  BY DEF Backup, BackupStatuses
<1> HIDE DEF b
<1>2. rows' = Append(rows, b)
  BY DEF b
<1>3. /\ rows' \in Seq(Backup) /\ DOMAIN rows' = 1..(Len(rows) + 1) /\ DOMAIN rows = 1..Len(rows)
      /\ Len(rows) \in Nat /\ rows'[Len(rows) + 1] = b
      /\ \A i \in DOMAIN rows : rows'[i] = rows[i]
  BY <1>1, <1>2 DEF BackupsTypeOK
<1>4. Len(rows) + 1 \in DOMAIN rows' /\ \A i \in DOMAIN rows' : i <= Len(rows) + 1 /\ (i # Len(rows) + 1 => i \in DOMAIN rows)
  BY <1>3
<1>5. \A i \in DOMAIN rows : i \in DOMAIN rows'
  BY <1>3
<1> QED BY <1>1, <1>3, <1>4, <1>5

\* The least of a set of numbers.
LEMMA LeastOf ==
  ASSUME NEW S \in SUBSET Nat, S # {}
  PROVE  Ba!Min(S) \in S
<1>1. PICK x \in S : \A y \in S : ~(<<y, x>> \in OpToRel(<, Nat))
  BY NatLessThanWellFounded, WFMin
<1>2. \A y \in S : x =< y
  <2> SUFFICES ASSUME NEW y \in S PROVE x =< y
    OBVIOUS
  <2>1. ~(y < x)
    BY <1>1 DEF OpToRel
  <2> QED BY <2>1
<1> QED BY <1>2 DEF Ba!Min

\* An order of a finite set names all of it.
LEMMA OrderOfAll ==
  ASSUME NEW S, IsFiniteSet(S), NEW f \in Ba!SetToSeqs(S)
  PROVE  f \in Seq(S) /\ \A x \in S : \E i \in DOMAIN f : f[i] = x
<1>1. Cardinality(S) \in Nat
  BY FS_CardinalityType
<1> DEFINE n == Cardinality(S)
<1>2. f \in [1..n -> S] /\ \A i, j \in 1..n : i # j => f[i] # f[j]
  BY BackupsCardinality DEF Ba!SetToSeqs
<1>3. f \in Injection(1..n, S)
  BY <1>2 DEF Injection, IsInjective
<1>4. IsFiniteSet(1..n) /\ Cardinality(1..n) = n
  BY <1>1, FS_Interval
<1>5. f \in Surjection(1..n, S)
  BY <1>3, <1>4, FS_Injection
<1>6. f \in Seq(S)
  BY <1>1, <1>2
<1> QED BY <1>2, <1>5, <1>6 DEF Surjection

-----------------------------------------------------------------------------

\* The repository whose turn it is, and its row.
LEMMA TurnOf ==
  ASSUME BackupsTypeOK, work.todo # <<>>
  PROVE  Ba!Repo \in Repos /\ 1 \in DOMAIN work.todo /\ Ba!Repo = work.todo[1]
  BY DEF BackupsTypeOK, Work, Ba!Repo

\* Every step keeps the types, and the worker at what its job is for.
LEMMA BackupsTypeStep == BackupsTypeOK /\ WorkOK /\ CopyOK /\ [Ba!Next]_(Ba!vars) => BackupsTypeOK' /\ WorkOK'
<1> SUFFICES ASSUME BackupsTypeOK, WorkOK, CopyOK, [Ba!Next]_(Ba!vars) PROVE BackupsTypeOK' /\ WorkOK'
  OBVIOUS
<1> DEFINE Goal == BackupsTypeOK' /\ WorkOK'
<1>a. Work = [job : BackupJob \cup {Ba!NoJob}, step : {"idle", "next", "verify"} \cup Copies,
              todo : Seq(Repos), doomed : SUBSET Nat]
  BY DEF Work
\* What the steps of the worker keep.
<1>b. ASSUME work' \in Work, work'.job = work.job, work'.todo = work.todo, work.step \notin {"idle", "next"},
             \/ work.step \in Copies /\ work'.step \in Copies
             \/ work'.step = work.step
      PROVE  WorkOK'
  BY <1>b DEF WorkOK, Ba!Copying, Copies
<1>c. ASSUME work' = Ba!Resting PROVE work' \in Work /\ WorkOK'
  BY <1>c, RestingOK, EmptySeq DEF WorkOK, Copies
<1>1. ASSUME NEW name \in Single \cup {"hotcopy-all", "verify-all"}, NEW r \in Repos \cup {NoRepo},
             name \in Single => r \in Repos, Ba!Enqueue(name, r)
      PROVE  Goal
  <2> DEFINE j == [Ba!NoJob EXCEPT !.name = name, !.repo = r]
  <2>1. j \in BackupJob /\ JobOK(j)
    BY <1>1 DEF Ba!NoJob, BackupJob, JobOK, Single
  <2>2. queue' = Append(queue, j) /\ UNCHANGED <<repos, rows, keep, health, work, faults>>
    BY <1>1 DEF Ba!Enqueue
  <2> HIDE DEF j
  <2>3. queue' \in Seq(BackupJob) /\ \A i \in DOMAIN queue' : JobOK(queue'[i])
    BY <2>1, <2>2, QueueGrows
  <2> QED BY <2>2, <2>3 DEF BackupsTypeOK, WorkOK, Ba!Copying
<1>2. ASSUME NEW r \in Repos, Ba!RemoveRepository(r) PROVE Goal
  <2>1. rows' \in Seq(Backup)
    BY <1>2, RowsGo DEF Ba!RemoveRepository
  <2>2. /\ repos' \subseteq Repos /\ UNCHANGED <<keep, queue, work>> /\ faults' \in Nat
        /\ health' \in [Repos -> {"UNKNOWN", "VERIFYING", "HEALTHY", "UNHEALTHY"}]
    BY <1>2 DEF Ba!RemoveRepository, Ba!Fault, BackupsTypeOK
  <2> QED BY <2>1, <2>2 DEF BackupsTypeOK, WorkOK, Ba!Copying
<1>3. ASSUME NEW n \in 1..2, Ba!SetKeep(n) PROVE Goal
  BY <1>3 DEF Ba!SetKeep, Ba!Fault, BackupsTypeOK, WorkOK, Ba!Copying
<1>4. ASSUME Ba!TakeJob PROVE Goal
  <2> DEFINE front == Head(queue)
  <2>1. /\ front \in BackupJob /\ JobOK(front) /\ queue' \in Seq(BackupJob) /\ \A i \in DOMAIN queue' : JobOK(queue'[i])
        /\ UNCHANGED <<repos, rows, keep, health, faults>>
    BY <1>4, HeadOfQueue DEF Ba!TakeJob
  <2>2. PICK todo \in (IF front.name \in {"hotcopy-all", "verify-all"} THEN Ba!SetToSeqs(repos) ELSE {<<front.repo>>}) :
          work' = [job |-> front, step |-> "next", todo |-> todo, doomed |-> {}]
    BY <1>4 DEF Ba!TakeJob
  <2>3. todo \in Seq(Repos) /\ (front.name \in Single => \A i \in DOMAIN todo : todo[i] = front.repo)
    <3>1. CASE front.name \in {"hotcopy-all", "verify-all"}
      <4>1. IsFiniteSet(repos)
        BY BackupsAssumption, FS_Subset DEF BackupsTypeOK
      <4>2. todo \in Seq(repos)
        BY <2>2, <3>1, <4>1, OrderOfAll
      <4> QED BY <3>1, <4>2 DEF BackupsTypeOK, Single
    <3>2. CASE front.name \notin {"hotcopy-all", "verify-all"}
      <4>1. front.repo \in Repos /\ todo = <<front.repo>>
        BY <2>1, <2>2, <3>2 DEF BackupJob, JobOK
      <4> QED BY <4>1
    <3> QED BY <3>1, <3>2
  <2> HIDE DEF front
  <2>4. work' \in Work /\ work'.step = "next" /\ work'.job = front /\ work'.todo = todo
    BY <2>1, <2>2, <2>3 DEF Work
  <2>5. WorkOK'
    BY <2>1, <2>3, <2>4 DEF WorkOK, Copies
  <2> QED BY <2>1, <2>4, <2>5 DEF BackupsTypeOK
<1>5. ASSUME Ba!EndJob PROVE Goal
  BY <1>5, <1>c DEF Ba!EndJob, BackupsTypeOK
<1>6. ASSUME Ba!Crash PROVE Goal
  <2>1. work.job \in BackupJob /\ JobOK(work.job) /\ faults' \in Nat /\ work' = Ba!Resting
        /\ UNCHANGED <<repos, rows, keep, health>>
    BY <1>6 DEF Ba!Crash, WorkOK, Ba!At, Ba!Fault, BackupsTypeOK
  <2> DEFINE j == [work.job EXCEPT !.stalled = TRUE]
  <2>2. j \in BackupJob /\ JobOK(j) /\ (queue' = queue \/ queue' = <<j>> \o queue)
    BY <1>6, <2>1 DEF Ba!Crash, Ba!GiveUp, BackupJob, JobOK
  <2> HIDE DEF j
  <2>3. queue' \in Seq(BackupJob) /\ \A i \in DOMAIN queue' : JobOK(queue'[i])
    BY <2>2, QueueAhead DEF BackupsTypeOK
  <2> QED BY <1>c, <2>1, <2>3 DEF BackupsTypeOK
<1>7. ASSUME Ba!NotStarted \/ Ba!VerifyFails PROVE Goal
  <2>1. /\ work.step # "idle" /\ Ba!Throw(work.job) /\ UNCHANGED <<repos, rows, keep>> /\ faults' \in Nat
        /\ health' \in [Repos -> {"UNKNOWN", "VERIFYING", "HEALTHY", "UNHEALTHY"}]
    BY <1>7 DEF Ba!NotStarted, Ba!VerifyFails, Ba!At, Ba!Fault, BackupsTypeOK
  <2> QED BY <1>c, <2>1, ThrowMoves DEF BackupsTypeOK
<1>8. ASSUME Ba!StartHotcopy PROVE Goal
  <2>1. work.step = "next" /\ work.todo # <<>> /\ Ba!Copying /\ Ba!GoTo("copy") /\ UNCHANGED <<repos, keep, health, queue, faults>>
    BY <1>8 DEF Ba!StartHotcopy, Ba!At
  <2>2. work' \in Work /\ work'.step = "copy" /\ work'.job = work.job /\ work'.todo = work.todo
    BY <2>1, WorkGoes DEF Copies
  <2>3. rows' \in Seq(Backup)
    BY <1>8, <2>1, RowAdded, TurnOf DEF Ba!StartHotcopy
  <2>4. WorkOK'
    BY <2>1, <2>2 DEF WorkOK, Ba!Copying, Copies
  <2> QED BY <2>1, <2>2, <2>3, <2>4 DEF BackupsTypeOK
<1>9. ASSUME Ba!Hotcopied PROVE Goal
  <2>1. work.step = "copy" /\ Ba!GoTo("retain") /\ UNCHANGED <<repos, keep, health, queue, faults>>
    BY <1>9 DEF Ba!Hotcopied, Ba!At
  <2>2. work' \in Work /\ work'.step = "retain" /\ work'.job = work.job /\ work'.todo = work.todo
    BY <2>1, WorkGoes DEF Copies
  <2>3. rows' \in Seq(Backup)
    BY <1>9, CopySucceeds DEF Ba!Hotcopied
  <2>4. WorkOK'
    BY <1>b, <2>1, <2>2 DEF Copies
  <2> QED BY <2>1, <2>2, <2>3, <2>4 DEF BackupsTypeOK
<1>10. ASSUME Ba!HotcopyFails PROVE Goal
  <2>1. /\ work.step \in Copies /\ Ba!Throw(work.job) /\ UNCHANGED <<repos, keep, health>> /\ faults' \in Nat
    BY <1>10 DEF Ba!HotcopyFails, Copies, Ba!Fault, BackupsTypeOK
  <2>2. rows' \in Seq(Backup)
    <3>1. CASE UNCHANGED rows
      BY <3>1 DEF BackupsTypeOK
    <3>2. CASE rows' = [rows EXCEPT ![Ba!Newest(Ba!Repo)].status = "FAILED"]
      BY <3>2, StatusChanges DEF BackupStatuses
    <3> QED BY <1>10, <3>1, <3>2 DEF Ba!HotcopyFails
  <2> QED BY <1>c, <2>1, <2>2, ThrowMoves DEF BackupsTypeOK, Copies
<1>11. ASSUME Ba!StartRetention PROVE Goal
  <2>1. /\ work.step = "retain" /\ UNCHANGED <<repos, rows, keep, health, queue, faults>>
        /\ work' = [work EXCEPT !.step = "remove", !.doomed = Ba!SelectBackups(Ba!Successes(Ba!Repo), keep)]
    BY <1>11 DEF Ba!StartRetention, Ba!At
  <2>2. Ba!SelectBackups(Ba!Successes(Ba!Repo), keep) \subseteq Nat
    BY DEF Ba!SelectBackups, Ba!Successes, BackupsTypeOK
  <2>3. work' \in Work /\ work'.step = "remove" /\ work'.job = work.job /\ work'.todo = work.todo
    BY <2>1, <2>2 DEF BackupsTypeOK, Work, Copies
  <2>4. WorkOK'
    BY <1>b, <2>1, <2>3 DEF Copies
  <2> QED BY <2>1, <2>3, <2>4 DEF BackupsTypeOK
<1>12. ASSUME Ba!RemoveBackup PROVE Goal
  <2>1. work.step = "remove" /\ Ba!GoTo("forget") /\ UNCHANGED <<repos, keep, health, queue, faults>>
    BY <1>12 DEF Ba!RemoveBackup, Ba!At
  <2>2. work' \in Work /\ work'.step = "forget" /\ work'.job = work.job /\ work'.todo = work.todo
    BY <2>1, WorkGoes DEF Copies
  <2>3. rows' \in Seq(Backup)
    BY <1>12, ThereChanges DEF Ba!RemoveBackup
  <2>4. WorkOK'
    BY <1>b, <2>1, <2>2 DEF Copies
  <2> QED BY <2>1, <2>2, <2>3, <2>4 DEF BackupsTypeOK
<1>13. ASSUME Ba!ForgetBackup PROVE Goal
  <2>1. /\ work.step = "forget" /\ UNCHANGED <<repos, keep, health, queue, faults>>
        /\ work' = [work EXCEPT !.step = "remove", !.doomed = @ \ {Ba!Min(@)}]
    BY <1>13 DEF Ba!ForgetBackup, Ba!At
  <2>2. work' \in Work /\ work'.step = "remove" /\ work'.job = work.job /\ work'.todo = work.todo
    BY <2>1 DEF BackupsTypeOK, Work, Copies
  <2>3. rows' \in Seq(Backup)
    BY <1>13, StatusChanges DEF Ba!ForgetBackup, BackupStatuses
  <2>4. WorkOK'
    BY <1>b, <2>1, <2>2 DEF Copies
  <2> QED BY <2>1, <2>2, <2>3, <2>4 DEF BackupsTypeOK
<1>14. ASSUME Ba!EndHotcopy \/ Ba!Verified PROVE Goal
  <2>1. /\ work.step \in {"remove", "verify"} /\ UNCHANGED <<repos, rows, keep, queue, faults>>
        /\ work' = [work EXCEPT !.step = "next", !.todo = Tail(@)]
        /\ health' \in [Repos -> {"UNKNOWN", "VERIFYING", "HEALTHY", "UNHEALTHY"}]
    BY <1>14 DEF Ba!EndHotcopy, Ba!Verified, Ba!At, BackupsTypeOK
  <2>2. work.todo # <<>>
    BY <2>1 DEF WorkOK
  <2>3. /\ work' \in Work /\ work'.step = "next" /\ work'.job = work.job
        /\ \A i \in DOMAIN work'.todo : \E k \in DOMAIN work.todo : work'.todo[i] = work.todo[k]
    BY <2>1, <2>2, TailMoves
  <2>4. WorkOK'
    BY <2>1, <2>3 DEF WorkOK, Copies
  <2> QED BY <2>1, <2>3, <2>4 DEF BackupsTypeOK
<1>15. ASSUME Ba!StartVerify PROVE Goal
  <2>1. /\ work.step = "next" /\ work.todo # <<>> /\ ~Ba!Copying /\ Ba!GoTo("verify") /\ UNCHANGED <<repos, rows, keep, queue, faults>>
        /\ health' \in [Repos -> {"UNKNOWN", "VERIFYING", "HEALTHY", "UNHEALTHY"}]
    BY <1>15 DEF Ba!StartVerify, Ba!At, BackupsTypeOK
  <2>2. work' \in Work /\ work'.step = "verify" /\ work'.job = work.job /\ work'.todo = work.todo
    BY <2>1, WorkGoes
  <2>3. WorkOK'
    BY <2>1, <2>2 DEF WorkOK, Ba!Copying, Copies
  <2> QED BY <2>1, <2>2, <2>3 DEF BackupsTypeOK
<1>16. CASE UNCHANGED Ba!vars
  BY <1>16 DEF Ba!vars, BackupsTypeOK, WorkOK, Ba!Copying
<1>17. ASSUME Ba!Next PROVE Goal
  <2> HIDE DEF Goal
  <2>1. ASSUME NEW r \in Repos, NEW name \in {"hotcopy-repo", "verify-repo"}, Ba!Enqueue(name, r) PROVE Goal
    BY <1>1, <2>1 DEF Single
  <2>2. ASSUME NEW name \in {"hotcopy-all", "verify-all"}, Ba!Enqueue(name, NoRepo) PROVE Goal
    BY <1>1, <2>2 DEF Single
  <2> QED BY <1>2, <1>3, <1>4, <1>5, <1>6, <1>7, <1>8, <1>9, <1>10, <1>11, <1>12, <1>13, <1>14, <1>15,
             <1>17, <2>1, <2>2 DEF Ba!Next
<1> QED BY <1>16, <1>17

-----------------------------------------------------------------------------

\* The rows of r are as they were, and none of its successes is new.
SameRows(r) ==
  /\ \A i \in DOMAIN rows : rows[i].repo = r /\ rows[i].status = "SUCCESS" =>
       /\ i \in DOMAIN rows' /\ rows'[i].repo = r /\ rows'[i].status = "SUCCESS"
       /\ rows'[i].there = rows[i].there
  /\ \A i \in DOMAIN rows' : rows'[i].repo = r /\ rows'[i].status = "SUCCESS" =>
       i \in DOMAIN rows /\ rows[i].repo = r /\ rows[i].status = "SUCCESS"

\* A step that leaves the successes of a repository alone keeps its backup.
LEMMA KeptStays ==
  ASSUME NEW r, Kept(r), SameRows(r)
  PROVE  Kept(r)'
<1>1. PICK m \in Ba!Successes(r) : rows[m].there /\ \A i \in Ba!Successes(r) : i <= m
  BY DEF Kept
<1>2. Ba!Successes(r)' = Ba!Successes(r)
  BY DEF SameRows, Ba!Successes
<1>3. rows'[m].there
  BY <1>1 DEF SameRows, Ba!Successes
<1> QED BY <1>1, <1>2, <1>3 DEF Kept

\* The greatest of a set of numbers.
LEMMA GreatestIs ==
  ASSUME NEW S \in SUBSET Nat, NEW m \in S, \A i \in S : i <= m
  PROVE  Ba!Max(S) = m
<1>1. m \in S /\ \A y \in S : m >= y
  OBVIOUS
<1>2. \A x \in S : (\A y \in S : x >= y) => x = m
  OBVIOUS
<1> QED BY <1>1, <1>2 DEF Ba!Max

\* The newest row of the repository whose turn it is.
LEMMA NewestIs ==
  ASSUME BackupsTypeOK, NEW m \in DOMAIN rows, rows[m].repo = Ba!Repo,
         \A i \in DOMAIN rows : rows[i].repo = Ba!Repo => i <= m
  PROVE  Ba!Newest(Ba!Repo) = m
<1> DEFINE S == {i \in DOMAIN rows : rows[i].repo = Ba!Repo}
<1>1. m \in S /\ S \subseteq Nat /\ \A i \in S : i <= m
  BY DEF BackupsTypeOK
<1> HIDE DEF S
<1>2. Ba!Max(S) = m
  BY <1>1 DEF Ba!Max
<1> QED BY <1>2 DEF S, Ba!Newest

\* The retention never selects the newest success.
LEMMA NewestSpared ==
  ASSUME BackupsTypeOK, NEW r, NEW m \in Ba!Successes(r), \A i \in Ba!Successes(r) : i <= m
  PROVE  m \notin Ba!SelectBackups(Ba!Successes(r), keep)
<1> DEFINE S == Ba!Successes(r)
<1>1. S \subseteq Nat /\ keep > 0
  BY DEF BackupsTypeOK, Ba!Successes
<1>2. {j \in S : j > m} = {}
  BY <1>1
<1>3. Cardinality({j \in S : j > m}) = 0
  BY <1>2, FS_EmptySet
<1> QED BY <1>1, <1>3, BackupsCardinality DEF Ba!SelectBackups

\* Every step keeps the newest success.
LEMMA RowsStep == BackupsTypeOK /\ WorkOK /\ CopyOK /\ KeptInv /\ [Ba!Next]_(Ba!vars) => CopyOK' /\ KeptInv'
<1> SUFFICES ASSUME BackupsTypeOK, WorkOK, CopyOK, KeptInv, [Ba!Next]_(Ba!vars) PROVE CopyOK' /\ KeptInv'
  OBVIOUS
<1> DEFINE Goal == CopyOK' /\ KeptInv'
<1>a. ASSUME UNCHANGED <<rows, repos, had, spoiled>> PROVE KeptInv'
  BY <1>a DEF KeptInv, Kept, Ba!Successes
<1>b. ASSUME work'.step \notin Copies PROVE CopyOK'
  BY <1>b DEF CopyOK
<1>c. Ba!Resting.step \notin Copies
  BY RestingOK DEF Copies
<1>1. ASSUME UNCHANGED <<rows, repos, had, spoiled, work>> PROVE Goal
  BY <1>1, <1>a DEF CopyOK, Ba!Repo, Ba!At
<1>2. ASSUME NEW r \in Repos, Ba!RemoveRepository(r) PROVE Goal
  <2>1. /\ DOMAIN rows' = DOMAIN rows
        /\ \A i \in DOMAIN rows : /\ rows'[i].repo = rows[i].repo
                                  /\ rows[i].repo # r => rows'[i] = rows[i]
    BY <1>2, RowsGo DEF Ba!RemoveRepository
  <2>2. repos' = repos \ {r} /\ UNCHANGED <<work, had, spoiled>>
    BY <1>2 DEF Ba!RemoveRepository, Ba!history
  <2>3. CopyOK'
    BY <2>1, <2>2 DEF CopyOK, Ba!Repo, Ba!At
  <2>4. \A s : s # r => SameRows(s)
    BY <2>1 DEF SameRows
  <2>5. KeptInv'
    BY <2>2, <2>4, KeptStays DEF KeptInv
  <2> QED BY <2>3, <2>5
<1>3. ASSUME Ba!TakeJob \/ Ba!EndJob \/ Ba!Crash \/ Ba!NotStarted \/ Ba!VerifyFails \/ Ba!StartVerify \/ Ba!Verified \/ Ba!EndHotcopy
      PROVE  Goal
  <2>1. UNCHANGED <<rows, repos, had, spoiled>>
    BY <1>3 DEF Ba!TakeJob, Ba!EndJob, Ba!Crash, Ba!NotStarted, Ba!VerifyFails, Ba!StartVerify, Ba!Verified, Ba!EndHotcopy, Ba!history
  <2>2. work'.step \notin Copies
    <3>1. CASE Ba!EndJob \/ Ba!Crash \/ Ba!NotStarted \/ Ba!VerifyFails
      BY <1>c, <3>1 DEF Ba!EndJob, Ba!Crash, Ba!NotStarted, Ba!VerifyFails, Ba!Throw
    <3>2. CASE Ba!TakeJob
      BY <3>2 DEF Ba!TakeJob, Copies
    <3>3. CASE Ba!StartVerify
      BY <3>3, WorkGoes DEF Ba!StartVerify, Copies
    <3>4. CASE Ba!Verified \/ Ba!EndHotcopy
      <4>1. work.step \in {"verify", "remove"} /\ work' = [work EXCEPT !.step = "next", !.todo = Tail(@)]
        BY <3>4 DEF Ba!Verified, Ba!EndHotcopy, Ba!At
      <4> QED BY <4>1, TailMoves DEF WorkOK, Copies
    <3> QED BY <1>3, <3>1, <3>2, <3>3, <3>4
  <2> QED BY <1>a, <1>b, <2>1, <2>2
<1>4. ASSUME Ba!StartHotcopy PROVE Goal
  <2>1. work.todo # <<>> /\ Ba!GoTo("copy") /\ UNCHANGED <<repos, had, spoiled>> /\ Ba!Repo \in Repos
    BY <1>4, TurnOf DEF Ba!StartHotcopy, Ba!history
  <2>2. work'.step = "copy" /\ work'.todo = work.todo /\ Ba!Repo' = Ba!Repo
    BY <2>1, WorkGoes DEF Copies, Ba!Repo
  <2>3. rows' = Append(rows, [repo |-> Ba!Repo, status |-> "RUNNING", there |-> FALSE])
    BY <1>4 DEF Ba!StartHotcopy
  <2>4. PICK m \in DOMAIN rows' : /\ rows'[m].repo = Ba!Repo /\ rows'[m].status = "RUNNING"
                                  /\ \A i \in DOMAIN rows' : i <= m
                                  /\ \A i \in DOMAIN rows' : i # m => i \in DOMAIN rows
    BY <2>1, <2>3, RowAdded
  <2>5. \A i \in DOMAIN rows : i \in DOMAIN rows' /\ rows'[i] = rows[i]
    BY <2>1, <2>3, RowAdded
  <2>6. CopyOK'
    BY <2>2, <2>4 DEF CopyOK, Ba!At
  <2>7. \A s : SameRows(s)
    BY <2>4, <2>5 DEF SameRows
  <2> QED BY <2>1, <2>6, <2>7, KeptStays DEF KeptInv
<1>5. ASSUME Ba!Hotcopied PROVE Goal
  <2>1. work.step = "copy" /\ Ba!Repo \in repos /\ Ba!GoTo("retain") /\ UNCHANGED <<repos, spoiled>> /\ had' = had \cup {Ba!Repo}
    BY <1>5 DEF Ba!Hotcopied, Ba!At
  <2>2. work'.step = "retain" /\ Ba!Repo' = Ba!Repo
    BY <2>1, WorkGoes DEF Copies, Ba!Repo
  <2>3. PICK m \in DOMAIN rows : rows[m].repo = Ba!Repo /\ \A i \in DOMAIN rows : rows[i].repo = Ba!Repo => i <= m
    BY <2>1 DEF CopyOK, Copies
  <2>4. /\ DOMAIN rows' = DOMAIN rows
        /\ \A i \in DOMAIN rows : /\ rows'[i].repo = rows[i].repo
                                  /\ i # m => rows'[i] = rows[i]
                                  /\ i = m => rows'[i].status = "SUCCESS" /\ rows'[i].there
    BY <1>5, <2>3, NewestIs, CopySucceeds DEF Ba!Hotcopied
  <2>5. CopyOK'
    BY <2>2, <2>3, <2>4 DEF CopyOK, Ba!At
  <2>6. Kept(Ba!Repo)'
    BY <2>3, <2>4, <2>2 DEF Kept, Ba!Successes
  <2>7. \A s : s # Ba!Repo => SameRows(s)
    BY <2>3, <2>4 DEF SameRows
  <2>8. ASSUME NEW s \in (had' \cap repos') \ spoiled' PROVE Kept(s)'
    <3>1. CASE s = Ba!Repo
      BY <2>2, <2>3, <2>4, <3>1 DEF Kept, Ba!Successes
    <3>2. CASE s # Ba!Repo
      BY <2>1, <2>7, <2>8, <3>2, KeptStays DEF KeptInv
    <3> QED BY <3>1, <3>2
  <2> QED BY <2>5, <2>8 DEF KeptInv
<1>6. ASSUME Ba!HotcopyFails PROVE Goal
  <2>1. work.step \in Copies /\ repos' = repos /\ had' = had /\ work' = Ba!Resting
    BY <1>6 DEF Ba!HotcopyFails, Copies, Ba!Throw
  <2>2. spoiled' = IF Ba!At("copy") THEN spoiled ELSE spoiled \cup {Ba!Repo}
    BY <1>6 DEF Ba!HotcopyFails
  <2>3. PICK m \in DOMAIN rows : /\ rows[m].repo = Ba!Repo /\ \A i \in DOMAIN rows : rows[i].repo = Ba!Repo => i <= m
                                 /\ Ba!At("copy") /\ Ba!Repo \in repos => rows[m].status = "RUNNING"
    BY <2>1 DEF CopyOK
  <2>4. /\ DOMAIN rows' = DOMAIN rows
        /\ \A i \in DOMAIN rows : /\ rows'[i].repo = rows[i].repo /\ rows'[i].there = rows[i].there
                                  /\ i # m \/ Ba!Repo \notin repos => rows'[i].status = rows[i].status
                                  /\ rows'[i].status \in {"FAILED", rows[i].status}
    <3>1. CASE Ba!Repo \in repos /\ rows' = [rows EXCEPT ![Ba!Newest(Ba!Repo)].status = "FAILED"]
      <4>1. rows' = [rows EXCEPT ![m].status = "FAILED"]
        BY <2>3, <3>1, NewestIs
      <4> QED BY <3>1, <4>1, StatusChanges DEF BackupStatuses
    <3>2. CASE UNCHANGED rows
      BY <3>2
    <3> QED BY <1>6, <3>1, <3>2 DEF Ba!HotcopyFails
  <2>5. ASSUME NEW s \in (had' \cap repos') \ spoiled' PROVE Kept(s)'
    <3>1. Kept(s) /\ (s = Ba!Repo => Ba!At("copy") /\ Ba!Repo \in repos)
      BY <2>1, <2>2, <2>5 DEF KeptInv
    <3>2. s = Ba!Repo => rows[m].status # "SUCCESS"
      BY <2>3, <3>1
    <3>3. SameRows(s)
      BY <2>3, <2>4, <3>1, <3>2 DEF SameRows
    <3> QED BY <3>1, <3>3, KeptStays
  <2> QED BY <1>b, <1>c, <2>1, <2>5 DEF KeptInv
<1>7. ASSUME Ba!StartRetention PROVE Goal
  <2>1. /\ work.step = "retain" /\ Ba!Repo \in repos /\ UNCHANGED <<repos, rows, had, spoiled>>
        /\ work' = [work EXCEPT !.step = "remove", !.doomed = Ba!SelectBackups(Ba!Successes(Ba!Repo), keep)]
    BY <1>7 DEF Ba!StartRetention, Ba!At, Ba!history
  <2>2. work'.step = "remove" /\ Ba!Repo' = Ba!Repo /\ work'.doomed = Ba!SelectBackups(Ba!Successes(Ba!Repo), keep)
    BY <2>1 DEF BackupsTypeOK, Work, Ba!Repo
  <2>3. PICK m \in DOMAIN rows : /\ rows[m].repo = Ba!Repo /\ \A i \in DOMAIN rows : rows[i].repo = Ba!Repo => i <= m
                                 /\ rows[m].status = "SUCCESS" /\ rows[m].there
    BY <2>1 DEF CopyOK, Copies, Ba!At
  <2>4. m \notin work'.doomed
    BY <2>2, <2>3, NewestSpared DEF Ba!Successes
  <2>5. \A i \in work'.doomed : i \in DOMAIN rows /\ rows[i].repo = Ba!Repo
    BY <2>2 DEF Ba!SelectBackups, Ba!Successes
  <2>6. CopyOK'
    BY <2>1, <2>2, <2>3, <2>4, <2>5 DEF CopyOK, Ba!At
  <2> QED BY <1>a, <2>1, <2>6
<1>8. ASSUME Ba!RemoveBackup \/ Ba!ForgetBackup PROVE Goal
  <2> DEFINE k == Ba!Min(work.doomed)
  <2>1. /\ work.step \in {"remove", "forget"} /\ work.doomed # {} /\ UNCHANGED <<repos, had, spoiled>>
        /\ work.doomed \in SUBSET Nat
    BY <1>8 DEF Ba!RemoveBackup, Ba!ForgetBackup, Ba!At, Ba!history, CopyOK, Copies, BackupsTypeOK, Work
  <2>2. k \in work.doomed
    BY <2>1, LeastOf
  <2> HIDE DEF k
  <2>3. PICK m \in DOMAIN rows : /\ rows[m].repo = Ba!Repo /\ \A i \in DOMAIN rows : rows[i].repo = Ba!Repo => i <= m
                                 /\ Ba!Repo \in repos => rows[m].status = "SUCCESS" /\ rows[m].there /\ m \notin work.doomed
    BY <2>1 DEF CopyOK, Copies, Ba!At
  <2>4. k \in DOMAIN rows /\ rows[k].repo = Ba!Repo /\ \A i \in work.doomed : i \in DOMAIN rows /\ rows[i].repo = Ba!Repo
    BY <2>1, <2>2 DEF CopyOK, Copies
  <2>5. /\ DOMAIN rows' = DOMAIN rows
        /\ \A i \in DOMAIN rows : /\ rows'[i].repo = rows[i].repo
                                  /\ i # k => rows'[i].status = rows[i].status /\ rows'[i].there = rows[i].there
                                  /\ rows'[i].status = "SUCCESS" => rows[i].status = "SUCCESS"
    <3>1. CASE Ba!RemoveBackup
      <4>1. rows' = [rows EXCEPT ![k].there = FALSE]
        BY <3>1 DEF Ba!RemoveBackup, k
      <4> QED BY <4>1, ThereChanges
    <3>2. CASE Ba!ForgetBackup
      <4>1. rows' = [rows EXCEPT ![k].status = "gone"]
        BY <3>2 DEF Ba!ForgetBackup, k
      <4> QED BY <4>1, StatusChanges DEF BackupStatuses
    <3> QED BY <1>8, <3>1, <3>2
  <2>6. /\ work'.step \in {"remove", "forget"} /\ Ba!Repo' = Ba!Repo /\ work'.doomed \subseteq work.doomed
        /\ work'.step = "forget" => work'.doomed = work.doomed
    <3>1. CASE Ba!RemoveBackup
      BY <3>1, WorkGoes DEF Ba!RemoveBackup, Copies, Ba!Repo
    <3>2. CASE Ba!ForgetBackup
      BY <3>2 DEF Ba!ForgetBackup, BackupsTypeOK, Work, Ba!Repo
    <3> QED BY <1>8, <3>1, <3>2
  <2>7. CopyOK'
    BY <2>1, <2>2, <2>3, <2>4, <2>5, <2>6 DEF CopyOK, Ba!At
  <2>8. ASSUME NEW s \in (had' \cap repos') \ spoiled' PROVE Kept(s)'
    <3>1. CASE s = Ba!Repo
      <4>1. m \in Ba!Successes(s)' /\ rows'[m].there
        BY <2>1, <2>2, <2>3, <2>5, <2>8, <3>1 DEF Ba!Successes
      <4>2. \A i \in Ba!Successes(s)' : i <= m
        BY <2>3, <2>5, <3>1 DEF Ba!Successes
      <4> QED BY <4>1, <4>2 DEF Kept
    <3>2. CASE s # Ba!Repo
      <4>1. Kept(s)
        BY <2>1, <2>8 DEF KeptInv
      <4>2. SameRows(s)
        BY <2>4, <2>5, <3>2 DEF SameRows
      <4> QED BY <4>1, <4>2, KeptStays
    <3> QED BY <3>1, <3>2
  <2> QED BY <2>7, <2>8 DEF KeptInv
<1>9. CASE UNCHANGED Ba!vars
  BY <1>1, <1>9 DEF Ba!vars, Ba!history
<1>10. ASSUME Ba!Next PROVE Goal
  <2>1. ASSUME NEW name, NEW r, Ba!Enqueue(name, r) PROVE Goal
    BY <1>1, <2>1 DEF Ba!Enqueue, Ba!history
  <2>2. ASSUME NEW n, Ba!SetKeep(n) PROVE Goal
    BY <1>1, <2>2 DEF Ba!SetKeep, Ba!history
  <2> HIDE DEF Goal
  <2> QED BY <1>2, <1>3, <1>4, <1>5, <1>6, <1>7, <1>8, <1>10, <2>1, <2>2 DEF Ba!Next
<1> QED BY <1>9, <1>10

-----------------------------------------------------------------------------

\* The job whose step verifies a repository covers it.
LEMMA TurnCovers ==
  ASSUME BackupsTypeOK, WorkOK, NEW r, Turn(r)
  PROVE  work.job \in BackupJob /\ JobOK(work.job) /\ Ba!Verifies(work.job, r)
<1>1. work.job \in BackupJob /\ JobOK(work.job) /\ ~Ba!Copying /\ work.todo # <<>>
  BY DEF WorkOK, Turn, Ba!At
<1>2. work.job.name \in {"verify-all", "verify-repo"}
  BY <1>1 DEF BackupJob, Single, Ba!Copying
<1>3. work.job.name = "verify-repo" => work.job.repo = r
  BY <1>1, TurnOf DEF WorkOK, Single, Turn
<1> QED BY <1>1, <1>2, <1>3 DEF Ba!Verifies

\* Every step keeps what is shown as VERIFYING covered.
LEMMA VerifyStep == BackupsTypeOK /\ WorkOK /\ VerifyInv /\ [Ba!Next]_(Ba!vars) => VerifyInv'
<1> SUFFICES ASSUME BackupsTypeOK, WorkOK, VerifyInv, [Ba!Next]_(Ba!vars) PROVE VerifyInv'
  OBVIOUS
<1> DEFINE Goal == VerifyInv'
\* Steps that cover again what they leave.
<1>a. ASSUME repos' \subseteq repos, forsaken \subseteq forsaken',
             \A r \in repos' : health'[r] = "VERIFYING" /\ ~Turn(r)' => health[r] = "VERIFYING",
             \A r \in repos' \ forsaken' : Turn(r) /\ ~Turn(r)' => health'[r] # "VERIFYING" \/ Waits(r)' \/ Ahead(r)',
             \A r \in repos' \ forsaken' : ~Turn(r)' /\ (Waits(r) \/ Ahead(r)) => Waits(r)' \/ Ahead(r)'
      PROVE  Goal
  <2>1. ASSUME NEW r \in repos' \ forsaken', health'[r] = "VERIFYING", ~Turn(r)' PROVE Waits(r)' \/ Ahead(r)'
    <3>1. r \in repos \ forsaken /\ health[r] = "VERIFYING"
      BY <1>a, <2>1
    <3>2. Turn(r) \/ Waits(r) \/ Ahead(r)
      BY <3>1 DEF VerifyInv
    <3> QED BY <1>a, <2>1, <3>1, <3>2
  <2> QED BY <2>1 DEF VerifyInv
\* What the job at work covers.
<1>b. ASSUME NEW r, Turn(r) \/ Ahead(r) PROVE Ba!Verifies(work.job, r)
  BY <1>b, TurnCovers DEF Ahead
\* Steps that take the worker from its job.
<1>c. ASSUME work.step # "idle", Ba!Throw(work.job), UNCHANGED repos,
             \A r \in Repos : health'[r] = "VERIFYING" => health[r] = "VERIFYING" \/ Turn(r)
      PROVE  Goal
  <2>1. /\ forsaken \subseteq forsaken'
        /\ \A i \in DOMAIN queue : i \in DOMAIN queue' /\ queue'[i] = queue[i]
        /\ \A r \in Repos \ forsaken' : Ba!Verifies(work.job, r) =>
             \E i \in DOMAIN queue' : Ba!Verifies(queue'[i], r)
    BY <1>c, ThrowMoves
  <2>2. ASSUME NEW r \in repos' \ forsaken', health'[r] = "VERIFYING" PROVE Waits(r)'
    <3>1. r \in repos \ forsaken /\ r \in Repos /\ (health[r] = "VERIFYING" \/ Turn(r))
      BY <1>c, <2>1, <2>2 DEF BackupsTypeOK
    <3>2. Waits(r) \/ Ba!Verifies(work.job, r)
      BY <1>b, <3>1 DEF VerifyInv
    <3>3. CASE Waits(r)
      BY <2>1, <3>3 DEF Waits
    <3>4. CASE Ba!Verifies(work.job, r)
      BY <2>1, <2>2, <3>1, <3>4 DEF Waits
    <3> QED BY <3>2, <3>3, <3>4
  <2> QED BY <2>2 DEF VerifyInv
\* Steps that leave what waits and what is ahead as it is.
<1>d. ASSUME UNCHANGED <<repos, health, forsaken>>, \A r \in repos : ~Turn(r),
             \A r \in repos : Waits(r) \/ Ahead(r) => Waits(r)' \/ Ahead(r)'
      PROVE  Goal
  BY <1>a, <1>d
<1> HIDE DEF Goal
<1>1. ASSUME NEW name \in Single \cup {"hotcopy-all", "verify-all"}, NEW r \in Repos \cup {NoRepo},
             name \in Single => r \in Repos, Ba!Enqueue(name, r)
      PROVE  Goal
  <2> DEFINE j == [Ba!NoJob EXCEPT !.name = name, !.repo = r]
  <2>1. j \in BackupJob /\ JobOK(j)
    BY <1>1 DEF Ba!NoJob, BackupJob, JobOK, Single
  <2>2. queue' = Append(queue, j) /\ UNCHANGED <<repos, health, work, forsaken>>
    BY <1>1 DEF Ba!Enqueue, Ba!history
  <2> HIDE DEF j
  <2>3. \A i \in DOMAIN queue : i \in DOMAIN queue' /\ queue'[i] = queue[i]
    BY <2>1, <2>2, QueueGrows
  <2>5. \A s : (Turn(s)' <=> Turn(s)) /\ (Ahead(s)' <=> Ahead(s)) /\ (Waits(s) => Waits(s)')
    BY <2>2, <2>3 DEF Turn, Ahead, Waits, Ba!At, Ba!Repo
  <2> QED BY <1>a, <2>2, <2>5
<1>2. ASSUME NEW r \in Repos, Ba!RemoveRepository(r) PROVE Goal
  <2>1. repos' = repos \ {r} /\ UNCHANGED <<work, queue, forsaken>>
    BY <1>2 DEF Ba!RemoveRepository, Ba!history
  <2>2. \A s \in repos' : health'[s] = health[s]
    BY <1>2, <2>1 DEF Ba!RemoveRepository, BackupsTypeOK
  <2>3. \A s : (Turn(s)' <=> Turn(s)) /\ (Ahead(s)' <=> Ahead(s)) /\ (Waits(s) <=> Waits(s)')
    BY <2>1 DEF Turn, Ahead, Waits, Ba!At, Ba!Repo
  <2> QED BY <1>a, <2>1, <2>2, <2>3
<1>3. ASSUME NEW n, Ba!SetKeep(n) PROVE Goal
  <2>1. UNCHANGED <<repos, health, work, queue, forsaken>>
    BY <1>3 DEF Ba!SetKeep, Ba!history
  <2>2. \A s : (Turn(s)' <=> Turn(s)) /\ (Ahead(s)' <=> Ahead(s)) /\ (Waits(s) <=> Waits(s)')
    BY <2>1 DEF Turn, Ahead, Waits, Ba!At, Ba!Repo
  <2> QED BY <1>a, <2>1, <2>2
<1>4. ASSUME Ba!TakeJob PROVE Goal
  <2> DEFINE front == Head(queue)
  <2>1. /\ front \in BackupJob /\ JobOK(front) /\ 1 \in DOMAIN queue /\ front = queue[1]
        /\ \A k \in DOMAIN queue : queue[k] = front \/ \E i \in DOMAIN queue' : queue'[i] = queue[k]
        /\ UNCHANGED <<repos, health, forsaken>> /\ work.step = "idle"
    BY <1>4, HeadOfQueue DEF Ba!TakeJob, Ba!At, Ba!history
  <2>2. PICK todo \in (IF front.name \in {"hotcopy-all", "verify-all"} THEN Ba!SetToSeqs(repos) ELSE {<<front.repo>>}) :
          work' = [job |-> front, step |-> "next", todo |-> todo, doomed |-> {}]
    BY <1>4 DEF Ba!TakeJob
  <2> HIDE DEF front
  <2>3. work'.job = front /\ work'.step = "next" /\ work'.todo = todo
    BY <2>2
  <2>5. ASSUME NEW r \in repos, Waits(r) PROVE Waits(r)' \/ Ahead(r)'
    <3>1. PICK k \in DOMAIN queue : Ba!Verifies(queue[k], r)
      BY <2>5 DEF Waits
    <3>2. CASE queue[k] = front
      <4>1. \E i \in DOMAIN todo : todo[i] = r
        <5>1. CASE front.name = "verify-all"
          <6>1. IsFiniteSet(repos)
            BY BackupsAssumption, FS_Subset DEF BackupsTypeOK
          <6> QED BY <2>2, <5>1, <6>1, OrderOfAll, <2>5
        <5>2. CASE front.name = "verify-repo" /\ front.repo = r
          <6>1. todo = <<r>>
            BY <2>2, <5>2
          <6> QED BY <6>1
        <5> QED BY <3>1, <3>2, <5>1, <5>2 DEF Ba!Verifies
      <4> QED BY <2>3, <3>1, <3>2, <4>1 DEF Ahead
    <3>3. CASE \E i \in DOMAIN queue' : queue'[i] = queue[k]
      BY <3>1, <3>3 DEF Waits
    <3> QED BY <2>1, <3>2, <3>3
  <2>6. \A r : ~Turn(r) /\ ~Ahead(r)
    BY <2>1 DEF Turn, Ahead, Ba!At
  <2> QED BY <1>d, <2>1, <2>5, <2>6
<1>5. ASSUME Ba!EndJob PROVE Goal
  <2>1. work.step = "next" /\ work.todo = <<>> /\ UNCHANGED <<repos, health, queue, forsaken>>
    BY <1>5 DEF Ba!EndJob, Ba!At, Ba!history
  <2>2. \A r : ~Turn(r) /\ ~Ahead(r) /\ (Waits(r)' <=> Waits(r))
    BY <2>1 DEF Turn, Ahead, Waits, Ba!At
  <2> QED BY <1>d, <2>1, <2>2
<1>6. ASSUME Ba!Crash PROVE Goal
  <2> DEFINE j == [work.job EXCEPT !.stalled = TRUE]
  <2>1. /\ UNCHANGED <<repos, health>> /\ work.job \in BackupJob /\ JobOK(work.job)
        /\ Ba!GiveUp(work.job) \/ (queue' = <<j>> \o queue /\ UNCHANGED forsaken)
    BY <1>6 DEF Ba!Crash, Ba!At, WorkOK
  <2>2. j \in BackupJob /\ JobOK(j) /\ \A r : Ba!Verifies(work.job, r) => Ba!Verifies(j, r)
    BY <2>1 DEF BackupJob, JobOK, Ba!Verifies
  <2> HIDE DEF j
  <2>3. CASE Ba!GiveUp(work.job)
    <3>1. /\ queue' = queue /\ forsaken \subseteq forsaken'
          /\ \A r \in Repos \ forsaken' : ~Ba!Verifies(work.job, r)
      BY <2>3 DEF Ba!GiveUp
    <3>2. \A r \in repos' \ forsaken' : ~Turn(r) /\ ~Ahead(r) /\ (Waits(r)' <=> Waits(r))
      BY <1>b, <2>1, <3>1 DEF BackupsTypeOK, Waits
    <3> QED BY <1>a, <2>1, <3>1, <3>2
  <2>4. CASE queue' = <<j>> \o queue /\ UNCHANGED forsaken
    <3>1. /\ 1 \in DOMAIN queue' /\ queue'[1] = j
          /\ \A k \in DOMAIN queue : \E i \in DOMAIN queue' : queue'[i] = queue[k]
      BY <2>2, <2>4, QueueAhead DEF BackupsTypeOK
    <3>2. \A r : Turn(r) \/ Ahead(r) \/ Waits(r) => Waits(r)'
      BY <1>b, <2>2, <3>1 DEF Waits
    <3> QED BY <1>a, <2>1, <2>4, <3>2
  <2> QED BY <2>1, <2>3, <2>4
<1>7. ASSUME Ba!NotStarted \/ Ba!VerifyFails \/ Ba!HotcopyFails PROVE Goal
  <2>1. work.step # "idle" /\ work.todo # <<>> /\ Ba!Throw(work.job) /\ UNCHANGED repos
    BY <1>7 DEF Ba!NotStarted, Ba!VerifyFails, Ba!HotcopyFails, Ba!At, WorkOK
  <2>2. CASE UNCHANGED health
    BY <1>c, <2>1, <2>2
  <2>3. CASE Ba!VerifyFails
    <3>1. PICK h : health' = health \/ health' = [health EXCEPT ![Ba!Repo] = h]
      BY <2>3 DEF Ba!VerifyFails
    <3>2. \A r \in Repos : health'[r] = health[r] \/ Turn(r)
      BY <2>3, <3>1 DEF BackupsTypeOK, Turn, Ba!VerifyFails
    <3> QED BY <1>c, <2>1, <3>2
  <2> QED BY <1>7, <2>2, <2>3 DEF Ba!NotStarted, Ba!HotcopyFails
<1>8. ASSUME Ba!StartHotcopy \/ Ba!Hotcopied \/ Ba!StartRetention \/ Ba!RemoveBackup \/ Ba!ForgetBackup \/ Ba!EndHotcopy
      PROVE  Goal
  <2>1. /\ UNCHANGED <<repos, health, queue, forsaken>> /\ Ba!Copying /\ work.step # "verify"
    BY <1>8 DEF Ba!StartHotcopy, Ba!Hotcopied, Ba!StartRetention, Ba!RemoveBackup, Ba!ForgetBackup, Ba!EndHotcopy, Ba!At, WorkOK, Copies, Ba!history
  <2>3. \A r : ~Turn(r) /\ ~Ahead(r) /\ (Waits(r)' <=> Waits(r))
    BY <2>1 DEF Turn, Ahead, Waits, Ba!At, Ba!Verifies, Ba!Copying
  <2> QED BY <1>d, <2>1, <2>3
<1>9. ASSUME Ba!StartVerify PROVE Goal
  <2>1. /\ work.step = "next" /\ Ba!GoTo("verify") /\ health' = [health EXCEPT ![Ba!Repo] = "VERIFYING"]
        /\ UNCHANGED <<repos, queue>> /\ forsaken' = forsaken \ {Ba!Repo}
    BY <1>9 DEF Ba!StartVerify, Ba!At
  <2>2. work'.step = "verify" /\ work'.job = work.job /\ work'.todo = work.todo
    BY <2>1, WorkGoes
  <2>3. \A r \in Repos : ~Turn(r)' => health'[r] = health[r] /\ (r \in forsaken' <=> r \in forsaken)
    BY <2>1, <2>2 DEF BackupsTypeOK, Turn, Ba!At, Ba!Repo
  <2>4. \A r : ~Turn(r) /\ (Waits(r) => Waits(r)') /\ (Ahead(r) => Ahead(r)')
    BY <2>1, <2>2 DEF Turn, Waits, Ahead, Ba!At
  <2>5. ASSUME NEW r \in repos' \ forsaken', health'[r] = "VERIFYING", ~Turn(r)' PROVE Waits(r)' \/ Ahead(r)'
    <3>1. r \in repos \ forsaken /\ health[r] = "VERIFYING"
      BY <2>1, <2>3, <2>5 DEF BackupsTypeOK
    <3> QED BY <2>4, <3>1 DEF VerifyInv
  <2> QED BY <2>5 DEF Goal, VerifyInv
<1>10. ASSUME Ba!Verified PROVE Goal
  <2>1. /\ work.step = "verify" /\ work' = [work EXCEPT !.step = "next", !.todo = Tail(@)]
        /\ UNCHANGED <<repos, queue, forsaken>>
        /\ \E h \in {"HEALTHY", "UNHEALTHY"} : health' = [health EXCEPT ![Ba!Repo] = h]
    BY <1>10 DEF Ba!Verified, Ba!At, Ba!history
  <2>2. work.todo # <<>>
    BY <2>1 DEF WorkOK
  <2>3. /\ work'.step = "next" /\ work'.job = work.job
        /\ \A k \in DOMAIN work.todo : work.todo[k] = Ba!Repo \/ \E i \in DOMAIN work'.todo : work'.todo[i] = work.todo[k]
    BY <2>1, <2>2, TailMoves
  <2>4. \A r \in Repos : health'[r] = "VERIFYING" => health[r] = "VERIFYING" /\ r # Ba!Repo
    BY <2>1, <2>2, TurnOf DEF BackupsTypeOK
  <2>5. ASSUME NEW r \in repos' \ forsaken', health'[r] = "VERIFYING" PROVE Waits(r)' \/ Ahead(r)'
    <3>1. r \in repos \ forsaken /\ health[r] = "VERIFYING" /\ r # Ba!Repo
      BY <2>1, <2>4, <2>5 DEF BackupsTypeOK
    <3>4. Waits(r) \/ Ahead(r)
      BY <3>1 DEF VerifyInv, Turn
    <3>2. Ahead(r) => Ahead(r)'
      <4>1. SUFFICES ASSUME Ahead(r) PROVE Ahead(r)'
        OBVIOUS
      <4>2. PICK k \in DOMAIN work.todo : work.todo[k] = r
        BY <4>1 DEF Ahead
      <4> QED BY <2>3, <3>1, <4>1, <4>2 DEF Ahead
    <3>3. Waits(r) => Waits(r)'
      BY <2>1 DEF Waits
    <3> QED BY <3>2, <3>3, <3>4
  <2> QED BY <2>5 DEF Goal, VerifyInv
<1>11. ASSUME UNCHANGED Ba!vars PROVE Goal
  BY <1>11 DEF Goal, VerifyInv, Ba!vars, Ba!history, Turn, Waits, Ahead, Ba!At, Ba!Repo
<1>12. ASSUME Ba!Next PROVE Goal
  <2>1. ASSUME NEW r \in Repos, NEW name \in {"hotcopy-repo", "verify-repo"}, Ba!Enqueue(name, r) PROVE Goal
    BY <1>1, <2>1 DEF Single
  <2>2. ASSUME NEW name \in {"hotcopy-all", "verify-all"}, Ba!Enqueue(name, NoRepo) PROVE Goal
    BY <1>1, <2>2 DEF Single
  <2> QED BY <1>2, <1>3, <1>4, <1>5, <1>6, <1>7, <1>8, <1>9, <1>10, <1>12, <2>1, <2>2 DEF Ba!Next
<1> QED BY <1>11, <1>12 DEF Goal

-----------------------------------------------------------------------------

\* The invariant holds at the start.
LEMMA BackupsInit == Ba!Init => BackupsInv
<1> SUFFICES ASSUME Ba!Init PROVE BackupsInv
  OBVIOUS
<1>1. BackupsTypeOK /\ WorkOK
  BY RestingOK DEF Ba!Init, BackupsTypeOK, WorkOK, Copies, JobOK
<1>2. CopyOK /\ KeptInv
  BY RestingOK DEF Ba!Init, CopyOK, KeptInv, Copies
<1>3. VerifyInv
  BY RestingOK DEF Ba!Init, VerifyInv
<1> QED BY <1>1, <1>2, <1>3 DEF BackupsInv

\* The invariant of the backups.
THEOREM BackupsInductive == Ba!Spec => []BackupsInv
<1>1. BackupsInv /\ [Ba!Next]_(Ba!vars) => BackupsInv'
  BY BackupsTypeStep, RowsStep, VerifyStep DEF BackupsInv
<1> QED BY <1>1, BackupsInit, PTL DEF Ba!Spec

\* What the invariant says of the rows is what is promised.
LEMMA KeptIs == BackupsTypeOK /\ KeptInv => Ba!LatestBackupKept
<1> SUFFICES ASSUME BackupsTypeOK, KeptInv, NEW r \in (had \cap repos) \ spoiled
             PROVE  Ba!Successes(r) # {} /\ rows[Ba!Max(Ba!Successes(r))].there
  BY DEF Ba!LatestBackupKept
<1>1. PICK m \in Ba!Successes(r) : rows[m].there /\ \A i \in Ba!Successes(r) : i <= m
  BY DEF KeptInv, Kept
<1> DEFINE S == Ba!Successes(r)
<1>2. S \subseteq Nat /\ m \in S /\ \A i \in S : i <= m
  BY <1>1 DEF Ba!Successes, BackupsTypeOK
<1> HIDE DEF S
<1>3. Ba!Max(S) = m
  BY <1>2, GreatestIs
<1> QED BY <1>1, <1>3 DEF S

\* A repository that was ever backed up has a backup to go back to: its newest successful one
\* is on disk, unless what follows a hotcopy in its own job failed.
THEOREM BackupsKept == Ba!Spec => []Ba!LatestBackupKept
<1> QED BY BackupsInductive, KeptIs, PTL DEF BackupsInv

\* What the invariant says of the statuses is what is promised.
LEMMA UnderWayIs == BackupsTypeOK /\ WorkOK /\ VerifyInv => Ba!VerifyingIsUnderWay
<1> SUFFICES ASSUME BackupsTypeOK, WorkOK, VerifyInv, NEW r \in repos \ forsaken, health[r] = "VERIFYING"
             PROVE  \E j \in Ba!ToSet(queue) \cup {work.job} : Ba!Verifies(j, r)
  BY DEF Ba!VerifyingIsUnderWay
<1>1. CASE Turn(r)
  BY <1>1, TurnCovers
<1>2. CASE Ahead(r)
  BY <1>2 DEF Ahead
<1>3. CASE Waits(r)
  BY <1>3 DEF Waits, Ba!ToSet
<1> QED BY <1>1, <1>2, <1>3 DEF VerifyInv

\* A repository is shown as VERIFYING only while a job that verifies it runs or waits to run
\* again, unless the queue gave up on such a job (its last attempt threw, or the process stopped
\* under it twice) and no other has begun to verify the repository since.
THEOREM BackupsUnderWay == Ba!Spec => []Ba!VerifyingIsUnderWay
<1> QED BY BackupsInductive, UnderWayIs, PTL DEF BackupsInv

-----------------------------------------------------------------------------
(***************************************************************************)
(* Deliveries.  A letter is covered from the moment its job is queued, and *)
(* stays so: a job leaves the queue when it has arrived or was tried as    *)
(* often as promised, and the first stop of the process puts back what it  *)
(* interrupts (NoneDropped).                                               *)
(***************************************************************************)

Addressees == Hooks \cup Mentionable
Letters == [to : Addressees, event : Nat]
DeliveryJobs == [kind : De!Kinds, to : Addressees, event : Nat, tries : Nat, stalled : BOOLEAN, state : {"waiting", "running"}]

DeliveriesTypeOK ==
  /\ active \subseteq Hooks /\ removed \subseteq Hooks
  /\ request \in [step : {"idle", "webhooks", "mails"}, hooks : SUBSET Hooks, left : SUBSET Addressees, told : SUBSET Mentionable]
  /\ events \in Nat /\ faults \in Nat
  /\ queue \subseteq DeliveryJobs
  /\ arrived \subseteq Letters /\ owed \subseteq Letters /\ spent \subseteq Letters

\* A letter is on its way, has arrived or was tried as often as promised.
LetterCovered(letter) == letter \in arrived \cup spent \/ \E task \in queue : De!Letter(task) = letter

\* Whom the request in flight has told already.
ToldAlready ==
  CASE request.step = "webhooks" -> request.hooks \ request.left
    [] request.step = "mails" -> request.hooks \cup ((IF Smtp THEN request.told ELSE {}) \ request.left)
    [] OTHER -> {}

\* Until the process has stopped once, no job was put back after a stop; until it has
\* stopped twice, nothing owed is dropped.
NoneDropped ==
  /\ faults = 0 => \A task \in queue : ~task.stalled
  /\ faults < 2 => /\ \A letter \in owed : LetterCovered(letter)
                   /\ \A a \in ToldAlready : LetterCovered([to |-> a, event |-> events])

DeliveriesInv == DeliveriesTypeOK /\ NoneDropped

\* A step that keeps every letter covered and tells nobody new keeps the invariant.
LEMMA StillCovered ==
  ASSUME DeliveriesInv, DeliveriesTypeOK', owed' = owed, events' = events, faults' = faults,
         ToldAlready' \subseteq ToldAlready,
         \A task \in queue' : task.stalled => \E k \in queue : k.stalled,
         \A letter : LetterCovered(letter) => LetterCovered(letter)'
  PROVE  DeliveriesInv'
  BY DEF DeliveriesInv, NoneDropped

\* A job that changes its state keeps its letter.
LEMMA DeliveryType ==
  ASSUME DeliveriesTypeOK, NEW task \in queue
  PROVE  /\ task \in DeliveryJobs /\ De!Letter(task) \in Letters
         /\ \A s \in {"waiting", "running"} :
              /\ [task EXCEPT !.state = s] \in DeliveryJobs
              /\ De!Letter([task EXCEPT !.state = s]) = De!Letter(task)
              /\ [task EXCEPT !.state = s].stalled = task.stalled
         /\ [task EXCEPT !.tries = @ + 1, !.state = "waiting"] \in DeliveryJobs
         /\ De!Letter([task EXCEPT !.tries = @ + 1, !.state = "waiting"]) = De!Letter(task)
         /\ [task EXCEPT !.tries = @ + 1, !.state = "waiting"].stalled = task.stalled
         /\ [task EXCEPT !.state = "waiting", !.stalled = TRUE] \in DeliveryJobs
         /\ De!Letter([task EXCEPT !.state = "waiting", !.stalled = TRUE]) = De!Letter(task)
<1>1. task \in DeliveryJobs /\ task.to \in Addressees /\ task.event \in Nat /\ task.tries \in Nat
  BY DEF DeliveriesTypeOK, DeliveryJobs
<1>3. \A s \in {"waiting", "running"} :
        /\ [task EXCEPT !.state = s] \in DeliveryJobs
        /\ De!Letter([task EXCEPT !.state = s]) = De!Letter(task)
        /\ [task EXCEPT !.state = s].stalled = task.stalled
  BY <1>1 DEF DeliveryJobs, De!Letter
<1>4. /\ [task EXCEPT !.tries = @ + 1, !.state = "waiting"] \in DeliveryJobs
      /\ De!Letter([task EXCEPT !.tries = @ + 1, !.state = "waiting"]) = De!Letter(task)
      /\ [task EXCEPT !.tries = @ + 1, !.state = "waiting"].stalled = task.stalled
  <2> DEFINE new == [task EXCEPT !.tries = @ + 1, !.state = "waiting"]
  <2>1. new = [task EXCEPT !.tries = task.tries + 1, !.state = "waiting"]
    BY <1>1 DEF DeliveryJobs
  <2>2. task.tries + 1 \in Nat
    BY <1>1
  <2>3. new \in DeliveryJobs
    BY <1>1, <2>1, <2>2 DEF DeliveryJobs
  <2>4. new.to = task.to /\ new.event = task.event /\ new.stalled = task.stalled
    BY <1>1 DEF DeliveryJobs
  <2> QED BY <2>3, <2>4 DEF De!Letter
<1>5. /\ [task EXCEPT !.state = "waiting", !.stalled = TRUE] \in DeliveryJobs
      /\ De!Letter([task EXCEPT !.state = "waiting", !.stalled = TRUE]) = De!Letter(task)
  BY <1>1 DEF DeliveryJobs, De!Letter
<1>6. De!Letter(task) \in Letters
  BY <1>1 DEF De!Letter, Letters
<1> QED BY <1>1, <1>3, <1>4, <1>5, <1>6

\* One job takes the place of another for the same letter.
LEMMA DeliveryReplaced ==
  ASSUME NEW task \in queue, NEW new, De!Letter(new) = De!Letter(task),
         queue' = (queue \ {task}) \cup {new}, arrived \subseteq arrived', spent \subseteq spent'
  PROVE  \A letter : LetterCovered(letter) => LetterCovered(letter)'
<1> TAKE letter
<1>1. CASE De!Letter(task) = letter
  BY <1>1 DEF LetterCovered, De!Letter
<1>2. CASE De!Letter(task) # letter
  BY <1>2 DEF LetterCovered, De!Letter
<1> QED BY <1>1, <1>2

\* A job goes, and its letter has arrived or is given up.
LEMMA DeliveryGone ==
  ASSUME NEW task \in queue, queue' = queue \ {task}, arrived \subseteq arrived', spent \subseteq spent',
         De!Letter(task) \in arrived' \cup spent'
  PROVE  \A letter : LetterCovered(letter) => LetterCovered(letter)'
<1> TAKE letter
<1>1. CASE De!Letter(task) = letter
  BY <1>1 DEF LetterCovered, De!Letter
<1>2. CASE De!Letter(task) # letter
  BY <1>2 DEF LetterCovered, De!Letter
<1> QED BY <1>1, <1>2

\* Nothing is owed at the start.
LEMMA DeliveriesInit == De!Init => DeliveriesInv
  BY DEF De!Init, DeliveriesInv, DeliveriesTypeOK, NoneDropped, De!Free, ToldAlready

\* Every step of a worker keeps the letters covered.
LEMMA WorkerStep ==
  ASSUME DeliveriesInv, NEW task \in queue, De!Take(task) \/ De!Delivered(task) \/ De!Failed(task)
  PROVE  DeliveriesInv'
<1> USE DEF DeliveriesInv
<1>1. UNCHANGED <<De!hooks, request, events, inbox, faults, owed>>
  BY DEF De!Take, De!Delivered, De!Failed
<1>2. ToldAlready' = ToldAlready
  BY <1>1 DEF ToldAlready
<1>3. CASE De!Take(task)
  <2>1. queue' = (queue \ {task}) \cup {[task EXCEPT !.state = "running"]} /\ arrived' = arrived /\ spent' = spent
    BY <1>3 DEF De!Take, De!Become
  <2>2. DeliveriesTypeOK'
    BY <1>1, <2>1, DeliveryType DEF DeliveriesTypeOK, De!hooks
  <2>3. \A letter : LetterCovered(letter) => LetterCovered(letter)'
    BY <2>1, DeliveryType, DeliveryReplaced
  <2>4. \A j \in queue' : j.stalled => \E k \in queue : k.stalled
    BY <2>1, DeliveryType
  <2> QED BY <1>1, <1>2, <2>2, <2>3, <2>4, StillCovered
<1>4. CASE De!Delivered(task)
  <2>1. queue' = queue \ {task} /\ arrived' = arrived \cup {De!Letter(task)} /\ spent' = spent
    BY <1>4 DEF De!Delivered
  <2>2. DeliveriesTypeOK'
    BY <1>1, <2>1, DeliveryType DEF DeliveriesTypeOK, De!hooks
  <2>3. \A letter : LetterCovered(letter) => LetterCovered(letter)'
    BY <2>1, DeliveryGone
  <2> QED BY <1>1, <1>2, <2>1, <2>2, <2>3, StillCovered
<1>5. CASE De!Failed(task)
  <2>1. arrived' \in {arrived, arrived \cup {De!Letter(task)}} /\ De!Fail(task)
    BY <1>5 DEF De!Failed
  <2>2. CASE task.tries + 1 < QueueAttempts[task.kind]
    <3>1. queue' = (queue \ {task}) \cup {[task EXCEPT !.tries = @ + 1, !.state = "waiting"]} /\ spent' = spent
      BY <2>1, <2>2 DEF De!Fail
    <3>2. DeliveriesTypeOK'
      BY <1>1, <2>1, <3>1, DeliveryType DEF DeliveriesTypeOK, De!hooks
    <3>3. \A letter : LetterCovered(letter) => LetterCovered(letter)'
      BY <2>1, <3>1, DeliveryType, DeliveryReplaced
    <3>4. \A j \in queue' : j.stalled => \E k \in queue : k.stalled
      BY <3>1, DeliveryType
    <3> QED BY <1>1, <1>2, <3>2, <3>3, <3>4, StillCovered
  <2>3. CASE ~(task.tries + 1 < QueueAttempts[task.kind])
    <3>1. queue' = queue \ {task} /\ spent' = spent \cup {De!Letter(task)}
      BY <2>1, <2>3 DEF De!Fail
    <3>2. DeliveriesTypeOK'
      BY <1>1, <2>1, <3>1, DeliveryType DEF DeliveriesTypeOK, De!hooks
    <3>3. \A letter : LetterCovered(letter) => LetterCovered(letter)'
      BY <2>1, <3>1, DeliveryGone
    <3> QED BY <1>1, <1>2, <3>1, <3>2, <3>3, StillCovered
  <2> QED BY <2>2, <2>3
<1> QED BY <1>3, <1>4, <1>5

\* A job is added for one more of those to be told.
LEMMA DeliveryEnqueued ==
  ASSUME DeliveriesInv, NEW kind \in De!Kinds, NEW a \in Addressees, queue' = queue \cup {De!Job(kind, a)},
         DeliveriesTypeOK', ToldAlready' \subseteq ToldAlready \cup {a},
         UNCHANGED <<events, arrived, faults, owed, spent>>
  PROVE  DeliveriesInv'
<1>1. De!Letter(De!Job(kind, a)) = [to |-> a, event |-> events] /\ ~De!Job(kind, a).stalled
  BY DEF De!Letter, De!Job
<1>2. \A letter : LetterCovered(letter) => LetterCovered(letter)'
  BY DEF LetterCovered, De!Letter
<1>3. LetterCovered([to |-> a, event |-> events])'
  BY <1>1 DEF LetterCovered, De!Letter
<1> QED BY <1>1, <1>2, <1>3 DEF DeliveriesInv, NoneDropped

\* Every step of a comment covers those it tells.
LEMMA RequestStep ==
  ASSUME DeliveriesInv,
         \/ \E mentioned \in SUBSET Mentionable : De!Comment(mentioned)
         \/ \E h \in Hooks : De!EnqueueDelivery(h)
         \/ \E u \in Mentionable : De!EnqueueEmail(u)
         \/ De!NotifyMentions \/ De!Answer
  PROVE  DeliveriesInv'
<1> USE DEF DeliveriesInv
<1>1. ASSUME NEW mentioned \in SUBSET Mentionable, De!Comment(mentioned) PROVE DeliveriesInv'
  <2>1. DeliveriesTypeOK'
    BY <1>1 DEF De!Comment, DeliveriesTypeOK, De!hooks, Addressees
  <2>2. ToldAlready' = {}
    BY <1>1 DEF De!Comment, ToldAlready
  <2>3. \A letter : LetterCovered(letter) => LetterCovered(letter)'
    BY <1>1 DEF De!Comment, LetterCovered
  <2> QED BY <1>1, <2>1, <2>2, <2>3 DEF De!Comment, NoneDropped
<1>2. ASSUME NEW h \in Hooks, De!EnqueueDelivery(h) PROVE DeliveriesInv'
  <2>1. h \in Addressees /\ "deliver" \in De!Kinds /\ De!Job("deliver", h) \in DeliveryJobs
    BY DEF Addressees, De!Kinds, De!Job, DeliveryJobs, DeliveriesTypeOK
  <2>2. DeliveriesTypeOK'
    BY <1>2, <2>1 DEF De!EnqueueDelivery, DeliveriesTypeOK, De!hooks
  <2>3. ToldAlready' \subseteq ToldAlready \cup {h}
    BY <1>2 DEF De!EnqueueDelivery, ToldAlready, DeliveriesTypeOK
  <2> QED BY <1>2, <2>1, <2>2, <2>3, DeliveryEnqueued DEF De!EnqueueDelivery
<1>3. ASSUME NEW u \in Mentionable, De!EnqueueEmail(u) PROVE DeliveriesInv'
  <2>1. u \in Addressees /\ "send-email" \in De!Kinds /\ De!Job("send-email", u) \in DeliveryJobs
    BY DEF Addressees, De!Kinds, De!Job, DeliveryJobs, DeliveriesTypeOK
  <2>2. DeliveriesTypeOK'
    BY <1>3, <2>1 DEF De!EnqueueEmail, DeliveriesTypeOK, De!hooks
  <2>3. ToldAlready' \subseteq ToldAlready \cup {u}
    BY <1>3 DEF De!EnqueueEmail, ToldAlready, DeliveriesTypeOK
  <2> QED BY <1>3, <2>1, <2>2, <2>3, DeliveryEnqueued DEF De!EnqueueEmail
<1>4. CASE De!NotifyMentions
  <2>1. DeliveriesTypeOK'
    BY <1>4, DeliveriesAssumption DEF De!NotifyMentions, DeliveriesTypeOK, De!hooks, Addressees
  <2>2. ToldAlready' \subseteq ToldAlready
    BY <1>4, DeliveriesAssumption DEF De!NotifyMentions, ToldAlready, DeliveriesTypeOK
  <2>3. \A letter : LetterCovered(letter) => LetterCovered(letter)'
    BY <1>4 DEF De!NotifyMentions, LetterCovered
  <2> QED BY <1>4, <2>1, <2>2, <2>3, StillCovered DEF De!NotifyMentions
<1>5. CASE De!Answer
  <2>1. ToldAlready = request.hooks \cup (IF Smtp THEN request.told ELSE {})
    BY <1>5 DEF De!Answer, ToldAlready
  <2>2. owed' = owed \cup {[to |-> a, event |-> events] : a \in ToldAlready}
    BY <1>5, <2>1 DEF De!Answer
  <2>3. ToldAlready \subseteq Addressees
    BY <2>1, DeliveriesAssumption DEF DeliveriesTypeOK, Addressees
  <2>4. DeliveriesTypeOK'
    BY <1>5, <2>2, <2>3 DEF De!Answer, DeliveriesTypeOK, De!hooks, De!Free, Letters
  <2>5. ToldAlready' = {}
    BY <1>5 DEF De!Answer, De!Free, ToldAlready
  <2>6. \A letter : LetterCovered(letter) => LetterCovered(letter)'
    BY <1>5 DEF De!Answer, LetterCovered
  <2> QED BY <1>5, <2>2, <2>4, <2>5, <2>6 DEF De!Answer, NoneDropped
<1> QED BY <1>1, <1>2, <1>3, <1>4, <1>5

\* A change of the webhooks touches no job.
LEMMA WebhookStep ==
  ASSUME DeliveriesInv, \E h \in Hooks : De!RemoveWebhook(h) \/ De!UpdateWebhook(h)
  PROVE  DeliveriesInv'
<1>1. UNCHANGED <<request, events, inbox, queue, arrived, faults, owed, spent>>
  BY DEF De!RemoveWebhook, De!UpdateWebhook
<1>2. DeliveriesTypeOK'
  BY <1>1 DEF DeliveriesInv, DeliveriesTypeOK, De!RemoveWebhook, De!UpdateWebhook
<1>3. ToldAlready' = ToldAlready /\ \A letter : LetterCovered(letter) => LetterCovered(letter)'
  BY <1>1 DEF ToldAlready, LetterCovered
<1> QED BY <1>1, <1>2, <1>3, StillCovered

\* The first stop puts back whatever was running; only a second one can drop it.
LEMMA DeliveryStop ==
  ASSUME DeliveriesInv, De!Crash
  PROVE  DeliveriesInv'
<1> USE DEF DeliveriesInv
<1> DEFINE LetterKept == {k \in queue : ~(k.state = "running" /\ k.stalled)}
           Back(j) == IF j.state = "running" THEN [j EXCEPT !.state = "waiting", !.stalled = TRUE] ELSE j
<1>1. /\ queue' = {Back(j) : j \in LetterKept} /\ faults' = faults + 1 /\ request' = De!Free
      /\ UNCHANGED <<active, removed, events, inbox, arrived, owed, spent>>
  BY DEF De!Crash, De!hooks
<1>2. \A j \in queue : Back(j) \in DeliveryJobs /\ De!Letter(Back(j)) = De!Letter(j)
  BY DeliveryType
<1> HIDE DEF Back
<1>3. DeliveriesTypeOK'
  <2>1. queue' \subseteq DeliveryJobs
    BY <1>1, <1>2
  <2> QED BY <1>1, <2>1 DEF DeliveriesTypeOK, De!Free
<1>4. ToldAlready' = {}
  BY <1>1 DEF De!Free, ToldAlready
<1>5. ASSUME faults' < 2, NEW letter, LetterCovered(letter) PROVE LetterCovered(letter)'
  <2>1. faults = 0 /\ LetterKept = queue
    BY <1>1, <1>5 DEF NoneDropped, DeliveriesTypeOK
  <2>2. CASE letter \in arrived \cup spent
    BY <1>1, <2>2 DEF LetterCovered
  <2>3. CASE \E task \in queue : De!Letter(task) = letter
    BY <1>1, <1>2, <2>1, <2>3 DEF LetterCovered, De!Letter
  <2> QED BY <1>5, <2>2, <2>3 DEF LetterCovered
<1>6. faults' # 0 /\ (faults' < 2 => faults < 2) /\ owed' = owed
  BY <1>1 DEF DeliveriesTypeOK
<1> QED BY <1>3, <1>4, <1>5, <1>6 DEF NoneDropped

\* Every step keeps the invariant.
LEMMA DeliveriesStep == DeliveriesInv /\ [De!Next]_(De!vars) => DeliveriesInv'
<1> SUFFICES ASSUME DeliveriesInv, [De!Next]_(De!vars) PROVE DeliveriesInv'
  OBVIOUS
<1>1. CASE UNCHANGED De!vars
  <2>1. DeliveriesTypeOK' /\ ToldAlready' = ToldAlready
    BY <1>1 DEF DeliveriesInv, DeliveriesTypeOK, De!vars, De!hooks, ToldAlready
  <2>2. \A letter : LetterCovered(letter) => LetterCovered(letter)'
    BY <1>1 DEF De!vars, LetterCovered
  <2> QED BY <1>1, <2>1, <2>2, StillCovered DEF De!vars
<1> QED BY <1>1, WorkerStep, RequestStep, WebhookStep, DeliveryStop DEF De!Next

\* The invariant of the deliveries.
LEMMA DeliveriesInductive == De!Spec => []DeliveriesInv
  BY DeliveriesInit, DeliveriesStep, PTL DEF De!Spec

\* Whatever an answered request owed is on its way, has arrived or was tried as often as promised,
\* unless the process has stopped twice.
THEOREM DeliveriesKept == De!Spec => []De!NothingDropped
<1>1. DeliveriesInv => De!NothingDropped
  BY DEF DeliveriesInv, NoneDropped, LetterCovered, De!NothingDropped
<1> QED BY <1>1, DeliveriesInductive, PTL

-----------------------------------------------------------------------------
(***************************************************************************)
(* Subversion commands. What has been read of the output is decoded as a   *)
(* whole as long as no chunk ends within a character (OutputRead), and the *)
(* promise is settled by what the exit code says of the work (FateKnown).  *)
(***************************************************************************)

\* One sequence after another.
Joined(u, S, s, t) ==
  /\ Len(t) \in Nat /\ Len(s) \in Nat
  /\ u \in Seq(S) /\ Len(u) = Len(s) + Len(t)
  /\ \A i \in 1..Len(s) : i \in 1..Len(u) /\ u[i] = s[i]
  /\ \A i \in 1..Len(t) : Len(s) + i \in 1..Len(u) /\ u[Len(s) + i] = t[i]

\* A concatenation joins.
LEMMA Joins ==
  ASSUME NEW S, NEW s \in Seq(S), NEW t \in Seq(S)
  PROVE  Joined(s \o t, S, s, t)
  BY DEF Joined

\* What a byte adds to the text that is read.
Pieces == {"c", "ht", "?", ""}

SvnCliTypeOK ==
  /\ proc \in {"none", "running", "ended"} /\ code \in {"null", "0", "1"}
  /\ effect \in BOOLEAN /\ timedOut \in BOOLEAN /\ cut \in BOOLEAN
  /\ written \in 0..Len(Text) /\ received \in 0..written /\ stdout \in Seq(Pieces)
  /\ timer \in {"set", "cleared"} /\ promise \in {"pending", "resolved", "rejected"}

\* What has been read of the output, if no chunk ended within a character.
OutputRead ==
  ~cut => /\ stdout = Cl!Decoded(SubSeq(Text, 1, received))
          /\ received \in 1..(Len(Text) - 1) => Text[received] # "h"

\* What a good end says of the work, and the promise of the end.
FateKnown ==
  /\ proc = "none" => ~effect /\ timer = "cleared" /\ ~timedOut /\ promise # "resolved"
  /\ proc = "running" => promise = "pending"
  /\ proc = "ended" => (code = "0" => effect /\ written = Len(Text))
  /\ promise # "pending" => timer = "cleared"
  /\ promise = "resolved" => proc = "ended" /\ code = "0" /\ received = written /\ ~timedOut
  /\ promise = "rejected" => proc = "none" \/ timedOut \/ code # "0"

SvnCliInv == SvnCliTypeOK /\ OutputRead /\ FateKnown

\* A piece for every byte.
LEMMA DecodedSeq ==
  ASSUME NEW s \in Seq({"c", "h", "t"})
  PROVE  /\ Cl!Decoded(s) \in Seq(Pieces) /\ Len(Cl!Decoded(s)) = Len(s)
         /\ \A i \in 1..Len(s) : Cl!Decoded(s)[i] =
              IF s[i] = "c" THEN "c"
              ELSE IF s[i] = "h" /\ i < Len(s) /\ s[i + 1] = "t" THEN "ht"
              ELSE IF s[i] = "t" /\ i > 1 /\ s[i - 1] = "h" THEN "" ELSE "?"
<1> DEFINE d == Cl!Decoded(s)
           piece(i) == IF s[i] = "c" THEN "c"
                       ELSE IF s[i] = "h" /\ i < Len(s) /\ s[i + 1] = "t" THEN "ht"
                       ELSE IF s[i] = "t" /\ i > 1 /\ s[i - 1] = "h" THEN "" ELSE "?"
<1>1. d = [i \in 1..Len(s) |-> piece(i)] /\ Len(s) \in Nat
  BY DEF Cl!Decoded
<1>2. \A i \in 1..Len(s) : piece(i) \in Pieces
  BY DEF Pieces
<1> HIDE DEF d
<1>3. \A i \in 1..Len(s) : d[i] = piece(i)
  BY <1>1
<1> HIDE DEF piece
<1>4. d \in [1..Len(s) -> Pieces]
  BY <1>1, <1>2
<1>5. d \in Seq(Pieces) /\ Len(d) = Len(s)
  BY <1>1, <1>4
<1> QED BY <1>3, <1>5 DEF d, piece

\* Where the first chunk does not end within a character, both are decoded as their whole.
LEMMA DecodedInTurn ==
  ASSUME NEW r \in Nat, NEW n \in Nat, r < n, n <= Len(Text), r = 0 \/ Text[r] # "h"
  PROVE  Cl!Decoded(SubSeq(Text, 1, r)) \o Cl!Decoded(SubSeq(Text, r + 1, n)) = Cl!Decoded(SubSeq(Text, 1, n))
<1> DEFINE a == SubSeq(Text, 1, r)
           b == SubSeq(Text, r + 1, n)
           c == SubSeq(Text, 1, n)
           Bytes == {"c", "h", "t"}
<1>0. Text \in Seq(Bytes) /\ Len(Text) \in Nat /\ \A i \in 1..Len(Text) : Text[i] \in Bytes
  BY SvnCliAssumption
<1>1. a \in Seq(Bytes) /\ Len(a) = r /\ \A i \in 1..r : a[i] = Text[i]
  <2>1. \A i \in 1..r : Text[i] \in Bytes
    BY <1>0
  <2> QED BY <2>1, SubSeqProperties
<1>2. b \in Seq(Bytes) /\ Len(b) = n - r /\ \A i \in 1..(n - r) : b[i] = Text[r + i]
  <2>1. \A i \in (r + 1)..n : Text[i] \in Bytes
    BY <1>0
  <2>2. /\ b \in Seq(Bytes) /\ Len(b) = (IF r + 1 <= n THEN n - (r + 1) + 1 ELSE 0)
        /\ \A i \in 1..(n - (r + 1) + 1) : b[i] = Text[(r + 1) + i - 1]
    BY <2>1, SubSeqProperties
  <2>3. Len(b) = n - r
    BY <2>2
  <2>4. \A i \in 1..(n - r) : i \in 1..(n - (r + 1) + 1) /\ (r + 1) + i - 1 = r + i
    OBVIOUS
  <2> HIDE DEF b
  <2> QED BY <2>2, <2>3, <2>4
<1>3. c \in Seq(Bytes) /\ Len(c) = n /\ \A i \in 1..n : c[i] = Text[i]
  <2>1. \A i \in 1..n : Text[i] \in Bytes
    BY <1>0
  <2> QED BY <2>1, SubSeqProperties
<1> DEFINE A == Cl!Decoded(a)
           B == Cl!Decoded(b)
           C == Cl!Decoded(c)
           u == A \o B
<1> HIDE DEF a, b, c, Bytes
<1>4. /\ A \in Seq(Pieces) /\ Len(A) = r
      /\ \A i \in 1..r : A[i] = IF a[i] = "c" THEN "c"
                                ELSE IF a[i] = "h" /\ i < r /\ a[i + 1] = "t" THEN "ht"
                                ELSE IF a[i] = "t" /\ i > 1 /\ a[i - 1] = "h" THEN "" ELSE "?"
  BY <1>1, DecodedSeq DEF Bytes
<1>5. /\ B \in Seq(Pieces) /\ Len(B) = n - r
      /\ \A i \in 1..(n - r) : B[i] = IF b[i] = "c" THEN "c"
                                      ELSE IF b[i] = "h" /\ i < n - r /\ b[i + 1] = "t" THEN "ht"
                                      ELSE IF b[i] = "t" /\ i > 1 /\ b[i - 1] = "h" THEN "" ELSE "?"
  BY <1>2, DecodedSeq DEF Bytes
<1>6. /\ C \in Seq(Pieces) /\ Len(C) = n
      /\ \A i \in 1..n : C[i] = IF c[i] = "c" THEN "c"
                                ELSE IF c[i] = "h" /\ i < n /\ c[i + 1] = "t" THEN "ht"
                                ELSE IF c[i] = "t" /\ i > 1 /\ c[i - 1] = "h" THEN "" ELSE "?"
  BY <1>3, DecodedSeq DEF Bytes
<1> HIDE DEF A, B, C
<1>7. Joined(u, Pieces, A, B)
  BY <1>4, <1>5, Joins
<1> HIDE DEF u
<1>8. /\ u \in Seq(Pieces) /\ Len(u) = n
      /\ \A i \in 1..r : u[i] = A[i]
      /\ \A i \in 1..(n - r) : u[r + i] = B[i]
  <2>1. /\ u \in Seq(Pieces) /\ Len(u) = Len(A) + Len(B)
        /\ \A i \in 1..Len(A) : u[i] = A[i]
        /\ \A i \in 1..Len(B) : u[Len(A) + i] = B[i]
    BY <1>7 DEF Joined
  <2>2. Len(A) = r /\ Len(B) = n - r
    BY <1>4, <1>5
  <2>3. Len(u) = n
    BY <2>1, <2>2
  <2> QED BY <2>1, <2>2, <2>3
<1>9. ASSUME NEW i \in 1..r PROVE u[i] = C[i]
  <2>1. i \in 1..n /\ a[i] = Text[i] /\ c[i] = Text[i] /\ u[i] = A[i] /\ i < n
    BY <1>1, <1>3, <1>8
  <2>2. i > 1 => a[i - 1] = Text[i - 1] /\ c[i - 1] = Text[i - 1]
    BY <1>1, <1>3
  <2>3. CASE i < r
    <3>1. a[i + 1] = Text[i + 1] /\ c[i + 1] = Text[i + 1]
      BY <1>1, <1>3, <2>3
    <3> QED BY <1>4, <1>6, <2>1, <2>2, <2>3, <3>1
  <2>4. CASE i = r
    <3>1. Text[i] # "h"
      BY <2>4
    <3> QED BY <1>4, <1>6, <2>1, <2>2, <3>1
  <2> QED BY <2>3, <2>4
<1>10. ASSUME NEW j \in 1..(n - r) PROVE u[r + j] = C[r + j]
  <2> DEFINE i == r + j
  <2>0. i \in 1..n /\ (j < n - r <=> i < n) /\ i > r /\ i \in Nat
    OBVIOUS
  <2>1. b[j] = Text[i] /\ c[i] = Text[i] /\ u[i] = B[j]
    BY <1>2, <1>3, <1>8, <2>0
  <2> SUFFICES u[i] = C[i]
    OBVIOUS
  <2>2. j < n - r => b[j + 1] = Text[i + 1] /\ c[i + 1] = Text[i + 1]
    <3> SUFFICES ASSUME j < n - r PROVE b[j + 1] = Text[i + 1] /\ c[i + 1] = Text[i + 1]
      OBVIOUS
    <3>1. j + 1 \in 1..(n - r) /\ i + 1 \in 1..n /\ r + (j + 1) = i + 1
      OBVIOUS
    <3> HIDE DEF i
    <3> QED BY <1>2, <1>3, <3>1
  <2>3. CASE j > 1
    <3>1. j - 1 \in 1..(n - r) /\ i - 1 \in 1..n /\ r + (j - 1) = i - 1 /\ i > 1
      BY <2>3
    <3> HIDE DEF i
    <3>2. b[j - 1] = Text[i - 1] /\ c[i - 1] = Text[i - 1]
      BY <1>2, <1>3, <3>1
    <3> QED BY <1>5, <1>6, <2>0, <2>1, <2>2, <2>3, <3>1, <3>2
  <2>4. CASE j = 1
    <3>1. i > 1 => c[i - 1] # "h"
      <4> SUFFICES ASSUME i > 1 PROVE c[i - 1] # "h"
        OBVIOUS
      <4>1. i - 1 = r /\ r # 0 /\ r \in 1..n
        BY <2>0, <2>4
      <4> QED BY <1>3, <4>1
    <3> HIDE DEF i
    <3>2. B[j] = IF b[j] = "c" THEN "c"
                 ELSE IF b[j] = "h" /\ j < n - r /\ b[j + 1] = "t" THEN "ht"
                 ELSE IF b[j] = "t" /\ j > 1 /\ b[j - 1] = "h" THEN "" ELSE "?"
      BY <1>5
    <3>3. C[i] = IF c[i] = "c" THEN "c"
                 ELSE IF c[i] = "h" /\ i < n /\ c[i + 1] = "t" THEN "ht"
                 ELSE IF c[i] = "t" /\ i > 1 /\ c[i - 1] = "h" THEN "" ELSE "?"
      BY <1>6, <2>0
    <3>4. ~(j > 1)
      BY <2>4
    <3> QED BY <2>0, <2>1, <2>2, <3>1, <3>2, <3>3, <3>4
  <2> QED BY <2>3, <2>4
<1>11. \A i \in 1..n : u[i] = C[i]
  <2> SUFFICES ASSUME NEW i \in 1..n, ~(i \in 1..r) PROVE u[i] = C[i]
    BY <1>9
  <2>1. i - r \in 1..(n - r) /\ r + (i - r) = i
    OBVIOUS
  <2> QED BY <1>10, <2>1
<1>12. u = C
  BY <1>6, <1>8, <1>11, SeqEqual
<1> QED BY <1>12 DEF u, A, B, C, a, b, c

\* The invariant holds at the start.
LEMMA SvnCliStarts == Cl!Init => SvnCliInv
<1> SUFFICES ASSUME Cl!Init PROVE SvnCliInv
  OBVIOUS
<1>1. Len(Text) \in Nat
  BY SvnCliAssumption
<1>2. SubSeq(Text, 1, 0) = <<>>
  BY SubSeqEmpty
<1>3. Cl!Decoded(<<>>) = <<>>
  <2>1. <<>> \in Seq({"c", "h", "t"}) /\ Len(<<>>) = 0 /\ <<>> \in Seq(Pieces)
    OBVIOUS
  <2>2. Cl!Decoded(<<>>) \in Seq(Pieces) /\ Len(Cl!Decoded(<<>>)) = 0
    BY <2>1, DecodedSeq
  <2> QED BY <2>2
<1>4. <<>> \in Seq(Pieces)
  OBVIOUS
<1>5. SvnCliTypeOK
  <2>1. written = 0 /\ received = 0 /\ stdout = <<>> /\ 0 \in 0..Len(Text) /\ 0 \in 0..0
    BY <1>1 DEF Cl!Init
  <2>2. written \in 0..Len(Text) /\ received \in 0..written /\ stdout \in Seq(Pieces)
    BY <1>4, <2>1
  <2>3. /\ proc = "none" /\ code = "null" /\ effect = FALSE /\ timer = "cleared" /\ timedOut = FALSE
        /\ promise = "pending" /\ cut = FALSE
    BY DEF Cl!Init
  <2> QED BY <2>2, <2>3 DEF SvnCliTypeOK
<1>6. OutputRead
  <2>1. received = 0 /\ stdout = <<>> /\ ~(received \in 1..(Len(Text) - 1))
    BY <1>1 DEF Cl!Init
  <2>2. Cl!Decoded(SubSeq(Text, 1, received)) = <<>>
    BY <1>2, <1>3, <2>1
  <2> QED BY <2>1, <2>2 DEF OutputRead
<1> QED BY <1>5, <1>6 DEF Cl!Init, SvnCliInv, FateKnown

\* Every step keeps the invariant.
LEMMA SvnCliStep == SvnCliInv /\ [Cl!Next]_(Cl!vars) => SvnCliInv'
<1> SUFFICES ASSUME SvnCliInv, [Cl!Next]_(Cl!vars) PROVE SvnCliInv'
  OBVIOUS
<1>0. Len(Text) \in Nat
  BY SvnCliAssumption
<1> USE DEF SvnCliInv, SvnCliTypeOK, FateKnown
<1>s. ASSUME UNCHANGED <<received, stdout, cut>> PROVE OutputRead'
  BY <1>s DEF OutputRead
<1>1. ASSUME Cl!Refuse PROVE SvnCliInv'
  BY <1>0, <1>1, <1>s DEF Cl!Refuse
<1>2. ASSUME Cl!Spawn PROVE SvnCliInv'
  BY <1>0, <1>2, <1>s DEF Cl!Spawn
<1>3. ASSUME Cl!Write PROVE SvnCliInv'
  <2>1. written' = written + 1 /\ written < Len(Text) /\ written \in Nat /\ received \in 0..written
    BY <1>0, <1>3 DEF Cl!Write
  <2>2. written' \in 0..Len(Text) /\ received \in 0..written'
    BY <1>0, <2>1
  <2> QED BY <1>0, <1>3, <1>s, <2>2 DEF Cl!Write
<1>4. ASSUME Cl!Work \/ Cl!Timeout PROVE SvnCliInv'
  BY <1>0, <1>4, <1>s DEF Cl!Work, Cl!Timeout
<1>5. ASSUME Cl!Close PROVE SvnCliInv'
  BY <1>0, <1>5, <1>s DEF Cl!Close, Cl!ExitCode
<1>6. ASSUME NEW c \in {"0", "1", "null"}, Cl!End(c) PROVE SvnCliInv'
  BY <1>0, <1>6, <1>s DEF Cl!End
<1>7. ASSUME NEW n \in 1..Len(Text), Cl!Data(n) PROVE SvnCliInv'
  <2>1. /\ promise = "pending" /\ received < n /\ n <= written /\ received' = n
        /\ stdout' = stdout \o Cl!Decoded(SubSeq(Text, received + 1, n))
        /\ cut' = (cut \/ (n < Len(Text) /\ Text[n] = "h"))
        /\ UNCHANGED <<proc, code, effect, written, timer, timedOut, promise>>
    BY <1>7 DEF Cl!Data
  <2>2. n \in Nat /\ received \in Nat /\ received < Len(Text) /\ n <= Len(Text) /\ n \in 0..written
    BY <1>0, <2>1
  <2>3. stdout' \in Seq(Pieces)
    <3>1. \A i \in (received + 1)..n : Text[i] \in {"c", "h", "t"}
      BY <2>2, SvnCliAssumption
    <3>2. SubSeq(Text, received + 1, n) \in Seq({"c", "h", "t"})
      BY <2>2, <3>1, SubSeqProperties
    <3>3. Cl!Decoded(SubSeq(Text, received + 1, n)) \in Seq(Pieces)
      BY <3>2, DecodedSeq
    <3> QED BY <2>1, <3>3, ConcatProperties
  <2>4. OutputRead'
    <3> SUFFICES ASSUME ~cut'
                 PROVE  /\ stdout' = Cl!Decoded(SubSeq(Text, 1, n))
                        /\ n \in 1..(Len(Text) - 1) => Text[n] # "h"
      BY <2>1 DEF OutputRead, Cl!Decoded
    <3>1. ~cut /\ ~(n < Len(Text) /\ Text[n] = "h")
      BY <2>1
    <3>2. received = 0 \/ Text[received] # "h"
      BY <1>0, <2>2, <3>1 DEF OutputRead
    <3>3. stdout' = Cl!Decoded(SubSeq(Text, 1, n))
      BY <2>1, <2>2, <3>1, <3>2, DecodedInTurn DEF OutputRead
    <3> QED BY <1>0, <3>1, <3>3
  <2> QED BY <2>1, <2>2, <2>3, <2>4
<1>8. CASE UNCHANGED Cl!vars
  BY <1>0, <1>8, <1>s DEF Cl!vars
<1> QED BY <1>1, <1>2, <1>3, <1>4, <1>5, <1>6, <1>7, <1>8 DEF Cl!Next

\* The invariant of a command.
LEMMA SvnCliInductive == Cl!Spec => []SvnCliInv
<1> QED BY SvnCliStarts, SvnCliStep, PTL DEF Cl!Spec

\* A command that resolves has done its work in its time, and its caller has its whole
\* output, if no chunk ended within a character; one that rejects never ran, or was timed
\* out, or did not end well: for any text that a command writes.
THEOREM OutcomesTrue == Cl!Spec => []Cl!OutcomeTrue
<1>1. SvnCliInv => Cl!OutcomeTrue
  <2> SUFFICES ASSUME SvnCliInv PROVE Cl!OutcomeTrue
    OBVIOUS
  <2>1. SubSeq(Text, 1, Len(Text)) = Text
    BY SvnCliAssumption
  <2>2. promise = "resolved" => effect /\ ~timedOut /\ (~cut => stdout = Cl!Decoded(Text))
    BY <2>1 DEF SvnCliInv, SvnCliTypeOK, FateKnown, OutputRead
  <2>3. promise = "rejected" => (proc = "none" /\ ~effect) \/ timedOut \/ code # "0"
    BY DEF SvnCliInv, SvnCliTypeOK, FateKnown
  <2> QED BY <2>2, <2>3 DEF Cl!OutcomeTrue
<1> QED BY <1>1, SvnCliInductive, PTL

=============================================================================
