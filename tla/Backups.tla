------------------------------- MODULE Backups -------------------------------
(***************************************************************************)
(* Backups and verification: BackupsService, the retention, and the queue  *)
(* whose only worker runs the jobs one at a time (BackupQueueService).     *)
(*                                                                         *)
(* A job is tried twice.  One that was running when the process stopped is *)
(* put back once (the stalled jobs of BullMQ) and starts over with rows of *)
(* its own.                                                                *)
(***************************************************************************)
EXTENDS Naturals, FiniteSets, SequencesExt, FiniteSetsExt

CONSTANTS
  Repos,
  NoRepo,    \* a job for all of them
  Attempts,  \* attempts of the queue
  MaxJobs,   \* bound: jobs added
  MaxFaults  \* bound: failures, crashes, removals and changes of the settings

VARIABLES
  repos,   \* the repositories there are
  rows,    \* the rows of RepositoryBackup, oldest first, deleted ones included
  keep,    \* backupRetentionCount
  health,  \* health[r]: the status of RepositoryHealth
  queue,   \* the jobs that wait
  work,    \* what the worker does
  jobs, faults,
  had,     \* history: repositories with a successful backup so far
  spoiled, \* history: repositories for which the end of a backup failed
  forsaken \* history: repositories whose verification was given up on, and has not begun again

history == <<had, spoiled, forsaken>>
vars == <<repos, rows, keep, health, queue, work, jobs, faults, history>>

NoJob == [name |-> "none", repo |-> NoRepo, tries |-> 0, stalled |-> FALSE]
Resting == [job |-> NoJob, step |-> "idle", todo |-> <<>>, doomed |-> {}]

Init ==
  /\ repos = Repos
  /\ rows = <<>>
  /\ keep = 1
  /\ health = [r \in Repos |-> "UNKNOWN"]
  /\ queue = <<>>
  /\ work = Resting
  /\ jobs = 0 /\ faults = 0
  /\ had = {} /\ spoiled = {} /\ forsaken = {}

Fault == faults < MaxFaults /\ faults' = faults + 1
At(s) == work.step = s
GoTo(s) == work' = [work EXCEPT !.step = s]
Repo == Head(work.todo)
Successes(r) == {i \in DOMAIN rows : rows[i].repo = r /\ rows[i].status = "SUCCESS"}

-----------------------------------------------------------------------------
(***************************************************************************)
(* The queue.                                                              *)
(***************************************************************************)

\* enqueueHotcopy, enqueueVerify, and the two schedules of syncRepeatableJobs.
Enqueue(name, r) ==
  /\ jobs < MaxJobs
  /\ jobs' = jobs + 1
  /\ queue' = Append(queue, [NoJob EXCEPT !.name = name, !.repo = r])
  /\ UNCHANGED <<repos, rows, keep, health, work, faults, history>>

\* The worker takes the next job; a job for all lists the repositories, in any order.
TakeJob ==
  /\ At("idle") /\ queue # <<>>
  /\ LET job == Head(queue) IN
     \E todo \in IF job.name \in {"hotcopy-all", "verify-all"}
                 THEN SetToSeqs(repos) ELSE {<<job.repo>>} :
       work' = [job |-> job, step |-> "next", todo |-> todo, doomed |-> {}]
  /\ queue' = Tail(queue)
  /\ UNCHANGED <<repos, rows, keep, health, jobs, faults, history>>

\* A job that verifies r.
Verifies(job, r) == job.name = "verify-all" \/ (job.name = "verify-repo" /\ job.repo = r)

\* The queue gives a job up.
GiveUp(job) ==
  /\ UNCHANGED queue
  /\ forsaken' = forsaken \cup {r \in Repos : Verifies(job, r)}

\* The processor throws: once more, at the end of the queue, or never again.
Throw(job) ==
  /\ work' = Resting
  /\ IF job.tries + 1 < Attempts
     THEN queue' = Append(queue, [job EXCEPT !.tries = @ + 1]) /\ UNCHANGED forsaken
     ELSE GiveUp(job)

EndJob ==
  /\ At("next") /\ work.todo = <<>>
  /\ work' = Resting
  /\ UNCHANGED <<repos, rows, keep, health, queue, jobs, faults, history>>

\* The process stops and starts.
Crash ==
  /\ ~At("idle")
  /\ Fault
  /\ work' = Resting
  /\ IF work.job.stalled
     THEN GiveUp(work.job)
     ELSE queue' = <<[work.job EXCEPT !.stalled = TRUE]>> \o queue /\ UNCHANGED forsaken
  /\ UNCHANGED <<repos, rows, keep, health, jobs, had, spoiled>>

\* updateSettings, and a repository removed with its rows.
SetKeep(n) ==
  /\ n # keep
  /\ Fault
  /\ keep' = n
  /\ UNCHANGED <<repos, rows, health, queue, work, jobs, history>>

RemoveRepository(r) ==
  /\ r \in repos
  /\ Fault
  /\ repos' = repos \ {r}
  /\ rows' = [i \in DOMAIN rows |-> IF rows[i].repo = r THEN [rows[i] EXCEPT !.status = "gone"] ELSE rows[i]]
  /\ health' = [health EXCEPT ![r] = "UNKNOWN"]
  /\ UNCHANGED <<keep, queue, work, jobs, history>>

-----------------------------------------------------------------------------
(***************************************************************************)
(* runHotcopy, for the repository whose turn it is.                        *)
(***************************************************************************)

Copying == work.job.name \in {"hotcopy-all", "hotcopy-repo"}
Newest(r) == Max({i \in DOMAIN rows : rows[i].repo = r})

\* The repository has been removed since the job was added, or one of the queries before
\* the hotcopy or the verification fails: the job fails.
NotStarted ==
  /\ At("next") /\ work.todo # <<>>
  /\ IF Repo \in repos THEN Fault ELSE UNCHANGED faults
  /\ Throw(work.job)
  /\ UNCHANGED <<repos, rows, keep, health, jobs, had, spoiled>>

StartHotcopy ==
  /\ At("next") /\ work.todo # <<>> /\ Copying
  /\ Repo \in repos
  /\ rows' = Append(rows, [repo |-> Repo, status |-> "RUNNING", there |-> FALSE])
  /\ GoTo("copy")
  /\ UNCHANGED <<repos, keep, health, queue, jobs, faults, history>>

\* svnadmin hotcopy, the size of the copy, and the row.
Hotcopied ==
  /\ At("copy") /\ Repo \in repos
  /\ rows' = [rows EXCEPT ![Newest(Repo)] = [@ EXCEPT !.status = "SUCCESS", !.there = TRUE]]
  /\ GoTo("retain")
  /\ had' = had \cup {Repo}
  /\ UNCHANGED <<repos, keep, health, queue, jobs, faults, spoiled, forsaken>>

\* The catch: FAILED, also when what failed comes after SUCCESS (the audit entry, the
\* retention).  That update may fail as well, as it does for a row that is gone; the job
\* fails all the same.
HotcopyFails ==
  /\ work.step \in {"copy", "retain", "remove", "forget"}
  /\ IF Repo \in repos THEN Fault ELSE UNCHANGED faults
  /\ \/ Repo \in repos /\ rows' = [rows EXCEPT ![Newest(Repo)].status = "FAILED"]
     \/ UNCHANGED rows
  /\ Throw(work.job)
  /\ spoiled' = IF At("copy") THEN spoiled ELSE spoiled \cup {Repo}
  /\ UNCHANGED <<repos, keep, health, jobs, had>>

\* A plausible slip: the oldest are kept.
SelectOldest(S, n) == S \ {i \in S : Cardinality({j \in S : j < i}) < n}

\* selectBackupsForRetention.
SelectBackups(S, n) == S \ {i \in S : Cardinality({j \in S : j > i}) < n}

\* applyRetention: the setting and the successful backups as they are now.
StartRetention ==
  /\ At("retain") /\ Repo \in repos
  /\ work' = [work EXCEPT !.step = "remove", !.doomed = SelectBackups(Successes(Repo), keep)]
  /\ UNCHANGED <<repos, rows, keep, health, queue, jobs, faults, history>>

\* Oldest first: the directory, and then its row.
RemoveBackup ==
  /\ At("remove") /\ work.doomed # {}
  /\ rows' = [rows EXCEPT ![Min(work.doomed)].there = FALSE]
  /\ GoTo("forget")
  /\ UNCHANGED <<repos, keep, health, queue, jobs, faults, history>>

ForgetBackup ==
  /\ At("forget") /\ Repo \in repos
  /\ rows' = [rows EXCEPT ![Min(work.doomed)].status = "gone"]
  /\ work' = [work EXCEPT !.step = "remove", !.doomed = @ \ {Min(@)}]
  /\ UNCHANGED <<repos, keep, health, queue, jobs, faults, history>>

EndHotcopy ==
  /\ At("remove") /\ work.doomed = {}
  /\ work' = [work EXCEPT !.step = "next", !.todo = Tail(@)]
  /\ UNCHANGED <<repos, rows, keep, health, queue, jobs, faults, history>>

-----------------------------------------------------------------------------
(***************************************************************************)
(* runVerify, for the repository whose turn it is.                         *)
(***************************************************************************)

StartVerify ==
  /\ At("next") /\ work.todo # <<>> /\ ~Copying
  /\ Repo \in repos
  /\ health' = [health EXCEPT ![Repo] = "VERIFYING"]
  /\ GoTo("verify")
  /\ forsaken' = forsaken \ {Repo}
  /\ UNCHANGED <<repos, rows, keep, queue, jobs, faults, had, spoiled>>

\* A plausible slip: the catch only logs.
VerifiedOrLogged ==
  /\ At("verify") /\ Repo \in repos
  /\ \/ health' = [health EXCEPT ![Repo] = "HEALTHY"]
     \/ UNCHANGED health
  /\ work' = [work EXCEPT !.step = "next", !.todo = Tail(@)]
  /\ UNCHANGED <<repos, rows, keep, queue, jobs, faults, history>>

\* svnadmin verify; that the audit entry of a good one fails makes it UNHEALTHY too.
Verified ==
  /\ At("verify") /\ Repo \in repos
  /\ \E status \in {"HEALTHY", "UNHEALTHY"} : health' = [health EXCEPT ![Repo] = status]
  /\ work' = [work EXCEPT !.step = "next", !.todo = Tail(@)]
  /\ UNCHANGED <<repos, rows, keep, queue, jobs, faults, history>>

\* The catch throws too: its update fails, and the row stays as it is, VERIFYING or already
\* HEALTHY; its audit entry fails, after the update; or the row is gone with its repository.
VerifyFails ==
  /\ At("verify")
  /\ \/ /\ Repo \in repos /\ Fault
        /\ \E status \in {"VERIFYING", "HEALTHY", "UNHEALTHY"} : health' = [health EXCEPT ![Repo] = status]
     \/ Repo \notin repos /\ UNCHANGED <<health, faults>>
  /\ Throw(work.job)
  /\ UNCHANGED <<repos, rows, keep, jobs, had, spoiled>>

Next ==
  \/ \E r \in Repos : \/ \E name \in {"hotcopy-repo", "verify-repo"} : Enqueue(name, r)
                      \/ RemoveRepository(r)
  \/ \E name \in {"hotcopy-all", "verify-all"} : Enqueue(name, NoRepo)
  \/ \E n \in 1..2 : SetKeep(n)
  \/ TakeJob \/ EndJob \/ Crash \/ NotStarted
  \/ StartHotcopy \/ Hotcopied \/ HotcopyFails
  \/ StartRetention \/ RemoveBackup \/ ForgetBackup \/ EndHotcopy
  \/ StartVerify \/ Verified \/ VerifyFails

Spec == Init /\ [][Next]_vars

-----------------------------------------------------------------------------

\* A repository that was ever backed up has a backup to go back to: the newest
\* successful one is on disk, whatever crashes and failures there are between, unless
\* what follows a hotcopy in its own job (the audit entry, the retention) fails.
LatestBackupKept ==
  \A r \in (had \cap repos) \ spoiled : Successes(r) # {} /\ rows[Max(Successes(r))].there

\* "Job em andamento": a repository is shown as VERIFYING only while a job that verifies
\* it runs or waits to run again, whatever is removed, set, stopped or failing between.  The
\* exception is a verification that the queue gave up on (its last attempt threw, because
\* the catch of runVerify or what comes before it failed, or the process stopped a second
\* time under it): then VERIFYING may stay until another verification of the repository
\* begins.
VerifyingIsUnderWay ==
  \A r \in repos \ forsaken : health[r] = "VERIFYING" =>
    \E job \in ToSet(queue) \cup {work.job} : Verifies(job, r)

=============================================================================
