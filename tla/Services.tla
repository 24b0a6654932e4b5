------------------------------ MODULE Services ------------------------------
(***************************************************************************)
(* The services beside the repositories: accounts, access, issues,         *)
(* avatars, backups, deliveries and the processes of Subversion.  They     *)
(* share no state: a behaviour is about one of them (see MCPlatform), and  *)
(* a variable that several modules declare under one name stands for what  *)
(* the one of the behaviour keeps in it.                                   *)
(***************************************************************************)
EXTENDS Mutex, ServiceParameters

CONSTANTS
  MaxFaults,
  \* Accounts
  Admins, Directory, MaxStarts,
  \* Access
  Teams, MaxRules, MaxChanges,
  \* Issues
  Clients, Labels, Merges, MaxRequests,
  \* Avatars
  Forms, MaxRemovals, MaxStops,
  \* Backups
  NoRepo, Attempts, MaxJobs, MaxBackupFaults,
  \* Deliveries
  Hooks, Mentionable, QueueAttempts, Workers, MaxEvents, MaxCrashes

VARIABLES
  faults,
  \* Accounts, with the mutex around the file
  account, session, htpasswd, job, fresh, starts, section, excused,
  \* Access
  admin, active, member, team, born, squad, link, rules, dying, reviewed, commits, changes,
  \* Issues
  issue, label, call, announced, requests, asked, calm, undone, beaten,
  \* Avatars
  file, url, clock, request, cache, removed, stops,
  \* Backups
  repos, rows, keep, health, queue, work, jobs, had, spoiled, forsaken,
  \* Deliveries
  events, inbox, arrived, owed, spent,
  \* SvnCli
  proc, code, effect, written, received, stdout, timer, timedOut, promise, cut

Ac == INSTANCE Accounts
Ax == INSTANCE Access
Is == INSTANCE Issues
Av == INSTANCE Avatars
Ba == INSTANCE Backups WITH MaxFaults <- MaxBackupFaults
De == INSTANCE Deliveries WITH
        Users <- Mentionable, Attempts <- QueueAttempts, MaxFaults <- MaxCrashes
Cl == INSTANCE SvnCli

=============================================================================
