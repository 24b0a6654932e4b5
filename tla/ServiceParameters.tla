-------------------------- MODULE ServiceParameters --------------------------
(***************************************************************************)
(* Those parameters of the services of module Services that a proof asks   *)
(* something of, and what it asks.                                         *)
(***************************************************************************)
EXTENDS Naturals, FiniteSets, Sequences

CONSTANTS
  Users,
  Creator,      \* the administrator who has created the repository
  NoRole,       \* no RepoMember, no GroupMember, no RepoTeam
  MaxAttempts,  \* attempts of a creation of an issue to get a number
  MaxNumber,    \* bound: issues
  MaxUploads,   \* bound: pictures
  Repos,        \* repositories to back up
  Smtp,         \* SMTP_ENABLED
  Text          \* what a command of Subversion writes (see SvnCli)

\* There is an account.
ASSUME AccountsAssumption == Users # {}

\* Who has created the repository has an account, and no role is none.
ASSUME AccessAssumption ==
  Creator \in Users /\ NoRole \notin {"READER", "DEVELOPER", "MAINTAINER", "OWNER", "MEMBER", "ADMIN"}

\* A creation is tried, and numbers are given, a natural number of times.
ASSUME IssuesAssumption == MaxAttempts \in Nat /\ MaxNumber \in Nat

ASSUME AvatarsAssumption == MaxUploads \in Nat

\* The directory of repositories is finite.
ASSUME BackupsAssumption == IsFiniteSet(Repos)

ASSUME DeliveriesAssumption == Smtp \in BOOLEAN

ASSUME SvnCliAssumption == Text \in Seq({"c", "h", "t"})

=============================================================================
