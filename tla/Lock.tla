--------------------------------- MODULE Lock ---------------------------------
(***************************************************************************)
(* What common/mutex.ts promises to the code that calls withMutex: at most *)
(* one caller at a time is inside, nobody enters without having asked, and *)
(* a restart of the process empties the section.                           *)
(***************************************************************************)

CONSTANTS
  Callers,
  Nobody   \* the section is empty; not a caller

VARIABLES
  owner,   \* the caller inside
  asking   \* the callers that have asked and are not inside yet

lockVars == <<owner, asking>>

LockInit == owner = Nobody /\ asking = {}

\* A caller asks while another is inside.
Ask(c) ==
  /\ owner # Nobody
  /\ c \notin asking \cup {owner}
  /\ asking' = asking \cup {c}
  /\ UNCHANGED owner

\* A caller finds the section empty.
Take(c) ==
  /\ owner = Nobody
  /\ owner' = c
  /\ UNCHANGED asking

\* The caller inside leaves, and another one that has asked enters, if there is one.
PassOn ==
  /\ owner # Nobody
  /\ \/ asking = {} /\ owner' = Nobody /\ UNCHANGED asking
     \/ owner' \in asking /\ asking' = asking \ {owner'}

Empty == owner' = Nobody /\ asking' = {}

LockNext ==
  \/ \E c \in Callers : Ask(c) \/ Take(c)
  \/ PassOn
  \/ Empty

LockSpec == LockInit /\ [][LockNext]_lockVars

=============================================================================
