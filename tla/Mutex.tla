-------------------------------- MODULE Mutex --------------------------------
(***************************************************************************)
(* withMutex of common/mutex.ts: the one mutex of the API's process, which *)
(* serialises the writers of the authz and the htpasswd file.  acquire and *)
(* release run without an await; a release hands the section to the caller *)
(* that has waited longest and leaves `locked` set.  Both variables live   *)
(* in the memory of the process: a restart clears them.                    *)
(***************************************************************************)
EXTENDS Naturals, Sequences

CONSTANTS
  Callers,  \* calls of withMutex
  Nobody    \* the section is empty

ASSUME MutexAssumption == Nobody \notin Callers

VARIABLES
  locked,   \* locked
  waiting,  \* queue: the callers whose promise is not resolved yet
  phase     \* phase[c]: "out", "waiting" or "in"

mutexVars == <<locked, waiting, phase>>

MutexInit ==
  /\ locked = FALSE
  /\ waiting = <<>>
  /\ phase = [c \in Callers |-> "out"]

\* A plausible slip: `locked` is set but never looked at.
EnterUnchecked(c) ==
  /\ phase[c] = "out"
  /\ locked' = TRUE
  /\ phase' = [phase EXCEPT ![c] = "in"]
  /\ UNCHANGED waiting

\* acquire: the section if it is free, else a place at the end of the queue.
Enter(c) ==
  /\ phase[c] = "out"
  /\ \/ /\ ~locked
        /\ locked' = TRUE
        /\ phase' = [phase EXCEPT ![c] = "in"]
        /\ UNCHANGED waiting
     \/ /\ locked
        /\ waiting' = Append(waiting, c)
        /\ phase' = [phase EXCEPT ![c] = "waiting"]
        /\ UNCHANGED locked

\* A plausible slip: the section is freed, and nobody in the queue is woken.
LeaveForgets(c) ==
  /\ phase[c] = "in"
  /\ locked' = FALSE
  /\ phase' = [phase EXCEPT ![c] = "out"]
  /\ UNCHANGED waiting

\* A plausible slip: the lock is freed although the section is handed on.
LeaveUnlocks(c) ==
  /\ phase[c] = "in"
  /\ locked' = FALSE
  /\ IF waiting = <<>>
     THEN phase' = [phase EXCEPT ![c] = "out"] /\ UNCHANGED waiting
     ELSE /\ phase' = [phase EXCEPT ![c] = "out", ![Head(waiting)] = "in"]
          /\ waiting' = Tail(waiting)

\* release, which the finally block calls however the section ends.
Leave(c) ==
  /\ phase[c] = "in"
  /\ \/ /\ waiting # <<>>
        /\ phase' = [phase EXCEPT ![c] = "out", ![Head(waiting)] = "in"]
        /\ waiting' = Tail(waiting)
        /\ UNCHANGED locked
     \/ /\ waiting = <<>>
        /\ locked' = FALSE
        /\ phase' = [phase EXCEPT ![c] = "out"]
        /\ UNCHANGED waiting

\* The process ends; the next one starts with a free mutex.
Restart ==
  /\ locked' = FALSE
  /\ waiting' = <<>>
  /\ phase' = [c \in Callers |-> "out"]

MutexNext == (\E c \in Callers : Enter(c) \/ Leave(c)) \/ Restart

MutexSpec == MutexInit /\ [][MutexNext]_mutexVars

-----------------------------------------------------------------------------

MutexTypeOK ==
  /\ locked \in BOOLEAN
  /\ waiting \in Seq(Callers)
  /\ phase \in [Callers -> {"out", "waiting", "in"}]

Exclusive == \A c, d \in Callers : phase[c] = "in" /\ phase[d] = "in" => c = d

\* The lock is set exactly while somebody is inside; those who wait are exactly
\* those in the queue, once each, and only while the lock is set: nobody is
\* forgotten, and nobody is woken twice.
LockAccounted ==
  /\ Exclusive
  /\ locked <=> \E c \in Callers : phase[c] = "in"
  /\ \A c \in Callers : phase[c] = "waiting" <=> \E i \in DOMAIN waiting : waiting[i] = c
  /\ \A i, j \in DOMAIN waiting : waiting[i] = waiting[j] => i = j
  /\ waiting # <<>> => locked

\* The caller inside, and those that wait, as the lock that is promised sees them.
Owner == IF \E c \in Callers : phase[c] = "in"
         THEN CHOOSE c \in Callers : phase[c] = "in" ELSE Nobody
Asking == {c \in Callers : phase[c] = "waiting"}

Promise == INSTANCE Lock WITH owner <- Owner, asking <- Asking

\* The mutex with its hand-over implements the lock: exclusion, and the section is
\* never left empty while somebody waits.
ImplementsLock == Promise!LockSpec

=============================================================================
