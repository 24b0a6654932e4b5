----------------------------- MODULE MutexProofs -----------------------------
(***************************************************************************)
(* The mutex of common/mutex.ts, for any number of callers: its types, its *)
(* accounting of owner and queue, and that it implements the lock it       *)
(* promises.  Each step is proved on its own, so that a module that uses   *)
(* Enter, Leave and Restart in its actions can cite the lemmas.            *)
(***************************************************************************)
EXTENDS Mutex, SequenceTheorems, TLAPS

MutexInv == MutexTypeOK /\ LockAccounted

\* The empty queue is a sequence of callers, and nobody is in it.
LEMMA EmptyQueue == <<>> \in Seq(Callers) /\ DOMAIN <<>> = {}
  BY EmptySeq

\* The mutex starts free.
LEMMA MutexInitInv == MutexInit => MutexInv
  BY EmptyQueue DEF MutexInit, MutexInv, MutexTypeOK, LockAccounted, Exclusive

\* acquire keeps the accounts: the caller gets the free section, or one place in
\* the queue of a section that is taken.
LEMMA EnterInv ==
  ASSUME MutexInv, NEW c \in Callers, Enter(c)
  PROVE  MutexInv'
<1> USE DEF MutexInv, MutexTypeOK
<1>1. CASE ~locked /\ locked' = TRUE /\ phase' = [phase EXCEPT ![c] = "in"] /\ waiting' = waiting
  <2>1. waiting = <<>>
    BY <1>1 DEF LockAccounted
  <2>2. MutexTypeOK'
    BY <1>1
  <2>3. \A d \in Callers : phase[d] # "in"
    BY <1>1 DEF LockAccounted
  <2>4. LockAccounted'
    BY <1>1, <2>1, <2>3, EmptyQueue DEF LockAccounted, Exclusive
  <2> QED BY <2>2, <2>4
<1>2. CASE locked /\ waiting' = Append(waiting, c) /\ phase' = [phase EXCEPT ![c] = "waiting"] /\ locked' = locked
  <2>1. phase[c] = "out" /\ \A i \in DOMAIN waiting : waiting[i] # c
    BY DEF Enter, LockAccounted
  <2>2. MutexTypeOK'
    BY <1>2
  <2>3. /\ Len(waiting') = Len(waiting) + 1
        /\ DOMAIN waiting = 1..Len(waiting) /\ DOMAIN waiting' = 1..Len(waiting')
        /\ \A i \in 1..Len(waiting) : waiting'[i] = waiting[i]
        /\ waiting'[Len(waiting')] = c
    BY <1>2
  <2>4. Exclusive' /\ (locked' <=> \E d \in Callers : phase'[d] = "in")
    BY <1>2, <2>1 DEF LockAccounted, Exclusive
  <2>5. \A d \in Callers : phase'[d] = "waiting" <=> \E i \in DOMAIN waiting' : waiting'[i] = d
    BY <1>2, <2>1, <2>3 DEF LockAccounted
  <2>6. \A i, j \in DOMAIN waiting' : waiting'[i] = waiting'[j] => i = j
    BY <2>1, <2>3 DEF LockAccounted
  <2> QED BY <1>2, <2>2, <2>4, <2>5, <2>6 DEF LockAccounted
<1> QED BY <1>1, <1>2 DEF Enter

\* release keeps them: the head of the queue leaves it as it gets the section.
LEMMA LeaveInv ==
  ASSUME MutexInv, NEW c \in Callers, Leave(c)
  PROVE  MutexInv'
<1> USE DEF MutexInv, MutexTypeOK
<1>1. CASE waiting = <<>> /\ locked' = FALSE /\ phase' = [phase EXCEPT ![c] = "out"] /\ waiting' = waiting
  <2>1. \A d \in Callers : phase'[d] = "out"
    BY <1>1 DEF Leave, LockAccounted, Exclusive
  <2> QED BY <1>1, <2>1, EmptyQueue DEF LockAccounted, Exclusive
<1>2. CASE /\ waiting # <<>>
           /\ phase' = [phase EXCEPT ![c] = "out", ![Head(waiting)] = "in"]
           /\ waiting' = Tail(waiting)
           /\ locked' = locked
  <2> DEFINE h == Head(waiting)
  <2>1. /\ Len(waiting) \in Nat /\ Len(waiting) >= 1
        /\ Len(waiting') = Len(waiting) - 1
        /\ DOMAIN waiting = 1..Len(waiting) /\ DOMAIN waiting' = 1..Len(waiting')
        /\ \A i \in 1..Len(waiting') : waiting'[i] = waiting[i + 1]
        /\ h = waiting[1]
        /\ waiting' \in Seq(Callers)
    BY <1>2
  <2>2. \A i \in DOMAIN waiting' : i + 1 \in DOMAIN waiting /\ waiting'[i] = waiting[i + 1]
    BY <2>1
  <2>3. h \in Callers /\ phase[h] = "waiting" /\ h # c
    BY <2>1 DEF Leave, LockAccounted
  <2>4. MutexTypeOK'
    BY <1>2, <2>1, <2>3
  <2>5. /\ phase'[h] = "in" /\ phase'[c] = "out"
        /\ \A d \in Callers \ {c, h} : phase'[d] = phase[d] /\ phase[d] # "in"
    BY <1>2, <2>3 DEF Leave, LockAccounted, Exclusive
  <2>6. Exclusive' /\ locked' /\ \E d \in Callers : phase'[d] = "in"
    BY <1>2, <2>3, <2>5 DEF LockAccounted, Exclusive
  <2>7. ASSUME NEW d \in Callers
        PROVE  phase'[d] = "waiting" <=> \E i \in DOMAIN waiting' : waiting'[i] = d
    <3>1. CASE d = h
      BY <2>1, <2>5, <3>1 DEF LockAccounted
    <3>2. CASE d = c
      <4>1. \A i \in DOMAIN waiting : waiting[i] # c
        BY DEF LockAccounted, Leave
      <4>2. \A i \in DOMAIN waiting' : waiting'[i] # c
        BY <2>2, <4>1
      <4> QED BY <2>5, <3>2, <4>2
    <3>3. CASE d \notin {c, h}
      <4>1. phase[d] = "waiting" <=> \E i \in DOMAIN waiting : waiting[i] = d
        BY DEF LockAccounted
      <4>2. ASSUME NEW i \in DOMAIN waiting, waiting[i] = d
            PROVE  i - 1 \in DOMAIN waiting' /\ waiting'[i - 1] = d
        BY <2>1, <3>3, <4>2
      <4>3. ASSUME NEW i \in DOMAIN waiting', waiting'[i] = d
            PROVE  i + 1 \in DOMAIN waiting /\ waiting[i + 1] = d
        BY <2>1, <4>3
      <4> QED BY <2>5, <3>3, <4>1, <4>2, <4>3
    <3> QED BY <3>1, <3>2, <3>3
  <2>8. \A i, j \in DOMAIN waiting' : waiting'[i] = waiting'[j] => i = j
    <3> SUFFICES ASSUME NEW i \in DOMAIN waiting', NEW j \in DOMAIN waiting',
                        waiting'[i] = waiting'[j]
                 PROVE  i = j
      OBVIOUS
    <3>1. waiting[i + 1] = waiting[j + 1] => i + 1 = j + 1
      BY <2>2 DEF LockAccounted
    <3>2. i \in Int /\ j \in Int
      BY <2>1
    <3> QED BY <2>2, <3>1, <3>2
  <2> QED BY <2>4, <2>6, <2>7, <2>8 DEF LockAccounted
<1> QED BY <1>1, <1>2 DEF Leave

\* A restart keeps them: the new process knows no callers.
LEMMA RestartInv ==
  ASSUME Restart
  PROVE  MutexInv'
  BY EmptyQueue DEF Restart, MutexInv, MutexTypeOK, LockAccounted, Exclusive

\* Whatever the callers do, the section has one owner, the lock is set exactly while
\* it has one, and the queue holds exactly those that wait.
THEOREM MutexCorrect == MutexSpec => [](MutexTypeOK /\ LockAccounted)
<1>1. MutexInv /\ [MutexNext]_mutexVars => MutexInv'
  <2> SUFFICES ASSUME MutexInv, [MutexNext]_mutexVars PROVE MutexInv'
    OBVIOUS
  <2>1. CASE \E c \in Callers : Enter(c)
    BY <2>1, EnterInv
  <2>2. CASE \E c \in Callers : Leave(c)
    BY <2>2, LeaveInv
  <2>3. CASE Restart
    BY <2>3, RestartInv
  <2>4. CASE UNCHANGED mutexVars
    BY <2>4 DEF MutexInv, MutexTypeOK, LockAccounted, Exclusive, mutexVars
  <2> QED BY <2>1, <2>2, <2>3, <2>4 DEF MutexNext
<1> QED BY MutexInitInv, <1>1, PTL DEF MutexSpec, MutexInv

-----------------------------------------------------------------------------

\* The caller that is inside is the owner of the promised lock.
LEMMA OwnerInside ==
  ASSUME MutexInv, NEW c \in Callers, phase[c] = "in"
  PROVE  Owner = c
  BY DEF MutexInv, LockAccounted, Exclusive, Owner

LEMMA OwnerInsideNext ==
  ASSUME MutexInv', NEW c \in Callers, phase'[c] = "in"
  PROVE  Owner' = c
  BY DEF MutexInv, LockAccounted, Exclusive, Owner

\* A free mutex has no owner, and nobody asks for it.
LEMMA FreeMutex ==
  ASSUME MutexInv, ~locked
  PROVE  Owner = Nobody /\ Asking = {}
<1>1. waiting = <<>>
  BY DEF MutexInv, LockAccounted
<1>2. \A c \in Callers : phase[c] # "in" /\ phase[c] # "waiting"
  BY <1>1, EmptyQueue DEF MutexInv, LockAccounted
<1> QED BY <1>2 DEF Owner, Asking

\* acquire is the Take or the Ask of the lock.
LEMMA EnterRefines ==
  ASSUME MutexInv, NEW c \in Callers, Enter(c)
  PROVE  Promise!Ask(c) \/ Promise!Take(c)
<1> USE DEF MutexInv, MutexTypeOK
<1>1. MutexInv'
  BY EnterInv
<1>2. CASE ~locked /\ phase' = [phase EXCEPT ![c] = "in"]
  <2>1. Owner = Nobody /\ Asking = {}
    BY <1>2, FreeMutex
  <2>2. Owner' = c
    BY <1>1, <1>2, OwnerInsideNext
  <2>3. Asking' = {}
    BY <1>2, <2>1 DEF Asking
  <2> QED BY <2>1, <2>2, <2>3 DEF Promise!Take
<1>3. CASE locked /\ phase' = [phase EXCEPT ![c] = "waiting"]
  <2>1. PICK d \in Callers : phase[d] = "in"
    BY <1>3 DEF LockAccounted
  <2>2. d # c /\ phase[c] = "out"
    BY <2>1 DEF Enter
  <2>3. Owner = d /\ Owner' = d
    BY <1>1, <1>3, <2>1, <2>2, OwnerInside, OwnerInsideNext
  <2>4. Asking' = Asking \cup {c} /\ c \notin Asking
    BY <1>3, <2>2 DEF Asking
  <2> QED BY <2>1, <2>2, <2>3, <2>4, MutexAssumption DEF Promise!Ask
<1> QED BY <1>2, <1>3 DEF Enter

\* release is the PassOn of the lock.
LEMMA LeaveRefines ==
  ASSUME MutexInv, NEW c \in Callers, Leave(c)
  PROVE  Promise!PassOn
<1> USE DEF MutexInv, MutexTypeOK
<1>1. MutexInv' /\ Owner = c /\ c # Nobody
  BY LeaveInv, OwnerInside, MutexAssumption DEF Leave
<1>2. CASE waiting = <<>> /\ phase' = [phase EXCEPT ![c] = "out"] /\ locked' = FALSE
  <2>1. \A d \in Callers : phase'[d] = "out"
    BY <1>2, EmptyQueue DEF Leave, LockAccounted, Exclusive
  <2>2. Asking = {} /\ Asking' = {}
    BY <1>2, <2>1, EmptyQueue DEF Asking, LockAccounted
  <2>3. Owner' = Nobody
    BY <2>1 DEF Owner
  <2> QED BY <1>1, <2>2, <2>3 DEF Promise!PassOn
<1>3. CASE waiting # <<>> /\ phase' = [phase EXCEPT ![c] = "out", ![Head(waiting)] = "in"]
  <2> DEFINE h == Head(waiting)
  <2>1. h = waiting[1] /\ 1 \in DOMAIN waiting
    BY <1>3
  <2>2. h \in Callers /\ phase[h] = "waiting" /\ h # c
    BY <2>1 DEF Leave, LockAccounted
  <2>3. phase'[h] = "in" /\ \A d \in Callers \ {c, h} : phase'[d] = phase[d]
    BY <1>3, <2>2
  <2>4. Owner' = h
    BY <1>1, <2>2, <2>3, OwnerInsideNext
  <2>5. Asking' = Asking \ {h} /\ h \in Asking
    BY <1>3, <2>2, <2>3 DEF Asking, Leave
  <2> QED BY <1>1, <2>4, <2>5 DEF Promise!PassOn
<1> QED BY <1>2, <1>3 DEF Leave

\* The mutex, with its flag and its queue, is the lock it promises to be.
THEOREM MutexImplementsLock == MutexSpec => ImplementsLock
<1>1. MutexInit => Promise!LockInit
  BY DEF MutexInit, Owner, Asking, Promise!LockInit
<1>2. MutexInv /\ MutexInv' /\ [MutexNext]_mutexVars => [Promise!LockNext]_(Promise!lockVars)
  <2> SUFFICES ASSUME MutexInv, [MutexNext]_mutexVars
               PROVE  [Promise!LockNext]_(Promise!lockVars)
    OBVIOUS
  <2>1. CASE \E c \in Callers : Enter(c)
    BY <2>1, EnterRefines DEF Promise!LockNext
  <2>2. CASE \E c \in Callers : Leave(c)
    BY <2>2, LeaveRefines DEF Promise!LockNext
  <2>3. CASE Restart
    BY <2>3 DEF Restart, Owner, Asking, Promise!LockNext, Promise!Empty
  <2>4. CASE UNCHANGED mutexVars
    BY <2>4 DEF mutexVars, Owner, Asking, Promise!lockVars
  <2> QED BY <2>1, <2>2, <2>3, <2>4 DEF MutexNext
<1>3. MutexSpec => []MutexInv
  BY MutexCorrect DEF MutexInv
<1> QED BY <1>1, <1>2, <1>3, PTL DEF MutexSpec, ImplementsLock, Promise!LockSpec

=============================================================================
