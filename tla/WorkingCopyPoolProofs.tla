------------------------ MODULE WorkingCopyPoolProofs ------------------------
(***************************************************************************)
(* For any number of requests, directories and overlapping evictions, and  *)
(* any bounds: the pool keeps within its bound, and until an eviction puts *)
(* back an array that another one has replaced, no working copy is lent    *)
(* twice, none is lent and on offer at once, and none is removed in use.   *)
(***************************************************************************)
EXTENDS WorkingCopyPool, SequenceTheorems, WellFoundedInduction, TLAPS

\* Entries are pushed as they are released: those not used for longest come first.
Sorted == \A i, j \in DOMAIN bucket : i < j => lastUsed[bucket[i]] <= lastUsed[bucket[j]]

\* A request holds a copy from its acquire to the end of its finally block.
LoanPhases == \A b \in Borrowers : holder[b].phase = "idle" <=> holder[b].copy = NoCopy

\* Copies in the pool or in use have been made, so mkdtemp does not make them again.
Made == \A w \in Copies : dir[w] = "none" => ~InBucket(w) /\ \A b \in Borrowers : ~Holds(b, w)

\* What an eviction waits for is on its way out.  One that walks over the array in the Map
\* has passed stale entries only, so it keeps nothing before its end; one whose array has
\* been replaced finds the copies lent since used after it started.
Treads(x, dirs, loans, used, now) ==
  /\ x.now <= now
  /\ x.alias => x.kept = <<>>
  /\ x.rm # NoCopy => dirs[x.rm] \in {"removing", "gone"}
  /\ \A i \in DOMAIN x.old :
       /\ dirs[x.old[i]] # "none"
       /\ \A b \in Borrowers : loans[b].copy = x.old[i] => x.now <= used[x.old[i]]

Walk == \A e \in Evictions : Treads(evict[e], dir, holder, lastUsed, clock)

\* What an eviction is made of.
Walks == [on : BOOLEAN, now : Nat, rm : Copies \cup {NoCopy}, next : Nat,
          kept : Seq(Copies), alias : BOOLEAN, old : Seq(Copies)]

\* No array is longer than the pool may be, and an eviction keeps no more than it has passed.
AtMost ==
  /\ Len(bucket) <= MaxPoolSize
  /\ \A e \in Evictions :
       /\ evict[e].next >= 1
       /\ Len(evict[e].kept) + 1 <= evict[e].next
       /\ evict[e].next <= MaxPoolSize + 1
       /\ Len(evict[e].old) <= MaxPoolSize

\* What holds of every state, whatever evictions overlap.
Base == TypeOK /\ LoanPhases /\ AtMost

Bounded == Len(bucket) <= MaxPoolSize /\ OfferedOnce

\* What holds as well until an old array is put back.
Kept == TypeOK /\ Sorted /\ LoanPhases /\ Made /\ Walk /\ LentOnce /\ Bounded

IInv == Base /\ (putBack \/ Kept)

-----------------------------------------------------------------------------

\* What is left of an array when its last entry is popped.
LEMMA FrontOf ==
  ASSUME NEW S, NEW s \in Seq(S), s # <<>>
  PROVE  LET f == SubSeq(s, 1, Len(s) - 1) IN
         /\ f \in Seq(S)
         /\ Len(f) = Len(s) - 1
         /\ \A i \in DOMAIN f : i \in DOMAIN s /\ f[i] = s[i] /\ i < Len(s)
         /\ s[Len(s)] \in S /\ Len(s) \in DOMAIN s
<1> DEFINE n == Len(s) - 1
<1>1. Len(s) \in Nat /\ Len(s) > 0 /\ DOMAIN s = 1..Len(s) /\ \A i \in 1..Len(s) : s[i] \in S
  OBVIOUS
<1>2. n \in Nat /\ \A i \in 1..n : s[i] \in S
  BY <1>1
<1> HIDE DEF n
<1>3. /\ SubSeq(s, 1, n) \in Seq(S)
      /\ Len(SubSeq(s, 1, n)) = IF 1 <= n THEN n - 1 + 1 ELSE 0
      /\ \A i \in 1..(n - 1 + 1) : SubSeq(s, 1, n)[i] = s[1 + i - 1]
  BY <1>2, SubSeqProperties
<1> DEFINE f == SubSeq(s, 1, n)
<1> HIDE DEF f
<1>4. f \in Seq(S) /\ Len(f) = n /\ \A i \in 1..n : f[i] = s[i]
  BY <1>2, <1>3 DEF f
<1>5. DOMAIN f = 1..n
  BY <1>4
<1> QED BY <1>1, <1>4, <1>5 DEF f, n

\* What an eviction puts back: the array from its next index on.
LEMMA RestOf ==
  ASSUME NEW S, NEW s \in Seq(S), NEW n \in Nat, n >= 1
  PROVE  LET f == SubSeq(s, n, Len(s)) IN
         /\ f \in Seq(S)
         /\ Len(f) <= Len(s)
         /\ \A i \in DOMAIN f : i + n - 1 \in DOMAIN s /\ f[i] = s[i + n - 1]
<1> DEFINE f == SubSeq(s, n, Len(s))
<1>1. Len(s) \in Nat /\ DOMAIN s = 1..Len(s) /\ \A i \in 1..Len(s) : s[i] \in S
  OBVIOUS
<1>2. \A i \in n..Len(s) : s[i] \in S
  BY <1>1
<1>3. /\ f \in Seq(S)
      /\ Len(f) = IF n <= Len(s) THEN Len(s) - n + 1 ELSE 0
      /\ \A i \in 1..(Len(s) - n + 1) : f[i] = s[n + i - 1]
  BY <1>1, <1>2, SubSeqProperties
<1> HIDE DEF f
<1>4. DOMAIN f = 1..Len(f)
  BY <1>3
<1>5. Len(f) <= Len(s)
  BY <1>1, <1>3
<1>6. ASSUME NEW i \in DOMAIN f PROVE i + n - 1 \in DOMAIN s /\ f[i] = s[i + n - 1]
  <2>1. i \in 1..(Len(s) - n + 1)
    BY <1>1, <1>3, <1>4
  <2> QED BY <1>1, <1>3, <2>1
<1> QED BY <1>3, <1>5, <1>6 DEF f

\* What release makes of the array.
LEMMA PushedOn ==
  ASSUME NEW S, NEW s \in Seq(S), NEW w \in S
  PROVE  LET f == Append(s, w) IN
         /\ f \in Seq(S)
         /\ Len(f) = Len(s) + 1
         /\ \A i \in DOMAIN f : \/ i \in DOMAIN s /\ f[i] = s[i] /\ i <= Len(s)
                                \/ i = Len(s) + 1 /\ f[i] = w
<1>1. Len(s) \in Nat /\ DOMAIN s = 1..Len(s)
  OBVIOUS
<1> DEFINE f == Append(s, w)
<1>2. /\ f \in Seq(S) /\ Len(f) = Len(s) + 1
      /\ \A i \in 1..Len(s) : f[i] = s[i]
      /\ f[Len(s) + 1] = w
  BY AppendProperties
<1> HIDE DEF f
<1>3. DOMAIN f = 1..(Len(s) + 1)
  BY <1>2
<1> QED BY <1>1, <1>2, <1>3 DEF f

-----------------------------------------------------------------------------

\* Of some numbers, Min is the least.
LEMMA LeastOf ==
  ASSUME NEW T \in SUBSET Nat, T # {}
  PROVE  Min(T) \in T /\ \A j \in T : Min(T) <= j
<1>1. PICK m \in T : \A n \in T : ~(<<n, m>> \in OpToRel(<, Nat))
  BY NatLessThanWellFounded, WFMin
<1>2. \A n \in T : m <= n
  <2> SUFFICES ASSUME NEW n \in T PROVE m <= n
    OBVIOUS
  <2>1. ~(n < m)
    BY <1>1 DEF OpToRel
  <2> QED BY <2>1
<1> QED BY <1>2 DEF Min

\* The next entry an eviction removes is one of its array, stale for it; what it keeps is
\* what it passes before.
LEMMA NextOf ==
  ASSUME Base, NEW e \in Evictions, StaleFrom(e) # {}
  PROVE  LET a == Entries(e)
             i == Min(StaleFrom(e))
             kept == evict[e].kept \o SubSeq(a, evict[e].next, i - 1)
         IN /\ a \in Seq(Copies) /\ Len(a) <= MaxPoolSize
            /\ i \in DOMAIN a /\ a[i] \in Copies /\ i \in Nat /\ evict[e].next <= i /\ i <= Len(a)
            /\ evict[e].now > lastUsed[a[i]] + Timeout
            /\ kept \in Seq(Copies) /\ Len(kept) + 1 <= i
<1> DEFINE a == Entries(e)
           T == StaleFrom(e)
           n == evict[e].next
           kept == evict[e].kept
<1>1. /\ a \in Seq(Copies) /\ Len(a) <= MaxPoolSize /\ n \in Nat /\ n >= 1
      /\ kept \in Seq(Copies) /\ Len(kept) + 1 <= n
  BY DEF Base, TypeOK, AtMost, Entries
<1>2. T = {i \in n..Len(a) : evict[e].now > lastUsed[a[i]] + Timeout}
  BY DEF StaleFrom
<1> HIDE DEF a, T, n, kept
<1>3. T \in SUBSET Nat
  BY <1>1, <1>2
<1>4. T # {}
  BY DEF T
<1> DEFINE i == Min(T)
<1>5. i \in T
  BY <1>3, <1>4, LeastOf
<1> HIDE DEF i
<1>6. i \in n..Len(a) /\ evict[e].now > lastUsed[a[i]] + Timeout
  BY <1>2, <1>5
<1>7. Len(a) \in Nat /\ DOMAIN a = 1..Len(a) /\ (\A j \in 1..Len(a) : a[j] \in Copies) /\ Len(kept) \in Nat
  BY <1>1
<1>8. i \in Nat /\ i \in DOMAIN a /\ a[i] \in Copies /\ n <= i /\ i <= Len(a)
  BY <1>1, <1>6, <1>7
<1> DEFINE passed == SubSeq(a, n, i - 1)
<1>9. \A j \in n..(i - 1) : a[j] \in Copies
  BY <1>1, <1>7, <1>8
<1>10. passed \in Seq(Copies) /\ Len(passed) = IF n <= i - 1 THEN i - 1 - n + 1 ELSE 0
  BY <1>1, <1>8, <1>9, SubSeqProperties
<1> HIDE DEF passed
<1>11. kept \o passed \in Seq(Copies) /\ Len(kept \o passed) = Len(kept) + Len(passed)
  BY <1>1, <1>10, ConcatProperties
<1>12. Len(kept \o passed) + 1 <= i
  BY <1>1, <1>7, <1>8, <1>10, <1>11
<1> QED BY <1>1, <1>6, <1>8, <1>11, <1>12 DEF a, T, n, kept, i, passed

\* What an eviction puts in the Map is no longer than the pool may be.
LEMMA EndOf ==
  ASSUME Base, NEW e \in Evictions
  PROVE  LET a == Entries(e)
             rest == evict[e].kept \o SubSeq(a, evict[e].next, Len(a))
         IN rest \in Seq(Copies) /\ Len(rest) <= MaxPoolSize
<1> DEFINE a == Entries(e)
           n == evict[e].next
           kept == evict[e].kept
<1>1. /\ a \in Seq(Copies) /\ Len(a) <= MaxPoolSize /\ n \in Nat /\ n >= 1 /\ n <= MaxPoolSize + 1
      /\ kept \in Seq(Copies) /\ Len(kept) + 1 <= n
  BY DEF Base, TypeOK, AtMost, Entries
<1> HIDE DEF a, n, kept
<1>2. Len(a) \in Nat /\ (\A j \in 1..Len(a) : a[j] \in Copies) /\ Len(kept) \in Nat
  BY <1>1
<1> DEFINE rest == SubSeq(a, n, Len(a))
<1>3. \A j \in n..Len(a) : a[j] \in Copies
  BY <1>1, <1>2
<1>4. rest \in Seq(Copies) /\ Len(rest) = IF n <= Len(a) THEN Len(a) - n + 1 ELSE 0
  BY <1>1, <1>2, <1>3, SubSeqProperties
<1> HIDE DEF rest
<1>5. kept \o rest \in Seq(Copies) /\ Len(kept \o rest) = Len(kept) + Len(rest)
  BY <1>1, <1>4, ConcatProperties
<1>6. Len(kept \o rest) <= MaxPoolSize
  BY <1>1, <1>2, <1>4, <1>5, PoolAssumption
<1> QED BY <1>5, <1>6 DEF a, n, kept, rest

\* The initial values have their types.
LEMMA TypeInit == Init => TypeOK
<1> SUFFICES ASSUME Init PROVE TypeOK
  OBVIOUS
<1>1. putBack \in BOOLEAN
  BY DEF Init
<1> QED BY <1>1, PoolAssumption DEF Init, TypeOK, NoLoan, Off, Phases

\* The oldest entry an eviction still has to look at is stale if any is: so the first
\* stale one is the next.
LEMMA NextIsStale ==
  ASSUME TypeOK, Sorted, NEW e \in Evictions, evict[e].alias, evict[e].next >= 1,
         StaleFrom(e) # {}
  PROVE  /\ Min(StaleFrom(e)) = evict[e].next
         /\ evict[e].next \in DOMAIN bucket
<1> DEFINE n == evict[e].next
           T == StaleFrom(e)
<1>1. n \in Nat /\ evict[e].now \in Nat /\ Entries(e) = bucket /\ bucket \in Seq(Copies)
  BY DEF TypeOK, Entries
<1>2. T = {i \in n..Len(bucket) : evict[e].now > lastUsed[bucket[i]] + Timeout}
  BY <1>1 DEF StaleFrom
<1>3. PICK i \in T : TRUE
  OBVIOUS
<1>4. i \in n..Len(bucket) /\ evict[e].now > lastUsed[bucket[i]] + Timeout
  BY <1>2, <1>3
<1>5. n \in DOMAIN bucket /\ i \in DOMAIN bucket /\ n <= i
  BY <1>1, <1>4
<1>6. bucket[n] \in Copies /\ bucket[i] \in Copies
  BY <1>1, <1>5
<1>7. lastUsed[bucket[n]] \in Nat /\ lastUsed[bucket[i]] \in Nat
  BY <1>6 DEF TypeOK
<1>8. lastUsed[bucket[n]] <= lastUsed[bucket[i]]
  <2>1. CASE n = i
    BY <1>7, <2>1
  <2>2. CASE n < i
    BY <1>5, <2>2 DEF Sorted
  <2> QED BY <1>1, <1>4, <1>5, <2>1, <2>2
<1>9. n \in T
  BY <1>1, <1>2, <1>4, <1>5, <1>7, <1>8, PoolAssumption
<1>10. \A j \in T : j \in Nat /\ n <= j
  BY <1>1, <1>2
<1> HIDE DEF n, T
<1>11. \A j \in T : (\A k \in T : j <= k) => j = n
  <2> SUFFICES ASSUME NEW j \in T, \A k \in T : j <= k PROVE j = n
    OBVIOUS
  <2>1. j <= n /\ n <= j /\ j \in Nat /\ n \in Nat
    BY <1>1, <1>9, <1>10
  <2> QED BY <2>1
<1>12. Min(T) = n
  BY <1>9, <1>10, <1>11 DEF Min
<1> QED BY <1>5, <1>12 DEF n, T

\* What a request holds is a working copy.
LEMMA HeldIsCopy ==
  ASSUME TypeOK, LoanPhases, NEW b \in Borrowers, holder[b].phase # "idle"
  PROVE  holder[b].copy \in Copies /\ holder[b].copy # NoCopy
BY PoolAssumption DEF TypeOK, LoanPhases

\* An eviction that is over, and one that starts.
LEMMA StartTyped ==
  /\ Off \in Walks
  /\ clock \in Nat => [Off EXCEPT !.on = TRUE, !.now = clock, !.alias = TRUE] \in Walks
<1>1. Off \in Walks
  BY DEF Off, Walks
<1>2. ASSUME NEW o \in Walks, clock \in Nat
      PROVE  [o EXCEPT !.on = TRUE, !.now = clock, !.alias = TRUE] \in Walks
  BY <1>2 DEF Walks
<1> QED BY <1>1, <1>2

\* An eviction that goes on to the next stale entry.
LEMMA NextTyped ==
  ASSUME NEW o \in Walks, NEW w \in Copies, NEW i \in Nat, NEW kept \in Seq(Copies)
  PROVE  [o EXCEPT !.rm = w, !.next = i, !.kept = kept] \in Walks
<1>1. [o EXCEPT !.rm = w] \in Walks
  BY DEF Walks
<1>2. [o EXCEPT !.rm = w, !.next = i] \in Walks
  <2> DEFINE p == [o EXCEPT !.rm = w]
  <2> HIDE DEF p
  <2>1. p \in Walks => [p EXCEPT !.next = i] \in Walks
    BY DEF Walks
  <2> QED BY <1>1, <2>1 DEF p
<1> DEFINE q == [o EXCEPT !.rm = w, !.next = i]
<1> HIDE DEF q
<1>3. q \in Walks => [q EXCEPT !.kept = kept] \in Walks
  BY DEF Walks
<1> QED BY <1>2, <1>3 DEF q

\* Every step keeps the types.
LEMMA TypeStep == Base /\ [Next]_vars => TypeOK'
<1> SUFFICES ASSUME Base, TypeOK, LoanPhases, [Next]_vars PROVE TypeOK'
  BY DEF Base
<1> USE DEF Phases, NoLoan, Loan
<1>0. NoCopy \notin Copies /\ clock \in Nat /\ bucket \in Seq(Copies)
  BY PoolAssumption DEF TypeOK
<1>1. ASSUME NEW b \in Borrowers, Acquire(b) PROVE TypeOK'
  <2>1. bucket' \in Seq(Copies) /\ bucket[Len(bucket)] \in Copies
    BY <1>0, <1>1, FrontOf DEF Acquire
  <2> QED BY <1>1, <2>1 DEF Acquire, TypeOK
<1>2. ASSUME NEW b \in Borrowers, MakeDir(b) PROVE TypeOK'
  BY <1>2 DEF MakeDir, TypeOK
<1>3. ASSUME NEW b \in Borrowers, Checkout(b) PROVE TypeOK'
  <2>1. holder[b].copy \in Copies
    BY <1>3, HeldIsCopy DEF Checkout
  <2>2. lastUsed' \in [Copies -> 0..clock']
    BY <1>0, <1>3, <2>1 DEF Checkout, TypeOK
  <2>3. holder' \in [Borrowers -> [phase : Phases, copy : Copies \cup {NoCopy}]]
    <3>1. CASE Loan(b, "prepare", holder[b].copy)
      BY <2>1, <3>1 DEF TypeOK
    <3>2. CASE holder' = [holder EXCEPT ![b] = NoLoan]
      BY <3>2 DEF TypeOK
    <3> QED BY <1>3, <3>1, <3>2 DEF Checkout
  <2> QED BY <1>3, <2>2, <2>3 DEF Checkout, TypeOK
<1>4. ASSUME NEW b \in Borrowers, Prepare(b) PROVE TypeOK'
  <2>1. holder' \in [Borrowers -> [phase : Phases, copy : Copies \cup {NoCopy}]]
    <3>1. holder[b].copy \in Copies \cup {NoCopy}
      BY DEF TypeOK
    <3>2. CASE Loan(b, "use", holder[b].copy)
      BY <3>1, <3>2 DEF TypeOK
    <3>3. CASE Loan(b, "cleanup", holder[b].copy)
      BY <3>1, <3>3 DEF TypeOK
    <3> QED BY <1>4, <3>2, <3>3 DEF Prepare
  <2> QED BY <1>4, <2>1 DEF Prepare, TypeOK
<1>5. ASSUME NEW b \in Borrowers, Use(b) PROVE TypeOK'
  BY <1>5 DEF Use, TypeOK
<1>6. ASSUME NEW b \in Borrowers, Release(b) PROVE TypeOK'
  <2>1. holder[b].copy \in Copies
    BY <1>6, HeldIsCopy DEF Release
  <2>2. Append(bucket, holder[b].copy) \in Seq(Copies)
    BY <1>0, <2>1, AppendProperties
  <2>3. bucket' \in Seq(Copies)
    BY <1>0, <1>6, <2>2 DEF Release
  <2>4. dir' \in [Copies -> {"none", "present", "removing", "gone"}]
    BY <1>6 DEF Release, Destroy, TypeOK
  <2>5. lastUsed' \in [Copies -> 0..clock']
    BY <1>6, <2>1 DEF Release, TypeOK
  <2>6. holder' \in [Borrowers -> [phase : Phases, copy : Copies \cup {NoCopy}]]
    BY <1>6 DEF Release, TypeOK
  <2> QED BY <1>6, <2>3, <2>4, <2>5, <2>6 DEF Release, TypeOK
<1>7. ASSUME NEW b \in Borrowers, RevertFails(b) PROVE TypeOK'
  BY <1>7 DEF RevertFails, Destroy, TypeOK
<1>8. ASSUME NEW e \in Evictions, EvictStart(e) PROVE TypeOK'
  <2>1. [Off EXCEPT !.on = TRUE, !.now = clock, !.alias = TRUE] \in Walks
    BY <1>0, StartTyped
  <2>2. evict' \in [Evictions -> Walks]
    BY <1>8, <2>1 DEF EvictStart, TypeOK, Walks
  <2> QED BY <1>8, <2>2 DEF EvictStart, TypeOK, Walks
<1>9. ASSUME NEW e \in Evictions, EvictNext(e) PROVE TypeOK'
  <2> DEFINE i == Min(StaleFrom(e))
             w == Entries(e)[i]
             kept == evict[e].kept \o SubSeq(Entries(e), evict[e].next, i - 1)
  <2>1. w \in Copies /\ i \in Nat /\ kept \in Seq(Copies)
    BY <1>9, NextOf DEF EvictNext
  <2>2. /\ evict' = [evict EXCEPT ![e].rm = w, ![e].next = i + 1, ![e].kept = kept]
        /\ dir' = [dir EXCEPT ![w] = IF @ = "present" THEN "removing" ELSE @]
    BY <1>9 DEF EvictNext
  <2> HIDE DEF i, w, kept
  <2>3. evict' \in [Evictions -> Walks]
    <3>1. \A f \in Evictions : evict[f] \in Walks
      BY DEF TypeOK, Walks
    <3>2. [evict[e] EXCEPT !.rm = w, !.next = i + 1, !.kept = kept] \in Walks
      <4>1. evict[e] \in Walks /\ i + 1 \in Nat
        BY <2>1, <3>1
      <4> QED BY <2>1, <4>1, NextTyped, Zenon
    <3>3. evict' = [evict EXCEPT ![e] = [evict[e] EXCEPT !.rm = w, !.next = i + 1, !.kept = kept]]
      BY <2>2 DEF TypeOK
    <3> QED BY <3>1, <3>2, <3>3 DEF TypeOK
  <2>4. dir' \in [Copies -> {"none", "present", "removing", "gone"}]
    BY <2>1, <2>2 DEF TypeOK
  <2> QED BY <1>9, <2>3, <2>4 DEF EvictNext, TypeOK, Walks
<1>10. ASSUME NEW e \in Evictions, EvictRemoved(e) PROVE TypeOK'
  BY <1>10 DEF EvictRemoved, Destroy, TypeOK
<1>11. ASSUME NEW e \in Evictions, EvictEnd(e) PROVE TypeOK'
  <2>3. bucket' \in Seq(Copies)
    BY <1>11, EndOf DEF EvictEnd
  <2>4. Off \in Walks
    BY StartTyped
  <2>5. ASSUME NEW f \in Evictions PROVE [evict[f] EXCEPT !.alias = FALSE, !.old = bucket] \in Walks
    BY <1>0 DEF TypeOK, Walks
  <2>6. \A f \in Evictions : evict[f] \in Walks
    BY DEF TypeOK, Walks
  <2>7. evict' \in [Evictions -> Walks]
    BY <1>11, <2>4, <2>5, <2>6 DEF EvictEnd
  <2> QED BY <1>11, <2>3, <2>7 DEF EvictEnd, TypeOK, Walks
<1>12. CASE Tick
  BY <1>0, <1>12 DEF Tick, TypeOK
<1>13. CASE UNCHANGED vars
  BY <1>13 DEF vars, TypeOK
<1> QED
  BY <1>1, <1>2, <1>3, <1>4, <1>5, <1>6, <1>7, <1>8, <1>9, <1>10, <1>11, <1>12, <1>13
  DEF Next, Borrow, Evict

\* Every step keeps the phases of the requests.
LEMMA LoanStep == Base /\ [Next]_vars => LoanPhases'
<1> SUFFICES ASSUME Base, TypeOK, LoanPhases, [Next]_vars PROVE LoanPhases'
  BY DEF Base
<1>0. NoCopy \notin Copies
  BY PoolAssumption
<1>1. ASSUME NEW b \in Borrowers, NEW w \in Copies, NEW p \in Phases \ {"idle"}, Loan(b, p, w)
      PROVE  LoanPhases'
  BY <1>0, <1>1 DEF Loan, LoanPhases, TypeOK
<1>2. ASSUME NEW b \in Borrowers, holder' = [holder EXCEPT ![b] = NoLoan] PROVE LoanPhases'
  BY <1>2 DEF NoLoan, LoanPhases, TypeOK
<1>3. ASSUME NEW b \in Borrowers, Borrow(b) PROVE LoanPhases'
  <2>1. CASE Acquire(b)
    <3>1. bucket[Len(bucket)] \in Copies
      BY <2>1, FrontOf DEF Acquire, TypeOK
    <3> QED BY <1>1, <2>1, <3>1 DEF Acquire, Phases
  <2>2. CASE MakeDir(b)
    BY <1>1, <2>2 DEF MakeDir, Phases
  <2>3. CASE Checkout(b) \/ Prepare(b) \/ Use(b)
    <3>1. holder[b].copy \in Copies
      BY <2>3, HeldIsCopy DEF Checkout, Prepare, Use
    <3> QED BY <1>1, <1>2, <2>3, <3>1 DEF Checkout, Prepare, Use, Phases
  <2>4. CASE Release(b) \/ RevertFails(b)
    BY <1>2, <2>4 DEF Release, RevertFails
  <2> QED BY <1>3, <2>1, <2>2, <2>3, <2>4 DEF Borrow
<1>4. CASE holder' = holder
  BY <1>4 DEF LoanPhases
<1> QED
  BY <1>3, <1>4 DEF Next, Evict, EvictStart, EvictNext, EvictRemoved, EvictEnd, Tick, vars

\* No step makes an array longer than the pool may be.
LEMMA AtMostStep == Base /\ TypeOK' /\ [Next]_vars => AtMost'
<1> SUFFICES ASSUME Base, TypeOK, TypeOK', AtMost, [Next]_vars PROVE AtMost'
  BY DEF Base
<1> DEFINE Moderate(w) ==
             /\ w.next >= 1 /\ Len(w.kept) + 1 <= w.next
             /\ w.next <= MaxPoolSize + 1 /\ Len(w.old) <= MaxPoolSize
<1>0. \A e \in Evictions : Moderate(evict[e])
  BY DEF AtMost
<1>1. ASSUME evict' = evict, Len(bucket') <= MaxPoolSize PROVE AtMost'
  BY <1>0, <1>1 DEF AtMost
<1>2. ASSUME NEW e \in Evictions, \A f \in Evictions \ {e} : evict'[f] = evict[f], Moderate(evict'[e]),
             bucket' = bucket
      PROVE  AtMost'
  <2>1. \A f \in Evictions : Moderate(evict'[f])
    BY <1>0, <1>2
  <2> QED BY <1>2, <2>1 DEF AtMost
<1>3. Moderate(Off) /\ Moderate([Off EXCEPT !.on = TRUE, !.now = clock, !.alias = TRUE])
  BY PoolAssumption DEF Off
<1>4. ASSUME NEW b \in Borrowers, Borrow(b) PROVE AtMost'
  <2>1. CASE Acquire(b)
    <3>1. bucket \in Seq(Copies) /\ bucket # <<>>
      BY <2>1 DEF Acquire, TypeOK
    <3>2. Len(bucket') = Len(bucket) - 1 /\ Len(bucket) \in Nat
      BY <2>1, <3>1, FrontOf DEF Acquire
    <3> QED BY <1>1, <2>1, <3>2, PoolAssumption DEF Acquire, AtMost
  <2>2. CASE Release(b)
    <3>1. CASE Len(bucket) < MaxPoolSize /\ bucket' = Append(bucket, holder[b].copy)
      <4>1. Len(bucket') = Len(bucket) + 1 /\ Len(bucket) \in Nat
        BY <3>1 DEF TypeOK
      <4> QED BY <1>1, <2>2, <3>1, <4>1, PoolAssumption DEF Release
    <3>2. CASE bucket' = bucket
      BY <1>1, <2>2, <3>2 DEF Release, AtMost
    <3> QED BY <2>2, <3>1, <3>2 DEF Release
  <2>3. CASE bucket' = bucket /\ evict' = evict
    BY <1>1, <2>3 DEF AtMost
  <2> QED BY <1>4, <2>1, <2>2, <2>3 DEF Borrow, MakeDir, Checkout, Prepare, Use, RevertFails
<1>5. ASSUME NEW e \in Evictions, EvictStart(e) PROVE AtMost'
  <2>1. /\ evict'[e] = [Off EXCEPT !.on = TRUE, !.now = clock, !.alias = TRUE]
        /\ \A f \in Evictions \ {e} : evict'[f] = evict[f]
    BY <1>5 DEF EvictStart, TypeOK
  <2>2. Moderate(evict'[e])
    BY <1>3, <2>1
  <2> QED BY <1>2, <1>5, <2>1, <2>2 DEF EvictStart
<1>6. ASSUME NEW e \in Evictions, EvictNext(e) PROVE AtMost'
  <2> DEFINE i == Min(StaleFrom(e))
             a == Entries(e)
             kept == evict[e].kept \o SubSeq(a, evict[e].next, i - 1)
  <2>1. /\ i \in Nat /\ evict[e].next <= i /\ i <= Len(a) /\ Len(a) <= MaxPoolSize /\ Len(kept) + 1 <= i
        /\ kept \in Seq(Copies) /\ a \in Seq(Copies)
    BY <1>6, NextOf DEF EvictNext
  <2>2. evict' = [evict EXCEPT ![e].rm = a[i], ![e].next = i + 1, ![e].kept = kept]
    BY <1>6 DEF EvictNext
  <2> HIDE DEF i, a, kept
  <2>3. /\ evict'[e].next = i + 1 /\ evict'[e].kept = kept /\ evict'[e].old = evict[e].old
        /\ \A f \in Evictions \ {e} : evict'[f] = evict[f]
    BY <2>2 DEF TypeOK
  <2>4. Moderate(evict'[e])
    <3>1. Len(kept) \in Nat /\ Len(a) \in Nat
      BY <2>1
    <3>2. i + 1 >= 1 /\ Len(kept) + 1 <= i + 1 /\ i + 1 <= MaxPoolSize + 1
      BY <2>1, <3>1, PoolAssumption
    <3> QED BY <1>0, <2>3, <3>2
  <2> QED BY <1>2, <1>6, <2>3, <2>4 DEF EvictNext
<1>7. ASSUME NEW e \in Evictions, EvictRemoved(e) PROVE AtMost'
  <2>1. /\ evict'[e].next = evict[e].next /\ evict'[e].kept = evict[e].kept /\ evict'[e].old = evict[e].old
        /\ \A f \in Evictions \ {e} : evict'[f] = evict[f]
    BY <1>7 DEF EvictRemoved, TypeOK
  <2>2. Moderate(evict'[e])
    BY <1>0, <2>1
  <2> QED BY <1>2, <1>7, <2>1, <2>2 DEF EvictRemoved
<1>8. ASSUME NEW e \in Evictions, EvictEnd(e) PROVE AtMost'
  <2>1. Len(bucket') <= MaxPoolSize
    BY <1>8, EndOf DEF EvictEnd
  <2>2. ASSUME NEW f \in Evictions PROVE Moderate(evict'[f])
    <3>1. CASE f = e
      <4>1. evict'[f] = Off
        BY <1>8, <3>1 DEF EvictEnd
      <4> QED BY <1>3, <4>1
    <3>2. CASE f # e /\ evict[f].alias
      <4>1. evict'[f] = [evict[f] EXCEPT !.alias = FALSE, !.old = bucket]
        BY <1>8, <3>2 DEF EvictEnd
      <4>2. /\ evict'[f].next = evict[f].next /\ evict'[f].kept = evict[f].kept
            /\ evict'[f].old = bucket
        BY <4>1 DEF TypeOK
      <4> QED BY <1>0, <4>2 DEF AtMost
    <3>3. CASE f # e /\ ~evict[f].alias
      <4>1. evict'[f] = evict[f]
        BY <1>8, <3>3 DEF EvictEnd
      <4> QED BY <1>0, <4>1
    <3> QED BY <3>1, <3>2, <3>3
  <2> QED BY <2>1, <2>2 DEF AtMost
<1>9. CASE evict' = evict /\ bucket' = bucket
  BY <1>9 DEF AtMost
<1> QED
  BY <1>4, <1>5, <1>6, <1>7, <1>8, <1>9 DEF Next, Evict, Tick, vars

-----------------------------------------------------------------------------

\* Whatever takes entries off one end of the array, or off both, leaves the rest in order.
LEMMA Shortened ==
  ASSUME TypeOK, TypeOK', Sorted, Bounded, NEW d \in Nat,
         Len(bucket') <= Len(bucket),
         \A i \in DOMAIN bucket' : i + d \in DOMAIN bucket /\ bucket'[i] = bucket[i + d],
         \A i \in DOMAIN bucket' : lastUsed'[bucket'[i]] = lastUsed[bucket'[i]]
  PROVE  Sorted' /\ Bounded' /\ (\A w \in Copies : InBucket(w)' => InBucket(w))
<1>1. Len(bucket) \in Nat /\ Len(bucket') \in Nat /\ DOMAIN bucket' \subseteq Nat
  <2>1. bucket \in Seq(Copies) /\ bucket' \in Seq(Copies)
    BY DEF TypeOK
  <2> QED BY <2>1
<1>2. ASSUME NEW i \in DOMAIN bucket', NEW j \in DOMAIN bucket', i < j
      PROVE  lastUsed'[bucket'[i]] <= lastUsed'[bucket'[j]]
  <2>1. i + d < j + d
    BY <1>1, <1>2
  <2>2. lastUsed[bucket[i + d]] <= lastUsed[bucket[j + d]]
    BY <2>1 DEF Sorted
  <2> QED BY <2>2
<1>3. ASSUME NEW i \in DOMAIN bucket', NEW j \in DOMAIN bucket', bucket'[i] = bucket'[j]
      PROVE  i = j
  <2>1. i + d = j + d
    BY <1>3 DEF Bounded, OfferedOnce
  <2> QED BY <1>1, <2>1
<1>4. Sorted'
  BY <1>2 DEF Sorted
<1>5. Bounded'
  BY <1>1, <1>3, PoolAssumption DEF Bounded, OfferedOnce
<1>6. \A w \in Copies : InBucket(w)' => InBucket(w)
  BY DEF InBucket
<1> QED BY <1>4, <1>5, <1>6

\* Neither the array nor the times of its entries change.
LEMMA SameArray ==
  ASSUME Sorted, Bounded, bucket' = bucket,
         \A i \in DOMAIN bucket : lastUsed'[bucket[i]] = lastUsed[bucket[i]]
  PROVE  Sorted' /\ Bounded' /\ (\A w \in Copies : InBucket(w)' <=> InBucket(w))
BY DEF Sorted, Bounded, OfferedOnce, InBucket

\* A step that leaves the evictions alone: copies stay made, directories on their way out stay
\* so, and a copy that a request has now it had before, or took just now, or made.
LEMMA WalkOn ==
  ASSUME TypeOK, Walk, evict' = evict, clock' = clock,
         \A v \in Copies : dir[v] \in {"removing", "gone"} => dir'[v] \in {"removing", "gone"},
         \A v \in Copies : dir[v] # "none" => dir'[v] # "none",
         \A b \in Borrowers, v \in Copies :
           holder'[b].copy = v =>
             \/ holder[b].copy = v /\ lastUsed'[v] = lastUsed[v]
             \/ lastUsed'[v] = clock
             \/ dir[v] = "none"
  PROVE  Walk'
<1>1. ASSUME NEW e \in Evictions, evict[e].rm # NoCopy PROVE dir'[evict[e].rm] \in {"removing", "gone"}
  <2>1. evict[e].rm \in Copies /\ dir[evict[e].rm] \in {"removing", "gone"}
    BY <1>1 DEF TypeOK, Walk, Treads
  <2> QED BY <2>1
<1>2. ASSUME NEW e \in Evictions, NEW i \in DOMAIN evict[e].old
      PROVE  /\ dir'[evict[e].old[i]] # "none"
             /\ \A b \in Borrowers :
                  holder'[b].copy = evict[e].old[i] => evict[e].now <= lastUsed'[evict[e].old[i]]
  <2>1. PICK v \in Copies : v = evict[e].old[i]
    BY DEF TypeOK
  <2>2. /\ dir[v] # "none" /\ evict[e].now <= clock
        /\ \A b \in Borrowers : holder[b].copy = v => evict[e].now <= lastUsed[v]
    BY <2>1 DEF Walk, Treads
  <2>3. ASSUME NEW b \in Borrowers, holder'[b].copy = v PROVE evict[e].now <= lastUsed'[v]
    BY <2>2, <2>3
  <2> QED BY <2>1, <2>2, <2>3
<1>3. ASSUME NEW e \in Evictions PROVE Treads(evict'[e], dir', holder', lastUsed', clock')
  <2>1. evict[e].now <= clock /\ (evict[e].alias => evict[e].kept = <<>>)
    BY DEF Walk, Treads
  <2>2. evict'[e] = evict[e] /\ clock' = clock
    OBVIOUS
  <2> QED BY <1>1, <1>2, <2>1, <2>2 DEF Treads
<1> QED BY <1>3 DEF Walk

\* The initial values satisfy the invariant.
LEMMA InitKept == Init => Kept
<1> SUFFICES ASSUME Init PROVE Kept
  OBVIOUS
<1>1. bucket = <<>> /\ Len(bucket) = 0 /\ DOMAIN bucket = {}
  BY DEF Init
<1>2. TypeOK
  BY TypeInit
<1>3. Sorted /\ Bounded
  BY <1>1, PoolAssumption DEF Sorted, Bounded, OfferedOnce
<1>4. LoanPhases /\ LentOnce
  BY DEF Init, LoanPhases, LentOnce, NoLoan
<1>5. Made
  BY <1>1, PoolAssumption DEF Init, Made, InBucket, Holds, NoLoan
<1>6. Walk
  BY DEF Init, Walk, Treads, Off
<1> QED BY <1>2, <1>3, <1>4, <1>5, <1>6 DEF Kept

\* acquire pops the last entry: it is in the array no more, and nobody else's.
LEMMA AcquireKept ==
  ASSUME Kept, TypeOK', NEW b \in Borrowers, Acquire(b)
  PROVE  Kept'
<1>1. /\ TypeOK /\ Sorted /\ LoanPhases /\ Made /\ Walk /\ LentOnce /\ Bounded
      /\ bucket \in Seq(Copies) /\ bucket # <<>>
  BY DEF Kept, TypeOK, Acquire
<1> PICK w \in Copies : w = bucket[Len(bucket)]
  BY <1>1, FrontOf
<1>2. /\ Len(bucket') = Len(bucket) - 1 /\ Len(bucket) \in DOMAIN bucket /\ w = bucket[Len(bucket)]
      /\ \A i \in DOMAIN bucket' : i \in DOMAIN bucket /\ bucket'[i] = bucket[i] /\ i < Len(bucket)
  BY <1>1, FrontOf DEF Acquire
<1>3. Len(bucket) \in Nat /\ DOMAIN bucket' \subseteq Nat
  BY <1>1 DEF TypeOK
<1>4. \A i \in DOMAIN bucket' : bucket'[i] # w
  BY <1>1, <1>2, <1>3 DEF Bounded, OfferedOnce
<1>5. w \in Copies /\ InBucket(w) /\ w # NoCopy /\ dir[w] # "none" /\ ~InBucket(w)'
  BY <1>1, <1>2, <1>4, PoolAssumption DEF InBucket, Made
<1>6. /\ holder' = [holder EXCEPT ![b] = [phase |-> "prepare", copy |-> w]]
      /\ lastUsed' = [lastUsed EXCEPT ![w] = clock] /\ dir' = dir /\ evict' = evict
  BY DEF Acquire, Loan
<1>7. \A i \in DOMAIN bucket' : lastUsed'[bucket'[i]] = lastUsed[bucket'[i]]
  BY <1>1, <1>2, <1>4, <1>6 DEF TypeOK
<1>8. Sorted' /\ Bounded' /\ (\A v \in Copies : InBucket(v)' => InBucket(v))
  <2>1. \A i \in DOMAIN bucket' : i + 0 \in DOMAIN bucket /\ bucket'[i] = bucket[i + 0]
    BY <1>2, <1>3
  <2>2. Len(bucket') <= Len(bucket)
    BY <1>2, <1>3
  <2> QED BY <1>1, <1>7, <2>1, <2>2, Shortened
<1>9. \A c \in Borrowers : holder[c].copy # w
  BY <1>1, <1>5 DEF LentOnce
<1>10. /\ holder'[b].phase = "prepare" /\ holder'[b].copy = w
       /\ \A c \in Borrowers \ {b} : holder'[c] = holder[c]
  BY <1>1, <1>6 DEF TypeOK
<1>11. LoanPhases'
  BY <1>1, <1>5, <1>10 DEF LoanPhases
<1>12. Made'
  BY <1>1, <1>5, <1>6, <1>8, <1>10 DEF Made, Holds
<1>13. Walk'
  <2>1. \A c \in Borrowers, v \in Copies :
          holder'[c].copy = v =>
            \/ holder[c].copy = v /\ lastUsed'[v] = lastUsed[v]
            \/ lastUsed'[v] = clock
    BY <1>1, <1>6, <1>10 DEF TypeOK
  <2> QED BY <1>1, <1>6, <2>1, WalkOn DEF Acquire
<1>14. LentOnce'
  <2>1. ASSUME NEW c \in Borrowers \ {b}, holder'[c].copy # NoCopy
        PROVE  /\ \A d \in Borrowers \ {c} : ~Holds(d, holder[c].copy)'
               /\ ~InBucket(holder[c].copy)'
    BY <1>1, <1>8, <1>9, <1>10, <2>1 DEF LentOnce, Holds, TypeOK
  <2>2. (\A d \in Borrowers \ {b} : ~Holds(d, holder[b].copy)') /\ ~InBucket(holder[b].copy)'
    BY <1>5, <1>9, <1>10 DEF Holds, InBucket
  <2> QED BY <2>1, <2>2 DEF LentOnce, Holds, InBucket
<1> QED BY <1>8, <1>11, <1>12, <1>13, <1>14 DEF Kept

\* mkdtemp makes a directory that nobody has.
LEMMA MakeDirKept ==
  ASSUME Kept, NEW b \in Borrowers, MakeDir(b)
  PROVE  Sorted' /\ LoanPhases' /\ Made' /\ Walk' /\ LentOnce' /\ Bounded'
<1>1. TypeOK /\ Sorted /\ LoanPhases /\ Made /\ Walk /\ LentOnce /\ Bounded
  BY DEF Kept
<1>2. PICK w \in Copies :
        /\ dir[w] = "none" /\ dir' = [dir EXCEPT ![w] = "present"]
        /\ holder' = [holder EXCEPT ![b] = [phase |-> "checkout", copy |-> w]]
        /\ bucket' = bucket /\ lastUsed' = lastUsed /\ evict' = evict
  BY DEF MakeDir, Loan
<1>3. w # NoCopy /\ ~InBucket(w) /\ \A c \in Borrowers : holder[c].copy # w
  BY <1>1, <1>2, PoolAssumption DEF Made, Holds
<1>4. Sorted' /\ Bounded' /\ (\A v \in Copies : InBucket(v)' <=> InBucket(v))
  BY <1>1, <1>2, SameArray
<1>5. /\ holder'[b].phase = "checkout" /\ holder'[b].copy = w
      /\ \A c \in Borrowers \ {b} : holder'[c] = holder[c]
  BY <1>1, <1>2 DEF TypeOK
<1>6. LoanPhases'
  BY <1>1, <1>3, <1>5 DEF LoanPhases
<1>7. Made'
  BY <1>1, <1>2, <1>4, <1>5 DEF Made, Holds, TypeOK
<1>8. Walk'
  <2>1. /\ \A v \in Copies : dir[v] \in {"removing", "gone"} => dir'[v] \in {"removing", "gone"}
        /\ \A v \in Copies : dir[v] # "none" => dir'[v] # "none"
    BY <1>1, <1>2 DEF TypeOK
  <2>2. \A c \in Borrowers, v \in Copies :
          holder'[c].copy = v =>
            \/ holder[c].copy = v /\ lastUsed'[v] = lastUsed[v]
            \/ dir[v] = "none"
    BY <1>2, <1>5
  <2> QED BY <1>1, <1>2, <2>1, <2>2, WalkOn DEF MakeDir
<1>9. LentOnce'
  <2>1. ASSUME NEW c \in Borrowers \ {b}, holder'[c].copy # NoCopy
        PROVE  /\ \A d \in Borrowers \ {c} : ~Holds(d, holder[c].copy)'
               /\ ~InBucket(holder[c].copy)'
    <3>1. holder[c].copy \in Copies /\ holder[c].copy # w /\ ~InBucket(holder[c].copy) /\ holder'[c] = holder[c]
      BY <1>1, <1>3, <1>5, <2>1 DEF LentOnce, TypeOK
    <3>2. \A d \in Borrowers \ {c} : holder'[d].copy # holder'[c].copy
      BY <1>1, <1>5, <2>1, <3>1 DEF LentOnce, Holds
    <3> QED BY <1>4, <3>1, <3>2 DEF Holds, InBucket
  <2>2. (\A d \in Borrowers \ {b} : ~Holds(d, holder[b].copy)') /\ ~InBucket(holder[b].copy)'
    BY <1>3, <1>4, <1>5 DEF Holds
  <2> QED BY <2>1, <2>2 DEF LentOnce
<1> QED BY <1>4, <1>6, <1>7, <1>8, <1>9

\* A request goes on with the copy it has, whose time may be set.
LEMMA KeepsCopy ==
  ASSUME Kept, NEW b \in Borrowers, NEW phase \in Phases \ {"idle"}, holder[b].phase # "idle",
         Loan(b, phase, holder[b].copy), bucket' = bucket, dir' = dir, evict' = evict, clock' = clock,
         lastUsed' \in {lastUsed, [lastUsed EXCEPT ![holder[b].copy] = clock]}
  PROVE  Sorted' /\ LoanPhases' /\ Made' /\ Walk' /\ LentOnce' /\ Bounded'
<1>1. TypeOK /\ Sorted /\ LoanPhases /\ Made /\ Walk /\ LentOnce /\ Bounded
  BY DEF Kept
<1>2. holder[b].copy \in Copies /\ holder[b].copy # NoCopy /\ ~InBucket(holder[b].copy)
  BY <1>1, HeldIsCopy DEF LentOnce
<1>3. \A i \in DOMAIN bucket : bucket[i] \in Copies /\ bucket[i] # holder[b].copy
  BY <1>1, <1>2 DEF InBucket, TypeOK
<1>4. \A i \in DOMAIN bucket : lastUsed'[bucket[i]] = lastUsed[bucket[i]]
  BY <1>1, <1>3 DEF TypeOK
<1>5. Sorted' /\ Bounded' /\ (\A v \in Copies : InBucket(v)' <=> InBucket(v))
  BY <1>1, <1>4, SameArray
<1>6. /\ \A c \in Borrowers : holder'[c].copy = holder[c].copy
      /\ \A c \in Borrowers : holder'[c].phase = "idle" <=> holder[c].phase = "idle"
  BY <1>1 DEF Loan, TypeOK
<1>7. LoanPhases' /\ Made'
  BY <1>1, <1>5, <1>6 DEF LoanPhases, Made, Holds
<1>9. Walk'
  <2>1. \A c \in Borrowers, v \in Copies :
          holder'[c].copy = v =>
            \/ holder[c].copy = v /\ lastUsed'[v] = lastUsed[v]
            \/ lastUsed'[v] = clock
    BY <1>1, <1>2, <1>6 DEF TypeOK
  <2> QED BY <1>1, <2>1, WalkOn
<1>8. LentOnce'
  BY <1>1, <1>5, <1>6 DEF LentOnce, Holds, InBucket
<1> QED BY <1>5, <1>7, <1>8, <1>9

\* A request gives up its copy, which does not go back to the array.
LEMMA GivesUp ==
  ASSUME Kept, NEW b \in Borrowers, holder[b].phase # "idle",
         holder' = [holder EXCEPT ![b] = NoLoan], bucket' = bucket, lastUsed' = lastUsed,
         evict' = evict, clock' = clock, dir' \in {dir, [dir EXCEPT ![holder[b].copy] = "gone"]}
  PROVE  Sorted' /\ LoanPhases' /\ Made' /\ Walk' /\ LentOnce' /\ Bounded'
<1>1. TypeOK /\ Sorted /\ LoanPhases /\ Made /\ Walk /\ LentOnce /\ Bounded
  BY DEF Kept
<1>2. Sorted' /\ Bounded' /\ (\A v \in Copies : InBucket(v)' <=> InBucket(v))
  BY <1>1, SameArray
<1>3. /\ holder'[b].copy = NoCopy /\ holder'[b].phase = "idle"
      /\ \A c \in Borrowers \ {b} : holder'[c] = holder[c]
  BY <1>1 DEF TypeOK, NoLoan
<1>4. LoanPhases'
  BY <1>1, <1>3 DEF LoanPhases
<1>5. \A v \in Copies : dir'[v] = "none" => dir[v] = "none"
  BY <1>1 DEF TypeOK
<1>6. Made'
  BY <1>1, <1>2, <1>3, <1>5, PoolAssumption DEF Made, Holds
<1>7. \A v \in Copies : dir[v] \in {"removing", "gone"} => dir'[v] \in {"removing", "gone"}
  BY <1>1 DEF TypeOK
<1>8. Walk'
  <2>1. \A v \in Copies : dir[v] # "none" => dir'[v] # "none"
    BY <1>1 DEF TypeOK
  <2>2. \A c \in Borrowers, v \in Copies :
          holder'[c].copy = v =>
            \/ holder[c].copy = v /\ lastUsed'[v] = lastUsed[v]
            \/ dir[v] = "none"
    BY <1>3, PoolAssumption
  <2> QED BY <1>1, <1>7, <2>1, <2>2, WalkOn
<1>9. LentOnce'
  BY <1>1, <1>2, <1>3 DEF LentOnce, Holds, InBucket
<1> QED BY <1>2, <1>4, <1>6, <1>8, <1>9

\* release pushes the copy: its time is now, and nobody else has it.
LEMMA PushKept ==
  ASSUME Kept, TypeOK', NEW b \in Borrowers, holder[b].phase # "idle", Len(bucket) < MaxPoolSize,
         dir[holder[b].copy] # "none",
         bucket' = Append(bucket, holder[b].copy),
         lastUsed' = [lastUsed EXCEPT ![holder[b].copy] = clock],
         holder' = [holder EXCEPT ![b] = NoLoan], dir' = dir, evict' = evict, clock' = clock
  PROVE  Kept'
<1>1. /\ TypeOK /\ Sorted /\ LoanPhases /\ Made /\ Walk /\ LentOnce /\ Bounded
      /\ bucket \in Seq(Copies)
  BY DEF Kept, TypeOK
<1> PICK w \in Copies : w = holder[b].copy
  BY <1>1, HeldIsCopy
<1>2. /\ w # NoCopy /\ w = holder[b].copy /\ ~InBucket(w)
      /\ \A c \in Borrowers \ {b} : holder[c].copy # w
  BY <1>1, PoolAssumption DEF LentOnce, Holds
<1>3. /\ Len(bucket') = Len(bucket) + 1
      /\ \A i \in DOMAIN bucket' : \/ i \in DOMAIN bucket /\ bucket'[i] = bucket[i] /\ i <= Len(bucket)
                                   \/ i = Len(bucket) + 1 /\ bucket'[i] = w
  BY <1>1, <1>2, PushedOn
<1>4. Len(bucket) \in Nat /\ \A i \in DOMAIN bucket : i \in Nat /\ bucket[i] \in Copies /\ bucket[i] # w
  BY <1>1, <1>2 DEF InBucket
<1>5. \A i \in DOMAIN bucket : lastUsed'[bucket[i]] = lastUsed[bucket[i]] /\ lastUsed[bucket[i]] <= clock
  BY <1>1, <1>2, <1>4 DEF TypeOK
<1>6. lastUsed'[w] = clock /\ clock \in Nat
  BY <1>1, <1>2 DEF TypeOK
<1>7. Sorted'
  <2> SUFFICES ASSUME NEW i \in DOMAIN bucket', NEW j \in DOMAIN bucket', i < j
               PROVE  lastUsed'[bucket'[i]] <= lastUsed'[bucket'[j]]
    BY DEF Sorted
  <2>1. i \in DOMAIN bucket /\ bucket'[i] = bucket[i]
    BY <1>3, <1>4
  <2>2. CASE j \in DOMAIN bucket /\ bucket'[j] = bucket[j]
    BY <1>1, <1>5, <2>1, <2>2 DEF Sorted
  <2>3. CASE bucket'[j] = w
    BY <1>5, <1>6, <2>1, <2>3
  <2> QED BY <1>3, <2>2, <2>3
<1>8. Bounded'
  <2>1. Len(bucket') <= MaxPoolSize
    BY <1>3, <1>4, PoolAssumption
  <2>2. ASSUME NEW i \in DOMAIN bucket', NEW j \in DOMAIN bucket', bucket'[i] = bucket'[j]
        PROVE  i = j
    BY <1>1, <1>3, <1>4, <2>2 DEF Bounded, OfferedOnce
  <2> QED BY <2>1, <2>2 DEF Bounded, OfferedOnce
<1>9. \A v \in Copies : InBucket(v)' => InBucket(v) \/ v = w
  BY <1>3 DEF InBucket
<1>10. /\ holder'[b].copy = NoCopy /\ holder'[b].phase = "idle"
       /\ \A c \in Borrowers \ {b} : holder'[c] = holder[c]
  BY <1>1 DEF TypeOK, NoLoan
<1>11. LoanPhases'
  BY <1>1, <1>10 DEF LoanPhases
<1>12. Made'
  BY <1>1, <1>2, <1>9, <1>10, PoolAssumption DEF Made, Holds
<1>13. Walk'
  <2>1. \A c \in Borrowers, v \in Copies :
          holder'[c].copy = v =>
            \/ holder[c].copy = v /\ lastUsed'[v] = lastUsed[v]
            \/ lastUsed'[v] = clock
    BY <1>1, <1>2, <1>10, PoolAssumption DEF TypeOK
  <2> QED BY <1>1, <2>1, WalkOn
<1>14. LentOnce'
  <2> SUFFICES ASSUME NEW c \in Borrowers \ {b}, holder'[c].copy # NoCopy
               PROVE  /\ \A d \in Borrowers \ {c} : holder'[d].copy # holder'[c].copy
                      /\ ~InBucket(holder[c].copy)'
    BY <1>10 DEF LentOnce, Holds
  <2>1. holder[c].copy \in Copies /\ holder[c].copy # w /\ ~InBucket(holder[c].copy) /\ holder'[c] = holder[c]
    BY <1>1, <1>2, <1>10 DEF LentOnce, TypeOK
  <2>2. \A d \in Borrowers \ {c} : holder'[d].copy # holder'[c].copy
    BY <1>1, <1>10, <2>1 DEF LentOnce, Holds
  <2> QED BY <1>9, <2>1, <2>2 DEF InBucket
<1> QED BY <1>7, <1>8, <1>11, <1>12, <1>13, <1>14 DEF Kept

-----------------------------------------------------------------------------

\* An eviction leaves array, times and loans alone, and what it removes it has marked.
LEMMA EvictsOn ==
  ASSUME Kept, TypeOK', Walk', bucket' = bucket, lastUsed' = lastUsed, holder' = holder,
         \A w \in Copies : dir'[w] = "none" => dir[w] = "none"
  PROVE  Kept'
<1>1. TypeOK /\ Sorted /\ LoanPhases /\ Made /\ Walk /\ LentOnce /\ Bounded
  BY DEF Kept
<1>2. Sorted' /\ Bounded' /\ (\A v \in Copies : InBucket(v)' <=> InBucket(v))
  BY <1>1, SameArray
<1>3. LoanPhases' /\ Made' /\ LentOnce'
  BY <1>1, <1>2 DEF LoanPhases, Made, LentOnce, Holds, InBucket
<1> QED BY <1>2, <1>3 DEF Kept

\* The first step of an eviction.
LEMMA EvictStartKept ==
  ASSUME Kept, TypeOK', NEW e \in Evictions, EvictStart(e)
  PROVE  Kept'
<1>1. TypeOK /\ Walk /\ clock \in Nat
  BY DEF Kept, TypeOK
<1> DEFINE s == [Off EXCEPT !.on = TRUE, !.now = clock, !.alias = TRUE]
<1>2. s.now = clock /\ s.kept = <<>> /\ s.rm = NoCopy /\ s.old = <<>>
  BY DEF Off
<1>3. evict'[e] = s /\ \A f \in Evictions \ {e} : evict'[f] = evict[f]
  BY <1>1 DEF EvictStart, TypeOK
<1> HIDE DEF s
<1>4. Walk'
  <2>1. dir' = dir /\ holder' = holder /\ lastUsed' = lastUsed /\ clock' = clock
    BY DEF EvictStart
  <2>2. \A f \in Evictions \ {e} : Treads(evict'[f], dir', holder', lastUsed', clock')
    BY <1>1, <1>3, <2>1 DEF Walk
  <2>3. s.now <= clock /\ DOMAIN s.old = {}
    BY <1>1, <1>2
  <2>4. Treads(s, dir', holder', lastUsed', clock')
    BY <1>2, <2>1, <2>3 DEF Treads
  <2> QED BY <1>3, <2>2, <2>4 DEF Walk
<1> QED BY <1>4, EvictsOn DEF EvictStart

\* The next stale entry is the next of the array, so nothing is kept before it.
LEMMA EvictNextKept ==
  ASSUME Base, Kept, TypeOK', NEW e \in Evictions, EvictNext(e)
  PROVE  Kept'
<1>1. TypeOK /\ Sorted /\ Walk /\ Made
  BY DEF Kept
<1> DEFINE i == Min(StaleFrom(e))
           a == Entries(e)
           kept == evict[e].kept \o SubSeq(a, evict[e].next, i - 1)
<1>2. i \in DOMAIN a /\ a[i] \in Copies
  BY NextOf DEF EvictNext
<1>3. /\ evict' = [evict EXCEPT ![e].rm = a[i], ![e].next = i + 1, ![e].kept = kept]
      /\ dir' = [dir EXCEPT ![a[i]] = IF @ = "present" THEN "removing" ELSE @]
      /\ UNCHANGED <<bucket, lastUsed, holder, clock>>
  BY DEF EvictNext
<1>4. evict[e].alias => kept = <<>>
  <2> SUFFICES ASSUME evict[e].alias PROVE kept = <<>>
    OBVIOUS
  <2>1. i = evict[e].next
    <3>1. evict[e].next >= 1 /\ StaleFrom(e) # {}
      BY DEF EvictNext, Base, AtMost
    <3> QED BY <1>1, <3>1, NextIsStale
  <2>2. evict[e].next \in Nat
    BY <1>1 DEF TypeOK
  <2>3. SubSeq(a, evict[e].next, evict[e].next - 1) = <<>>
    BY <2>2, SubSeqEmpty
  <2>4. <<>> \o SubSeq(a, evict[e].next, evict[e].next - 1) = <<>>
    BY <2>3
  <2>5. evict[e].kept = <<>>
    BY <1>1 DEF Walk, Treads
  <2> QED BY <2>1, <2>4, <2>5
<1>5. dir[a[i]] # "none"
  <2>1. CASE evict[e].alias
    BY <1>1, <1>2, <2>1 DEF Entries, Made, InBucket
  <2>2. CASE ~evict[e].alias
    BY <1>1, <1>2, <2>2 DEF Entries, Walk, Treads
  <2> QED BY <2>1, <2>2
<1> HIDE DEF i, a, kept
<1> PICK w \in Copies : w = a[i]
  BY <1>2
<1>6. dir'[w] \in {"removing", "gone"} /\ \A v \in Copies \ {w} : dir'[v] = dir[v]
  BY <1>1, <1>3, <1>5 DEF TypeOK
<1>7. /\ evict'[e].now = evict[e].now /\ evict'[e].alias = evict[e].alias /\ evict'[e].old = evict[e].old
      /\ evict'[e].kept = kept /\ evict'[e].rm = w
      /\ \A f \in Evictions \ {e} : evict'[f] = evict[f]
  BY <1>1, <1>3 DEF TypeOK
<1>8. /\ \A v \in Copies : dir[v] \in {"removing", "gone"} => dir'[v] \in {"removing", "gone"}
      /\ \A v \in Copies : dir[v] # "none" <=> dir'[v] # "none"
  BY <1>5, <1>6
<1>9. Walk'
  <2>1. ASSUME NEW f \in Evictions, evict'[f].rm # NoCopy PROVE dir'[evict'[f].rm] \in {"removing", "gone"}
    <3>1. CASE f = e
      BY <1>6, <1>7, <3>1
    <3>2. CASE f # e
      <4>1. evict[f].rm \in Copies /\ dir[evict[f].rm] \in {"removing", "gone"} /\ evict'[f] = evict[f]
        BY <1>1, <1>7, <2>1, <3>2 DEF Walk, Treads, TypeOK
      <4> QED BY <1>8, <4>1
    <3> QED BY <3>1, <3>2
  <2>2. ASSUME NEW f \in Evictions PROVE evict'[f].alias => evict'[f].kept = <<>>
    BY <1>1, <1>4, <1>7 DEF Walk, Treads
  <2>3. ASSUME NEW f \in Evictions PROVE evict'[f].now = evict[f].now /\ evict'[f].old = evict[f].old
    BY <1>7
  <2>4. ASSUME NEW f \in Evictions, NEW k \in DOMAIN evict[f].old
        PROVE  /\ dir'[evict[f].old[k]] # "none"
               /\ \A b \in Borrowers : holder[b].copy = evict[f].old[k] => evict[f].now <= lastUsed[evict[f].old[k]]
    <3>0. evict[f].old \in Seq(Copies)
      BY <1>1 DEF TypeOK
    <3>1. evict[f].old[k] \in Copies
      BY <3>0
    <3> QED BY <1>1, <1>8, <3>1 DEF Walk, Treads
  <2>5. \A f \in Evictions : evict[f].now <= clock
    BY <1>1 DEF Walk, Treads
  <2>6. holder' = holder /\ lastUsed' = lastUsed /\ clock' = clock
    BY <1>3
  <2>7. ASSUME NEW f \in Evictions PROVE Treads(evict'[f], dir', holder', lastUsed', clock')
    BY <2>1, <2>2, <2>3, <2>4, <2>5, <2>6 DEF Treads
  <2> QED BY <2>7 DEF Walk
<1> QED BY <1>3, <1>8, <1>9, EvictsOn

\* The directory is gone.
LEMMA EvictRemovedKept ==
  ASSUME Kept, TypeOK', NEW e \in Evictions, EvictRemoved(e)
  PROVE  Kept'
<1>1. TypeOK /\ Walk
  BY DEF Kept
<1>2. evict[e].rm \in Copies /\ dir[evict[e].rm] \in {"removing", "gone"}
  BY <1>1 DEF EvictRemoved, TypeOK, Walk, Treads
<1>3. /\ evict'[e].rm = NoCopy /\ evict'[e].now = evict[e].now /\ evict'[e].alias = evict[e].alias
      /\ evict'[e].old = evict[e].old /\ evict'[e].kept = evict[e].kept
      /\ \A f \in Evictions \ {e} : evict'[f] = evict[f]
  BY <1>1 DEF EvictRemoved, TypeOK
<1>4. \A v \in Copies : dir'[v] = dir[v] \/ (dir'[v] = "gone" /\ dir[v] # "none")
  BY <1>1, <1>2 DEF EvictRemoved, Destroy, TypeOK
<1>5. UNCHANGED <<bucket, lastUsed, holder, clock>>
  BY DEF EvictRemoved
<1>6. Walk'
  <2>1. ASSUME NEW f \in Evictions, evict'[f].rm # NoCopy
        PROVE  dir'[evict'[f].rm] \in {"removing", "gone"}
    <3>1. f # e /\ evict'[f] = evict[f]
      BY <1>3, <2>1
    <3>2. evict[f].rm \in Copies /\ dir[evict[f].rm] \in {"removing", "gone"}
      BY <1>1, <2>1, <3>1 DEF Walk, Treads, TypeOK
    <3> QED BY <1>4, <3>1, <3>2
  <2>2. ASSUME NEW f \in Evictions
        PROVE  /\ evict'[f].now = evict[f].now /\ evict'[f].old = evict[f].old
               /\ evict'[f].alias => evict'[f].kept = <<>>
               /\ evict[f].now <= clock
    BY <1>1, <1>3 DEF Walk, Treads
  <2>3. ASSUME NEW f \in Evictions, NEW k \in DOMAIN evict[f].old
        PROVE  /\ dir'[evict[f].old[k]] # "none"
               /\ \A b \in Borrowers : holder[b].copy = evict[f].old[k] => evict[f].now <= lastUsed[evict[f].old[k]]
    <3>0. evict[f].old \in Seq(Copies)
      BY <1>1 DEF TypeOK
    <3>1. evict[f].old[k] \in Copies
      BY <3>0
    <3>2. dir'[evict[f].old[k]] # "none"
      BY <1>1, <1>4, <3>1 DEF Walk, Treads
    <3> QED BY <1>1, <3>2 DEF Walk, Treads
  <2>4. ASSUME NEW f \in Evictions PROVE Treads(evict'[f], dir', holder', lastUsed', clock')
    BY <1>5, <2>1, <2>2, <2>3 DEF Treads
  <2> QED BY <2>4 DEF Walk
<1>7. \A v \in Copies : dir'[v] = "none" => dir[v] = "none"
  BY <1>4
<1> QED BY <1>5, <1>6, <1>7, EvictsOn

\* The end of an eviction that walked over the array in the Map: the rest of it is put back, and
\* the others are left with an array of copies that nobody has.
LEMMA EvictEndKept ==
  ASSUME Base, Kept, TypeOK', NEW e \in Evictions, EvictEnd(e), evict[e].alias
  PROVE  Kept'
<1>1. /\ TypeOK /\ Sorted /\ LoanPhases /\ Made /\ Walk /\ LentOnce /\ Bounded
      /\ bucket \in Seq(Copies)
  BY DEF Kept, TypeOK
<1>2. Entries(e) = bucket /\ evict[e].next \in Nat /\ evict[e].next >= 1 /\ evict[e].kept = <<>>
  BY <1>1 DEF Walk, Treads, Entries, TypeOK, Base, AtMost
<1> PICK n \in Nat : n = evict[e].next
  BY <1>2
<1>3. /\ SubSeq(bucket, n, Len(bucket)) \in Seq(Copies)
      /\ Len(SubSeq(bucket, n, Len(bucket))) <= Len(bucket)
      /\ \A i \in DOMAIN SubSeq(bucket, n, Len(bucket)) :
           i + n - 1 \in DOMAIN bucket /\ SubSeq(bucket, n, Len(bucket))[i] = bucket[i + n - 1]
  BY <1>1, <1>2, RestOf
<1>4. bucket' = SubSeq(bucket, n, Len(bucket))
  <2>1. bucket' = <<>> \o SubSeq(bucket, n, Len(bucket))
    BY <1>2 DEF EvictEnd
  <2> QED BY <1>3, <2>1, ConcatEmptySeq
<1>5. n - 1 \in Nat /\ \A i \in DOMAIN bucket' : i + (n - 1) \in DOMAIN bucket /\ bucket'[i] = bucket[i + (n - 1)]
  <2>1. \A i \in DOMAIN bucket' : i \in Nat
    BY <1>3, <1>4
  <2>2. n - 1 \in Nat /\ \A i \in Nat : i + (n - 1) = i + n - 1
    BY <1>2
  <2>3. ASSUME NEW i \in DOMAIN bucket'
        PROVE  i + (n - 1) \in DOMAIN bucket /\ bucket'[i] = bucket[i + (n - 1)]
    <3>1. i + n - 1 \in DOMAIN bucket /\ bucket'[i] = bucket[i + n - 1]
      BY <1>3, <1>4
    <3>2. i + (n - 1) = i + n - 1
      BY <2>1, <2>2
    <3> QED BY <3>1, <3>2, Zenon
  <2> QED BY <2>2, <2>3
<1>6. dir' = dir /\ lastUsed' = lastUsed /\ holder' = holder /\ clock' = clock
  BY DEF EvictEnd
<1>7. Sorted' /\ Bounded' /\ (\A w \in Copies : InBucket(w)' => InBucket(w))
  BY <1>1, <1>3, <1>4, <1>5, <1>6, Shortened
<1>8. LoanPhases' /\ Made'
  BY <1>1, <1>6, <1>7 DEF LoanPhases, Made, Holds
<1>9. LentOnce'
  <2> SUFFICES ASSUME NEW b \in Borrowers, holder[b].copy # NoCopy
               PROVE  /\ \A c \in Borrowers \ {b} : holder[c].copy # holder[b].copy
                      /\ ~InBucket(holder[b].copy)'
    BY <1>6 DEF LentOnce, Holds, InBucket
  <2>1. holder[b].copy \in Copies
    BY <1>1 DEF TypeOK
  <2> QED BY <1>1, <1>6, <1>7, <2>1 DEF LentOnce, Holds, InBucket
<1>10. \A w \in Copies : InBucket(w) => dir[w] # "none" /\ \A b \in Borrowers : ~Holds(b, w)
  <2>1. \A b \in Borrowers, w \in Copies : InBucket(w) /\ Holds(b, w) => FALSE
    BY <1>1, PoolAssumption DEF LentOnce, Holds
  <2> QED BY <1>1, <2>1 DEF Made
<1>11. Walk'
  <2> SUFFICES ASSUME NEW f \in Evictions PROVE Treads(evict'[f], dir, holder, lastUsed, clock)
    BY <1>6 DEF Walk
  <2>1. CASE f = e
    <3>1. evict'[f] = Off
      BY <2>1 DEF EvictEnd
    <3>2. Off.now = 0 /\ Off.rm = NoCopy /\ ~Off.alias /\ DOMAIN Off.old = {}
      BY DEF Off
    <3>3. 0 <= clock
      BY <1>1 DEF TypeOK
    <3> QED BY <3>1, <3>2, <3>3 DEF Treads
  <2>2. CASE f # e /\ evict[f].alias
    <3>1. evict'[f] = [evict[f] EXCEPT !.alias = FALSE, !.old = bucket]
      BY <2>2 DEF EvictEnd
    <3>2. /\ evict'[f].now = evict[f].now /\ ~evict'[f].alias /\ evict'[f].rm = evict[f].rm
          /\ evict'[f].old = bucket
      BY <1>1, <3>1 DEF TypeOK
    <3>3. \A i \in DOMAIN bucket : bucket[i] \in Copies /\ InBucket(bucket[i])
      BY <1>1 DEF InBucket
    <3>4. \A i \in DOMAIN bucket : dir[bucket[i]] # "none" /\ \A b \in Borrowers : holder[b].copy # bucket[i]
      BY <1>10, <3>3 DEF Holds
    <3>5. evict[f].now <= clock /\ (evict[f].rm # NoCopy => dir[evict[f].rm] \in {"removing", "gone"})
      BY <1>1 DEF Walk, Treads
    <3> QED BY <3>2, <3>4, <3>5 DEF Treads
  <2>3. CASE f # e /\ ~evict[f].alias
    <3>1. evict'[f] = evict[f]
      BY <2>3 DEF EvictEnd
    <3> QED BY <1>1, <3>1 DEF Walk, Treads
  <2> QED BY <2>1, <2>2, <2>3
<1> QED BY <1>7, <1>8, <1>9, <1>11 DEF Kept

\* Every step that puts no old array back keeps what holds until then.
LEMMA NextKept == Base /\ Kept /\ ~putBack' /\ [Next]_vars => Kept'
<1> SUFFICES ASSUME Base, Kept, ~putBack', [Next]_vars PROVE Kept'
  OBVIOUS
<1>1. TypeOK /\ Sorted /\ LoanPhases /\ Made /\ Walk /\ LentOnce /\ Bounded
  BY DEF Kept
<1>2. TypeOK'
  BY TypeStep
<1>3. ASSUME NEW b \in Borrowers, Acquire(b) PROVE Kept'
  BY <1>2, <1>3, AcquireKept
<1>4. ASSUME NEW b \in Borrowers, MakeDir(b) PROVE Kept'
  BY <1>2, <1>4, MakeDirKept DEF Kept
<1>5. ASSUME NEW b \in Borrowers, Checkout(b) PROVE Kept'
  <2>1. CASE Loan(b, "prepare", holder[b].copy) /\ lastUsed' = [lastUsed EXCEPT ![holder[b].copy] = clock]
    BY <1>2, <1>5, <2>1, KeepsCopy DEF Checkout, Phases, Kept
  <2>2. CASE holder' = [holder EXCEPT ![b] = NoLoan] /\ UNCHANGED lastUsed
    BY <1>2, <1>5, <2>2, GivesUp DEF Checkout, Kept
  <2> QED BY <1>5, <2>1, <2>2 DEF Checkout
<1>6. ASSUME NEW b \in Borrowers, Prepare(b) PROVE Kept'
  BY <1>2, <1>6, KeepsCopy DEF Prepare, Phases, Kept
<1>7. ASSUME NEW b \in Borrowers, Use(b) PROVE Kept'
  BY <1>2, <1>7, KeepsCopy DEF Use, Phases, Kept
<1>8. ASSUME NEW b \in Borrowers, Release(b) PROVE Kept'
  <2>1. CASE Len(bucket) < MaxPoolSize /\ bucket' = Append(bucket, holder[b].copy)
             /\ lastUsed' = [lastUsed EXCEPT ![holder[b].copy] = clock] /\ UNCHANGED dir
    <3>1. dir[holder[b].copy] # "none"
      BY <1>1, <1>8, HeldIsCopy DEF Release, Made, Holds
    <3> QED BY <1>2, <1>8, <2>1, <3>1, PushKept DEF Release
  <2>2. CASE Destroy(holder[b].copy) /\ UNCHANGED <<bucket, lastUsed>>
    BY <1>2, <1>8, <2>2, GivesUp DEF Release, Destroy, Kept
  <2> QED BY <1>8, <2>1, <2>2 DEF Release
<1>9. ASSUME NEW b \in Borrowers, RevertFails(b) PROVE Kept'
  BY <1>2, <1>9, GivesUp DEF RevertFails, Destroy, Kept
<1>10. ASSUME NEW e \in Evictions, EvictStart(e) PROVE Kept'
  BY <1>2, <1>10, EvictStartKept
<1>11. ASSUME NEW e \in Evictions, EvictNext(e) PROVE Kept'
  BY <1>2, <1>11, EvictNextKept
<1>12. ASSUME NEW e \in Evictions, EvictRemoved(e) PROVE Kept'
  BY <1>2, <1>12, EvictRemovedKept
<1>13. ASSUME NEW e \in Evictions, EvictEnd(e) PROVE Kept'
  BY <1>2, <1>13, EvictEndKept DEF EvictEnd
<1>14. CASE Tick \/ UNCHANGED vars
  <2>1. bucket' = bucket /\ dir' = dir /\ lastUsed' = lastUsed /\ holder' = holder /\ evict' = evict
    BY <1>14 DEF Tick, vars
  <2>2. clock \in Nat /\ clock' \in Nat /\ clock <= clock'
    BY <1>1, <1>2, <1>14 DEF Tick, vars, TypeOK
  <2>3. \A e \in Evictions : evict[e].now \in Nat /\ evict[e].now <= clock'
    BY <1>1, <2>2 DEF Walk, Treads, TypeOK
  <2>4. Walk'
    <3>1. ASSUME NEW e \in Evictions PROVE Treads(evict'[e], dir', holder', lastUsed', clock')
      BY <1>1, <2>1, <2>3 DEF Walk, Treads
    <3> QED BY <3>1 DEF Walk
  <2> QED BY <1>2, <2>1, <2>4, EvictsOn
<1> QED
  BY <1>3, <1>4, <1>5, <1>6, <1>7, <1>8, <1>9, <1>10, <1>11, <1>12, <1>13, <1>14
  DEF Next, Borrow, Evict

-----------------------------------------------------------------------------

\* The invariant holds in every reachable state.
THEOREM Invariance == Spec => []IInv
<1>1. Init => IInv
  <2> SUFFICES ASSUME Init PROVE IInv
    OBVIOUS
  <2>1. Kept
    BY InitKept
  <2>2. AtMost
    BY PoolAssumption DEF Init, AtMost, Off
  <2> QED BY <2>1, <2>2 DEF IInv, Base, Kept
<1>2. IInv /\ [Next]_vars => IInv'
  <2> SUFFICES ASSUME IInv, [Next]_vars PROVE IInv'
    OBVIOUS
  <2>1. Base'
    BY TypeStep, LoanStep, AtMostStep DEF Base, IInv
  <2>2. putBack => putBack'
    BY DEF Next, Borrow, Evict, Acquire, MakeDir, Checkout, Prepare, Use, Release, RevertFails,
           EvictStart, EvictNext, EvictRemoved, EvictEnd, Tick, vars
  <2>3. putBack' \/ Kept'
    BY <2>2, NextKept DEF IInv
  <2> QED BY <2>1, <2>3 DEF IInv
<1> QED BY <1>1, <1>2, PTL DEF Spec

\* withWorkingCopy: a working copy is lent to one request at a time, and none that is lent
\* is on offer in the pool, until an eviction puts an array back that another replaced.
THEOREM CopiesAreExclusive == Spec => []Exclusive
<1>1. IInv => Exclusive
  BY DEF IInv, Kept, Exclusive
<1> QED BY <1>1, Invariance, PTL

\* release and evictStale: the pool never holds more than maxPoolSize entries for a key, and
\* none twice until an old array is put back.
THEOREM PoolsAreBounded == Spec => []PoolBounded
<1>1. IInv => PoolBounded
  BY DEF IInv, Base, AtMost, Kept, Bounded, PoolBounded
<1> QED BY <1>1, Invariance, PTL

\* evictStale: the directory of a borrowed copy that is there is removed by its borrower only,
\* until an old array is put back.
THEOREM NoneRemovedInUse == Spec => NeverRemovedInUse
<1> DEFINE Harmless == \A b \in Borrowers :
             LET w == holder[b].copy IN
             (w # NoCopy /\ dir[w] = "present" /\ dir'[w] # "present") => holder'[b] = NoLoan
<1>1. ASSUME Base, Kept, Next PROVE Harmless
  <2> SUFFICES ASSUME NEW b \in Borrowers, NEW w, w = holder[b].copy, w # NoCopy, dir[w] = "present",
                      dir'[w] # "present"
               PROVE  holder'[b] = NoLoan
    OBVIOUS
  <2>0. TypeOK /\ Sorted /\ LoanPhases /\ Made /\ Walk /\ LentOnce
    BY <1>1 DEF Kept
  <2>1. TypeOK /\ Sorted /\ LoanPhases /\ Made /\ Walk /\ LentOnce /\ w \in Copies /\ bucket \in Seq(Copies)
    <3>1. holder[b].copy \in Copies \cup {NoCopy} /\ bucket \in Seq(Copies)
      BY <2>0 DEF TypeOK
    <3> QED BY <2>0, <3>1
  <2>2. dir' # dir
    OBVIOUS
  <2>3. CASE \E c \in Borrowers : Borrow(c)
    <3>1. PICK c \in Borrowers : Borrow(c)
      BY <2>3
    <3>2. CASE MakeDir(c)
      BY <2>1, <3>2 DEF MakeDir, TypeOK
    <3>3. CASE dir' = [dir EXCEPT ![holder[c].copy] = "gone"] /\ holder' = [holder EXCEPT ![c] = NoLoan]
      <4>1. holder[c].copy = w
        BY <2>1, <3>3 DEF TypeOK
      <4>2. c = b
        BY <2>1, <4>1 DEF LentOnce, Holds
      <4> QED BY <2>1, <3>3, <4>2 DEF TypeOK
    <3> QED
      BY <2>2, <3>1, <3>2, <3>3
      DEF Borrow, Acquire, Checkout, Prepare, Use, Release, RevertFails, Destroy
  <2>4. CASE \E e \in Evictions : EvictNext(e)
    <3>1. PICK e \in Evictions : EvictNext(e)
      BY <2>4
    <3> DEFINE i == Min(StaleFrom(e))
               a == Entries(e)
    <3>2. /\ i \in DOMAIN a /\ a[i] \in Copies /\ evict[e].now > lastUsed[a[i]] + Timeout
          /\ dir' = [dir EXCEPT ![a[i]] = IF @ = "present" THEN "removing" ELSE @]
      BY <1>1, <3>1, NextOf DEF EvictNext
    <3> HIDE DEF i
    <3>3. a[i] = w
      BY <2>1, <3>2 DEF TypeOK
    <3>4. CASE evict[e].alias
      BY <2>1, <3>2, <3>3, <3>4 DEF Entries, LentOnce, InBucket
    <3>5. CASE ~evict[e].alias
      <4>1. evict[e].now <= lastUsed[w] /\ evict[e].now > lastUsed[w] + Timeout
        BY <2>1, <3>2, <3>3, <3>5 DEF Entries, Walk, Treads
      <4>2. evict[e].now \in Nat /\ lastUsed[w] \in Nat
        BY <2>1 DEF TypeOK
      <4> QED BY <4>1, <4>2, PoolAssumption
    <3> QED BY <3>4, <3>5
  <2>5. CASE \E e \in Evictions : EvictRemoved(e)
    BY <2>1, <2>5 DEF EvictRemoved, Destroy, Walk, Treads, TypeOK
  <2>6. CASE Tick \/ (\E e \in Evictions : EvictStart(e) \/ EvictEnd(e))
    <3>1. CASE Tick
      BY <2>2, <3>1 DEF Tick
    <3>2. ASSUME NEW e \in Evictions, EvictStart(e) PROVE FALSE
      BY <2>2, <3>2 DEF EvictStart
    <3>3. ASSUME NEW e \in Evictions, EvictEnd(e) PROVE FALSE
      BY <2>2, <3>3 DEF EvictEnd
    <3> QED BY <2>6, <3>1, <3>2, <3>3
  <2> QED BY <1>1, <2>3, <2>4, <2>5, <2>6 DEF Next, Evict
<1>2. IInv /\ [Next]_vars => [putBack \/ Harmless]_vars
  BY <1>1 DEF IInv
<1> QED BY <1>2, Invariance, PTL DEF Spec, NeverRemovedInUse
=============================================================================
