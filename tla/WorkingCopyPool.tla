--------------------------- MODULE WorkingCopyPool ---------------------------
(***************************************************************************)
(* The pool of SVN working copies that merges and merge previews borrow    *)
(* (svn-engine/working-copy-pool.service.ts), for one pool key, that is    *)
(* one repository and target path: keys share nothing but the timer.       *)
(*                                                                         *)
(* The pool is a JavaScript array inside a Map.  acquire pops from it,     *)
(* release pushes to it, both without an await; evictStale walks over the  *)
(* same array with an await for every directory it removes, and then puts  *)
(* another array in its place.  An eviction that another one has overtaken *)
(* walks on over the array that is no longer in the Map.                   *)
(***************************************************************************)
EXTENDS Naturals, Sequences, FiniteSetsExt

CONSTANTS
  Borrowers,    \* requests that call withWorkingCopy
  Evictions,    \* evictStale calls that may overlap
  Copies,       \* directories mkdtemp may make
  NoCopy,       \* a borrower holds no directory
  MaxPoolSize,  \* maxPoolSize
  Timeout,      \* wcTimeoutMs, in ticks
  MaxClock      \* bound: ticks in a behaviour

ASSUME PoolAssumption ==
  /\ NoCopy \notin Copies
  /\ MaxPoolSize \in Nat
  /\ Timeout \in Nat
  /\ MaxClock \in Nat

VARIABLES
  bucket,    \* the array the Map holds for the key; empty when it holds none
  dir,       \* dir[w]: "none" before mkdtemp, "present", "removing" or "gone"
  lastUsed,  \* lastUsed[w]: lastUsedAt of the entry
  holder,    \* holder[b]: the working copy request b has borrowed, and its phase
  evict,     \* evict[e]: an eviction in progress
  clock,     \* Date.now(), in ticks
  putBack    \* history: an eviction that another one had overtaken put its old array back

vars == <<bucket, dir, lastUsed, holder, evict, clock, putBack>>

Phases == {"idle", "checkout", "prepare", "use", "cleanup"}
NoLoan == [phase |-> "idle", copy |-> NoCopy]

\* An eviction: the time it started, the directory it waits for, the next index of
\* its array, what it has kept, and whether its array is still the one in the Map
\* (if not, the array).
Off == [on |-> FALSE, now |-> 0, rm |-> NoCopy, next |-> 1, kept |-> <<>>,
        alias |-> FALSE, old |-> <<>>]

InBucket(w) == \E i \in DOMAIN bucket : bucket[i] = w
Holds(b, w) == holder[b].copy = w

Init ==
  /\ bucket = <<>>
  /\ dir = [w \in Copies |-> "none"]
  /\ lastUsed = [w \in Copies |-> 0]
  /\ holder = [b \in Borrowers |-> NoLoan]
  /\ evict = [e \in Evictions |-> Off]
  /\ clock = 0
  /\ putBack = FALSE

-----------------------------------------------------------------------------

Loan(b, phase, w) == holder' = [holder EXCEPT ![b] = [phase |-> phase, copy |-> w]]
Destroy(w) == dir' = [dir EXCEPT ![w] = "gone"]

\* A plausible slip: the entry is read without being taken out.
AcquirePeek(b) ==
  LET w == bucket[Len(bucket)] IN
  /\ holder[b].phase = "idle"
  /\ bucket # <<>>
  /\ lastUsed' = [lastUsed EXCEPT ![w] = clock]
  /\ Loan(b, "prepare", w)
  /\ UNCHANGED <<bucket, dir, evict, clock, putBack>>

\* acquire, with an entry in the pool: the last one is popped.
Acquire(b) ==
  LET w == bucket[Len(bucket)] IN
  /\ holder[b].phase = "idle"
  /\ bucket # <<>>
  /\ bucket' = SubSeq(bucket, 1, Len(bucket) - 1)
  /\ lastUsed' = [lastUsed EXCEPT ![w] = clock]
  /\ Loan(b, "prepare", w)
  /\ UNCHANGED <<dir, evict, clock, putBack>>

\* acquire, with an empty pool: a directory is made and checked out.
MakeDir(b) ==
  /\ holder[b].phase = "idle"
  /\ bucket = <<>>
  /\ \E w \in Copies :
       /\ dir[w] = "none"
       /\ dir' = [dir EXCEPT ![w] = "present"]
       /\ Loan(b, "checkout", w)
  /\ UNCHANGED <<bucket, lastUsed, evict, clock, putBack>>

\* The checkout succeeds, or throws and leaves the directory behind.
Checkout(b) ==
  LET w == holder[b].copy IN
  /\ holder[b].phase = "checkout"
  /\ \/ Loan(b, "prepare", w) /\ lastUsed' = [lastUsed EXCEPT ![w] = clock]
     \/ holder' = [holder EXCEPT ![b] = NoLoan] /\ UNCHANGED lastUsed
  /\ UNCHANGED <<bucket, dir, evict, clock, putBack>>

\* revert and update before the callback: they fail in a directory that is gone,
\* may fail in any other, and may still succeed in one that is being removed; the
\* finally block runs in every case.
Prepare(b) ==
  LET w == holder[b].copy IN
  /\ holder[b].phase = "prepare"
  /\ \/ dir[w] # "gone" /\ Loan(b, "use", w)
     \/ Loan(b, "cleanup", w)
  /\ UNCHANGED <<bucket, dir, lastUsed, evict, clock, putBack>>

\* The callback of the merge or the preview returns or throws.
Use(b) ==
  /\ holder[b].phase = "use"
  /\ Loan(b, "cleanup", holder[b].copy)
  /\ UNCHANGED <<bucket, dir, lastUsed, evict, clock, putBack>>

\* A plausible slip: the copy goes back to the pool whatever the pool holds.
ReleaseUnbounded(b) ==
  LET w == holder[b].copy IN
  /\ holder[b].phase = "cleanup"
  /\ dir[w] # "gone"
  /\ bucket' = Append(bucket, w)
  /\ lastUsed' = [lastUsed EXCEPT ![w] = clock]
  /\ holder' = [holder EXCEPT ![b] = NoLoan]
  /\ UNCHANGED <<dir, evict, clock, putBack>>

\* A plausible slip: the copy goes to the front of the array, before older ones.
ReleaseFront(b) ==
  LET w == holder[b].copy IN
  /\ holder[b].phase = "cleanup"
  /\ dir[w] # "gone"
  /\ Len(bucket) < MaxPoolSize
  /\ bucket' = <<w>> \o bucket
  /\ lastUsed' = [lastUsed EXCEPT ![w] = clock]
  /\ holder' = [holder EXCEPT ![b] = NoLoan]
  /\ UNCHANGED <<dir, evict, clock, putBack>>

\* A plausible slip: the entry is stamped with the time it expires.
ReleaseExpiry(b) ==
  LET w == holder[b].copy IN
  /\ holder[b].phase = "cleanup"
  /\ dir[w] # "gone"
  /\ Len(bucket) < MaxPoolSize
  /\ bucket' = Append(bucket, w)
  /\ lastUsed' = [lastUsed EXCEPT ![w] = clock + Timeout]
  /\ holder' = [holder EXCEPT ![b] = NoLoan]
  /\ UNCHANGED <<dir, evict, clock, putBack>>

\* The finally block, when its revert succeeds: release pushes the entry, or
\* removes the directory when the pool is full.
Release(b) ==
  LET w == holder[b].copy IN
  /\ holder[b].phase = "cleanup"
  /\ dir[w] # "gone"
  /\ \/ /\ Len(bucket) < MaxPoolSize
        /\ bucket' = Append(bucket, w)
        /\ lastUsed' = [lastUsed EXCEPT ![w] = clock]
        /\ UNCHANGED dir
     \/ /\ Len(bucket) >= MaxPoolSize
        /\ Destroy(w)
        /\ UNCHANGED <<bucket, lastUsed>>
  /\ holder' = [holder EXCEPT ![b] = NoLoan]
  /\ UNCHANGED <<evict, clock, putBack>>

\* The finally block, when its revert fails: the directory is removed.
RevertFails(b) ==
  /\ holder[b].phase = "cleanup"
  /\ Destroy(holder[b].copy)
  /\ holder' = [holder EXCEPT ![b] = NoLoan]
  /\ UNCHANGED <<bucket, lastUsed, evict, clock, putBack>>

-----------------------------------------------------------------------------

\* The timer fires.  With no array in the Map there is nothing to walk over.
EvictStart(e) ==
  /\ ~evict[e].on
  /\ bucket # <<>>
  /\ evict' = [evict EXCEPT ![e] = [Off EXCEPT !.on = TRUE, !.now = clock, !.alias = TRUE]]
  /\ UNCHANGED <<bucket, dir, lastUsed, holder, clock, putBack>>

\* The array eviction e walks over.
Entries(e) == IF evict[e].alias THEN bucket ELSE evict[e].old

\* The indices, from the next one on, of the entries that are stale for e.
StaleFrom(e) ==
  {i \in evict[e].next..Len(Entries(e)) : evict[e].now > lastUsed[Entries(e)[i]] + Timeout}

\* evictStale up to its next await: fresh entries are kept, the directory of the
\* next stale one is being removed.  The entry stays in the array meanwhile.
EvictNext(e) ==
  LET a == Entries(e)
      i == Min(StaleFrom(e))
  IN /\ evict[e].on /\ evict[e].rm = NoCopy
     /\ StaleFrom(e) # {}
     /\ dir' = [dir EXCEPT ![a[i]] = IF @ = "present" THEN "removing" ELSE @]
     /\ evict' = [evict EXCEPT ![e].rm = a[i],
                               ![e].next = i + 1,
                               ![e].kept = @ \o SubSeq(a, evict[e].next, i - 1)]
     /\ UNCHANGED <<bucket, lastUsed, holder, clock, putBack>>

\* The directory is gone, and the walk goes on.
EvictRemoved(e) ==
  /\ evict[e].rm # NoCopy
  /\ Destroy(evict[e].rm)
  /\ evict' = [evict EXCEPT ![e].rm = NoCopy]
  /\ UNCHANGED <<bucket, lastUsed, holder, clock, putBack>>

\* The end of evictStale: the rest is fresh, and what was kept becomes the array
\* in the Map.  Any other eviction is left with the array that was there.
EvictEnd(e) ==
  LET a == Entries(e) IN
  /\ evict[e].on /\ evict[e].rm = NoCopy
  /\ StaleFrom(e) = {}
  /\ bucket' = evict[e].kept \o SubSeq(a, evict[e].next, Len(a))
  /\ evict' = [f \in Evictions |->
       IF f = e THEN Off
       ELSE IF evict[f].alias THEN [evict[f] EXCEPT !.alias = FALSE, !.old = bucket]
       ELSE evict[f]]
  /\ putBack' = (putBack \/ ~evict[e].alias)
  /\ UNCHANGED <<dir, lastUsed, holder, clock>>

Tick ==
  /\ clock < MaxClock
  /\ clock' = clock + 1
  /\ UNCHANGED <<bucket, dir, lastUsed, holder, evict, putBack>>

-----------------------------------------------------------------------------

Borrow(b) ==
  \/ Acquire(b) \/ MakeDir(b)
  \/ Checkout(b) \/ Prepare(b) \/ Use(b) \/ Release(b) \/ RevertFails(b)

Evict(e) == EvictNext(e) \/ EvictRemoved(e) \/ EvictEnd(e)

Next ==
  \/ \E b \in Borrowers : Borrow(b)
  \/ \E e \in Evictions : EvictStart(e) \/ Evict(e)
  \/ Tick

Spec == Init /\ [][Next]_vars

-----------------------------------------------------------------------------

TypeOK ==
  /\ bucket \in Seq(Copies)
  /\ dir \in [Copies -> {"none", "present", "removing", "gone"}]
  /\ lastUsed \in [Copies -> 0..clock]
  /\ holder \in [Borrowers -> [phase : Phases, copy : Copies \cup {NoCopy}]]
  /\ evict \in [Evictions -> [on : BOOLEAN, now : Nat, rm : Copies \cup {NoCopy}, next : Nat,
                              kept : Seq(Copies), alias : BOOLEAN, old : Seq(Copies)]]
  /\ clock \in Nat
  /\ putBack \in BOOLEAN

LentOnce ==
  \A b \in Borrowers :
    holder[b].copy # NoCopy =>
      /\ \A c \in Borrowers \ {b} : ~Holds(c, holder[b].copy)
      /\ ~InBucket(holder[b].copy)

OfferedOnce == \A i, j \in DOMAIN bucket : bucket[i] = bucket[j] => i = j

\* A working copy is borrowed by one request at a time, and none that is borrowed
\* is on offer in the pool: the merge of one request never runs in the directory
\* of another's.  It rests on the order of the array: entries are pushed as they
\* are released, so the stale ones, for which evictStale awaits, come first, and
\* what it keeps it collects after its last await.  Nothing keeps two evictions
\* apart, and the timer may start one while the last still removes directories: the
\* property holds through that too, up to the moment an eviction ends whose array
\* another one has replaced, and puts that array, with the copies lent since, back.
Exclusive == putBack \/ LentOnce

\* The pool never holds more entries for a key than maxPoolSize, however many
\* evictions overlap; and none twice, until an old array is put back.
PoolBounded ==
  /\ Len(bucket) <= MaxPoolSize
  /\ putBack \/ OfferedOnce

\* A directory that exists and is borrowed is removed by nobody but its borrower,
\* as it ends: an eviction takes away no directory somebody works in, nor does one
\* that walks over an array another has replaced, until an old array is put back.
\* (A directory that is being removed can still be borrowed, and then fails in Prepare.)
NeverRemovedInUse ==
  [][putBack \/ \A b \in Borrowers :
       LET w == holder[b].copy IN
       (w # NoCopy /\ dir[w] = "present" /\ dir'[w] # "present") => holder'[b] = NoLoan]_vars

=============================================================================
