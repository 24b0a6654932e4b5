------------------------- MODULE PullRequestsProofs -------------------------
(***************************************************************************)
(* What holds of the pull requests for any number of them, of requests, of *)
(* commits and of failures.                                                *)
(*                                                                         *)
(* A merge commit is sound because of what the request has seen since its  *)
(* svn update: the commits it holds are not on the trunk as of the base of *)
(* the working copy, and svn accepts the commit only when that is still    *)
(* the newest trunk.  The invariant gives every handler in flight what it  *)
(* relies on, and what it relies on stays true however the rows and the    *)
(* trunk grow.                                                             *)
(***************************************************************************)
EXTENDS PullRequests, SequenceTheorems, FiniteSetTheorems, TLAPS

\* The trunk t holds, as of revision v, the commits of branch b up to u.
In(t, b, u, v) == \E i \in DOMAIN t : t[i].branch = b /\ t[i].rev <= v /\ t[i].upTo >= u

\* The trunk t, as of revision v, has only commits of branch b before u.
Before(t, b, u, v) ==
  \A i \in DOMAIN t : t[i].branch = b /\ t[i].rev <= v => t[i].upTo < u

\* What the handler h relies on: hd the newest revision, p the rows, t the trunk and a
\* the pull requests that were ever cleared.
HandlerOK(h, hd, p, t, a) ==
  /\ h.base <= hd /\ h.upTo <= hd /\ h.rev <= hd
  /\ h.step \in {"number", "insert"} => h.branch \in Branches
  /\ h.step \notin {"idle", "number", "insert"} => h.num \in DOMAIN p
  /\ h.step \in {"preview", "policy"} /\ h.approvals > 0 => h.num \in a
  /\ h.step \in {"update", "merge", "commit"} => h.num \in a
  /\ h.step \in {"merge", "commit"} => h.base >= 1
  /\ h.step \in {"preview", "policy", "update", "merge"} => h.upTo = 0
  /\ h.step = "commit" /\ h.upTo > 0 =>
       IF h.dirty THEN Before(t, p[h.num].branch, h.upTo, h.base)
                  ELSE In(t, p[h.num].branch, h.upTo, h.base)
  /\ h.step \in {"mark", "drop", "announce"} => h.rev >= 1
  /\ h.step \in {"mark", "drop", "announce"} /\ h.upTo > 0 =>
       In(t, p[h.num].branch, h.upTo, h.rev)

HandlersOK == \A r \in Requests : HandlerOK(req[r], head, prs, trunk, cleared)

\* Every approval that counts has been noted, and so has that none is asked for.
ApprovalsNoted ==
  /\ cleared \subseteq DOMAIN prs
  /\ \A n \in Numbers, u \in Reviewers : reviews[n][u] = "APPROVED" => n \in cleared
  /\ policy.min = 0 => DOMAIN prs \subseteq cleared

\* There is a first revision, and the events are about pull requests that exist.
Grounded ==
  /\ head >= 1
  /\ \A e \in events : e.num \in DOMAIN prs

IInv ==
  /\ TypeOK
  /\ HandlersOK
  /\ ApprovalsNoted
  /\ Grounded
  /\ MergedIsIn
  /\ AppliedOnce
  /\ ReviewedOnly

-----------------------------------------------------------------------------
(***************************************************************************)
(* What a step keeps when the rows, the trunk and the approvals only grow. *)
(***************************************************************************)

Grows ==
  /\ head \in Nat /\ head' \in Nat /\ head <= head'
  /\ DOMAIN prs \subseteq DOMAIN prs'
  /\ \A n \in DOMAIN prs : prs'[n].branch = prs[n].branch
  /\ DOMAIN trunk \subseteq DOMAIN trunk'
  /\ \A i \in DOMAIN trunk : trunk'[i] = trunk[i]
  /\ \A i \in DOMAIN trunk' : i \notin DOMAIN trunk => trunk'[i].rev = head + 1
  /\ cleared \subseteq cleared'

LEMMA InStays ==
  ASSUME Grows, NEW b, NEW u, NEW v, In(trunk, b, u, v)
  PROVE  In(trunk', b, u, v)
  BY DEF Grows, In

LEMMA BeforeStays ==
  ASSUME Grows, NEW b, NEW u, NEW v \in Nat, v <= head, Before(trunk, b, u, v)
  PROVE  Before(trunk', b, u, v)
<1> SUFFICES ASSUME NEW i \in DOMAIN trunk', trunk'[i].branch = b, trunk'[i].rev <= v
             PROVE  trunk'[i].upTo < u
  BY DEF Before
<1>1. i \in DOMAIN trunk
  <2> SUFFICES ASSUME i \notin DOMAIN trunk PROVE FALSE
    OBVIOUS
  <2>1. trunk'[i].rev = head + 1
    BY DEF Grows
  <2> QED BY <2>1 DEF Grows
<1> QED BY <1>1 DEF Grows, Before

\* What a handler relies on stays true.
LEMMA HandlerStays ==
  ASSUME Grows, NEW h \in Handler, HandlerOK(h, head, prs, trunk, cleared)
  PROVE  HandlerOK(h, head', prs', trunk', cleared')
<1>1. h.base \in Nat /\ h.upTo \in Nat /\ h.rev \in Nat
  BY PullRequestsAssumption DEF Handler, Revisions
<1>2. h.base <= head' /\ h.upTo <= head' /\ h.rev <= head'
  BY <1>1 DEF HandlerOK, Grows
<1>3. ASSUME h.num \in DOMAIN prs
      PROVE  h.num \in DOMAIN prs' /\ prs'[h.num].branch = prs[h.num].branch
  BY <1>3 DEF Grows
<1>4. ASSUME h.num \in cleared PROVE h.num \in cleared'
  BY <1>4 DEF Grows
<1>5. ASSUME h.step = "commit", h.upTo > 0
      PROVE  IF h.dirty THEN Before(trunk', prs'[h.num].branch, h.upTo, h.base)
                        ELSE In(trunk', prs'[h.num].branch, h.upTo, h.base)
  <2>1. prs'[h.num].branch = prs[h.num].branch
    BY <1>5, <1>3 DEF HandlerOK
  <2>2. CASE h.dirty
    <3>1. Before(trunk, prs[h.num].branch, h.upTo, h.base) /\ h.base <= head
      BY <1>5, <2>2 DEF HandlerOK
    <3> QED BY <1>1, <2>1, <2>2, <3>1, BeforeStays
  <2>3. CASE ~h.dirty
    <3>1. In(trunk, prs[h.num].branch, h.upTo, h.base)
      BY <1>5, <2>3 DEF HandlerOK
    <3> QED BY <2>1, <2>3, <3>1, InStays
  <2> QED BY <2>2, <2>3
<1>6. ASSUME h.step \in {"mark", "drop", "announce"}, h.upTo > 0
      PROVE  In(trunk', prs'[h.num].branch, h.upTo, h.rev)
  <2>1. prs'[h.num].branch = prs[h.num].branch
    BY <1>6, <1>3 DEF HandlerOK
  <2>2. In(trunk, prs[h.num].branch, h.upTo, h.rev)
    BY <1>6 DEF HandlerOK
  <2> QED BY <2>1, <2>2, InStays
<1> QED BY <1>2, <1>3, <1>4, <1>5, <1>6 DEF HandlerOK

\* A step that moves one handler.
LEMMA HandlersStay ==
  ASSUME IInv, Grows, NEW r \in Requests, NEW h \in Handler, req' = [req EXCEPT ![r] = h],
         HandlerOK(h, head', prs', trunk', cleared')
  PROVE  HandlersOK' /\ req' \in [Requests -> Handler]
<1>1. req \in [Requests -> Handler]
  BY DEF IInv, TypeOK
<1>2. ASSUME NEW q \in Requests
      PROVE  HandlerOK(req'[q], head', prs', trunk', cleared')
  <2>1. CASE q = r
    <3>1. req'[q] = h
      BY <1>1, <2>1
    <3> QED BY <3>1
  <2>2. CASE q # r
    <3>1. req'[q] = req[q] /\ req[q] \in Handler
      BY <1>1, <2>2
    <3>2. HandlerOK(req[q], head, prs, trunk, cleared)
      BY DEF IInv, HandlersOK
    <3>3. HandlerOK(req[q], head', prs', trunk', cleared')
      BY <3>1, <3>2, HandlerStays
    <3> QED BY <3>1, <3>3
  <2> QED BY <2>1, <2>2
<1> QED BY <1>1, <1>2 DEF HandlersOK

\* A step that moves none.
LEMMA HandlersSame ==
  ASSUME IInv, Grows, req' = req
  PROVE  HandlersOK'
<1>1. ASSUME NEW q \in Requests
      PROVE  HandlerOK(req'[q], head', prs', trunk', cleared')
  <2>1. req'[q] = req[q] /\ req[q] \in Handler
    BY DEF IInv, TypeOK
  <2>2. HandlerOK(req[q], head, prs, trunk, cleared)
    BY DEF IInv, HandlersOK
  <2>3. HandlerOK(req[q], head', prs', trunk', cleared')
    BY <2>1, <2>2, HandlerStays
  <2> QED BY <2>1, <2>3
<1> QED BY <1>1 DEF HandlersOK

\* The handler that is gone relies on nothing.
LEMMA IdleOK ==
  ASSUME IInv
  PROVE  Idle \in Handler /\ \A hd \in Nat : \A p, t, a : HandlerOK(Idle, hd, p, t, a)
<1>1. Cardinality(Reviewers) \in Nat
  BY FS_CardinalityType, PullRequestsAssumption
<1> QED BY <1>1, PullRequestsAssumption DEF Idle, Handler, HandlerOK, Steps, Revisions

\* The rows that were there keep what MergedIsIn says of them, and so do the events.
LEMMA MergedStays ==
  ASSUME IInv, Grows,
         \A n \in DOMAIN prs' :
           prs'[n].status = "MERGED" /\ prs'[n].found > 0 =>
             \/ n \in DOMAIN prs /\ prs'[n] = prs[n]
             \/ In(trunk', prs'[n].branch, prs'[n].found, prs'[n].rev),
         \A e \in events' :
           e.found > 0 => \/ e \in events
                          \/ In(trunk', prs'[e.num].branch, e.found, e.rev)
  PROVE  MergedIsIn'
<1>1. ASSUME NEW n \in DOMAIN prs', prs'[n].status = "MERGED", prs'[n].found > 0
      PROVE  In(trunk', prs'[n].branch, prs'[n].found, prs'[n].rev)
  <2>1. CASE n \in DOMAIN prs /\ prs'[n] = prs[n]
    <3>1. In(trunk, prs[n].branch, prs[n].found, prs[n].rev)
      BY <1>1, <2>1 DEF IInv, MergedIsIn, Contains, BranchOf, In
    <3> QED BY <2>1, <3>1, InStays
  <2> QED BY <1>1, <2>1
<1>2. ASSUME NEW e \in events', e.found > 0
      PROVE  In(trunk', prs'[e.num].branch, e.found, e.rev)
  <2>1. CASE e \in events
    <3>1. In(trunk, prs[e.num].branch, e.found, e.rev)
      BY <1>2, <2>1 DEF IInv, MergedIsIn, Contains, BranchOf, In
    <3>2. prs'[e.num].branch = prs[e.num].branch
      BY <2>1 DEF Grows, IInv, Grounded
    <3> QED BY <3>1, <3>2, InStays
  <2> QED BY <1>2, <2>1
<1> QED BY <1>1, <1>2 DEF MergedIsIn, Contains, BranchOf, In

\* A trunk that does not change keeps its properties.
LEMMA TrunkStays ==
  ASSUME IInv, Grows, trunk' = trunk
  PROVE  AppliedOnce' /\ ReviewedOnly'
<1>1. AppliedOnce'
  BY DEF IInv, AppliedOnce
<1>2. ASSUME NEW i \in DOMAIN trunk, trunk[i].branch \in Branches
      PROVE  \E n \in cleared' : prs'[n].branch = trunk[i].branch
  <2>1. PICK n \in cleared : prs[n].branch = trunk[i].branch
    BY <1>2 DEF IInv, ReviewedOnly, BranchOf
  <2>2. n \in cleared' /\ prs'[n].branch = prs[n].branch
    BY DEF IInv, ApprovalsNoted, Grows
  <2> QED BY <2>1, <2>2
<1> QED BY <1>1, <1>2 DEF ReviewedOnly, BranchOf

-----------------------------------------------------------------------------
(***************************************************************************)
(* The steps that only move a handler.                                     *)
(***************************************************************************)

Frozen == UNCHANGED <<rows, svn, events, cleared>>

LEMMA FrozenKeeps ==
  ASSUME IInv, Frozen
  PROVE  Grows /\ ApprovalsNoted' /\ Grounded' /\ MergedIsIn' /\ AppliedOnce' /\ ReviewedOnly'
<1>1. /\ prs' = prs /\ reviews' = reviews /\ policy' = policy /\ head' = head
      /\ trunk' = trunk /\ events' = events /\ cleared' = cleared
  BY DEF Frozen, rows, svn
<1>2. Grows
  BY <1>1, PullRequestsAssumption DEF Grows, IInv, TypeOK, Revisions
<1>3. ApprovalsNoted' /\ Grounded'
  BY <1>1 DEF IInv, ApprovalsNoted, Grounded
<1>4. MergedIsIn'
  BY <1>1, <1>2, MergedStays
<1>5. AppliedOnce' /\ ReviewedOnly'
  BY <1>1, <1>2, TrunkStays
<1> QED BY <1>2, <1>3, <1>4, <1>5

LEMMA FrozenTyped ==
  ASSUME IInv, Frozen, req' \in [Requests -> Handler], faults' \in 0..MaxFaults
  PROVE  TypeOK'
  BY DEF Frozen, rows, svn, IInv, TypeOK

LEMMA Moves ==
  ASSUME IInv, Frozen, faults' \in 0..MaxFaults,
         NEW r \in Requests, NEW h \in Handler, req' = [req EXCEPT ![r] = h],
         HandlerOK(h, head, prs, trunk, cleared)
  PROVE  IInv'
<1>1. Grows /\ ApprovalsNoted' /\ Grounded' /\ MergedIsIn' /\ AppliedOnce' /\ ReviewedOnly'
  BY FrozenKeeps
<1>2. head' = head /\ prs' = prs /\ trunk' = trunk /\ cleared' = cleared
  BY DEF Frozen, rows, svn
<1>3. HandlersOK' /\ req' \in [Requests -> Handler]
  BY <1>1, <1>2, HandlersStay
<1>4. TypeOK'
  BY <1>3, FrozenTyped
<1> QED BY <1>1, <1>3, <1>4 DEF IInv

\* What every step knows of its handler.
LEMMA Known ==
  ASSUME IInv, NEW r \in Requests
  PROVE  /\ req[r] \in Handler
         /\ HandlerOK(req[r], head, prs, trunk, cleared)
         /\ head \in Nat /\ head >= 1 /\ head <= MaxHead
         /\ prs \in Seq(Row) /\ Len(prs) \in Nat /\ Len(prs) <= MaxPrs
         /\ DOMAIN prs = 1..Len(prs) /\ DOMAIN prs \subseteq Numbers
         /\ faults \in 0..MaxFaults
<1>1. prs \in Seq(Row) /\ Len(prs) <= MaxPrs /\ head \in 0..MaxHead
  BY DEF IInv, TypeOK, Revisions
<1>2. Len(prs) \in Nat /\ DOMAIN prs = 1..Len(prs)
  BY <1>1
<1>3. DOMAIN prs \subseteq Numbers
  BY <1>1, <1>2, PullRequestsAssumption DEF Numbers
<1> QED BY <1>1, <1>2, <1>3, PullRequestsAssumption
        DEF IInv, TypeOK, HandlersOK, Grounded

LEMMA RowKnown ==
  ASSUME IInv, NEW n \in DOMAIN prs
  PROVE  prs[n] \in Row /\ BranchOf(n) \in Branches
<1>1. prs \in Seq(Row) /\ n \in 1..Len(prs)
  BY DEF IInv, TypeOK
<1>2. prs[n] \in Row
  BY <1>1, ElementOfSeq
<1> QED BY <1>2 DEF Row, BranchOf

LEMMA CommitKnown ==
  ASSUME IInv, NEW i \in DOMAIN trunk
  PROVE  trunk[i].rev \in 1..head /\ trunk[i].upTo \in Nat
<1> DEFINE Commit == [rev : 1..head, branch : Branches \cup {Trunk}, upTo : 0..head]
<1>1. trunk \in Seq(Commit) /\ i \in 1..Len(trunk)
  BY DEF IInv, TypeOK
<1>2. trunk[i] \in Commit
  <2> HIDE DEF Commit
  <2> QED BY <1>1, ElementOfSeq
<1> QED BY <1>2

LEMMA EndStep ==
  ASSUME IInv, Frozen, faults' \in 0..MaxFaults, NEW r \in Requests, End(r)
  PROVE  IInv'
<1>1. Idle \in Handler /\ HandlerOK(Idle, head, prs, trunk, cleared)
  BY IdleOK, Known
<1> QED BY <1>1, Moves DEF End

LEMMA CreateCheckStep ==
  ASSUME IInv, NEW r \in Requests, NEW b \in Branches, CreateCheck(r, b)
  PROVE  IInv'
<1> DEFINE h == [Idle EXCEPT !.step = "number", !.branch = b]
<1>1. Idle \in Handler /\ HandlerOK(Idle, head, prs, trunk, cleared)
  BY IdleOK, Known
<1>2. h \in Handler
  BY <1>1 DEF Handler, Idle, Steps
<1>3. HandlerOK(h, head, prs, trunk, cleared)
  BY <1>1, Known DEF Idle, HandlerOK
<1>4. Frozen /\ faults' \in 0..MaxFaults /\ req' = [req EXCEPT ![r] = h]
  BY Known DEF CreateCheck, Frozen
<1> QED BY <1>2, <1>3, <1>4, Moves

LEMMA CreateNumberStep ==
  ASSUME IInv, NEW r \in Requests, CreateNumber(r)
  PROVE  IInv'
<1> DEFINE h == [req[r] EXCEPT !.step = "insert", !.num = Len(prs) + 1]
<1>1. req[r].step = "number" /\ Len(prs) + 1 \in 0..MaxPrs
  BY Known, PullRequestsAssumption DEF CreateNumber, At
<1>2. h \in Handler
  BY <1>1, Known DEF Handler, Steps
<1>3. HandlerOK(h, head, prs, trunk, cleared)
  BY <1>1, Known DEF HandlerOK, Handler
<1>4. Frozen /\ faults' \in 0..MaxFaults /\ req' = [req EXCEPT ![r] = h]
  BY Known DEF CreateNumber, Frozen, Handler
<1> QED BY <1>2, <1>3, <1>4, Moves

LEMMA StatusLoadStep ==
  ASSUME IInv, NEW r \in Requests, NEW n \in DOMAIN prs, NEW to \in {"OPEN", "CLOSED"},
         StatusLoad(r, n, to)
  PROVE  IInv'
<1> DEFINE h == [Idle EXCEPT !.step = "set", !.num = n, !.to = to]
<1>1. Idle \in Handler /\ HandlerOK(Idle, head, prs, trunk, cleared)
  BY IdleOK, Known
<1>2. n \in 0..MaxPrs
  BY Known DEF Numbers
<1>3. h \in Handler
  BY <1>1, <1>2 DEF Handler, Idle, Steps
<1>4. HandlerOK(h, head, prs, trunk, cleared)
  BY <1>1, Known DEF Idle, HandlerOK
<1>5. Frozen /\ faults' \in 0..MaxFaults /\ req' = [req EXCEPT ![r] = h]
  BY Known DEF StatusLoad, Frozen
<1> QED BY <1>3, <1>4, <1>5, Moves

\* Somebody's approval is behind a count above zero.
LEMMA Counted ==
  ASSUME IInv, NEW n \in Numbers
  PROVE  /\ Approvals(n) \in 0..Cardinality(Reviewers)
         /\ Approvals(n) > 0 => n \in cleared
<1> DEFINE A == {u \in Reviewers : reviews[n][u] = "APPROVED"}
<1>1. IsFiniteSet(Reviewers) /\ A \in SUBSET Reviewers
  BY PullRequestsAssumption
<1>2. IsFiniteSet(A) /\ Cardinality(A) <= Cardinality(Reviewers)
  BY <1>1, FS_Subset
<1>3. Cardinality(A) \in Nat /\ Cardinality(Reviewers) \in Nat
  BY <1>1, <1>2, FS_CardinalityType
<1>4. ASSUME Cardinality(A) > 0 PROVE n \in cleared
  <2>1. A # {}
    BY <1>4, FS_EmptySet
  <2> QED BY <2>1 DEF IInv, ApprovalsNoted
<1> QED BY <1>2, <1>3, <1>4 DEF Approvals

LEMMA MergeLoadStep ==
  ASSUME IInv, NEW r \in Requests, NEW n \in DOMAIN prs, NEW drop \in BOOLEAN,
         MergeLoad(r, n, drop)
  PROVE  IInv'
<1> DEFINE h == [Idle EXCEPT !.step = "preview", !.num = n,
                             !.approvals = Approvals(n), !.drop = drop]
<1>1. Idle \in Handler /\ HandlerOK(Idle, head, prs, trunk, cleared)
  BY IdleOK, Known
<1>2. n \in Numbers /\ n \in 0..MaxPrs
  BY Known DEF Numbers
<1>3. Approvals(n) \in 0..Cardinality(Reviewers) /\ (Approvals(n) > 0 => n \in cleared)
  BY <1>2, Counted
<1>4. h \in Handler
  BY <1>1, <1>2, <1>3 DEF Handler, Idle, Steps
<1>5. HandlerOK(h, head, prs, trunk, cleared)
  BY <1>1, <1>3, Known DEF Idle, HandlerOK
<1>6. Frozen /\ faults' \in 0..MaxFaults /\ req' = [req EXCEPT ![r] = h]
  BY Known DEF MergeLoad, Frozen
<1> QED BY <1>4, <1>5, <1>6, Moves

LEMMA PreviewStep ==
  ASSUME IInv, NEW r \in Requests, Preview(r)
  PROVE  IInv'
<1> DEFINE h == [req[r] EXCEPT !.step = "policy"]
<1>1. Frozen /\ faults' \in 0..MaxFaults /\ (GoTo(r, "policy") \/ End(r))
  BY Known DEF Preview, Frozen
<1>2. CASE GoTo(r, "policy")
  <2>1. h \in Handler
    BY Known DEF Handler, Steps
  <2>2. HandlerOK(h, head, prs, trunk, cleared)
    BY Known DEF HandlerOK, Handler, Preview, At
  <2>3. req' = [req EXCEPT ![r] = h]
    BY <1>2 DEF GoTo
  <2> QED BY <1>1, <2>1, <2>2, <2>3, Moves
<1> QED BY <1>1, <1>2, EndStep

LEMMA CheckPolicyStep ==
  ASSUME IInv, NEW r \in Requests, CheckPolicy(r)
  PROVE  IInv'
<1> DEFINE h == [req[r] EXCEPT !.step = "update", !.approvals = 0]
<1>1. Frozen /\ faults' \in 0..MaxFaults
  BY Known DEF CheckPolicy, Frozen
<1>2. CASE req[r].approvals >= policy.min
  <2>1. policy.min \in Nat
    <3>1. policy \in [min : Minimums, block : BOOLEAN]
      BY DEF IInv, TypeOK
    <3>2. policy.min \in Minimums
      BY <3>1
    <3> HIDE DEF h
    <3> QED BY <3>2, PullRequestsAssumption
  <2>2. req[r].approvals \in Nat /\ Cardinality(Reviewers) \in Nat
    <3>1. Cardinality(Reviewers) \in Nat
      BY FS_CardinalityType, PullRequestsAssumption
    <3> QED BY <3>1, Known DEF Handler
  <2>3. req[r].num \in cleared
    <3>1. CASE policy.min = 0
      BY <3>1, Known DEF HandlerOK, CheckPolicy, At, IInv, ApprovalsNoted
    <3>2. CASE policy.min # 0
      BY <1>2, <2>1, <2>2, <3>2, Known DEF HandlerOK, CheckPolicy, At
    <3> QED BY <3>1, <3>2
  <2>4. h \in Handler
    <3>1. 0 \in 0..Cardinality(Reviewers)
      BY <2>2
    <3> QED BY <3>1, Known DEF Handler, Steps
  <2>5. HandlerOK(h, head, prs, trunk, cleared)
    BY <2>3, Known DEF HandlerOK, Handler, CheckPolicy, At
  <2>6. req' = [req EXCEPT ![r] = h]
    BY <1>2 DEF CheckPolicy
  <2> QED BY <1>1, <2>4, <2>5, <2>6, Moves
<1>3. CASE ~(req[r].approvals >= policy.min)
  BY <1>1, <1>3, EndStep DEF CheckPolicy
<1> QED BY <1>2, <1>3

LEMMA WcUpdateStep ==
  ASSUME IInv, NEW r \in Requests, WcUpdate(r)
  PROVE  IInv'
<1> DEFINE h == [req[r] EXCEPT !.step = "merge", !.base = head]
<1>1. Frozen /\ faults' \in 0..MaxFaults /\ req' = [req EXCEPT ![r] = h]
  BY Known DEF WcUpdate, Frozen
<1>2. h \in Handler
  <2>1. head \in Revisions
    BY DEF IInv, TypeOK
  <2> QED BY <2>1, Known DEF Handler, Steps
<1>3. req[r].upTo = 0
  BY Known DEF HandlerOK, WcUpdate, At
<1>4. HandlerOK(h, head, prs, trunk, cleared)
  BY <1>3, Known DEF HandlerOK, Handler, WcUpdate, At
<1> QED BY <1>1, <1>2, <1>4, Moves

LEMMA WcMergeStep ==
  ASSUME IInv, NEW r \in Requests, WcMerge(r)
  PROVE  IInv'
<1> DEFINE b == BranchOf(req[r].num)
           new == ~Contains(b, tip[b], req[r].base)
           h == [req[r] EXCEPT !.step = "commit", !.upTo = tip[b], !.dirty = tip[b] > 0 /\ new]
<1>1. Frozen /\ faults' \in 0..MaxFaults /\ (End(r) \/ req' = [req EXCEPT ![r] = h])
  BY Known DEF WcMerge, Frozen
<1>2. ASSUME req' = [req EXCEPT ![r] = h]
      PROVE  IInv'
  <2>1. req[r].step = "merge" /\ req[r].num \in DOMAIN prs
    BY Known DEF HandlerOK, WcMerge, At
  <2>2. b \in Branches
    BY <2>1, RowKnown
  <2>3. tip[b] \in 0..head /\ tip[b] \in Revisions
    BY <2>2, Known, PullRequestsAssumption DEF IInv, TypeOK, Revisions
  <2>4. (tip[b] > 0 /\ new) \in BOOLEAN
    OBVIOUS
  <2>5. h \in Handler
    <3> HIDE DEF b, new
    <3> QED BY <2>3, <2>4, Known DEF Handler, Steps
  <2>6. /\ h.step = "commit" /\ h.num = req[r].num /\ h.base = req[r].base
        /\ h.upTo = tip[b] /\ h.rev = req[r].rev /\ h.dirty = (tip[b] > 0 /\ new)
    <3> HIDE DEF b, new
    <3> QED BY Known DEF Handler
  <2>7. ASSUME h.dirty PROVE Before(trunk, prs[h.num].branch, h.upTo, h.base)
    <3>1. ~In(trunk, b, tip[b], req[r].base)
      BY <2>6, <2>7 DEF Contains, In
    <3>2. \A i \in DOMAIN trunk : trunk[i].upTo \in Nat
      BY CommitKnown
    <3>3. Before(trunk, b, tip[b], req[r].base)
      <4> HIDE DEF b, h
      <4> QED BY <2>3, <3>1, <3>2 DEF In, Before
    <3> QED BY <2>6, <3>3 DEF BranchOf
  <2>8. ASSUME ~h.dirty, h.upTo > 0 PROVE In(trunk, prs[h.num].branch, h.upTo, h.base)
    <3>1. In(trunk, b, tip[b], req[r].base)
      BY <2>6, <2>8 DEF Contains, In
    <3> QED BY <2>6, <3>1 DEF BranchOf
  <2>9. HandlerOK(h, head, prs, trunk, cleared)
    <3> HIDE DEF b, new, h
    <3> QED BY <2>1, <2>3, <2>6, <2>7, <2>8, Known DEF HandlerOK
  <2> HIDE DEF h
  <2> QED BY <1>1, <1>2, <2>5, <2>9, Moves
<1> QED BY <1>1, <1>2, EndStep

LEMMA WcMergeFailsStep ==
  ASSUME IInv, NEW r \in Requests, WcMergeFails(r)
  PROVE  IInv'
<1>1. PICK dirty \in BOOLEAN : req' = [req EXCEPT ![r].step = "commit", ![r].dirty = dirty]
  BY DEF WcMergeFails
<1> DEFINE h == [req[r] EXCEPT !.step = "commit", !.dirty = dirty]
<1>2. Frozen /\ faults' \in 0..MaxFaults
  BY Known, PullRequestsAssumption DEF WcMergeFails, Frozen
<1>3. h \in Handler
  BY Known DEF Handler, Steps
<1>4. req[r].upTo = 0
  BY Known DEF HandlerOK, WcMergeFails, At
<1>5. HandlerOK(h, head, prs, trunk, cleared)
  BY <1>4, Known DEF HandlerOK, Handler, WcMergeFails, At
<1>6. req' = [req EXCEPT ![r] = h]
  BY <1>1
<1> QED BY <1>2, <1>3, <1>5, <1>6, Moves

\* The commit step of a merge that has nothing to commit, or is refused.
LEMMA NoCommitStep ==
  ASSUME IInv, NEW r \in Requests, At(r, "commit"), Frozen, faults' = faults,
         \/ ~req[r].dirty /\ Committed(r, req[r].base)
         \/ End(r)
  PROVE  IInv'
<1>1. faults' \in 0..MaxFaults
  BY Known
<1>2. CASE ~req[r].dirty /\ Committed(r, req[r].base)
  <2> DEFINE h == [req[r] EXCEPT !.step = "mark", !.rev = req[r].base, !.base = 0, !.dirty = FALSE]
  <2>1. req' = [req EXCEPT ![r] = h]
    BY <1>2, Known DEF Committed
  <2>2. 0 \in Revisions
    BY PullRequestsAssumption DEF Revisions
  <2>3. h \in Handler
    BY <2>2, Known DEF Handler, Steps
  <2>4. HandlerOK(h, head, prs, trunk, cleared)
    BY <1>2, Known DEF HandlerOK, Handler, At
  <2> QED BY <1>1, <2>1, <2>3, <2>4, Moves
<1> QED BY <1>1, <1>2, EndStep

LEMMA CrashStep ==
  ASSUME IInv, Crash
  PROVE  IInv'
<1>1. Frozen
  BY DEF Crash, Frozen
<1>2. Grows /\ ApprovalsNoted' /\ Grounded' /\ MergedIsIn' /\ AppliedOnce' /\ ReviewedOnly'
  BY <1>1, FrozenKeeps
<1>3. req' \in [Requests -> Handler] /\ \A q \in Requests : req'[q] = Idle
  BY IdleOK DEF Crash
<1>4. HandlersOK'
  BY <1>2, <1>3, IdleOK DEF HandlersOK, Grows
<1>5. TypeOK'
  <2>1. faults' \in 0..MaxFaults
    BY PullRequestsAssumption DEF Crash, IInv, TypeOK
  <2> QED BY <1>1, <1>3, <2>1, FrozenTyped
<1> QED BY <1>2, <1>4, <1>5 DEF IInv

-----------------------------------------------------------------------------
(***************************************************************************)
(* The steps that write the rows.                                          *)
(***************************************************************************)

\* Rows that keep their branches, with everything else as it was.
LEMMA RowsGrow ==
  ASSUME IInv, UNCHANGED svn, cleared \subseteq cleared', DOMAIN prs \subseteq DOMAIN prs',
         \A n \in DOMAIN prs : prs'[n].branch = prs[n].branch
  PROVE  Grows
<1>1. head' = head /\ trunk' = trunk
  BY DEF svn
<1> QED BY <1>1, PullRequestsAssumption DEF Grows, IInv, TypeOK, Revisions

LEMMA RowsTyped ==
  ASSUME IInv, UNCHANGED <<svn, events, reviews, red, policy, faults>>,
         prs' \in Seq(Row), Len(prs') <= MaxPrs, req' \in [Requests -> Handler],
         cleared' \subseteq Numbers
  PROVE  TypeOK'
  BY DEF svn, IInv, TypeOK

LEMMA RowsNoted ==
  ASSUME IInv, UNCHANGED <<svn, events, cleared, reviews, policy>>, DOMAIN prs' = DOMAIN prs
  PROVE  ApprovalsNoted' /\ Grounded'
  BY DEF svn, IInv, ApprovalsNoted, Grounded

LEMMA CreateInsertStep ==
  ASSUME IInv, NEW r \in Requests, CreateInsert(r)
  PROVE  IInv'
<1> DEFINE row == [branch |-> req[r].branch, status |-> "OPEN", rev |-> 0, found |-> 0]
<1>1. /\ UNCHANGED <<svn, events, reviews, red, policy, faults>> /\ End(r)
      /\ cleared' = IF policy.min = 0 THEN DOMAIN prs' ELSE cleared
  BY DEF CreateInsert
<1>2. req[r].branch \in Branches /\ req[r].num \in 0..MaxPrs
  BY Known DEF HandlerOK, Handler, CreateInsert, At
<1>3. row \in Row
  BY <1>2, PullRequestsAssumption DEF Row, Statuses, Revisions
<1>4. prs \in Seq(Row) /\ Len(prs) \in Nat
  BY Known
<1>5. CASE req[r].num > Len(prs) /\ prs' = Append(prs, row)
  <2>1. /\ prs' \in Seq(Row) /\ Len(prs') = Len(prs) + 1 /\ Len(prs') <= MaxPrs
        /\ DOMAIN prs' = 1..(Len(prs) + 1) /\ DOMAIN prs = 1..Len(prs)
        /\ \A n \in DOMAIN prs : prs'[n] = prs[n]
        /\ prs'[Len(prs) + 1] = row
    <3> HIDE DEF row
    <3> QED BY <1>2, <1>3, <1>4, <1>5, PullRequestsAssumption
  <2>2. DOMAIN prs \subseteq DOMAIN prs' /\ Grows
    <3>1. DOMAIN prs \subseteq DOMAIN prs'
      BY <1>4, <2>1
    <3>2. cleared \subseteq cleared'
      BY <1>1, <3>1 DEF IInv, ApprovalsNoted
    <3> QED BY <1>1, <2>1, <3>1, <3>2, RowsGrow
  <2>3. \A n \in DOMAIN prs' : n \notin DOMAIN prs => n = Len(prs) + 1
    BY <1>4, <2>1
  <2>4. HandlersOK' /\ req' \in [Requests -> Handler]
    <3>1. head' \in Nat
      BY <2>2 DEF Grows
    <3> QED BY <1>1, <2>2, <3>1, IdleOK, HandlersStay DEF End
  <2>5. TypeOK'
    <3>1. cleared \subseteq Numbers /\ DOMAIN prs' \subseteq Numbers
      BY <1>4, <2>1, PullRequestsAssumption DEF Numbers, IInv, TypeOK
    <3>2. cleared' \subseteq Numbers
      BY <1>1, <3>1
    <3> QED BY <1>1, <2>1, <2>4, <3>2, RowsTyped
  <2>6. MergedIsIn'
    <3>1. row.found = 0
      OBVIOUS
    <3>2. events' = events
      BY <1>1
    <3>3. \A n \in DOMAIN prs' : prs'[n].found > 0 => n \in DOMAIN prs /\ prs'[n] = prs[n]
      <4> HIDE DEF row
      <4> QED BY <2>1, <2>3, <3>1
    <3> QED BY <2>2, <3>2, <3>3, MergedStays
  <2>7. AppliedOnce' /\ ReviewedOnly'
    BY <1>1, <2>2, TrunkStays DEF svn
  <2>8. ApprovalsNoted'
    BY <1>1, <2>2 DEF IInv, ApprovalsNoted
  <2>9. Grounded'
    BY <1>1, <2>2 DEF svn, IInv, Grounded
  <2> QED BY <2>4, <2>5, <2>6, <2>7, <2>8, <2>9 DEF IInv
<1>6. CASE prs' = prs
  <2>1. cleared' = cleared
    BY <1>1, <1>6 DEF IInv, ApprovalsNoted
  <2>2. Frozen /\ faults' \in 0..MaxFaults
    BY <1>1, <1>6, <2>1, Known DEF Frozen, rows
  <2> QED BY <1>1, <2>2, EndStep
<1> QED BY <1>5, <1>6 DEF CreateInsert

\* A step of handler r that rewrites the row of its pull request, and the handler.
LEMMA RowStep ==
  ASSUME IInv, NEW r \in Requests, NEW n \in DOMAIN prs, NEW row \in Row,
         row.branch = prs[n].branch, prs' = [prs EXCEPT ![n] = row],
         row.status = "MERGED" /\ row.found > 0 => In(trunk, row.branch, row.found, row.rev),
         NEW h \in Handler, HandlerOK(h, head, prs, trunk, cleared),
         req' = [req EXCEPT ![r] = h],
         UNCHANGED <<svn, events, cleared, reviews, red, policy, faults>>
  PROVE  IInv'
<1>1. prs \in Seq(Row) /\ Len(prs) <= MaxPrs /\ n \in 1..Len(prs)
  BY Known
<1>2. /\ prs' \in Seq(Row) /\ Len(prs') = Len(prs) /\ DOMAIN prs' = DOMAIN prs
      /\ \A m \in DOMAIN prs : prs'[m] = IF m = n THEN row ELSE prs[m]
  BY <1>1, ExceptSeq
<1>3. Grows
  BY <1>2, RowsGrow
<1>4. trunk' = trunk /\ events' = events
  BY DEF svn
<1>5. HandlersOK' /\ req' \in [Requests -> Handler]
  BY <1>3, HandlerStays, HandlersStay
<1>6. TypeOK'
  <2>1. cleared' \subseteq Numbers
    BY DEF IInv, TypeOK
  <2> QED BY <1>1, <1>2, <1>5, <2>1, RowsTyped
<1>7. MergedIsIn'
  BY <1>2, <1>3, <1>4, MergedStays
<1>8. AppliedOnce' /\ ReviewedOnly'
  BY <1>3, <1>4, TrunkStays
<1>9. ApprovalsNoted' /\ Grounded'
  BY <1>2, RowsNoted
<1> QED BY <1>5, <1>6, <1>7, <1>8, <1>9 DEF IInv

LEMMA StatusSetStep ==
  ASSUME IInv, NEW r \in Requests, StatusSet(r)
  PROVE  IInv'
<1> DEFINE n == req[r].num
           row == [prs[n] EXCEPT !.status = req[r].to]
<1>1. n \in DOMAIN prs /\ req[r].to \in {"OPEN", "CLOSED"}
  BY Known DEF HandlerOK, Handler, StatusSet, At
<1>2. prs[n] \in Row
  BY <1>1, RowKnown
<1>3. row \in Row /\ row.branch = prs[n].branch /\ row.status # "MERGED"
  <2> HIDE DEF n
  <2> QED BY <1>1, <1>2 DEF Row, Statuses
<1>4. prs' = [prs EXCEPT ![n] = row]
  BY DEF StatusSet
<1>5. UNCHANGED <<svn, events, cleared, reviews, red, policy, faults>>
  BY DEF StatusSet
<1>6. Idle \in Handler /\ HandlerOK(Idle, head, prs, trunk, cleared) /\ req' = [req EXCEPT ![r] = Idle]
  BY IdleOK, Known DEF StatusSet, End
<1> HIDE DEF row, n
<1> QED BY <1>1, <1>3, <1>4, <1>5, <1>6, RowStep

LEMMA MarkStep ==
  ASSUME IInv, NEW r \in Requests, Mark(r)
  PROVE  IInv'
<1> DEFINE n == req[r].num
           row == [prs[n] EXCEPT !.status = "MERGED", !.rev = req[r].rev, !.found = req[r].upTo]
           s == IF req[r].drop THEN "drop" ELSE "announce"
           h == [req[r] EXCEPT !.step = s]
<1>1. n \in DOMAIN prs /\ req[r].rev \in Revisions /\ req[r].upTo \in Revisions
  BY Known DEF HandlerOK, Handler, Mark, At
<1>2. prs[n] \in Row
  BY <1>1, RowKnown
<1>3. /\ row \in Row /\ row.branch = prs[n].branch
      /\ row.found = req[r].upTo /\ row.rev = req[r].rev
  <2> HIDE DEF n
  <2> QED BY <1>1, <1>2 DEF Row, Statuses
<1>4. row.found > 0 => In(trunk, row.branch, row.found, row.rev)
  BY <1>3, Known DEF HandlerOK, Mark, At
<1>5. prs' = [prs EXCEPT ![n] = row]
  BY DEF Mark
<1>6. UNCHANGED <<svn, events, cleared, reviews, red, policy, faults>>
  BY DEF Mark
<1>7. s \in {"drop", "announce"}
  OBVIOUS
<1>8. h \in Handler /\ HandlerOK(h, head, prs, trunk, cleared)
  <2> HIDE DEF s
  <2>1. h \in Handler
    BY <1>7, Known DEF Handler, Steps
  <2>2. HandlerOK(h, head, prs, trunk, cleared)
    BY <1>7, Known DEF HandlerOK, Handler, Mark, At
  <2> QED BY <2>1, <2>2
<1>9. req' = [req EXCEPT ![r] = h]
  BY DEF Mark, GoTo
<1> HIDE DEF row, n, s, h
<1> QED BY <1>1, <1>3, <1>4, <1>5, <1>6, <1>8, <1>9, RowStep

-----------------------------------------------------------------------------
(***************************************************************************)
(* The steps that make a revision.                                         *)
(***************************************************************************)

Commits(h) == [rev : 1..h, branch : Branches \cup {Trunk}, upTo : 0..h]

\* What was typed by the old newest revision is typed by the new one.
LEMMA Widened ==
  ASSUME IInv, NEW h \in Nat, head <= h
  PROVE  /\ trunk \in Seq(Commits(h))
         /\ events \subseteq [num : Numbers, rev : 1..h, found : 0..h]
         /\ tip \in [Branches -> 0..h]
<1>1. head \in Nat
  BY PullRequestsAssumption DEF IInv, TypeOK, Revisions
<1>2. 1..head \subseteq 1..h /\ 0..head \subseteq 0..h
  BY <1>1
<1>3. trunk \in Seq(Commits(head)) /\ Commits(head) \subseteq Commits(h)
  BY <1>2 DEF IInv, TypeOK, Commits
<1>4. trunk \in Seq(Commits(h))
  BY <1>3, SeqMonotonic
<1>5. events \subseteq [num : Numbers, rev : 1..h, found : 0..h]
  BY <1>2 DEF IInv, TypeOK
<1>6. tip \in [Branches -> 0..h]
  BY <1>2 DEF IInv, TypeOK
<1> QED BY <1>4, <1>5, <1>6

\* A revision on a branch: the trunk and the rows stay.
LEMMA BranchGrows ==
  ASSUME IInv, head < MaxHead, head' = head + 1, tip' \in [Branches -> 0..head'],
         clash' \subseteq Branches, UNCHANGED <<rows, trunk, events, cleared, faults>>
  PROVE  /\ Grows /\ ApprovalsNoted' /\ Grounded' /\ MergedIsIn' /\ AppliedOnce' /\ ReviewedOnly'
         /\ req' \in [Requests -> Handler] => TypeOK'
<1>1. /\ prs' = prs /\ reviews' = reviews /\ red' = red /\ policy' = policy
      /\ trunk' = trunk /\ events' = events /\ cleared' = cleared /\ faults' = faults
  BY DEF rows
<1>2. head \in Nat /\ head' \in Nat /\ head <= head' /\ head' \in Revisions
  BY PullRequestsAssumption DEF IInv, TypeOK, Revisions
<1>3. Grows
  BY <1>1, <1>2 DEF Grows
<1>4. ApprovalsNoted' /\ Grounded'
  BY <1>1, <1>2 DEF IInv, ApprovalsNoted, Grounded
<1>5. MergedIsIn'
  BY <1>1, <1>3, MergedStays
<1>6. AppliedOnce' /\ ReviewedOnly'
  BY <1>1, <1>3, TrunkStays
<1>7. ASSUME req' \in [Requests -> Handler] PROVE TypeOK'
  <2>1. trunk \in Seq(Commits(head')) /\ events \subseteq [num : Numbers, rev : 1..head', found : 0..head']
    BY <1>2, Widened
  <2> QED BY <1>1, <1>2, <1>7, <2>1 DEF IInv, TypeOK, Commits
<1> QED BY <1>3, <1>4, <1>5, <1>6, <1>7

LEMMA WorldBranchStep ==
  ASSUME IInv, NEW b \in Branches, Push(b) \/ DeleteBranch(b)
  PROVE  IInv'
<1>1. /\ head < MaxHead /\ head' = head + 1 /\ req' = req
      /\ UNCHANGED <<rows, trunk, events, cleared, faults>>
  BY DEF Push, DeleteBranch
<1>2. head \in Nat /\ tip \in [Branches -> 0..head'] /\ clash \subseteq Branches
  BY <1>1, Widened, PullRequestsAssumption DEF IInv, TypeOK, Revisions
<1>3. tip' \in [Branches -> 0..head']
  BY <1>1, <1>2 DEF Push, DeleteBranch
<1>4. clash' \subseteq Branches
  BY <1>2 DEF Push, DeleteBranch
<1>5. /\ Grows /\ ApprovalsNoted' /\ Grounded' /\ MergedIsIn' /\ AppliedOnce' /\ ReviewedOnly'
      /\ req' \in [Requests -> Handler] => TypeOK'
  BY <1>1, <1>3, <1>4, BranchGrows
<1>6. HandlersOK'
  BY <1>1, <1>5, HandlersSame
<1>7. TypeOK'
  BY <1>1, <1>5 DEF IInv, TypeOK
<1> QED BY <1>5, <1>6, <1>7 DEF IInv

LEMMA DropBranchStep ==
  ASSUME IInv, NEW r \in Requests, DropBranch(r)
  PROVE  IInv'
<1> DEFINE b == BranchOf(req[r].num)
           h == [req[r] EXCEPT !.step = "announce"]
<1>1. CASE End(r) /\ UNCHANGED svn
  <2>1. Frozen /\ faults' \in 0..MaxFaults
    BY <1>1, Known DEF DropBranch, Frozen
  <2> QED BY <1>1, <2>1, EndStep
<1>2. CASE /\ head < MaxHead /\ head' = head + 1 /\ tip' = [tip EXCEPT ![b] = 0]
           /\ GoTo(r, "announce") /\ UNCHANGED <<trunk, clash>>
  <2>1. UNCHANGED <<rows, trunk, events, cleared, faults>> /\ clash' = clash
    BY <1>2 DEF DropBranch
  <2>2. head \in Nat /\ tip \in [Branches -> 0..head'] /\ clash \subseteq Branches
    BY <1>2, Widened, PullRequestsAssumption DEF IInv, TypeOK, Revisions
  <2>3. tip' \in [Branches -> 0..head']
    <3>1. 0 \in 0..head' /\ tip' = [tip EXCEPT ![b] = 0]
      BY <1>2, <2>2
    <3> HIDE DEF b
    <3> QED BY <2>2, <3>1
  <2>4. /\ Grows /\ ApprovalsNoted' /\ Grounded' /\ MergedIsIn' /\ AppliedOnce' /\ ReviewedOnly'
        /\ req' \in [Requests -> Handler] => TypeOK'
    BY <1>2, <2>1, <2>2, <2>3, BranchGrows
  <2>5. h \in Handler /\ req' = [req EXCEPT ![r] = h]
    BY <1>2, Known DEF Handler, Steps, GoTo
  <2>6. HandlerOK(h, head, prs, trunk, cleared)
    BY Known DEF HandlerOK, Handler, DropBranch, At
  <2>7. HandlersOK' /\ req' \in [Requests -> Handler]
    <3> HIDE DEF h
    <3> QED BY <2>4, <2>5, <2>6, HandlerStays, HandlersStay
  <2> QED BY <2>4, <2>7 DEF IInv
<1> QED BY <1>1, <1>2 DEF DropBranch

\* A commit to the trunk: a merge that was up to date, or one that records nothing.
LEMMA TrunkGrows ==
  ASSUME IInv, NEW b \in Branches \cup {Trunk}, NEW u \in 0..head, CommitToTrunk(b, u),
         UNCHANGED <<rows, events, cleared>>,
         b \in Branches => \E n \in cleared : BranchOf(n) = b,
         u > 0 => \A i \in DOMAIN trunk : trunk[i].branch = b => trunk[i].upTo < u
  PROVE  /\ Grows /\ ApprovalsNoted' /\ Grounded' /\ MergedIsIn' /\ AppliedOnce' /\ ReviewedOnly'
         /\ req' \in [Requests -> Handler] /\ faults' \in 0..MaxFaults => TypeOK'
         /\ u > 0 => In(trunk', b, u, head')
<1> DEFINE c == [rev |-> head + 1, branch |-> b, upTo |-> u]
           k == Len(trunk) + 1
<1>1. /\ prs' = prs /\ reviews' = reviews /\ red' = red /\ policy' = policy
      /\ events' = events /\ cleared' = cleared
      /\ head < MaxHead /\ head' = head + 1 /\ trunk' = Append(trunk, c) /\ tip' = tip
      /\ clash' \in {clash \ {b}, Branches \ {b}}
  BY DEF rows, CommitToTrunk
<1>2. head \in Nat /\ head' \in Nat /\ head <= head' /\ head' \in Revisions /\ head >= 1
  BY <1>1, PullRequestsAssumption DEF IInv, TypeOK, Revisions, Grounded
<1>3. trunk \in Seq(Commits(head')) /\ tip \in [Branches -> 0..head']
      /\ events \subseteq [num : Numbers, rev : 1..head', found : 0..head']
  BY <1>2, Widened
<1>4. c \in Commits(head')
  BY <1>1, <1>2 DEF Commits
<1>5. /\ trunk' \in Seq(Commits(head')) /\ Len(trunk) \in Nat
      /\ DOMAIN trunk = 1..Len(trunk) /\ DOMAIN trunk' = 1..k
      /\ \A i \in DOMAIN trunk : trunk'[i] = trunk[i]
      /\ trunk'[k] = c
  <2> HIDE DEF c
  <2> QED BY <1>1, <1>3, <1>4
<1>6. /\ k \in DOMAIN trunk' /\ \A i \in DOMAIN trunk' : i \notin DOMAIN trunk => i = k
      /\ DOMAIN trunk \subseteq DOMAIN trunk'
      /\ c.rev = head + 1 /\ c.branch = b /\ c.upTo = u
  BY <1>5
<1> HIDE DEF c
<1>7. Grows
  <2>1. \A i \in DOMAIN trunk' : i \notin DOMAIN trunk => trunk'[i].rev = head + 1
    BY <1>5, <1>6
  <2> QED BY <1>1, <1>2, <1>5, <1>6, <2>1 DEF Grows
<1>8. ApprovalsNoted' /\ Grounded'
  BY <1>1, <1>2 DEF IInv, ApprovalsNoted, Grounded
<1>9. MergedIsIn'
  BY <1>1, <1>7, MergedStays
<1>10. AppliedOnce'
  <2> SUFFICES ASSUME NEW i \in DOMAIN trunk', NEW j \in DOMAIN trunk', i < j,
                      trunk'[i].branch = trunk'[j].branch, trunk'[j].upTo > 0
               PROVE  trunk'[i].upTo < trunk'[j].upTo
    BY DEF AppliedOnce
  <2>1. i \in DOMAIN trunk
    BY <1>5
  <2>2. CASE j \in DOMAIN trunk
    BY <1>5, <2>1, <2>2 DEF IInv, AppliedOnce
  <2>3. CASE j = k
    BY <1>5, <1>6, <2>1, <2>3
  <2> QED BY <1>6, <2>2, <2>3
<1>11. ReviewedOnly'
  <2> SUFFICES ASSUME NEW i \in DOMAIN trunk', trunk'[i].branch \in Branches
               PROVE  \E n \in cleared : prs[n].branch = trunk'[i].branch
    BY <1>1 DEF ReviewedOnly, BranchOf
  <2>1. CASE i \in DOMAIN trunk
    BY <1>5, <2>1 DEF IInv, ReviewedOnly, BranchOf
  <2>2. CASE i = k
    BY <1>5, <1>6, <2>2 DEF BranchOf
  <2> QED BY <1>6, <2>1, <2>2
<1>12. ASSUME req' \in [Requests -> Handler], faults' \in 0..MaxFaults PROVE TypeOK'
  <2>1. clash' \subseteq Branches
    BY <1>1 DEF IInv, TypeOK
  <2> QED BY <1>1, <1>2, <1>3, <1>5, <1>12, <2>1 DEF IInv, TypeOK, Commits
<1>13. ASSUME u > 0 PROVE In(trunk', b, u, head')
  BY <1>1, <1>2, <1>5, <1>6 DEF In
<1> QED BY <1>7, <1>8, <1>9, <1>10, <1>11, <1>12, <1>13

\* What a merge commit that svn accepts brings is new to the trunk.
LEMMA Accepted ==
  ASSUME IInv, NEW r \in Requests, At(r, "commit"), req[r].dirty, ~Refused(r)
  PROVE  /\ BranchOf(req[r].num) \in Branches /\ req[r].upTo \in 0..head
         /\ req[r].num \in cleared
         /\ req[r].upTo > 0 =>
              \A i \in DOMAIN trunk :
                trunk[i].branch = BranchOf(req[r].num) => trunk[i].upTo < req[r].upTo
<1>1. req[r].num \in DOMAIN prs /\ req[r].num \in cleared /\ req[r].upTo \in 0..head
  BY Known, PullRequestsAssumption DEF HandlerOK, Handler, At, Revisions
<1>2. BranchOf(req[r].num) \in Branches
  BY <1>1, RowKnown
<1>3. ASSUME req[r].upTo > 0, NEW i \in DOMAIN trunk, trunk[i].branch = BranchOf(req[r].num)
      PROVE  trunk[i].upTo < req[r].upTo
  <2>1. trunk[i].rev <= req[r].base
    BY <1>3 DEF Refused, UpToDate
  <2>2. Before(trunk, BranchOf(req[r].num), req[r].upTo, req[r].base)
    BY <1>3, Known DEF HandlerOK, At, BranchOf
  <2> QED BY <1>3, <2>1, <2>2 DEF Before
<1> QED BY <1>1, <1>2, <1>3

LEMMA WcCommitStep ==
  ASSUME IInv, NEW r \in Requests, WcCommit(r)
  PROVE  IInv'
<1>1. CASE UNCHANGED svn /\ ((~req[r].dirty /\ Committed(r, req[r].base)) \/ End(r))
  <2>1. Frozen /\ faults' = faults /\ At(r, "commit")
    BY <1>1 DEF WcCommit, Frozen
  <2> QED BY <1>1, <2>1, NoCommitStep
<1>2. CASE /\ req[r].dirty /\ ~Refused(r)
           /\ CommitToTrunk(BranchOf(req[r].num), req[r].upTo) /\ Committed(r, head + 1)
  <2> DEFINE b == BranchOf(req[r].num)
             h == [req[r] EXCEPT !.step = "mark", !.rev = head + 1, !.base = 0, !.dirty = FALSE]
  <2>1. At(r, "commit") /\ UNCHANGED <<rows, events, cleared>> /\ faults' = faults
    BY DEF WcCommit
  <2>2. /\ Grows /\ ApprovalsNoted' /\ Grounded' /\ MergedIsIn' /\ AppliedOnce' /\ ReviewedOnly'
        /\ req' \in [Requests -> Handler] /\ faults' \in 0..MaxFaults => TypeOK'
        /\ req[r].upTo > 0 => In(trunk', b, req[r].upTo, head')
    <3>1. /\ b \in Branches \cup {Trunk} /\ req[r].upTo \in 0..head
          /\ b \in Branches => \E n \in cleared : BranchOf(n) = b
          /\ req[r].upTo > 0 =>
               \A i \in DOMAIN trunk : trunk[i].branch = b => trunk[i].upTo < req[r].upTo
      BY <1>2, <2>1, Accepted
    <3> HIDE DEF b
    <3>2. CommitToTrunk(b, req[r].upTo)
      BY <1>2 DEF b
    <3> QED BY <2>1, <3>1, <3>2, TrunkGrows
  <2>3. head' = head + 1 /\ head + 1 \in Revisions /\ 0 \in Revisions /\ prs' = prs
    BY <1>2, <2>1, Known, PullRequestsAssumption DEF CommitToTrunk, Revisions, rows
  <2>4. h \in Handler /\ req' = [req EXCEPT ![r] = h]
    BY <1>2, <2>3, Known DEF Handler, Steps, Committed
  <2>5. HandlerOK(h, head', prs', trunk', cleared')
    <3>1. /\ h.step = "mark" /\ h.rev = head + 1 /\ h.base = 0 /\ h.num = req[r].num
          /\ h.upTo = req[r].upTo /\ h.upTo \in Nat
      BY Known, PullRequestsAssumption DEF Handler, Revisions
    <3>2. h.upTo <= head /\ h.num \in DOMAIN prs
      BY <2>1, <3>1, Known DEF HandlerOK, At
    <3> HIDE DEF h
    <3> QED BY <2>2, <2>3, <3>1, <3>2, Known DEF HandlerOK, BranchOf
  <2>6. HandlersOK' /\ req' \in [Requests -> Handler]
    <3> HIDE DEF h
    <3> QED BY <2>2, <2>4, <2>5, HandlersStay
  <2> QED BY <2>1, <2>2, <2>6, Known DEF IInv
<1> QED BY <1>1, <1>2 DEF WcCommit

LEMMA WcCommitLostStep ==
  ASSUME IInv, NEW r \in Requests, WcCommitLost(r)
  PROVE  IInv'
<1> DEFINE b == BranchOf(req[r].num)
<1>1. /\ At(r, "commit") /\ req[r].dirty /\ ~Refused(r) /\ End(r)
      /\ CommitToTrunk(b, req[r].upTo) /\ UNCHANGED <<rows, events, cleared>>
  BY DEF WcCommitLost
<1>2. faults' \in 0..MaxFaults
  BY Known, PullRequestsAssumption DEF WcCommitLost
<1>3. /\ b \in Branches \cup {Trunk} /\ req[r].upTo \in 0..head
      /\ b \in Branches => \E n \in cleared : BranchOf(n) = b
      /\ req[r].upTo > 0 =>
           \A i \in DOMAIN trunk : trunk[i].branch = b => trunk[i].upTo < req[r].upTo
  BY <1>1, Accepted
<1> HIDE DEF b
<1>4. /\ Grows /\ ApprovalsNoted' /\ Grounded' /\ MergedIsIn' /\ AppliedOnce' /\ ReviewedOnly'
      /\ req' \in [Requests -> Handler] /\ faults' \in 0..MaxFaults => TypeOK'
  BY <1>1, <1>3, TrunkGrows
<1>5. HandlersOK' /\ req' \in [Requests -> Handler]
  <2>1. head' \in Nat
    BY <1>4 DEF Grows
  <2> QED BY <1>1, <1>4, <2>1, IdleOK, HandlersStay DEF End
<1> QED BY <1>2, <1>4, <1>5 DEF IInv

LEMMA DirectCommitStep ==
  ASSUME IInv, DirectCommit
  PROVE  IInv'
<1>1. /\ CommitToTrunk(Trunk, 0) /\ UNCHANGED <<rows, events, cleared>>
      /\ req' = req /\ faults' = faults
  BY DEF DirectCommit
<1>2. Trunk \notin Branches /\ 0 \in 0..head
  BY PullRequestsAssumption DEF IInv, TypeOK, Revisions
<1>3. /\ Grows /\ ApprovalsNoted' /\ Grounded' /\ MergedIsIn' /\ AppliedOnce' /\ ReviewedOnly'
      /\ req' \in [Requests -> Handler] /\ faults' \in 0..MaxFaults => TypeOK'
  BY <1>1, <1>2, TrunkGrows
<1>4. HandlersOK'
  BY <1>1, <1>3, HandlersSame
<1>5. TypeOK'
  BY <1>1, <1>3 DEF IInv, TypeOK
<1> QED BY <1>3, <1>4, <1>5 DEF IInv

-----------------------------------------------------------------------------
(***************************************************************************)
(* The other steps, and the theorems.                                      *)
(***************************************************************************)

LEMMA AnnounceStep ==
  ASSUME IInv, NEW r \in Requests, Announce(r)
  PROVE  IInv'
<1> DEFINE e == [num |-> req[r].num, rev |-> req[r].rev, found |-> req[r].upTo]
<1>1. /\ UNCHANGED <<rows, svn, cleared, faults>> /\ events' = events \cup {e}
      /\ At(r, "announce") /\ End(r)
  BY DEF Announce
<1>2. /\ prs' = prs /\ reviews' = reviews /\ policy' = policy /\ head' = head
      /\ trunk' = trunk /\ cleared' = cleared
  BY <1>1 DEF rows, svn
<1>3. Grows
  BY <1>2, PullRequestsAssumption DEF Grows, IInv, TypeOK, Revisions
<1>4. e.num \in DOMAIN prs /\ e \in [num : Numbers, rev : 1..head, found : 0..head]
  <2>1. req[r].num \in DOMAIN prs /\ req[r].num \in Numbers
    BY <1>1, Known DEF HandlerOK, At
  <2>2. req[r].rev \in 1..head /\ req[r].upTo \in 0..head
    BY <1>1, Known, PullRequestsAssumption DEF HandlerOK, Handler, At, Revisions
  <2> QED BY <2>1, <2>2
<1>5. e.found > 0 => In(trunk, prs[e.num].branch, e.found, e.rev)
  BY <1>1, Known DEF HandlerOK, At
<1> HIDE DEF e
<1>6. MergedIsIn'
  BY <1>1, <1>2, <1>3, <1>5, MergedStays
<1>7. AppliedOnce' /\ ReviewedOnly'
  BY <1>2, <1>3, TrunkStays
<1>8. ApprovalsNoted' /\ Grounded'
  BY <1>1, <1>2, <1>4 DEF IInv, ApprovalsNoted, Grounded
<1>9. HandlersOK' /\ req' \in [Requests -> Handler]
  <2>1. head' \in Nat
    BY <1>3 DEF Grows
  <2> QED BY <1>1, <1>3, <2>1, IdleOK, HandlersStay DEF End
<1>10. TypeOK'
  BY <1>1, <1>4, <1>9 DEF rows, svn, IInv, TypeOK
<1> QED BY <1>6, <1>7, <1>8, <1>9, <1>10 DEF IInv

\* Reviews, checks and the policy.
LEMMA RowsAsideStep ==
  ASSUME IInv, UNCHANGED <<prs, svn, req, events, faults>>,
         cleared \subseteq cleared', ApprovalsNoted',
         reviews' \in [Numbers -> [Reviewers -> Decisions \cup {"none"}]],
         red' \subseteq Numbers, policy' \in [min : Minimums, block : BOOLEAN],
         cleared' \subseteq Numbers
  PROVE  IInv'
<1>1. prs' = prs /\ head' = head /\ trunk' = trunk /\ events' = events /\ req' = req
  BY DEF svn
<1>2. Grows
  BY <1>1, PullRequestsAssumption DEF Grows, IInv, TypeOK, Revisions
<1>3. HandlersOK'
  BY <1>1, <1>2, HandlersSame
<1>4. MergedIsIn' /\ AppliedOnce' /\ ReviewedOnly'
  BY <1>1, <1>2, MergedStays, TrunkStays
<1>5. Grounded'
  BY <1>1 DEF IInv, Grounded
<1>6. TypeOK'
  BY DEF svn, IInv, TypeOK
<1> QED BY <1>3, <1>4, <1>5, <1>6 DEF IInv

LEMMA ReviewStep ==
  ASSUME IInv, NEW n \in DOMAIN prs, NEW u \in Reviewers, NEW d \in Decisions, Review(n, u, d)
  PROVE  IInv'
<1>1. n \in Numbers
  <2>1. prs \in Seq(Row) /\ Len(prs) <= MaxPrs
    BY DEF IInv, TypeOK
  <2> QED BY <2>1, PullRequestsAssumption DEF Numbers
<1>2. /\ UNCHANGED <<prs, red, policy, svn, req, events, faults>>
      /\ reviews' = [reviews EXCEPT ![n][u] = d]
      /\ cleared' = IF d = "APPROVED" THEN cleared \cup {n} ELSE cleared
  BY DEF Review
<1>3. reviews \in [Numbers -> [Reviewers -> Decisions \cup {"none"}]]
  BY DEF IInv, TypeOK
<1>4. reviews' \in [Numbers -> [Reviewers -> Decisions \cup {"none"}]]
  BY <1>2, <1>3
<1>5. ApprovalsNoted'
  <2>1. cleared' \subseteq DOMAIN prs'
    BY <1>2 DEF IInv, ApprovalsNoted
  <2>2. ASSUME NEW m \in Numbers, NEW v \in Reviewers, reviews'[m][v] = "APPROVED"
        PROVE  m \in cleared'
    <3>1. CASE m = n /\ v = u
      <4>1. reviews'[m][v] = d
        BY <1>1, <1>2, <1>3, <3>1
      <4> QED BY <1>2, <2>2, <3>1, <4>1
    <3>2. CASE ~(m = n /\ v = u)
      <4>1. reviews'[m][v] = reviews[m][v]
        BY <1>1, <1>2, <1>3, <3>2
      <4> QED BY <1>2, <2>2, <4>1 DEF IInv, ApprovalsNoted
    <3> QED BY <3>1, <3>2
  <2>3. policy'.min = 0 => DOMAIN prs' \subseteq cleared'
    BY <1>2 DEF IInv, ApprovalsNoted
  <2> QED BY <2>1, <2>2, <2>3 DEF ApprovalsNoted
<1>6. red' \subseteq Numbers /\ policy' \in [min : Minimums, block : BOOLEAN]
  BY <1>2 DEF IInv, TypeOK
<1>7. cleared \subseteq cleared' /\ cleared' \subseteq Numbers
  BY <1>1, <1>2 DEF IInv, TypeOK
<1> QED BY <1>2, <1>4, <1>5, <1>6, <1>7, RowsAsideStep

LEMMA AdminStep ==
  ASSUME IInv, SetPolicy \/ \E n \in DOMAIN prs : ChecksReport(n)
  PROVE  IInv'
<1>1. UNCHANGED <<prs, reviews, svn, req, events, faults>>
  BY DEF SetPolicy, ChecksReport
<1>2. red' \subseteq Numbers
  <2>1. prs \in Seq(Row) /\ Len(prs) <= MaxPrs
    BY DEF IInv, TypeOK
  <2>2. DOMAIN prs \subseteq Numbers
    BY <2>1, PullRequestsAssumption DEF Numbers
  <2> QED BY <2>2 DEF SetPolicy, ChecksReport, IInv, TypeOK
<1>3. policy' \in [min : Minimums, block : BOOLEAN]
  BY DEF SetPolicy, ChecksReport, IInv, TypeOK
<1>4. ApprovalsNoted' /\ cleared \subseteq cleared'
  BY <1>1 DEF SetPolicy, ChecksReport, IInv, ApprovalsNoted
<1>5. cleared' \subseteq Numbers
  <2>1. prs \in Seq(Row) /\ Len(prs) <= MaxPrs
    BY DEF IInv, TypeOK
  <2>2. DOMAIN prs \subseteq Numbers
    BY <2>1, PullRequestsAssumption DEF Numbers
  <2> QED BY <2>2 DEF SetPolicy, ChecksReport, IInv, TypeOK
<1> QED BY <1>1, <1>2, <1>3, <1>4, <1>5, RowsAsideStep DEF IInv, TypeOK

LEMMA InitIInv ==
  ASSUME Init
  PROVE  IInv
<1>1. Idle \in Handler /\ HandlerOK(Idle, head, prs, trunk, cleared)
  <2>1. Cardinality(Reviewers) \in Nat
    BY FS_CardinalityType, PullRequestsAssumption
  <2>2. Idle \in Handler
    BY <2>1, PullRequestsAssumption DEF Idle, Handler, Steps, Revisions
  <2> QED BY <2>2 DEF Idle, HandlerOK, Init
<1>2. prs = <<>> /\ trunk = <<>> /\ DOMAIN prs = {} /\ DOMAIN trunk = {}
  BY DEF Init
<1>3. prs \in Seq(Row) /\ Len(prs) = 0
      /\ trunk \in Seq([rev : 1..head, branch : Branches \cup {Trunk}, upTo : 0..head])
  BY <1>2
<1>4. TypeOK
  BY <1>1, <1>3, PullRequestsAssumption DEF Init, TypeOK, Revisions
<1>5. HandlersOK
  BY <1>1 DEF Init, HandlersOK
<1>6. ApprovalsNoted /\ Grounded
  BY <1>2 DEF Init, ApprovalsNoted, Grounded
<1>7. MergedIsIn /\ AppliedOnce /\ ReviewedOnly
  BY <1>2 DEF Init, MergedIsIn, AppliedOnce, ReviewedOnly
<1> QED BY <1>4, <1>5, <1>6, <1>7 DEF IInv

LEMMA NextIInv ==
  ASSUME IInv, [Next]_vars
  PROVE  IInv'
<1>1. ASSUME NEW r \in Requests, Handle(r)
      PROVE  IInv'
  BY <1>1, CreateNumberStep, CreateInsertStep, StatusSetStep, PreviewStep, CheckPolicyStep,
     WcUpdateStep, WcMergeStep, WcMergeFailsStep, WcCommitStep, WcCommitLostStep, MarkStep,
     DropBranchStep, AnnounceStep DEF Handle
<1>2. ASSUME NEW r \in Requests, NEW b \in Branches, CreateCheck(r, b)
      PROVE  IInv'
  BY <1>2, CreateCheckStep
<1>3. ASSUME NEW r \in Requests, NEW n \in DOMAIN prs,
             \/ \E to \in {"OPEN", "CLOSED"} : StatusLoad(r, n, to)
             \/ \E drop \in BOOLEAN : MergeLoad(r, n, drop)
      PROVE  IInv'
  BY <1>3, StatusLoadStep, MergeLoadStep
<1>4. ASSUME NEW n \in DOMAIN prs, \E u \in Reviewers, d \in Decisions : Review(n, u, d)
      PROVE  IInv'
  BY <1>4, ReviewStep
<1>5. CASE \E b \in Branches : Push(b) \/ DeleteBranch(b)
  BY <1>5, WorldBranchStep
<1>6. CASE DirectCommit \/ Crash
  BY <1>6, DirectCommitStep, CrashStep
<1>7. CASE SetPolicy \/ \E n \in DOMAIN prs : ChecksReport(n)
  BY <1>7, AdminStep
<1>8. CASE UNCHANGED vars
  <2>1. UNCHANGED <<rows, svn, events, cleared, faults>> /\ req' = req
    BY <1>8 DEF vars
  <2>2. Frozen
    BY <2>1 DEF Frozen
  <2>3. Grows /\ ApprovalsNoted' /\ Grounded' /\ MergedIsIn' /\ AppliedOnce' /\ ReviewedOnly'
    BY <2>2, FrozenKeeps
  <2>4. HandlersOK'
    BY <2>1, <2>3, HandlersSame
  <2>5. TypeOK'
    BY <2>1, <2>2, FrozenTyped DEF IInv, TypeOK
  <2> QED BY <2>3, <2>4, <2>5 DEF IInv
<1> QED BY <1>1, <1>2, <1>3, <1>4, <1>5, <1>6, <1>7, <1>8 DEF Next

\* The invariant holds in every state of every behaviour of the pull requests.
THEOREM Invariance == Spec => []IInv
  BY InitIInv, NextIInv, PTL DEF Spec

\* Type correctness of the rows, the repository and the handlers.
THEOREM TypeCorrect == Spec => []TypeOK
<1>1. IInv => TypeOK
  BY DEF IInv
<1> QED BY <1>1, Invariance, PTL

\* The trunk holds, at the revision a merged row or its event gives, what the merge found.
THEOREM MergedAlwaysIn == Spec => []MergedIsIn
<1>1. IInv => MergedIsIn
  BY DEF IInv
<1> QED BY <1>1, Invariance, PTL

\* No commit is merged twice, whatever merges at once and is asked for again.
THEOREM AlwaysAppliedOnce == Spec => []AppliedOnce
<1>1. IInv => AppliedOnce
  BY DEF IInv
<1> QED BY <1>1, Invariance, PTL

\* While the policy asks for an approval, nothing is merged into the trunk that nobody but
\* its author has seen.
THEOREM AlwaysReviewed == Spec => []ReviewedOnly
<1>1. IInv => ReviewedOnly
  BY DEF IInv
<1> QED BY <1>1, Invariance, PTL

=============================================================================
