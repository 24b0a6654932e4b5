---------------------------- MODULE PullRequests ----------------------------
(***************************************************************************)
(* The pull requests of one repository into its trunk: the handlers of     *)
(* PullRequestsService, and the parts of SVN they meet.                    *)
(*                                                                         *)
(* A merge request loads the row, previews the merge, looks at the policy, *)
(* merges in a working copy, commits, and only then writes the row; every  *)
(* `await` in between lets other requests, developers' commits and CI in.  *)
(* A handler in flight is a record of the await it stands at and of what   *)
(* it has read.  The working copy is its own (WorkingCopyPool, Exclusive). *)
(*                                                                         *)
(* Of SVN the model keeps the revision numbers, the last commit of each    *)
(* branch, and the commits on the trunk with the mergeinfo they record: a  *)
(* merge of commits that are already in the working copy changes nothing,  *)
(* and a commit of a merge is refused when the trunk is newer than the     *)
(* working copy, since every merge changes svn:mergeinfo of its root.      *)
(***************************************************************************)
EXTENDS Naturals, Sequences, FiniteSets

CONSTANTS
  Requests,    \* handlers that may be in flight at once
  Branches,    \* branches pull requests are opened for
  Trunk,       \* stands for the branch of a direct commit to the trunk
  Reviewers,   \* users other than the authors
  Minimums,    \* the values of minApprovals an administrator sets
  MaxPrs,      \* bound: pull requests
  MaxHead,     \* bound: revisions
  MaxFaults    \* bound: failures and crashes in a behaviour

ASSUME PullRequestsAssumption ==
  /\ Trunk \notin Branches
  /\ IsFiniteSet(Reviewers)
  /\ Minimums \subseteq Nat
  /\ MaxPrs \in Nat
  /\ MaxHead \in Nat \ {0}
  /\ MaxFaults \in Nat

VARIABLES
  prs,       \* the PullRequest rows: the one of number n is prs[n]
  reviews,   \* reviews[n][u]: the PRReview of user u
  red,       \* the pull requests with a FAILURE among their PRStatusChecks
  policy,    \* RepoPolicy: minApprovals, blockTrunkDirectCommit
  head,      \* the newest revision
  tip,       \* tip[b]: the revision of the last commit on branch b; 0: no such branch
  trunk,     \* the commits on the trunk: revision, branch merged, its commits up to
  clash,     \* the branches that conflict with the trunk
  req,       \* req[r]: the handler in flight
  events,    \* the PR_MERGED events
  cleared,   \* history: the pull requests somebody has approved, or none had to
  faults     \* faults so far

rows == <<prs, reviews, red, policy>>
svn == <<head, tip, trunk, clash>>
vars == <<rows, svn, req, events, cleared, faults>>

-----------------------------------------------------------------------------

Numbers == 1..MaxPrs
Statuses == {"OPEN", "CLOSED", "MERGED"}
Decisions == {"APPROVED", "CHANGES_REQUESTED"}
Steps == {"idle", "number", "insert", "set", "preview", "policy", "update", "merge",
          "commit", "mark", "drop", "announce"}

\* A handler: its step, the pull request, the branch (create), the status to set, the
\* approvals counted, whether the branch is to be deleted, the revision of the working
\* copy, the commits of the branch merged into it (0: the merge failed), whether it has
\* anything to commit, and the mergeRevision.
Idle == [step |-> "idle", num |-> 0, branch |-> Trunk, to |-> "OPEN", approvals |-> 0,
         drop |-> FALSE, base |-> 0, upTo |-> 0, dirty |-> FALSE, rev |-> 0]

Init ==
  /\ prs = <<>>
  /\ reviews = [n \in Numbers |-> [u \in Reviewers |-> "none"]]
  /\ red = {}
  /\ policy \in [min : Minimums, block : BOOLEAN]
  /\ head = 1
  /\ tip = [b \in Branches |-> 0]
  /\ trunk = <<>>
  /\ clash = {}
  /\ req = [r \in Requests |-> Idle]
  /\ events = {}
  /\ cleared = {}
  /\ faults = 0

At(r, s) == req[r].step = s
GoTo(r, s) == req' = [req EXCEPT ![r].step = s]
End(r) == req' = [req EXCEPT ![r] = Idle]
BranchOf(n) == prs[n].branch
Approvals(n) == Cardinality({u \in Reviewers : reviews[n][u] = "APPROVED"})

\* The trunk, as of revision rev, holds the commits of branch b up to u.
Contains(b, u, rev) ==
  \E i \in DOMAIN trunk : trunk[i].branch = b /\ trunk[i].rev <= rev /\ trunk[i].upTo >= u

\* Nobody has committed to the trunk since revision base.
UpToDate(base) == \A i \in DOMAIN trunk : trunk[i].rev <= base

\* A commit to the trunk; what it holds may conflict with any branch from now on.
CommitToTrunk(b, u) ==
  /\ head < MaxHead
  /\ head' = head + 1
  /\ trunk' = Append(trunk, [rev |-> head + 1, branch |-> b, upTo |-> u])
  /\ clash' \in {clash \ {b}, Branches \ {b}}
  /\ UNCHANGED tip

-----------------------------------------------------------------------------
(***************************************************************************)
(* create, updateStatus, addReview.                                        *)
(***************************************************************************)

\* create: no open pull request of the branch is found.
CreateCheck(r, b) ==
  /\ At(r, "idle")
  /\ \A n \in DOMAIN prs : ~(BranchOf(n) = b /\ prs[n].status = "OPEN")
  /\ req' = [req EXCEPT ![r] = [Idle EXCEPT !.step = "number", !.branch = b]]
  /\ UNCHANGED <<rows, svn, events, cleared, faults>>

\* create: the highest number is read.
CreateNumber(r) ==
  /\ At(r, "number")
  /\ Len(prs) < MaxPrs
  /\ req' = [req EXCEPT ![r].step = "insert", ![r].num = Len(prs) + 1]
  /\ UNCHANGED <<rows, svn, events, cleared, faults>>

\* create: the row is inserted, unless another one has its number by now.
CreateInsert(r) ==
  /\ At(r, "insert")
  /\ prs' = IF req[r].num > Len(prs)
            THEN Append(prs, [branch |-> req[r].branch, status |-> "OPEN", rev |-> 0, found |-> 0])
            ELSE prs
  /\ cleared' = IF policy.min = 0 THEN DOMAIN prs' ELSE cleared
  /\ End(r)
  /\ UNCHANGED <<reviews, red, policy, svn, events, faults>>

\* updateStatus: the row is read; a merged one is refused.
StatusLoad(r, n, to) ==
  /\ At(r, "idle")
  /\ prs[n].status # "MERGED"
  /\ req' = [req EXCEPT ![r] = [Idle EXCEPT !.step = "set", !.num = n, !.to = to]]
  /\ UNCHANGED <<rows, svn, events, cleared, faults>>

\* updateStatus: the status is written, whatever the row holds by now.
StatusSet(r) ==
  /\ At(r, "set")
  /\ prs' = [prs EXCEPT ![req[r].num].status = req[r].to]
  /\ End(r)
  /\ UNCHANGED <<reviews, red, policy, svn, events, cleared, faults>>

\* addReview: one row per user, whatever the status of the pull request.
Review(n, u, d) ==
  /\ reviews' = [reviews EXCEPT ![n][u] = d]
  /\ cleared' = IF d = "APPROVED" THEN cleared \cup {n} ELSE cleared
  /\ UNCHANGED <<prs, red, policy, svn, req, events, faults>>

-----------------------------------------------------------------------------
(***************************************************************************)
(* merge.                                                                  *)
(***************************************************************************)

\* The row is read with its reviews and checks.  (What evaluateMergeEligibility refuses
\* for their sake it refuses after the preview and the policy; nothing is written there.)
MergeLoad(r, n, drop) ==
  /\ At(r, "idle")
  /\ prs[n].status = "OPEN"
  /\ \A u \in Reviewers : reviews[n][u] # "CHANGES_REQUESTED"
  /\ n \notin red
  /\ req' = [req EXCEPT ![r] = [Idle EXCEPT !.step = "preview", !.num = n,
                                            !.approvals = Approvals(n), !.drop = drop]]
  /\ UNCHANGED <<rows, svn, events, cleared, faults>>

\* previewMerge: a dry run in a working copy of the trunk.  A branch that is gone and a
\* conflict end the request.
Preview(r) ==
  /\ At(r, "preview")
  /\ LET b == BranchOf(req[r].num)
     IN  IF tip[b] > 0 /\ b \notin clash THEN GoTo(r, "policy") ELSE End(r)
  /\ UNCHANGED <<rows, svn, events, cleared, faults>>

\* A plausible slip: the minimum is not looked at.
CheckPolicyBlind(r) ==
  /\ At(r, "policy")
  /\ req' = [req EXCEPT ![r].step = "update", ![r].approvals = 0]
  /\ UNCHANGED <<rows, svn, events, cleared, faults>>

\* ensurePolicy, and the rest of evaluateMergeEligibility.
CheckPolicy(r) ==
  /\ At(r, "policy")
  /\ IF req[r].approvals >= policy.min
     THEN req' = [req EXCEPT ![r].step = "update", ![r].approvals = 0]
     ELSE End(r)
  /\ UNCHANGED <<rows, svn, events, cleared, faults>>

\* withWorkingCopy: svn update.
WcUpdate(r) ==
  /\ At(r, "update")
  /\ req' = [req EXCEPT ![r].step = "merge", ![r].base = head]
  /\ UNCHANGED <<rows, svn, events, cleared, faults>>

\* mergeWorkingCopy: the commits of the branch up to its tip.  Conflicts end the request.
\* A branch that is gone makes svn fail, and the failure is taken for an empty merge.
WcMerge(r) ==
  /\ At(r, "merge")
  /\ LET b == BranchOf(req[r].num)
         new == ~Contains(b, tip[b], req[r].base)
     IN  IF tip[b] > 0 /\ new /\ b \in clash
         THEN End(r)
         ELSE req' = [req EXCEPT ![r].step = "commit", ![r].upTo = tip[b],
                                 ![r].dirty = tip[b] > 0 /\ new]
  /\ UNCHANGED <<rows, svn, events, cleared, faults>>

\* svn merge is killed by its timeout, or fails halfway: taken for a merge too, with what
\* it had done so far and without mergeinfo.
WcMergeFails(r) ==
  /\ At(r, "merge")
  /\ faults < MaxFaults
  /\ faults' = faults + 1
  /\ \E dirty \in BOOLEAN :
       req' = [req EXCEPT ![r].step = "commit", ![r].dirty = dirty]
  /\ UNCHANGED <<rows, svn, events, cleared>>

\* svn refuses a commit of a merge that is not up to date, the pre-commit hook any commit
\* to the trunk while the policy blocks them (what only part of a merge touches may be
\* up to date when the trunk is not).
Refused(r) ==
  \/ policy.block
  \/ req[r].upTo > 0 /\ ~UpToDate(req[r].base)

\* A plausible slip: the revision given is the one after that of the working copy.
CommittedNext(r, rev) ==
  req' = [req EXCEPT ![r] = [@ EXCEPT !.step = "mark", !.rev = rev + 1, !.base = 0, !.dirty = FALSE]]

\* The revision of the working copy becomes the mergeRevision.
Committed(r, rev) ==
  req' = [req EXCEPT ![r] = [@ EXCEPT !.step = "mark", !.rev = rev, !.base = 0, !.dirty = FALSE]]

\* A plausible slip: a commit svn finds out of date is taken for one with nothing to do.
WcCommitRefusalIgnored(r) ==
  /\ At(r, "commit")
  /\ \/ /\ ~req[r].dirty \/ Refused(r)
        /\ Committed(r, req[r].base)
        /\ UNCHANGED svn
     \/ /\ req[r].dirty /\ ~Refused(r)
        /\ CommitToTrunk(BranchOf(req[r].num), req[r].upTo)
        /\ Committed(r, head + 1)
  /\ UNCHANGED <<rows, events, cleared, faults>>

\* A plausible slip: a refused commit is tried again after a svn update.
WcCommitRetried(r) ==
  /\ At(r, "commit")
  /\ \/ /\ ~req[r].dirty
        /\ Committed(r, req[r].base)
        /\ UNCHANGED svn
     \/ /\ req[r].dirty
        /\ CommitToTrunk(BranchOf(req[r].num), req[r].upTo)
        /\ Committed(r, head + 1)
  /\ UNCHANGED <<rows, events, cleared, faults>>

\* commitWorkingCopy: with nothing to commit the revision is that of the working copy; a
\* refused commit is reverted and ends the request.
WcCommit(r) ==
  /\ At(r, "commit")
  /\ \/ /\ ~req[r].dirty
        /\ Committed(r, req[r].base)
        /\ UNCHANGED svn
     \/ /\ req[r].dirty /\ Refused(r)
        /\ End(r)
        /\ UNCHANGED svn
     \/ /\ req[r].dirty /\ ~Refused(r)
        /\ CommitToTrunk(BranchOf(req[r].num), req[r].upTo)
        /\ Committed(r, head + 1)
  /\ UNCHANGED <<rows, events, cleared, faults>>

\* The commit lands, and svn commit (or svn info after it) is reported failed.
WcCommitLost(r) ==
  /\ At(r, "commit")
  /\ req[r].dirty /\ ~Refused(r)
  /\ faults < MaxFaults
  /\ faults' = faults + 1
  /\ CommitToTrunk(BranchOf(req[r].num), req[r].upTo)
  /\ End(r)
  /\ UNCHANGED <<rows, events, cleared>>

\* The row is written, whatever it holds by now.
Mark(r) ==
  /\ At(r, "mark")
  /\ prs' = [prs EXCEPT ![req[r].num].status = "MERGED",
                        ![req[r].num].rev = req[r].rev,
                        ![req[r].num].found = req[r].upTo]
  /\ GoTo(r, IF req[r].drop THEN "drop" ELSE "announce")
  /\ UNCHANGED <<reviews, red, policy, svn, events, cleared, faults>>

\* deleteSourceBranch: one that is gone already ends the request.
DropBranch(r) ==
  /\ At(r, "drop")
  /\ LET b == BranchOf(req[r].num)
     IN  IF tip[b] = 0
         THEN End(r) /\ UNCHANGED svn
         ELSE /\ head < MaxHead
              /\ head' = head + 1
              /\ tip' = [tip EXCEPT ![b] = 0]
              /\ GoTo(r, "announce")
              /\ UNCHANGED <<trunk, clash>>
  /\ UNCHANGED <<rows, events, cleared, faults>>

\* enqueueDeliveries.  (What follows, the issues the merge closes, writes to none of this.)
Announce(r) ==
  /\ At(r, "announce")
  /\ events' = events \cup {[num |-> req[r].num, rev |-> req[r].rev, found |-> req[r].upTo]}
  /\ End(r)
  /\ UNCHANGED <<rows, svn, cleared, faults>>

-----------------------------------------------------------------------------
(***************************************************************************)
(* The rest of the world: developers, administrators, CI, and crashes.     *)
(***************************************************************************)

\* A commit on branch b, which is created first when it does not exist; it conflicts with
\* the trunk or does not.
Push(b) ==
  /\ head < MaxHead
  /\ head' = head + 1
  /\ tip' = [tip EXCEPT ![b] = head + 1]
  /\ clash' \in {clash \ {b}, clash \cup {b}}
  /\ UNCHANGED <<rows, trunk, req, events, cleared, faults>>

\* deleteBranch, by a request of its own or by a svn client.
DeleteBranch(b) ==
  /\ head < MaxHead
  /\ tip[b] > 0
  /\ head' = head + 1
  /\ tip' = [tip EXCEPT ![b] = 0]
  /\ UNCHANGED <<rows, trunk, clash, req, events, cleared, faults>>

\* A commit to the trunk by a svn client, if the pre-commit hook lets it.
DirectCommit ==
  /\ ~policy.block
  /\ CommitToTrunk(Trunk, 0)
  /\ UNCHANGED <<rows, req, events, cleared, faults>>

\* updatePrStatusChecks, for the open pull requests only.
ChecksReport(n) ==
  /\ prs[n].status = "OPEN"
  /\ red' \in {red \ {n}, red \cup {n}}
  /\ UNCHANGED <<prs, reviews, policy, svn, req, events, cleared, faults>>

SetPolicy ==
  /\ policy' \in [min : Minimums, block : BOOLEAN]
  /\ cleared' = IF policy'.min = 0 THEN DOMAIN prs ELSE cleared
  /\ UNCHANGED <<prs, reviews, red, svn, req, events, faults>>

\* The API stops: every request in flight is gone.
Crash ==
  /\ faults < MaxFaults
  /\ faults' = faults + 1
  /\ \E r \in Requests : ~At(r, "idle")
  /\ req' = [r \in Requests |-> Idle]
  /\ UNCHANGED <<rows, svn, events, cleared>>

-----------------------------------------------------------------------------

Handle(r) ==
  \/ CreateNumber(r) \/ CreateInsert(r) \/ StatusSet(r)
  \/ Preview(r) \/ CheckPolicy(r) \/ WcUpdate(r) \/ WcMerge(r) \/ WcMergeFails(r)
  \/ WcCommit(r) \/ WcCommitLost(r) \/ Mark(r) \/ DropBranch(r)
  \/ Announce(r)

Next ==
  \/ \E r \in Requests :
       \/ Handle(r)
       \/ \E b \in Branches : CreateCheck(r, b)
       \/ \E n \in DOMAIN prs :
            \/ \E to \in {"OPEN", "CLOSED"} : StatusLoad(r, n, to)
            \/ \E drop \in BOOLEAN : MergeLoad(r, n, drop)
  \/ \E n \in DOMAIN prs :
       \/ \E u \in Reviewers, d \in Decisions : Review(n, u, d)
       \/ ChecksReport(n)
  \/ \E b \in Branches : Push(b) \/ DeleteBranch(b)
  \/ DirectCommit \/ SetPolicy \/ Crash

Spec == Init /\ [][Next]_vars

-----------------------------------------------------------------------------
(***************************************************************************)
(* Properties.                                                             *)
(***************************************************************************)

Revisions == 0..MaxHead
Row == [branch : Branches, status : Statuses, rev : Revisions, found : Revisions]
Handler == [step : Steps, num : 0..MaxPrs, branch : Branches \cup {Trunk},
            to : {"OPEN", "CLOSED"}, approvals : 0..Cardinality(Reviewers),
            drop : BOOLEAN, base : Revisions, upTo : Revisions, dirty : BOOLEAN,
            rev : Revisions]

\* Every variable has its type; in particular the numbers of the pull requests are
\* 1, 2, 3..., although create reads the highest one and inserts in two steps.
TypeOK ==
  /\ prs \in Seq(Row) /\ Len(prs) <= MaxPrs
  /\ reviews \in [Numbers -> [Reviewers -> Decisions \cup {"none"}]]
  /\ red \subseteq Numbers
  /\ policy \in [min : Minimums, block : BOOLEAN]
  /\ head \in Revisions
  /\ tip \in [Branches -> 0..head]
  /\ trunk \in Seq([rev : 1..head, branch : Branches \cup {Trunk}, upTo : 0..head])
  /\ clash \subseteq Branches
  /\ req \in [Requests -> Handler]
  /\ events \subseteq [num : Numbers, rev : 1..head, found : 0..head]
  /\ cleared \subseteq Numbers
  /\ faults \in 0..MaxFaults

\* What a merge found on its branch is on the trunk at the mergeRevision that the row and
\* the PR_MERGED event give, however many requests, commits and crashes came between the
\* merge in the working copy and the write of the row.
MergedIsIn ==
  /\ \A n \in DOMAIN prs :
       prs[n].status = "MERGED" /\ prs[n].found > 0 =>
         Contains(BranchOf(n), prs[n].found, prs[n].rev)
  /\ \A e \in events : e.found > 0 => Contains(BranchOf(e.num), e.found, e.rev)

\* No commit of a branch is merged into the trunk twice: what each merge commit records
\* goes beyond what the earlier ones of its branch did, although two requests may merge
\* the same pull request at once, and a merge whose answer was lost is asked for again.
AppliedOnce ==
  \A i, j \in DOMAIN trunk :
    i < j /\ trunk[i].branch = trunk[j].branch /\ trunk[j].upTo > 0 =>
      trunk[i].upTo < trunk[j].upTo

\* Only a branch with a pull request that somebody other than its author has approved
\* reaches the trunk, unless the policy asked for no approval while the pull request was
\* there: the reviews counted when merge began may have changed by the time it looks at
\* the policy, and the policy by the time it commits.
ReviewedOnly ==
  \A i \in DOMAIN trunk :
    trunk[i].branch \in Branches => \E n \in cleared : BranchOf(n) = trunk[i].branch

\* docs/PLAN-svnhub-mvp.md:148 says that a merge runs svn merge and svn commit and
\* registers svn:mergeinfo: the trunk has a merge of the branch of a MERGED pull request.
MergedMeansMerged ==
  \A n \in DOMAIN prs :
    prs[n].status = "MERGED" => \E i \in DOMAIN trunk : trunk[i].branch = BranchOf(n)

=============================================================================
