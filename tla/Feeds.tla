--------------------------------- MODULE Feeds ---------------------------------
(***************************************************************************)
(* The feed of activity: DashboardService.getActivityFeed, which merges    *)
(* revisions, pull requests and pipelines into one list and cuts a page    *)
(* out of it, and DashboardHome, which asks for the pages one after the    *)
(* other while the list goes on growing.  UserStatsService.getActivity is  *)
(* the feed of one user's profile.                                         *)
(*                                                                         *)
(* The rows are those of the repositories the viewer sees; the three       *)
(* queries of a request, which run side by side, are read as one.  Dates   *)
(* are the ticks of one clock, so no two entries have the same.            *)
(***************************************************************************)
EXTENDS Naturals, FiniteSets, Sequences

CONSTANTS
  Page,         \* ACTIVITY_PAGE_SIZE
  Batch,        \* ACTIVITY_FETCH_BATCH: rows of a kind that a request reads
  ProfileTake,  \* rows of a kind that the profile reads
  MaxTime,      \* bound: changes of the rows
  MaxPages,     \* bound: requests of the page, of which two at a time
  MaxFaults     \* bound: failing requests

VARIABLES
  rows,    \* RevisionIndex, PullRequest and Pipeline rows
  now,
  loaded,  \* dashboard # null
  feed,    \* dashboard.activityFeed.items
  more,    \* its hasMore
  offset,  \* activityOffset
  loadingMore,
  error,   \* the error view hides the page
  loads,   \* requests on their way
  sent,
  faults,
  since,   \* history: when the list was last asked for from its start
  alone    \* history: and no two requests have been on their way together since

history == <<since, alone>>
vars == <<rows, now, loaded, feed, more, offset, loadingMore, error, loads, sent, faults, history>>

\* at: date or createdAt; touched: updatedAt; ended: mergedAt or closedAt.
Row(kind, t) == [kind |-> kind, at |-> t, touched |-> t, status |-> "OPEN", ended |-> 0]

Init ==
  /\ rows = {} /\ now = 0
  /\ loaded = FALSE /\ feed = <<>> /\ more = FALSE /\ offset = 0
  /\ loadingMore = FALSE /\ error = FALSE
  /\ loads = {} /\ sent = 0 /\ faults = 0
  /\ since = 0 /\ alone = TRUE

-----------------------------------------------------------------------------
(***************************************************************************)
(* The API.                                                                *)
(***************************************************************************)

NewestFirst(S) ==
  [i \in 1..Cardinality(S) |-> CHOOSE e \in S : Cardinality({f \in S : f.date > e.date}) = i - 1]
Upto(s, n) == SubSeq(s, 1, IF n < Len(s) THEN n ELSE Len(s))

\* orderBy updatedAt (pull requests) or the date, take n.
Latest(S, n) == {r \in S : Cardinality({q \in S : q.touched > r.touched}) < n}
Fetched(kind, n) == Latest({r \in rows : r.kind = kind}, n)

\* The entries of a row: a pull request has one more when it is merged or closed.
EntriesOf(r) ==
  {[kind |-> r.kind, date |-> r.at]} \cup
  (IF r.ended = 0 THEN {} ELSE {[kind |-> r.status, date |-> r.ended]})
Entries(S) == UNION {EntriesOf(r) : r \in S}

Merged == NewestFirst(Entries(UNION {Fetched(k, Batch) : k \in {"revision", "pull", "pipeline"}}))
HitFetchLimit == \E k \in {"revision", "pull", "pipeline"} : Cardinality(Fetched(k, Batch)) >= Batch

Cut(from) == SubSeq(Merged, from + 1, IF from + Page < Len(Merged) THEN from + Page ELSE Len(Merged))

\* A plausible slip: what is left is told from the total, which counts rows.
FeedByTotal(from) ==
  [items |-> Cut(from), hasMore |-> from + Page < Cardinality(rows) \/ HitFetchLimit]

\* DashboardService.getActivityFeed.
ActivityFeed(from) ==
  [items |-> Cut(from), hasMore |-> from + Page < Len(Merged) \/ HitFetchLimit]

\* UserStatsService.getActivity for an administrator: pull requests that were closed are
\* left out, and the list is cut at one and a half times what is read of a kind.  (For
\* any other viewer buildRepositoryFilter compares the id of the row itself with those of
\* the repositories, and the list is empty: see CountCommits of Access.)
ProfileFeed ==
  LET own == Latest({r \in rows : r.kind = "revision"}, ProfileTake)
             \cup Latest({r \in rows : r.kind = "pull" /\ r.status # "CLOSED"}, ProfileTake)
  IN  Upto(NewestFirst(Entries(own)), (3 * ProfileTake) \div 2)

-----------------------------------------------------------------------------
(***************************************************************************)
(* The rows change.                                                        *)
(***************************************************************************)

Changes(S) ==
  /\ now < MaxTime
  /\ now' = now + 1
  /\ rows' = S
  /\ UNCHANGED <<loaded, feed, more, offset, loadingMore, error, loads, sent, faults, history>>

\* A commit is indexed, a pull request opened, a pipeline created.
Add(kind) == Changes(rows \cup {Row(kind, now + 1)})

\* A pull request is merged or closed, or its title edited: @updatedAt.
Touch(r, status) ==
  /\ r.kind = "pull" /\ r.status = "OPEN"
  /\ Changes((rows \ {r}) \cup
       {[r EXCEPT !.touched = now + 1, !.status = status,
                  !.ended = IF status = "OPEN" THEN 0 ELSE now + 1]})

-----------------------------------------------------------------------------
(***************************************************************************)
(* The page.                                                               *)
(***************************************************************************)

Send(from, append) ==
  /\ sent < MaxPages /\ Cardinality(loads) < 2
  /\ sent' = sent + 1
  /\ loads' = loads \cup {[n |-> sent', offset |-> from, append |-> append, read |-> FALSE,
                             items |-> <<>>, hasMore |-> FALSE]}

\* loadDashboard(0, false): the user is there, a refresh of the session has set another
\* object for the same user, or the button of the error view.
Reload ==
  /\ Send(0, FALSE)
  /\ error' = FALSE
  /\ since' = now
  /\ alone' = (loads = {})
  /\ UNCHANGED <<rows, now, loaded, feed, more, offset, loadingMore, faults>>

\* The button under the list, disabled while loadingMore.
LoadMore ==
  /\ loaded /\ ~error /\ more /\ ~loadingMore
  /\ Send(offset + Page, TRUE)
  /\ loadingMore' = TRUE
  /\ alone' = (alone /\ loads = {})
  /\ UNCHANGED <<rows, now, loaded, feed, more, offset, error, faults, since>>

\* GET /dashboard.
Read(l) ==
  /\ ~l.read
  /\ LET page == ActivityFeed(l.offset) IN
     loads' = (loads \ {l}) \cup
                {[l EXCEPT !.read = TRUE, !.items = page.items, !.hasMore = page.hasMore]}
  /\ UNCHANGED <<rows, now, loaded, feed, more, offset, loadingMore, error, sent, faults, history>>

\* The answer is appended to the list or replaces it.
Answered(l) ==
  /\ l.read
  /\ loads' = loads \ {l}
  /\ loaded' = TRUE
  /\ feed' = IF l.append /\ loaded THEN feed \o l.items ELSE l.items
  /\ more' = l.hasMore
  /\ offset' = l.offset
  /\ loadingMore' = FALSE
  /\ UNCHANGED <<rows, now, error, sent, faults, history>>

Fails(l) ==
  /\ faults < MaxFaults
  /\ faults' = faults + 1
  /\ loads' = loads \ {l}
  /\ error' = TRUE
  /\ loadingMore' = FALSE
  /\ UNCHANGED <<rows, now, loaded, feed, more, offset, sent, history>>

Next ==
  \/ \E k \in {"revision", "pull", "pipeline"} : Add(k)
  \/ \E r \in rows, status \in {"OPEN", "MERGED", "CLOSED"} : Touch(r, status)
  \/ Reload \/ LoadMore
  \/ \E l \in loads : Read(l) \/ Answered(l) \/ Fails(l)

Spec == Init /\ [][Next]_vars

-----------------------------------------------------------------------------

Shown == {feed[i] : i \in DOMAIN feed}
Older(e) == \A f \in Shown : f.date > e.date

\* So many rows of its kind have changed after r that no request reads r.
Crowded(r) == Cardinality({q \in rows : q.kind = r.kind /\ q.touched > r.touched}) >= Batch

\* The pages, put together, are entries of the rows, each once and the newest first; what
\* they leave out is older than all of them and the button is there to ask for it, but
\* for the entries of rows that Batch newer ones of the kind keep from being read, which
\* no page tells.  The button goes with the last entry, unless a kind has as many rows as
\* a request reads.
PagesInOrder ==
  /\ Shown \subseteq Entries(rows)
  /\ \A i, j \in DOMAIN feed : i < j => feed[i].date > feed[j].date
  /\ \A r \in rows : \A e \in EntriesOf(r) \ Shown : Crowded(r) \/ (more /\ Older(e))
  /\ more => HitFetchLimit \/ Entries(rows) \ Shown # {}

\* While the rows go on changing, what pushes the list down makes a page tell again what
\* the one before it has told, but no page leaves out an entry that was there when the
\* list was asked for, as long as no kind has more rows than a request reads.
NoneSkipped ==
  (\A k \in {"revision", "pull", "pipeline"} : Cardinality({r \in rows : r.kind = k}) <= Batch) =>
    \A e \in Entries(rows) \ Shown : e.date <= since => more /\ Older(e)

\* A profile that tells how a pull request ended tells its opening too, unless newer
\* entries have pushed that out.
ProfileTellsBoth ==
  \A r \in rows :
    LET dates == {ProfileFeed[i].date : i \in DOMAIN ProfileFeed} IN
    r.ended \in dates => r.at \in dates \/ Cardinality(dates) = (3 * ProfileTake) \div 2

\* While the requests of the page come one after the other, the list of the dashboard is
\* PagesInOrder until a row changes, and NoneSkipped then too; profiles always tell both.
FeedsTruthful ==
  /\ (alone /\ loads = {} /\ loaded /\ ~error) => NoneSkipped /\ (now = since => PagesInOrder)
  /\ ProfileTellsBoth
=============================================================================
