------------------------------ MODULE Browser ------------------------------
(***************************************************************************)
(* What a browser keeps and shows: the session, the panels, the log of a   *)
(* job that runs, the history of a repository, the feeds of activity and   *)
(* the counts of commits; the last three with what the API reads for them. *)
(* They share no state: a behaviour is about one of them (see MCPlatform), *)
(* and a variable that several modules declare under one name stands for   *)
(* what the one of the behaviour keeps in it.                              *)
(***************************************************************************)
EXTENDS BrowserParameters

CONSTANTS
  MaxFaults,
  \* WebSession
  Tabs, MaxPairs,
  \* JobLogs
  Steps, MaxChunks, Replies,
  \* Panels
  Items, Queries, MaxLoads, MaxClicks,
  \* History
  Refs, Tags, Clients,
  \* Feeds
  MaxTime, MaxPages,
  \* Stats
  MaxCommits

VARIABLES
  faults,
  \* WebSession
  live, last, expired, storage, cookie, tab, flight, visit, signedIn, raced, behind,
  \* JobLogs
  run, step, next, written, posts, rows, status, page, lost,
  \* Panels
  panel, server, shown, query, answers, loads, sent, calls, busy, clicks, mine, meant,
  hasty, crossed,
  \* History
  log, hook, index, call, reader, missed,
  \* Feeds
  now, loaded, feed, more, offset, loadingMore, error, since, alone,
  \* Stats
  today, commits, request, phase, from, grouped, answer, turned

We == INSTANCE WebSession
Lo == INSTANCE JobLogs
Pa == INSTANCE Panels
Hi == INSTANCE History
Fe == INSTANCE Feeds
St == INSTANCE Stats

=============================================================================
