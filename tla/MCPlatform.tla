------------------------------- MODULE MCPlatform -------------------------------
(***************************************************************************)
(* For TLC: the parts of the platform that need no large instance.  They   *)
(* share no state, so a behaviour is about one of them, chosen at the      *)
(* start.  Repositories has variables of its own, which rest at their Init *)
(* otherwise; the other parts take v1, v2, ... for theirs, and those they  *)
(* do not need stay 0.                                                     *)
(***************************************************************************)
EXTENDS Repositories, ServiceParameters, BrowserParameters, SvnPaths, TLC

CONSTANTS
  Things,  \* labels, teams, webhooks, items, tabs, refs, forms
  NoOne,   \* no caller, no repository, no pipeline
  Alice, Bob,
  p1, p2   \* pipelines of one branch, for its revisions 1 and 2

ASSUME NobodyApart == NoOne \notin Clients
ASSUME PipelinesApart == NoOne \notin {p1, p2}

VARIABLES part, v1, v2, v3, v4, v5, v6, v7, v8, v9, v10, v11, v12, v13, v14, v15

slots == <<v1, v2, v3, v4, v5, v6, v7, v8, v9, v10, v11, v12, v13, v14, v15>>
free9 == <<v10, v11, v12, v13, v14, v15>>
free10 == <<v11, v12, v13, v14, v15>>
free11 == <<v12, v13, v14, v15>>
free8 == <<v9, free9>>
free12 == <<v13, v14, v15>>
free6 == <<v7, v8, free8>>

\* With their theorems, which PlatformProofs cites.
Sv == INSTANCE ServicesProofs WITH
        Callers <- Clients, Nobody <- NoOne,
        MaxFaults <- 1,
        Admins <- {Alice}, Directory <- {Bob}, MaxStarts <- 3,
        Teams <- Things, MaxRules <- 1, MaxChanges <- 4,
        Labels <- Things, Merges <- {1, 2}, MaxRequests <- 3,
        Forms <- Things, MaxRemovals <- 1, MaxStops <- 1,
        NoRepo <- NoOne, Attempts <- 2, MaxJobs <- 2, MaxBackupFaults <- 2,
        Hooks <- Things, Mentionable <- {Alice}, QueueAttempts <- [k \in {"deliver", "send-email"} |-> 2],
        Workers <- 2, MaxEvents <- 1, MaxCrashes <- 2,
        locked <- v1, waiting <- v2, phase <- v3, account <- v4, session <- v5, htpasswd <- v6,
        job <- v7, fresh <- v8, starts <- v9, faults <- v10, section <- v11, excused <- v12,
        admin <- v1, active <- v2, member <- v3, team <- v4, born <- v5, squad <- v6, link <- v7,
        rules <- v8, dying <- v9, reviewed <- v10, commits <- v11, changes <- v12,
        issue <- v1, label <- v2, call <- v4, announced <- v3, requests <- v6, asked <- v7,
        calm <- v8, beaten <- v9, undone <- v10,
        file <- v1, url <- v2, clock <- v4, request <- v3, cache <- v5, removed <- v6,
        stops <- v7,
        repos <- v1, rows <- v3, keep <- v2, health <- v4, queue <- v5, work <- v6, jobs <- v7,
        had <- v8, spoiled <- v9, forsaken <- v11,
        events <- v1, inbox <- v4, arrived <- v7, owed <- v8, spent <- v9,
        proc <- v1, code <- v2, effect <- v3, written <- v4, received <- v5, stdout <- v6,
        timer <- v7, timedOut <- v8, promise <- v9, cut <- v10

\* The same of the browser.
Br == INSTANCE BrowserProofs WITH
        MaxFaults <- 1, Tabs <- Things, MaxPairs <- 3, Steps <- 2, MaxChunks <- 4, Replies <- {"empty", "read"},
        Items <- Things, Queries <- {1, 2}, MaxLoads <- 3, MaxClicks <- 2,
        Refs <- Things, Tags <- Things, Clients <- {Alice}, MaxTime <- 4, MaxPages <- 2, MaxCommits <- 1,
        live <- v1, last <- v2, expired <- v3, storage <- v4, cookie <- v5, tab <- v6,
        flight <- v7, visit <- v8, signedIn <- v10, raced <- v11, behind <- v12, panel <- v1, server <- v2,
        shown <- v3, query <- v4, answers <- v5, loads <- v12, sent <- v7, calls <- v8,
        busy <- v11, clicks <- v10, mine <- v6, meant <- v13, hasty <- v14, crossed <- v15,
        run <- v1, step <- v2, next <- v3, written <- v4, posts <- v5, rows <- v6,
        status <- v7, page <- v8, lost <- v10, faults <- v9,
        log <- v1, hook <- v2, index <- v3, call <- v4, reader <- v5, missed <- v6,
        now <- v1, loaded <- v2, feed <- v3, more <- v4, offset <- v5, loadingMore <- v8,
        error <- v10, since <- v11, alone <- v13,
        today <- v1, commits <- v2, request <- v3, phase <- v4, from <- v5, grouped <- v6,
        answer <- v7, turned <- v8

Ci == INSTANCE CiPipelinesProofs WITH
        Pipelines <- {p1, p2}, NumJobs <- 1, RevisionOf <- [p \in {p1, p2} |-> IF p = p1 THEN 1 ELSE 2],
        NoPipeline <- NoOne, Replies <- {"empty", "read"}, MaxStalls <- 1, MaxFaults <- 0, MaxCancels <- 1,
        status <- v1, jobs <- v2, logged <- v3, artifacts <- v4, checks <- v5, events <- v6,
        req <- v7, queue <- v8, bull <- v9, stalls <- v10, run <- v11, faults <- v12,
        cancels <- v13, cancelAt <- v14

Free12 == v13 = 0 /\ v14 = 0 /\ v15 = 0
Free11 == Free12 /\ v12 = 0
Free10 == Free11 /\ v11 = 0
Free9 == Free10 /\ v10 = 0
Free8 == Free9 /\ v9 = 0
Free6 == Free8 /\ v8 = 0 /\ v7 = 0
Free == Free6 /\ v6 = 0 /\ v5 = 0 /\ v4 = 0 /\ v3 = 0 /\ v2 = 0 /\ v1 = 0

PlatformInit ==
  /\ Init
  /\ \/ part = "repositories" /\ Free
     \/ part = "accounts" /\ Sv!Ac!Init /\ Free12
     \/ part = "access" /\ Sv!Ax!Init /\ Free12
     \/ part = "issues" /\ Sv!Is!Init /\ Free10
     \/ part = "deliveries" /\ Sv!De!Init /\ Free10
     \/ part = "backups" /\ Sv!Ba!Init /\ Free11
     \/ part = "session" /\ Br!We!Init /\ Free12
     \/ part = "panels" /\ Br!Pa!Init
     \/ part = "ci" /\ Ci!Init /\ v15 = 0
     \/ part = "logs" /\ Br!Lo!Init /\ Free10
     \/ part = "history" /\ Br!Hi!Init /\ Free6
     \/ part = "feeds" /\ Br!Fe!Init /\ v14 = 0 /\ v15 = 0
     \/ part = "stats" /\ Br!St!Init /\ Free8
     \/ part = "svn" /\ Sv!Cl!Init /\ Free10
     \/ part = "avatars" /\ Sv!Av!Init /\ Free8

PlatformNext ==
  \/ part = "repositories" /\ Next /\ UNCHANGED <<part, slots>>
  \/ part = "accounts" /\ Sv!Ac!Next /\ UNCHANGED <<part, vars, free12>>
  \/ part = "access" /\ Sv!Ax!Next /\ UNCHANGED <<part, vars, free12>>
  \/ part = "issues" /\ Sv!Is!Next /\ UNCHANGED <<part, vars, free10>>
  \/ part = "deliveries" /\ Sv!De!Next /\ UNCHANGED <<part, vars, free10>>
  \/ part = "backups" /\ Sv!Ba!Next /\ UNCHANGED <<part, vars, free11>>
  \/ part = "session" /\ Br!We!Next /\ UNCHANGED <<part, vars, free12>>
  \/ part = "panels" /\ Br!Pa!Next /\ UNCHANGED <<part, vars>>
  \/ part = "ci" /\ Ci!Next /\ UNCHANGED <<part, vars, v15>>
  \/ part = "logs" /\ Br!Lo!Next /\ UNCHANGED <<part, vars, free10>>
  \/ part = "history" /\ Br!Hi!Next /\ UNCHANGED <<part, vars, free6>>
  \/ part = "feeds" /\ Br!Fe!Next /\ UNCHANGED <<part, vars, v14, v15>>
  \/ part = "stats" /\ Br!St!Next /\ UNCHANGED <<part, vars, free8>>
  \/ part = "svn" /\ Sv!Cl!Next /\ UNCHANGED <<part, vars, free10>>
  \/ part = "avatars" /\ Sv!Av!Next /\ UNCHANGED <<part, vars, free8>>

PlatformSpec == PlatformInit /\ [][PlatformNext]_<<part, vars, slots>>

\* The months of the calendar have 4, 3, 2, 4 and 3 days.
MCMonthStart == <<0, 4, 7, 9, 13, 16>>

\* Two characters of one byte, and one of two between them.
MCText == <<"c", "h", "t", "c">>

\* Up to two segments, empty ones included: the names and paths of SvnPaths.
Words(S) == UNION {[1..n -> S] : n \in 0..2}
ASSUME PathsTranslate ==
  \A ref \in Words(Names) \ {<<>>}, kind \in Kinds :
    /\ \A p \in Words(Names \cup {Blank}) : PathComesBack(p, ref, kind) /\ ChangeFindsBranch(p, ref, kind)
    /\ \A other \in Words(Names) \ {<<>>} : NamesApart(ref, other, kind)

Symmetry == Permutations(Clients) \cup Permutations(Things)

NoLostUpdate == part = "accounts" => Sv!Ac!NoLostUpdate
DeactivationCloses == part = "accounts" => Sv!Ac!DeactivationCloses
QueriesAgree == part = "access" => Sv!Ax!QueriesAgree
SvnFollowsRole == part = "access" => Sv!Ax!SvnFollowsRole
NumbersDense == part = "issues" => Sv!Is!NumbersDense
AsAskedUnlessRaced == part = "issues" => Sv!Is!AsAskedUnlessRaced
NothingDropped == part = "deliveries" => Sv!De!NothingDropped
LatestBackupKept == part = "backups" => Sv!Ba!LatestBackupKept
VerifyingIsUnderWay == part = "backups" => Sv!Ba!VerifyingIsUnderWay
SessionKept == part = "session" => Br!We!SessionKept
PanelSettles == part = "panels" => Br!Pa!PanelSettles
NoPressLost == part = "panels" => Br!Pa!NoPressLost
GreenCheckEarned == part = "ci" => Ci!GreenCheckEarned
LogWhole == part = "logs" => Br!Lo!LogWhole
ReadersConsistent == part = "history" => Br!Hi!ReadersConsistent
FeedsTruthful == part = "feeds" => Br!Fe!FeedsTruthful
TotalsWhole == part = "stats" => Br!St!TotalsWhole
OutcomeTrue == part = "svn" => Sv!Cl!OutcomeTrue
PictureCurrent == part = "avatars" => Sv!Av!PictureCurrent
=============================================================================
