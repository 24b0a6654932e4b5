-------------------------------- MODULE Panels --------------------------------
(***************************************************************************)
(* One panel of the web application between its user and the API: what it  *)
(* shows, the requests of its buttons, and the loads that bring the list   *)
(* up to date.  The components of apps/web/src/components differ in a few  *)
(* respects only; each is a record of them, and a behaviour is about one.  *)
(*                                                                         *)
(* The API keeps a set of items (webhooks, members, labels, toggles of a   *)
(* form, ...).  Another browser changes it too.  A load is read by the API *)
(* at one moment and arrives at a later one; answers overtake each other.  *)
(***************************************************************************)
EXTENDS Naturals, FiniteSets

CONSTANTS
  Items,
  Queries,    \* filters of a list, searches
  MaxLoads,   \* bound: loads sent
  MaxClicks,  \* bound: requests of the user, and changes elsewhere
  MaxFaults   \* bound: failing calls

VARIABLES
  panel,    \* the component
  server,   \* the items the API has
  shown,    \* the items the panel shows, or has in its form
  query,    \* what the user has typed or chosen
  answers,  \* the query the shown list answers
  loads,    \* loads on their way
  sent,     \* loads sent so far
  calls,    \* requests of buttons on their way
  busy,     \* the loading flag that disables the buttons
  clicks, faults,
  mine,     \* history: items this panel was the last to ask a change of; one whose removal
            \* is answered without a body is not among them
  meant,    \* history: the items as all the presses, also those elsewhere, would leave them
  hasty,    \* history: a request was made from, or met, a list that was no longer the API's
  crossed   \* history: an answer has arrived after that of a later load, or over a form
            \* that was already sent

vars == <<panel, server, shown, query, answers, loads, sent, calls, busy, clicks, faults,
          mine, meant, hasty, crossed>>

-----------------------------------------------------------------------------
(***************************************************************************)
(* The components.  body: a request names one item, or replaces them all   *)
(* by what is shown but for one ("form": an own copy of them, edited       *)
(* before the request); "none": there are no requests, only loads.  only:  *)
(* its buttons "add" or "remove" items, or each press adds a "new" one.    *)
(* after: the answer is followed by a load that is awaited, by a refresh   *)
(* of the page (its props), or another page, that is not, or by an edit of *)
(* the list in place.  guarded: the buttons are disabled while busy.       *)
(* mounts: the first list is loaded, not part of the page.  query: "load"  *)
(* on every change of it, "abort" the load before as well.  empty: the     *)
(* DELETE handlers of the API return nothing, which answers 200 without a  *)
(* body, and the client makes JSON of every answer but a 204.              *)
(***************************************************************************)

Component == [body |-> "item", only |-> "both", after |-> "reload", guarded |-> TRUE, mounts |-> TRUE,
              query |-> "none", polls |-> FALSE, onError |-> "keep",
              empty |-> FALSE]

WebhooksPanel == [Component EXCEPT !.onError = "empty", !.empty = TRUE]
BackupsPanel == [Component EXCEPT !.onError = "empty"]
AdminUsersPanel == [Component EXCEPT !.query = "load"]
AdminAuditLogPanel == [Component EXCEPT !.query = "load", !.body = "none"]
NotificationsBell == [Component EXCEPT !.only = "remove", !.guarded = FALSE, !.polls = TRUE,
                                       !.onError = "empty"]
TeamDetailPanel == [Component EXCEPT !.guarded = FALSE, !.mounts = FALSE, !.empty = TRUE]
\* Every token is created anew, and it is the answer that names it.
AccessTokensPanel ==
  [Component EXCEPT !.only = "new", !.after = "edit", !.guarded = FALSE, !.mounts = FALSE,
                     !.empty = TRUE]

\* A plausible slip: a search that is still on its way is not aborted.
SearchAll == [Component EXCEPT !.body = "none", !.query = "load", !.onError = "empty"]
GlobalSearch == [Component EXCEPT !.body = "none", !.query = "abort", !.onError = "empty"]
\* What it loads depends on the user of the session, a new one aborts.
RepositoryListLoader == GlobalSearch

PagePanel == [Component EXCEPT !.after = "page", !.mounts = FALSE]
PullRequestDetailPanel == PagePanel
RefManager == PagePanel
DeleteRefButton == [PagePanel EXCEPT !.only = "remove", !.empty = TRUE]
MemberManager == [PagePanel EXCEPT !.guarded = FALSE, !.empty = TRUE]
PathPermissionManager == [PagePanel EXCEPT !.guarded = FALSE, !.empty = TRUE]
RepoTeamManager == [PagePanel EXCEPT !.guarded = FALSE, !.empty = TRUE]
\* A plausible slip: the labels are not disabled while a request is on its way.
LabelsUnguarded == [PagePanel EXCEPT !.body = "all", !.guarded = FALSE]
IssueDetailPanel == [PagePanel EXCEPT !.body = "all"]

\* The form keeps its own copy: a refresh of the page does not reach it.
PolicyForm == [PagePanel EXCEPT !.body = "form", !.after = "edit"]
ProfileSettingsForm == PolicyForm
AdminBackupsPage == [PolicyForm EXCEPT !.mounts = TRUE]

\* They create one thing and go to its page; an archived repository stays archived
\* (the other button of RepoDangerZone, which deletes it, is a DeleteRefButton).
CreateRepositoryForm == [PagePanel EXCEPT !.only = "add"]
CreatePullRequestForm == CreateRepositoryForm
IssueNewForm == CreateRepositoryForm
PipelinesPanel == CreateRepositoryForm
RepoDangerZone == CreateRepositoryForm
TeamsListPanel == [CreateRepositoryForm EXCEPT !.mounts = TRUE]

Components ==
  {WebhooksPanel, BackupsPanel, AdminUsersPanel, AdminAuditLogPanel, NotificationsBell,
   TeamDetailPanel, AccessTokensPanel, GlobalSearch, RepositoryListLoader,
   PullRequestDetailPanel, RefManager, DeleteRefButton, MemberManager, PathPermissionManager,
   RepoTeamManager, IssueDetailPanel, PolicyForm, ProfileSettingsForm, AdminBackupsPage,
   CreateRepositoryForm, CreatePullRequestForm, IssueNewForm, PipelinesPanel, RepoDangerZone,
   TeamsListPanel}

Load(n, q, ends) == [n |-> n, query |-> q, read |-> FALSE, data |-> {}, ends |-> ends]

Init ==
  /\ panel \in Components
  /\ server \in SUBSET Items
  /\ shown = IF panel.mounts THEN {} ELSE server
  /\ query \in IF panel.query = "none" THEN {CHOOSE q \in Queries : TRUE} ELSE Queries
  /\ answers = query
  /\ loads = IF panel.mounts THEN {Load(1, query, FALSE)} ELSE {}
  /\ sent = Cardinality(loads)
  /\ calls = {}
  /\ busy = FALSE
  /\ clicks = 0 /\ faults = 0
  /\ mine = {}
  /\ meant = server
  /\ hasty = FALSE
  /\ crossed = FALSE

Fault == faults < MaxFaults /\ faults' = faults + 1

\* One more load; ends: the busy flag goes with its answer.
SendLoad(q, ends) ==
  /\ sent < MaxLoads
  /\ sent' = sent + 1
  /\ loads' = loads \cup {Load(sent', q, ends)}

\* Refreshes of the page run one after the other; other loads side by side.
First(l) == \A k \in loads : l.n <= k.n
MayGo(l) == panel.after = "page" => First(l)

-----------------------------------------------------------------------------
(***************************************************************************)
(* Loads.                                                                  *)
(***************************************************************************)

\* The API reads the list.
ReadLoad(l) ==
  /\ ~l.read /\ MayGo(l)
  /\ loads' = (loads \ {l}) \cup {[l EXCEPT !.read = TRUE, !.data = server]}
  /\ UNCHANGED <<panel, server, shown, query, answers, sent, calls, busy, clicks, faults, mine, meant, hasty, crossed>>

\* The answer replaces what is shown.
LoadAnswered(l) ==
  /\ l.read /\ MayGo(l)
  /\ loads' = loads \ {l}
  /\ shown' = l.data
  /\ answers' = l.query
  /\ busy' = (busy /\ ~l.ends)
  /\ crossed' = (\/ crossed
                 \/ \E n \in 1..sent : n > l.n /\ \A k \in loads : k.n # n
                 \/ panel.body = "form" /\ (calls # {} \/ mine # {}))
  /\ UNCHANGED <<panel, server, query, sent, calls, clicks, faults, mine, meant, hasty>>

\* It fails: some components then show an empty list.
LoadFails(l) ==
  /\ Fault
  /\ loads' = loads \ {l}
  /\ shown' = IF panel.onError = "empty" THEN {} ELSE shown
  /\ busy' = (busy /\ ~l.ends)
  /\ UNCHANGED <<panel, server, query, answers, sent, calls, clicks, mine, meant, hasty, crossed>>

\* The user types or chooses a filter: AdminUsersPanel loads at once; GlobalSearch
\* aborts the search before and waits 250 ms, in which nothing else happens.
SetQuery(q) ==
  /\ panel.query # "none" /\ q # query
  /\ query' = q
  /\ IF panel.query = "abort"
     THEN /\ sent < MaxLoads
          /\ sent' = sent + 1
          /\ loads' = {Load(sent', q, FALSE)}
     ELSE SendLoad(q, FALSE)
  /\ UNCHANGED <<panel, server, shown, answers, calls, busy, clicks, faults, mine, meant, hasty, crossed>>

\* The timer of NotificationsBell.
Poll ==
  /\ panel.polls
  /\ SendLoad(query, FALSE)
  /\ UNCHANGED <<panel, server, shown, query, answers, calls, busy, clicks, faults, mine, meant, hasty, crossed>>

-----------------------------------------------------------------------------
(***************************************************************************)
(* Requests.                                                               *)
(***************************************************************************)

Toggle(S, i) == IF i \in S THEN S \ {i} ELSE S \cup {i}

\* A button is pressed.  The request is made from what is shown.
Click(i) ==
  /\ panel.body # "none"
  /\ panel.guarded => ~busy
  /\ panel.only = "add" => i \notin shown
  /\ panel.only = "remove" => i \in shown
  /\ panel.only = "new" => i \in shown \/ (i \notin server /\ \A c \in calls : c.item # i)
  /\ clicks < MaxClicks
  /\ clicks' = clicks + 1
  /\ calls' = calls \cup {[n |-> clicks', item |-> i, wanted |-> Toggle(shown, i), done |-> FALSE]}
  /\ shown' = IF panel.body = "form" THEN Toggle(shown, i) ELSE shown
  /\ busy' = TRUE
  /\ meant' = Toggle(meant, i)
  /\ hasty' = (hasty \/ shown # server)
  /\ UNCHANGED <<panel, server, query, answers, loads, sent, faults, mine, crossed>>

\* The API carries it out.
CallReaches(c) ==
  /\ ~c.done
  /\ calls' = (calls \ {c}) \cup {[c EXCEPT !.done = TRUE]}
  /\ IF panel.body \in {"all", "form"}
     THEN server' = c.wanted /\ mine' = Items
     ELSE /\ server' = IF c.item \in c.wanted THEN server \cup {c.item} ELSE server \ {c.item}
          /\ mine' = mine \cup {c.item}
  /\ UNCHANGED <<panel, shown, query, answers, loads, sent, busy, clicks, faults, meant, hasty, crossed>>

Removes(c) == c.item \notin c.wanted
AnswersEmpty(c) == panel.empty /\ Removes(c)

\* Its answer: the awaited load, the refresh of the page, or the edit in place.
CallAnswered(c) ==
  /\ c.done /\ ~AnswersEmpty(c)
  /\ calls' = calls \ {c}
  /\ \/ panel.after = "reload" /\ SendLoad(query, TRUE) /\ UNCHANGED <<shown, busy>>
     \/ panel.after = "page" /\ SendLoad(query, FALSE) /\ busy' = FALSE /\ UNCHANGED shown
     \/ /\ panel.after = "edit"
        /\ shown' = IF panel.body = "form" THEN shown
                    ELSE IF c.item \in c.wanted THEN shown \cup {c.item} ELSE shown \ {c.item}
        /\ busy' = FALSE
        /\ UNCHANGED <<loads, sent>>
  /\ UNCHANGED <<panel, server, query, answers, clicks, faults, mine, meant, hasty, crossed>>

\* The API has removed the item, but the client throws on the empty answer: the panel
\* loads nothing and goes on showing the item (some show an error, some let it pass).
EmptyAnswer(c) ==
  /\ c.done /\ AnswersEmpty(c)
  /\ calls' = calls \ {c}
  /\ busy' = FALSE
  /\ mine' = mine \ {c.item}
  /\ UNCHANGED <<panel, server, shown, query, answers, loads, sent, clicks, faults, meant, hasty, crossed>>

\* It fails, before or after it was carried out: an error is shown, nothing is loaded.
CallFails(c) ==
  /\ Fault
  /\ calls' = calls \ {c}
  /\ busy' = FALSE
  /\ UNCHANGED <<panel, server, shown, query, answers, loads, sent, clicks, mine, meant, hasty, crossed>>

\* Another browser changes an item.
ChangeElsewhere(i) ==
  /\ clicks < MaxClicks
  /\ clicks' = clicks + 1
  /\ server' = Toggle(server, i)
  /\ mine' = mine \ {i}
  /\ meant' = Toggle(meant, i)
  /\ hasty' = (hasty \/ \E c \in calls : ~c.done)
  /\ UNCHANGED <<panel, shown, query, answers, loads, sent, calls, busy, faults, crossed>>

Next ==
  \/ \E l \in loads : ReadLoad(l) \/ LoadAnswered(l) \/ LoadFails(l)
  \/ \E q \in Queries : SetQuery(q)
  \/ Poll
  \/ \E i \in Items : Click(i) \/ ChangeElsewhere(i)
  \/ \E c \in calls : CallReaches(c) \/ CallAnswered(c) \/ EmptyAnswer(c) \/ CallFails(c)

Spec == Init /\ [][Next]_vars

-----------------------------------------------------------------------------

\* When nothing is on its way, no call has failed and no answer came after that of a
\* later load, a panel shows what the API has of every item its own user was the last to
\* change, and the answer to the query in its field; but for an item whose removal was
\* answered without a body, which it goes on showing.  In the search, which aborts, no
\* answer can come too late.
PanelSettles ==
  (loads = {} /\ calls = {} /\ faults = 0) =>
    /\ ~crossed => (\A i \in mine : i \in shown <=> i \in server) /\ answers = query
    /\ panel = GlobalSearch => ~crossed /\ answers = query

\* The components that send the whole list (the labels of an issue, the policies) lose a
\* press only to one that was made before the page showed its effect, or to a change
\* made elsewhere meanwhile.
NoPressLost ==
  (panel.body \in {"all", "form"} /\ loads = {} /\ calls = {} /\ faults = 0 /\ ~hasty) =>
    server = meant
=============================================================================
