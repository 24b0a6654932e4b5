-------------------------------- MODULE Issues --------------------------------
(***************************************************************************)
(* The issues of one repository: IssuesService, LabelsService and the      *)
(* closing of issues by a merge (IssueCrossRefService).                    *)
(*                                                                         *)
(* Nothing here runs in a transaction.  A number is the maximum plus one,  *)
(* read by one query and inserted by the next; the labels of an issue are  *)
(* deleted by one query and created by the next; a status is compared with *)
(* one read several queries earlier.  A request may end between two of its *)
(* queries, when one of them fails or the process stops: what it has       *)
(* written stays, and nothing does the rest.                               *)
(***************************************************************************)
EXTENDS Naturals, FiniteSets, FiniteSetsExt

CONSTANTS
  Clients,      \* requests in flight
  Labels,
  Merges,       \* pull requests whose merge closes issues
  MaxAttempts,  \* maxAttempts of createWithNextNumber
  MaxNumber,    \* bound: issues
  MaxRequests   \* bound: requests in a behaviour

NoMerge == 0
Numbers == 1..MaxNumber

VARIABLES
  issue,     \* issue[n]: the row with number n, if there is one
  label,     \* the labels of the repository
  born,      \* labels there have ever been: each has an identity of its own
  call,      \* call[c]: the request in flight
  announced, \* announced[n]: the status in the last webhook event about n
  requests,  \* requests so far
  asked,     \* history: asked[n]: what the last request on n asked for
  calm,      \* history: calm[n]: no two requests on n have overlapped
  undone,       \* history: undone[n]: what failed requests on n have left undone, and no later one has done
  beaten     \* history: the fewest issues others created while a creation that gave up ran

history == <<asked, calm, undone, beaten>>
vars == <<issue, label, born, call, announced, requests, history>>

NoIssue == [there |-> FALSE, status |-> "OPEN", closedBy |-> NoMerge, labels |-> {}]
Free == [op |-> "none", step |-> "idle", n |-> 0, seen |-> NoIssue,
         status |-> "same", labels |-> {}, relabel |-> FALSE, merge |-> NoMerge, tries |-> 0, base |-> 0]

Init ==
  /\ issue = [n \in Numbers |-> NoIssue]
  /\ label \in SUBSET Labels
  /\ born = label
  /\ call = [c \in Clients |-> Free]
  /\ announced = [n \in Numbers |-> "none"]
  /\ requests = 0
  /\ asked = [n \in Numbers |-> NoIssue]
  /\ calm = [n \in Numbers |-> TRUE]
  /\ undone = [n \in Numbers |-> {}]
  /\ beaten = MaxAttempts

At(c, s) == call[c].step = s
GoTo(c, s) == call' = [call EXCEPT ![c].step = s]
Finish(c) == call' = [call EXCEPT ![c] = Free]
Busy(n) == \E c \in Clients : call[c].step # "idle" /\ call[c].n = n
Existing == {n \in Numbers : issue[n].there}

\* A request starts; on issue n, if n # 0, which is no longer calm when another is there.
Begin(c, r) ==
  /\ At(c, "idle")
  /\ requests < MaxRequests
  /\ requests' = requests + 1
  /\ call' = [call EXCEPT ![c] = r]
  /\ calm' = [n \in Numbers |-> calm[n] /\ ~(n = r.n /\ Busy(n))]
  /\ UNCHANGED <<issue, label, born, announced, undone, beaten>>

-----------------------------------------------------------------------------
(***************************************************************************)
(* IssuesService.create.                                                   *)
(***************************************************************************)

\* validateLabels: each label is one of the repository.
ValidLabels(ls) == ls \subseteq label

Create(c, ls) ==
  /\ ValidLabels(ls)
  /\ Begin(c, [Free EXCEPT !.op = "create", !.step = "max", !.labels = ls, !.tries = 1,
                           !.base = Cardinality(Existing)])
  /\ UNCHANGED asked

\* A plausible slip: a number that a request has taken is not given to another.
NextReserved == Max(Existing \cup {0} \cup {call[c].n : c \in Clients}) + 1

\* createWithNextNumber: the aggregate.
NextNumber == Max(Existing \cup {0}) + 1

ReadMax(c) ==
  /\ At(c, "max")
  /\ NextNumber \in Numbers
  /\ call' = [call EXCEPT ![c].step = "insert", ![c].seen = issue[NextNumber], ![c].n = NextNumber]
  /\ UNCHANGED <<issue, label, born, announced, requests, history>>

\* A plausible slip: the loop stops one attempt early.
GivesUpEarly(c) == call[c].tries + 1 >= MaxAttempts

GivesUp(c) == call[c].tries >= MaxAttempts

\* createWithNextNumber: the insert.  The number is taken by now: once more, at most
\* MaxAttempts times; a label is gone by now: the foreign key refuses the row.
Insert(c) ==
  LET n == call[c].n IN
  /\ At(c, "insert")
  /\ \/ /\ issue[n].there
        /\ ~GivesUp(c)
        /\ call' = [call EXCEPT ![c].step = "max", ![c].n = 0, ![c].tries = @ + 1]
        /\ UNCHANGED <<issue, asked, beaten>>
     \/ /\ issue[n].there
        /\ GivesUp(c)
        /\ Finish(c)
        /\ beaten' = Min({beaten, Cardinality(Existing) - call[c].base})
        /\ UNCHANGED <<issue, asked>>
     \/ /\ ~issue[n].there
        /\ call[c].labels \subseteq label
        /\ issue' = [issue EXCEPT ![n] = [NoIssue EXCEPT !.there = TRUE, !.labels = call[c].labels]]
        /\ asked' = [asked EXCEPT ![n] = issue'[n]]
        /\ GoTo(c, "announce")
        /\ UNCHANGED beaten
     \/ /\ ~issue[n].there
        /\ ~(call[c].labels \subseteq label)
        /\ Finish(c)
        /\ UNCHANGED <<issue, asked, beaten>>
  /\ UNCHANGED <<label, born, announced, requests, calm, undone>>

-----------------------------------------------------------------------------
(***************************************************************************)
(* IssuesService.update.                                                   *)
(***************************************************************************)

\* loadIssue, validateLabels.  Title, body and assignee change with the row below.
Update(c, n, status, relabel, ls) ==
  /\ issue[n].there
  /\ relabel => ValidLabels(ls)
  /\ Begin(c, [Free EXCEPT !.op = "update", !.step = "row", !.n = n, !.seen = issue[n],
                           !.status = status, !.relabel = relabel, !.labels = ls])
  /\ UNCHANGED asked

\* The status and, when it is OPEN, no pull request any more.
WithStatus(row, s) ==
  CASE s = "same" -> row
    [] s = "OPEN" -> [row EXCEPT !.status = s, !.closedBy = NoMerge]
    [] s = "CLOSED" -> [row EXCEPT !.status = s]

UpdateRow(c) ==
  LET n == call[c].n
      new == WithStatus(asked[n], call[c].status)
  IN
  /\ At(c, "row")
  /\ issue' = [issue EXCEPT ![n] = WithStatus(issue[n], call[c].status)]
  /\ asked' = [asked EXCEPT ![n] = [new EXCEPT
                 !.closedBy = IF call[c].status = "OPEN" THEN NoMerge ELSE @,
                 !.labels = IF call[c].relabel THEN call[c].labels ELSE @]]
  /\ GoTo(c, IF call[c].relabel THEN "unlabel" ELSE "announce")
  /\ UNCHANGED <<label, born, announced, requests, calm, undone, beaten>>

\* An update has something to announce when its status differs from the one it has read.
Newsworthy(c) == call[c].op = "update" => call[c].status \notin {"same", call[c].seen.status}

\* What a request that ends at its step has begun and not done: the labels it was to
\* store, the event it was to send.
Owes(c) ==
  {part \in {"labels", "news"} :
     IF part = "labels" THEN call[c].step \in {"unlabel", "label"}
                        ELSE call[c].step \in {"unlabel", "label", "announce"} /\ Newsworthy(c)}

Breaks(c) ==
  /\ Finish(c)
  /\ undone' = [n \in Numbers |-> IF n = call[c].n THEN undone[n] \cup Owes(c) ELSE undone[n]]

\* Any query of a request, or the queue it announces to, may fail, and the process stop.
Fail(c) ==
  /\ ~At(c, "idle")
  /\ Breaks(c)
  /\ UNCHANGED <<issue, label, born, announced, requests, asked, calm, beaten>>

\* A plausible slip: the old labels stay.
KeepLabels(c) ==
  /\ At(c, "unlabel")
  /\ GoTo(c, "label")
  /\ UNCHANGED <<issue, label, born, announced, requests, history>>

\* syncIssueLabels: deleteMany, and createMany unless the list is empty.
DeleteLabels(c) ==
  /\ At(c, "unlabel")
  /\ issue' = [issue EXCEPT ![call[c].n].labels = {}]
  /\ \/ call[c].labels # {} /\ GoTo(c, "label") /\ UNCHANGED undone
     \/ call[c].labels = {} /\ GoTo(c, "announce") /\ undone' = [undone EXCEPT ![call[c].n] = @ \ {"labels"}]
  /\ UNCHANGED <<label, born, announced, requests, asked, calm, beaten>>

\* createMany: one of the rows exists (another request has put it there) or a label is
\* gone: the whole statement fails, and with it the request.
AddLabels(c) ==
  LET n == call[c].n
      clash == issue[n].labels \cap call[c].labels # {} \/ ~(call[c].labels \subseteq label)
  IN
  /\ At(c, "label")
  /\ \/ ~clash /\ issue' = [issue EXCEPT ![n].labels = @ \cup call[c].labels] /\ GoTo(c, "announce")
        /\ undone' = [undone EXCEPT ![n] = @ \ {"labels"}]
     \/ clash /\ Breaks(c) /\ UNCHANGED issue
  /\ UNCHANGED <<label, born, announced, requests, asked, calm, beaten>>

\* create, recordUpdateSideEffects and closeByPullRequest: the webhook event.
Announce(c) ==
  LET n == call[c].n
      news == CASE call[c].op = "create" -> "OPEN"
                [] call[c].op = "close" -> "CLOSED"
                [] call[c].op = "update" -> call[c].status
  IN
  /\ At(c, "announce")
  /\ \/ /\ Newsworthy(c)
        /\ announced' = [announced EXCEPT ![n] = news]
        /\ undone' = [undone EXCEPT ![n] = @ \ {"news"}]
     \/ ~Newsworthy(c) /\ UNCHANGED <<announced, undone>>
  /\ Finish(c)
  /\ UNCHANGED <<issue, label, born, requests, asked, calm, beaten>>

-----------------------------------------------------------------------------
(***************************************************************************)
(* Closing by a merge, and the labels of the repository.                   *)
(***************************************************************************)

\* closeIssuesFromPullRequestMerge and closeByPullRequest: an open issue that a text of
\* the merged pull request m closes.
Close(c, n, m) ==
  /\ issue[n].there /\ issue[n].status = "OPEN"
  /\ Begin(c, [Free EXCEPT !.op = "close", !.step = "close", !.n = n, !.seen = issue[n], !.merge = m])
  /\ UNCHANGED asked

CloseRow(c) ==
  LET n == call[c].n IN
  /\ At(c, "close")
  /\ issue' = [issue EXCEPT ![n].status = "CLOSED", ![n].closedBy = call[c].merge]
  /\ asked' = [asked EXCEPT ![n].status = "CLOSED", ![n].closedBy = call[c].merge]
  /\ GoTo(c, "announce")
  /\ UNCHANGED <<label, born, announced, requests, calm, undone, beaten>>

\* LabelsService.create and remove; the rows of IssueLabel go with the label.
CreateLabel(l) ==
  /\ l \notin born
  /\ label' = label \cup {l}
  /\ born' = born \cup {l}
  /\ UNCHANGED <<issue, call, announced, requests, history>>

RemoveLabel(l) ==
  /\ l \in label
  /\ requests < MaxRequests
  /\ requests' = requests + 1
  /\ label' = label \ {l}
  /\ issue' = [n \in Numbers |-> [issue[n] EXCEPT !.labels = @ \ {l}]]
  /\ asked' = [n \in Numbers |-> [asked[n] EXCEPT !.labels = @ \ {l}]]
  /\ UNCHANGED <<born, call, announced, calm, undone, beaten>>

Next ==
  \/ \E c \in Clients :
       \/ \E ls \in SUBSET Labels : Create(c, ls)
       \/ ReadMax(c) \/ Insert(c)
       \/ \E n \in Numbers, s \in {"same", "OPEN", "CLOSED"} :
            \/ Update(c, n, s, FALSE, {})
            \/ \E ls \in SUBSET Labels : Update(c, n, s, TRUE, ls)
       \/ UpdateRow(c) \/ DeleteLabels(c) \/ AddLabels(c) \/ Announce(c)
       \/ \E n \in Numbers, m \in Merges : Close(c, n, m)
       \/ CloseRow(c) \/ Fail(c)
  \/ \E l \in Labels : CreateLabel(l) \/ RemoveLabel(l)

Spec == Init /\ [][Next]_vars

-----------------------------------------------------------------------------

\* Issues are numbered 1, 2, 3, ... without a gap, however their creations interleave
\* and whichever of them fail; and a creation gives up only when at least MaxAttempts
\* other issues were created while it ran: each number it found taken was taken since it
\* began.
NumbersDense ==
  /\ \A n \in Existing : \A m \in 1..n : m \in Existing
  /\ beaten >= MaxAttempts

\* An issue on which no two requests overlapped, and with nothing in flight on it, is as
\* it was asked to be, whichever requests failed or died between two of their queries: its
\* status and the pull request that closed it are always those of the last request that
\* stored one.  Its labels are those last asked for, unless the request died in the middle
\* of replacing them, which leaves the old ones or none (syncIssueLabels is two queries),
\* and none has stored labels since.  Subscribers have been told the status, unless the
\* request that changed it died before it told them, and none has changed it since:
\* asking once more for the status the row already has tells nobody.
AsAskedUnlessRaced ==
  \A n \in Existing :
    calm[n] /\ ~Busy(n) =>
      /\ issue[n].status = asked[n].status /\ issue[n].closedBy = asked[n].closedBy
      /\ "labels" \notin undone[n] => issue[n].labels = asked[n].labels
      /\ "news" \notin undone[n] => announced[n] = issue[n].status

=============================================================================
