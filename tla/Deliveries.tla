------------------------------ MODULE Deliveries ------------------------------
(***************************************************************************)
(* What leaves the API after a change: webhook deliveries and e-mails      *)
(* through one queue with several workers (WebhooksService, EmailService,  *)
(* WebhookQueueService), and the notifications of a comment                *)
(* (NotificationsService.notifyMentions).                                  *)
(*                                                                         *)
(* A comment is written first; who hears of it is then worked out step by  *)
(* step, and a crash or an error on the way leaves the later steps out.    *)
(***************************************************************************)
EXTENDS Naturals, FiniteSets, Sequences

CONSTANTS
  Hooks,      \* webhooks of the repository
  Users,      \* users a comment can mention
  Attempts,   \* Attempts[k]: attempts of a job of kind k
  Workers,    \* concurrency of the queue
  Smtp,       \* SMTP_ENABLED
  MaxEvents,  \* bound: comments
  MaxFaults   \* bound: crashes

Kinds == {"deliver", "send-email"}

VARIABLES
  active,  \* the webhooks there are whose isActive is set
  removed, \* the webhooks that have been removed
  request, \* the comment on its way: its step and those it still has to reach
  events,  \* comments so far
  inbox,   \* the Notification rows: [user, event]
  queue,   \* the jobs: kind, addressee, event, attempts made, and state
  arrived, \* what has reached an addressee: [to, event]
  faults,
  owed,    \* history: what answered requests are to have sent: [to, event]
  spent    \* history: jobs whose last attempt failed: [to, event]

hooks == <<active, removed>>
vars == <<hooks, request, events, inbox, queue, arrived, faults, owed, spent>>

Free == [step |-> "idle", hooks |-> {}, left |-> {}, told |-> {}]

Init ==
  /\ active \in SUBSET Hooks /\ removed = {}
  /\ request = Free
  /\ events = 0
  /\ inbox = {}
  /\ queue = {}
  /\ arrived = {}
  /\ faults = 0
  /\ owed = {}
  /\ spent = {}

Job(kind, to) == [kind |-> kind, to |-> to, event |-> events, tries |-> 0, stalled |-> FALSE, state |-> "waiting"]
Letter(job) == [to |-> job.to, event |-> job.event]

-----------------------------------------------------------------------------
(***************************************************************************)
(* A comment and those who hear of it.                                     *)
(***************************************************************************)

\* addComment: the row; then enqueueDeliveries looks for the webhooks.
Comment(mentioned) ==
  /\ request.step = "idle"
  /\ events < MaxEvents
  /\ events' = events + 1
  /\ request' = [step |-> "webhooks", hooks |-> active, left |-> active, told |-> mentioned]
  /\ UNCHANGED <<hooks, inbox, queue, arrived, faults, owed, spent>>

\* enqueueDeliveries: each job has the url and the secret that were read, and is sent
\* even if the webhook is switched off or removed before its turn.
EnqueueDelivery(h) ==
  /\ request.step = "webhooks" /\ h \in request.left
  /\ queue' = queue \cup {Job("deliver", h)}
  /\ request' = [request EXCEPT !.left = @ \ {h}]
  /\ UNCHANGED <<hooks, events, inbox, arrived, faults, owed, spent>>

\* notifyMentions: one statement for all notifications.
NotifyMentions ==
  /\ request.step = "webhooks" /\ request.left = {}
  /\ inbox' = inbox \cup {[user |-> u, event |-> events] : u \in request.told}
  /\ request' = [request EXCEPT !.step = "mails", !.left = IF Smtp THEN request.told ELSE {}]
  /\ UNCHANGED <<hooks, events, queue, arrived, faults, owed, spent>>

\* EmailService.enqueueEmail.
EnqueueEmail(u) ==
  /\ request.step = "mails" /\ u \in request.left
  /\ queue' = queue \cup {Job("send-email", u)}
  /\ request' = [request EXCEPT !.left = @ \ {u}]
  /\ UNCHANGED <<hooks, events, inbox, arrived, faults, owed, spent>>

Answer ==
  /\ request.step = "mails" /\ request.left = {}
  /\ request' = Free
  /\ owed' = owed \cup {[to |-> a, event |-> events] :
                          a \in request.hooks \cup (IF Smtp THEN request.told ELSE {})}
  /\ UNCHANGED <<hooks, events, inbox, queue, arrived, faults, spent>>

\* WebhooksService.update and remove.
UpdateWebhook(h) ==
  /\ h \notin removed
  /\ active' = IF h \in active THEN active \ {h} ELSE active \cup {h}
  /\ UNCHANGED <<removed, request, events, inbox, queue, arrived, faults, owed, spent>>

RemoveWebhook(h) ==
  /\ h \notin removed
  /\ removed' = removed \cup {h}
  /\ active' = active \ {h}
  /\ UNCHANGED <<request, events, inbox, queue, arrived, faults, owed, spent>>

-----------------------------------------------------------------------------
(***************************************************************************)
(* The workers.                                                            *)
(***************************************************************************)

Become(job, state) == queue' = (queue \ {job}) \cup {[job EXCEPT !.state = state]}

\* Any waiting job: those that wait for their backoff are overtaken.
Take(job) ==
  /\ job \in queue /\ job.state = "waiting"
  /\ Cardinality({j \in queue : j.state = "running"}) < Workers
  /\ Become(job, "running")
  /\ UNCHANGED <<hooks, request, events, inbox, arrived, faults, owed, spent>>

\* deliverWebhook answered with 2xx, or the mail server took the mail.
Delivered(job) ==
  /\ job \in queue /\ job.state = "running"
  /\ arrived' = arrived \cup {Letter(job)}
  /\ queue' = queue \ {job}
  /\ UNCHANGED <<hooks, request, events, inbox, faults, owed, spent>>

\* A plausible slip: no attempts are given, and BullMQ makes one.
FailOnce(job) ==
  /\ queue' = queue \ {job}
  /\ UNCHANGED spent

\* An attempt failed: another one, unless it was the last.
Fail(job) ==
  IF job.tries + 1 < Attempts[job.kind]
  THEN /\ queue' = (queue \ {job}) \cup {[job EXCEPT !.tries = @ + 1, !.state = "waiting"]}
       /\ UNCHANGED spent
  ELSE /\ queue' = queue \ {job}
       /\ spent' = spent \cup {Letter(job)}

\* The receiver is out of reach, or answers another status; or it got the event and
\* the answer is lost.
Failed(job) ==
  /\ job \in queue /\ job.state = "running"
  /\ Fail(job)
  /\ arrived' \in {arrived, arrived \cup {Letter(job)}}
  /\ UNCHANGED <<hooks, request, events, inbox, faults, owed>>

\* The process stops: the comment in flight ends where it is; what was running is
\* put back, but once only.
Crash ==
  /\ faults < MaxFaults /\ faults' = faults + 1
  /\ request' = Free
  /\ queue' = {IF j.state = "running" THEN [j EXCEPT !.state = "waiting", !.stalled = TRUE] ELSE j :
                 j \in {k \in queue : ~(k.state = "running" /\ k.stalled)}}
  /\ UNCHANGED <<hooks, events, inbox, arrived, owed, spent>>

Next ==
  \/ \E mentioned \in SUBSET Users : Comment(mentioned)
  \/ \E h \in Hooks : \/ EnqueueDelivery(h) \/ RemoveWebhook(h) \/ UpdateWebhook(h)
  \/ \E u \in Users : EnqueueEmail(u)
  \/ NotifyMentions \/ Answer
  \/ \E job \in queue : Take(job) \/ Delivered(job) \/ Failed(job)
  \/ Crash

Spec == Init /\ [][Next]_vars

-----------------------------------------------------------------------------

\* Whatever an answered request was to send (a delivery for each webhook that was active
\* then, a mail for each user mentioned) is on its way, has arrived or was tried as often
\* as promised, crashes and changes of the webhooks notwithstanding; a job is lost only
\* when the process stops twice while it runs.
NothingDropped ==
  faults < 2 => \A letter \in owed : letter \in arrived \cup spent \/ \E job \in queue : Letter(job) = letter

=============================================================================
