-------------------------- MODULE CiPipelinesProofs --------------------------
(***************************************************************************)
(* What holds of the CI rows for any number of pipelines and jobs, any     *)
(* order of the handlers' steps, and any number of cancels, crashes and    *)
(* redeliveries.                                                           *)
(*                                                                         *)
(* The invariant attaches to every handler in flight what it has learned   *)
(* at its last await and still relies on: the write of updateJobStatus     *)
(* never changes a finished job, because a finished job does not change    *)
(* between the read that allowed the write and the write; and the sum it   *)
(* has computed, though it may be old when it is stored, is still what the *)
(* jobs say if it is a SUCCESS or a FAILURE.                               *)
(***************************************************************************)
EXTENDS CiPipelines, SequenceTheorems, TLAPS

Finished == {"SUCCESS", "FAILURE"}

\* A status that is a verdict agrees with the jobs of the pipeline.
Earned(p, s) ==
  /\ s = "SUCCESS" => AllSucceeded(p)
  /\ s = "FAILURE" => SomeFailed(p)

\* What the handler h of kind k, in flight for p, relies on.
HandlerOK(p, k, h) ==
  /\ h.step # "idle" => status[p] # "NONE"
  /\ (k = "update" /\ h.step \notin {"idle", "rejected"}) => h.job \in Jobs /\ h.to \in JobStatus
  /\ (k = "update" /\ h.step = "write" /\ jobs[p][h.job] \in Finished) => jobs[p][h.job] = h.to
  /\ h.step \in {"settle", "find", "put", "emit"} => h.snap \in PipelineStatus /\ Earned(p, h.snap)
  /\ (k = "update" /\ h.step \in {"find", "put", "emit"}) => h.snap \in Terminal

HandlersOK == \A p \in Pipelines, k \in Kinds : HandlerOK(p, k, req[p][k])

\* The runner works on a pipeline that exists, at one of its jobs.
RunOK ==
  \/ run = NoRun
  \/ /\ run.phase # "idle"
     /\ run.pipe \in Pipelines
     /\ status[run.pipe] # "NONE"
     /\ run.phase \in {"await", "log", "exec", "collect"} => run.pos \in Jobs

\* A pipeline that does not exist yet is nowhere in the queue and has no old jobs.
NotYet ==
  /\ \A p \in Pipelines :
       status[p] = "NONE" => bull[p] = "none" /\ \A j \in Jobs : jobs[p][j] = "QUEUED"
  /\ \A i \in DOMAIN queue : status[queue[i]] # "NONE"

EventsEarned == \A p \in Pipelines : \A i \in DOMAIN events[p] : Earned(p, events[p][i])

IInv ==
  /\ TypeOK
  /\ HandlersOK
  /\ RunOK
  /\ NotYet
  /\ VerdictEarned
  /\ EventsEarned
  /\ GreenCheckEarned

-----------------------------------------------------------------------------
(***************************************************************************)
(* Facts that do not depend on the actions.                                *)
(***************************************************************************)

\* The jobs of p keep what they have finished with.
Kept(p) == \A j \in Jobs : jobs[p][j] \in Finished => jobs'[p][j] = jobs[p][j]

\* No job of p finishes in this step.
Calm(p) == \A j \in Jobs : jobs'[p][j] \in Finished => jobs'[p][j] = jobs[p][j]

\* A verdict that was earned stays earned.
LEMMA EarnedStays ==
  ASSUME NEW p \in Pipelines, NEW s, Kept(p), Earned(p, s)
  PROVE  Earned(p, s)'
  BY DEF Kept, Earned, AllSucceeded, SomeFailed, Finished

\* The sum of the jobs' statuses is a status, and if it is a verdict it is earned.
LEMMA SumEarned ==
  ASSUME TypeOK, NEW p \in Pipelines, status[p] # "NONE", VerdictEarned
  PROVE  LET s == AggregatePipelineStatus(jobs[p], status[p])
         IN  s \in PipelineStatus /\ Earned(p, s)
<1>1. DOMAIN jobs[p] = Jobs
  BY DEF TypeOK
<1> QED BY <1>1 DEF AggregatePipelineStatus, PipelineStatus, Earned, AllSucceeded, SomeFailed

\* A handler goes on to step s.
LEMMA GoToHandler ==
  ASSUME TypeOK, NEW p \in Pipelines, NEW k \in Kinds, NEW s \in Steps, GoTo(p, k, s)
  PROVE  /\ req' \in [Pipelines -> [Kinds -> Handler]]
         /\ req'[p][k].step = s
         /\ req'[p][k].job = req[p][k].job
         /\ req'[p][k].to = req[p][k].to
         /\ req'[p][k].snap = req[p][k].snap
         /\ req'[p][k].row = req[p][k].row
         /\ \A q \in Pipelines, l \in Kinds : q # p \/ l # k => req'[q][l] = req[q][l]
<1> DEFINE h == [req[p][k] EXCEPT !.step = s]
<1>1. req[p][k] \in Handler
  BY DEF TypeOK
<1>2. h \in Handler /\ h.step = s /\ h.job = req[p][k].job /\ h.to = req[p][k].to
      /\ h.snap = req[p][k].snap /\ h.row = req[p][k].row
  BY <1>1 DEF Handler
<1>3. req' = [req EXCEPT ![p][k] = h]
  BY DEF GoTo
<1> HIDE DEF h
<1>4. /\ req' \in [Pipelines -> [Kinds -> Handler]]
      /\ req'[p][k] = h
      /\ \A q \in Pipelines, l \in Kinds : q # p \/ l # k => req'[q][l] = req[q][l]
  BY <1>2, <1>3 DEF TypeOK
<1> QED BY <1>2, <1>4

LEMMA IdleHandler == Idle \in Handler /\ Idle.step = "idle"
  BY PipelinesAssumption DEF Idle, Handler, Steps

\* A handler that does not move relies on nothing that a step takes away, unless
\* the step finishes the very job it is about to write.
LEMMA HandlerStays ==
  ASSUME NEW p \in Pipelines, NEW k \in Kinds, HandlerOK(p, k, req[p][k]),
         req'[p][k] = req[p][k], req[p][k] \in Handler,
         status'[p] = "NONE" => status[p] = "NONE", Kept(p), k = "update" => Calm(p)
  PROVE  HandlerOK(p, k, req[p][k])'
<1>1. Earned(p, req[p][k].snap) => Earned(p, req[p][k].snap)'
  BY EarnedStays
<1> QED BY <1>1 DEF HandlerOK, Calm, Finished, Earned, AllSucceeded, SomeFailed

\* One handler moves.
LEMMA OneHandlerMoves ==
  ASSUME IInv, NEW p \in Pipelines, NEW k \in Kinds, HandlerOK(p, k, req[p][k])',
         \A q \in Pipelines, l \in Kinds : q # p \/ l # k => req'[q][l] = req[q][l],
         \A q \in Pipelines : status'[q] = "NONE" => status[q] = "NONE",
         \A q \in Pipelines : Kept(q),
         \A q \in Pipelines : Calm(q) \/ (q = p /\ k = "update")
  PROVE  HandlersOK'
<1> SUFFICES ASSUME NEW q \in Pipelines, NEW l \in Kinds
             PROVE  HandlerOK(q, l, req[q][l])'
  BY DEF HandlersOK
<1>1. CASE q = p /\ l = k
  BY <1>1
<1>2. CASE q # p \/ l # k
  <2>1. HandlerOK(q, l, req[q][l]) /\ req[q][l] \in Handler
    BY DEF IInv, HandlersOK, TypeOK
  <2>2. l = "update" => Calm(q)
    BY <1>2
  <2> QED BY <1>2, <2>1, <2>2, HandlerStays
<1> QED BY <1>1, <1>2

\* No handler moves.
LEMMA NoHandlerMoves ==
  ASSUME IInv, req' = req, status' = status, jobs' = jobs
  PROVE  HandlersOK'
  BY DEF IInv, HandlersOK, HandlerOK, Earned, AllSucceeded, SomeFailed

LEMMA JobsStay ==
  ASSUME jobs' = jobs
  PROVE  \A q \in Pipelines : Kept(q) /\ Calm(q)
  BY DEF Kept, Calm

LEMMA GreenStays ==
  ASSUME IInv, \A q \in Pipelines : Kept(q), checks' = checks
  PROVE  GreenCheckEarned'
  BY DEF IInv, GreenCheckEarned, Kept, AllSucceeded, Finished

LEMMA EventsStay ==
  ASSUME IInv, \A q \in Pipelines : Kept(q), events' = events
  PROVE  EventsEarned'
  BY EarnedStays DEF IInv, EventsEarned

LEMMA VerdictsStay ==
  ASSUME IInv, \A q \in Pipelines : Kept(q),
         \A q \in Pipelines : status'[q] = status[q] \/ Earned(q, status[q])'
  PROVE  VerdictEarned'
  BY DEF IInv, VerdictEarned, Earned, Kept, Finished, AllSucceeded, SomeFailed

LEMMA PlacesStay ==
  ASSUME IInv, run' = run, bull' = bull, queue' = queue,
         \A q \in Pipelines : status'[q] = "NONE" => status[q] = "NONE" /\ jobs'[q] = jobs[q]
  PROVE  RunOK' /\ NotYet'
  BY DEF IInv, RunOK, NotYet, TypeOK

-----------------------------------------------------------------------------
(***************************************************************************)
(* The handlers.                                                           *)
(***************************************************************************)

LEMMA CreateStep ==
  ASSUME IInv, NEW p \in Pipelines, Create(p)
  PROVE  IInv'
<1> DEFINE h == [Idle EXCEPT !.step = "find", !.snap = "QUEUED"]
<1>1. status[p] = "NONE" /\ \A j \in Jobs : jobs[p][j] = "QUEUED"
  BY DEF Create, IInv, NotYet
<1>2. jobs' = jobs
  <2>1. jobs[p] = [j \in Jobs |-> "QUEUED"]
    BY <1>1 DEF IInv, TypeOK
  <2> QED BY <2>1 DEF Create, IInv, TypeOK
<1>3. /\ h \in Handler /\ h.step = "find" /\ h.snap = "QUEUED"
      /\ "create" \in Kinds /\ "QUEUED" \in PipelineStatus
  BY IdleHandler DEF Steps, PipelineStatus, Kinds, Handler
<1>4. req' = [req EXCEPT ![p]["create"] = h]
  BY DEF Create
<1> HIDE DEF h
<1>5. /\ req' \in [Pipelines -> [Kinds -> Handler]]
      /\ req'[p]["create"] = h
      /\ \A q \in Pipelines, l \in Kinds : q # p \/ l # "create" => req'[q][l] = req[q][l]
  BY <1>3, <1>4 DEF IInv, TypeOK
<1>6. status'[p] = "QUEUED" /\ \A q \in Pipelines \ {p} : status'[q] = status[q]
  BY DEF Create, IInv, TypeOK
<1>7. TypeOK'
  BY <1>2, <1>3, <1>5 DEF Create, IInv, TypeOK, rows, bus, budget
<1>8. HandlerOK(p, "create", req[p]["create"])'
  BY <1>3, <1>5, <1>6 DEF HandlerOK, Earned
<1>9. HandlersOK'
  BY <1>2, <1>3, <1>5, <1>6, <1>8, JobsStay, OneHandlerMoves
<1>10. VerdictEarned' /\ EventsEarned' /\ GreenCheckEarned'
  <2>1. Earned(p, status[p])'
    BY <1>6 DEF Earned
  <2> QED BY <1>2, <1>6, <2>1, JobsStay, VerdictsStay, EventsStay, GreenStays DEF Create
<1>11. RunOK' /\ NotYet'
  BY <1>2, <1>6, PlacesStay DEF Create, bus
<1> QED BY <1>7, <1>9, <1>10, <1>11 DEF IInv

\* One handler moves, and no row changes.
LEMMA MoveStep ==
  ASSUME IInv, NEW p \in Pipelines, NEW k \in Kinds, HandlerOK(p, k, req[p][k])',
         req' \in [Pipelines -> [Kinds -> Handler]],
         \A q \in Pipelines, l \in Kinds : q # p \/ l # k => req'[q][l] = req[q][l],
         UNCHANGED <<rows, checks, events, bus, run, cancelAt>>,
         faults' \in Nat, cancels' \in Nat
  PROVE  IInv'
<1>1. status' = status /\ jobs' = jobs /\ checks' = checks /\ events' = events
      /\ run' = run /\ bull' = bull /\ queue' = queue
  BY DEF rows, bus
<1>2. TypeOK'
  BY DEF IInv, TypeOK, rows, bus
<1>3. HandlersOK'
  BY <1>1, JobsStay, OneHandlerMoves
<1>4. VerdictEarned' /\ EventsEarned' /\ GreenCheckEarned'
  BY <1>1, JobsStay, VerdictsStay, EventsStay, GreenStays
<1>5. RunOK' /\ NotYet'
  BY <1>1, PlacesStay
<1> QED BY <1>2, <1>3, <1>4, <1>5 DEF IInv

LEMMA EnqueueStep ==
  ASSUME IInv, NEW p \in Pipelines, Enqueue(p)
  PROVE  IInv'
<1>1. status' = status /\ jobs' = jobs /\ checks' = checks /\ events' = events /\ run' = run
  BY DEF Enqueue, rows
<1>2. status[p] # "NONE" /\ "create" \in Kinds
  BY DEF Enqueue, At, IInv, HandlersOK, HandlerOK, Kinds
<1>3. /\ req' \in [Pipelines -> [Kinds -> Handler]]
      /\ req'[p]["create"] = Idle
      /\ \A q \in Pipelines, l \in Kinds : q # p \/ l # "create" => req'[q][l] = req[q][l]
  BY <1>2, IdleHandler DEF Enqueue, IInv, TypeOK
<1>4. queue' = Append(queue, p) /\ queue' \in Seq(Pipelines)
  BY DEF Enqueue, IInv, TypeOK
<1>5. bull' = [bull EXCEPT ![p] = "waiting"]
  BY DEF Enqueue
<1>6. TypeOK'
  BY <1>1, <1>3, <1>4, <1>5 DEF Enqueue, IInv, TypeOK, rows, budget
<1>7. HandlersOK'
  <2>1. HandlerOK(p, "create", req[p]["create"])'
    BY <1>3, IdleHandler DEF HandlerOK
  <2> QED BY <1>1, <1>2, <1>3, <2>1, JobsStay, OneHandlerMoves
<1>8. VerdictEarned' /\ EventsEarned' /\ GreenCheckEarned'
  BY <1>1, JobsStay, VerdictsStay, EventsStay, GreenStays
<1>9. RunOK'
  BY <1>1 DEF IInv, RunOK
<1>10. NotYet'
  <2>1. \A i \in DOMAIN queue' : queue'[i] = p \/ (i \in DOMAIN queue /\ queue'[i] = queue[i])
    BY <1>4 DEF IInv, TypeOK
  <2>2. \A i \in DOMAIN queue' : status'[queue'[i]] # "NONE"
    BY <1>1, <1>2, <2>1 DEF IInv, NotYet
  <2>3. ASSUME NEW q \in Pipelines, status'[q] = "NONE"
        PROVE  bull'[q] = "none" /\ \A j \in Jobs : jobs'[q][j] = "QUEUED"
    BY <1>1, <1>2, <1>5, <2>3 DEF IInv, NotYet, TypeOK
  <2> QED BY <2>2, <2>3 DEF NotYet
<1> QED BY <1>6, <1>7, <1>8, <1>9, <1>10 DEF IInv

LEMMA FindCheckStep ==
  ASSUME IInv, NEW p \in Pipelines, NEW k \in Kinds, FindCheck(p, k)
  PROVE  IInv'
<1>1. PICK r \in Nat : req' = [req EXCEPT ![p][k] = [@ EXCEPT !.step = "put", !.row = r]]
  <2>1. (IF checks = <<>> THEN {0} ELSE DOMAIN checks) \subseteq Nat
    BY DEF IInv, TypeOK
  <2> QED BY <2>1 DEF FindCheck
<1> DEFINE h == [req[p][k] EXCEPT !.step = "put", !.row = r]
<1>2. req[p][k] \in Handler
  BY DEF IInv, TypeOK
<1>3. h \in Handler /\ h.step = "put" /\ h.snap = req[p][k].snap
      /\ h.job = req[p][k].job /\ h.to = req[p][k].to
  BY <1>2 DEF Handler, Steps
<1>4. req' = [req EXCEPT ![p][k] = h]
  BY <1>1
<1> HIDE DEF h
<1>5. /\ req' \in [Pipelines -> [Kinds -> Handler]]
      /\ req'[p][k] = h
      /\ \A q \in Pipelines, l \in Kinds : q # p \/ l # k => req'[q][l] = req[q][l]
  BY <1>3, <1>4 DEF IInv, TypeOK
<1>6. HandlerOK(p, k, req[p][k])'
  BY <1>3, <1>5 DEF FindCheck, At, rows, IInv, HandlersOK, HandlerOK, Earned, AllSucceeded, SomeFailed
<1>7. UNCHANGED <<rows, checks, events, bus, run, cancelAt>> /\ faults' \in Nat /\ cancels' \in Nat
  BY DEF FindCheck, budget, IInv, TypeOK
<1> QED BY <1>5, <1>6, <1>7, MoveStep

LEMMA CancelReadStep ==
  ASSUME IInv, NEW p \in Pipelines, CancelRead(p)
  PROVE  IInv'
<1>1. "cancel" \in Kinds /\ "cancelWrite" \in Steps
  BY DEF Kinds, Steps
<1>2. GoTo(p, "cancel", "cancelWrite") /\ TypeOK
  BY DEF CancelRead, IInv
<1>3. HandlerOK(p, "cancel", req[p]["cancel"])'
  BY <1>1, <1>2, GoToHandler DEF CancelRead, rows, HandlerOK
<1>4. UNCHANGED <<rows, checks, events, bus, run, cancelAt>> /\ faults' \in Nat /\ cancels' \in Nat
  BY DEF CancelRead, budget, IInv, TypeOK
<1> QED BY <1>1, <1>2, <1>3, <1>4, GoToHandler, MoveStep

LEMMA UpdateReadStep ==
  ASSUME IInv, NEW p \in Pipelines, UpdateRead(p)
  PROVE  IInv'
<1> DEFINE h == req[p]["update"]
           s == IF CanTransitionJob(jobs[p][h.job], h.to) THEN "write" ELSE "rejected"
<1>1. "update" \in Kinds /\ s \in Steps
  BY DEF Kinds, Steps
<1>2. GoTo(p, "update", s) /\ TypeOK
  BY DEF UpdateRead, IInv
<1>3. HandlerOK(p, "update", h) /\ h.step = "read"
  BY <1>1 DEF IInv, HandlersOK, UpdateRead, At
<1>4. CanTransitionJob(jobs[p][h.job], h.to) /\ jobs[p][h.job] \in Finished => jobs[p][h.job] = h.to
  BY DEF CanTransitionJob, Finished
<1>5. HandlerOK(p, "update", req[p]["update"])'
  BY <1>1, <1>2, <1>3, <1>4, GoToHandler DEF UpdateRead, rows, HandlerOK
<1>6. UNCHANGED <<rows, checks, events, bus, run, cancelAt>> /\ faults' \in Nat /\ cancels' \in Nat
  BY DEF UpdateRead, budget, IInv, TypeOK
<1> QED BY <1>1, <1>2, <1>5, <1>6, GoToHandler, MoveStep

LEMMA UpdateRereadStep ==
  ASSUME IInv, NEW p \in Pipelines, UpdateReread(p)
  PROVE  IInv'
<1>1. /\ "update" \in Kinds /\ "ok" \in Steps /\ TypeOK
      /\ UNCHANGED <<rows, checks, events, bus, run, cancelAt>> /\ faults' \in Nat /\ cancels' \in Nat
  BY DEF Kinds, Steps, IInv, TypeOK, UpdateReread, budget
<1>2. HandlerOK(p, "update", req[p]["update"]) /\ req[p]["update"].step = "reread"
  BY <1>1 DEF IInv, HandlersOK, UpdateReread, At
<1>3. CASE GoTo(p, "update", "ok")
  <2>1. HandlerOK(p, "update", req[p]["update"])'
    BY <1>1, <1>2, <1>3, GoToHandler DEF rows, HandlerOK
  <2> QED BY <1>1, <1>3, <2>1, GoToHandler, MoveStep
<1>4. CASE ~GoTo(p, "update", "ok")
  <2> DEFINE s == AggregatePipelineStatus(jobs[p], status[p])
             h == [req[p]["update"] EXCEPT !.step = "settle", !.snap = s]
  <2>1. s \in PipelineStatus /\ Earned(p, s)
    BY <1>2, SumEarned DEF HandlerOK, IInv
  <2>2. req' = [req EXCEPT ![p]["update"] = h]
    BY <1>4 DEF UpdateReread
  <2> HIDE DEF s
  <2>3. req[p]["update"] \in Handler
    BY <1>1 DEF TypeOK
  <2>4. h \in Handler /\ h.step = "settle" /\ h.snap = s
        /\ h.job = req[p]["update"].job /\ h.to = req[p]["update"].to
    BY <2>1, <2>3 DEF Handler, Steps
  <2> HIDE DEF h
  <2>5. /\ req' \in [Pipelines -> [Kinds -> Handler]]
        /\ req'[p]["update"] = h
        /\ \A q \in Pipelines, l \in Kinds : q # p \/ l # "update" => req'[q][l] = req[q][l]
    BY <1>1, <2>2, <2>4 DEF TypeOK
  <2>6. HandlerOK(p, "update", req[p]["update"])'
    BY <1>1, <1>2, <2>1, <2>4, <2>5 DEF rows, HandlerOK, Earned, AllSucceeded, SomeFailed
  <2> QED BY <1>1, <2>5, <2>6, MoveStep
<1> QED BY <1>3, <1>4

LEMMA DropReplyStep ==
  ASSUME IInv, NEW p \in Pipelines, DropReply(p)
  PROVE  IInv'
<1>1. "update" \in Kinds
  BY DEF Kinds
<1>2. /\ req' \in [Pipelines -> [Kinds -> Handler]]
      /\ req'[p]["update"] = Idle
      /\ \A q \in Pipelines, l \in Kinds : q # p \/ l # "update" => req'[q][l] = req[q][l]
  BY <1>1, IdleHandler DEF DropReply, IInv, TypeOK
<1>3. HandlerOK(p, "update", req[p]["update"])'
  BY <1>2, IdleHandler DEF HandlerOK
<1>4. UNCHANGED <<rows, checks, events, bus, run, cancelAt>> /\ faults' \in Nat /\ cancels' \in Nat
  BY DEF DropReply, budget, IInv, TypeOK
<1> QED BY <1>1, <1>2, <1>3, <1>4, MoveStep

\* The row that is written is green only for a pipeline that earned it.
LEMMA PutCheckStep ==
  ASSUME IInv, NEW p \in Pipelines, NEW k \in Kinds, PutCheck(p, k)
  PROVE  IInv'
<1> DEFINE h == req[p][k]
           new == [status |-> CheckStatus(h.snap), revision |-> RevisionOf[p]]
           g == AfterCheck(k, h)
           Row == [status : {"SUCCESS", "FAILURE", "PENDING"}, revision : Nat]
<1>1. /\ UNCHANGED <<rows, events, bus, run, cancelAt>> /\ status' = status /\ jobs' = jobs
      /\ events' = events /\ run' = run /\ bull' = bull /\ queue' = queue
      /\ faults' \in Nat /\ cancels' \in Nat
  BY DEF PutCheck, rows, bus, budget, IInv, TypeOK
<1>2. h \in Handler /\ h.step = "put" /\ HandlerOK(p, k, h)
  BY DEF PutCheck, At, IInv, TypeOK, HandlersOK
<1>3. new \in Row /\ (new.status = "SUCCESS" => AllSucceeded(p))
  BY <1>2, PipelinesAssumption DEF CheckStatus, HandlerOK, Earned
<1>4. g \in Handler /\ HandlerOK(p, k, g)
  <2>1. CASE k = "create"
    <3>1. g = [Idle EXCEPT !.step = "enqueue"]
      BY <2>1 DEF AfterCheck
    <3>2. g \in Handler /\ g.step = "enqueue"
      BY <3>1, IdleHandler DEF Handler, Steps
    <3> QED BY <1>2, <2>1, <3>2 DEF HandlerOK
  <2>2. CASE k = "cancel"
    <3>1. g = Idle
      BY <2>2 DEF AfterCheck
    <3> QED BY <2>2, <3>1, IdleHandler DEF HandlerOK
  <2>3. CASE k = "update"
    <3>1. g = [h EXCEPT !.step = "emit", !.row = 0]
      BY <2>3 DEF AfterCheck
    <3> HIDE DEF g
    <3>2. g \in Handler /\ g.step = "emit" /\ g.snap = h.snap /\ g.job = h.job /\ g.to = h.to
      BY <1>2, <3>1 DEF Handler, Steps
    <3> QED BY <1>2, <2>3, <3>2 DEF HandlerOK
  <2> QED BY <2>1, <2>2, <2>3 DEF Kinds
<1>5. req' = [req EXCEPT ![p][k] = g]
  BY DEF PutCheck
<1> HIDE DEF g
<1>6. /\ req' \in [Pipelines -> [Kinds -> Handler]]
      /\ req'[p][k] = g
      /\ \A q \in Pipelines, l \in Kinds : q # p \/ l # k => req'[q][l] = req[q][l]
  BY <1>4, <1>5 DEF IInv, TypeOK
<1>7. HandlerOK(p, k, req[p][k])'
  BY <1>1, <1>4, <1>6 DEF HandlerOK, Earned, AllSucceeded, SomeFailed
<1>8. HandlersOK'
  BY <1>1, <1>6, <1>7, JobsStay, OneHandlerMoves
<1>9. checks' = Append(checks, new) \/ checks' = [checks EXCEPT ![h.row] = new]
  BY DEF PutCheck
<1> HIDE DEF new
<1>10. checks \in Seq(Row)
  BY DEF IInv, TypeOK
<1>11. checks' \in Seq(Row)
  <2>1. CASE checks' = Append(checks, new)
    BY <1>3, <1>10, <2>1
  <2>2. CASE checks' = [checks EXCEPT ![h.row] = new]
    <3>1. CASE h.row \in 1..Len(checks)
      BY <1>3, <1>10, <2>2, <3>1, ExceptSeq
    <3>2. CASE h.row \notin 1..Len(checks)
      <4>1. DOMAIN checks = 1..Len(checks)
        BY <1>10
      <4>2. checks' = [i \in DOMAIN checks |-> checks[i]]
        BY <2>2, <3>2, <4>1
      <4>3. checks = [i \in DOMAIN checks |-> checks[i]]
        BY <1>10
      <4> QED BY <1>10, <4>2, <4>3
    <3> QED BY <3>1, <3>2
  <2> QED BY <1>9, <2>1, <2>2
<1>12. TypeOK'
  BY <1>1, <1>6, <1>11 DEF IInv, TypeOK, rows, bus
<1>13. \A r \in DOMAIN checks' : checks'[r] = new \/ (r \in DOMAIN checks /\ checks'[r] = checks[r])
  BY <1>9, <1>10
<1>14. GreenCheckEarned'
  <2> SUFFICES ASSUME NEW r \in DOMAIN checks', checks'[r].status = "SUCCESS"
               PROVE  \E q \in Pipelines : RevisionOf[q] = checks'[r].revision /\ AllSucceeded(q)'
    BY DEF GreenCheckEarned
  <2>1. CASE checks'[r] = new
    BY <1>1, <1>3, <2>1 DEF AllSucceeded, new
  <2>2. CASE r \in DOMAIN checks /\ checks'[r] = checks[r]
    BY <1>1, <2>2 DEF IInv, GreenCheckEarned, AllSucceeded
  <2> QED BY <1>13, <2>1, <2>2
<1>15. VerdictEarned' /\ EventsEarned' /\ RunOK' /\ NotYet'
  BY <1>1, JobsStay, VerdictsStay, EventsStay, PlacesStay
<1> QED BY <1>8, <1>12, <1>14, <1>15 DEF IInv

\* A cancel leaves the finished jobs alone.
LEMMA CancelWriteStep ==
  ASSUME IInv, NEW p \in Pipelines, CancelWrite(p)
  PROVE  IInv'
<1> DEFINE h == [req[p]["cancel"] EXCEPT !.step = "find", !.snap = "CANCELED"]
<1>1. /\ checks' = checks /\ events' = events /\ run' = run /\ bull' = bull /\ queue' = queue
      /\ "cancel" \in Kinds
  BY DEF CancelWrite, bus, Kinds
<1>2. status[p] # "NONE" /\ req[p]["cancel"] \in Handler
  BY <1>1 DEF CancelWrite, At, IInv, TypeOK, HandlersOK, HandlerOK
<1>3. /\ h \in Handler /\ h.step = "find" /\ h.snap = "CANCELED"
      /\ "CANCELED" \in PipelineStatus
  BY <1>2 DEF Handler, Steps, PipelineStatus
<1>4. req' = [req EXCEPT ![p]["cancel"] = h]
  BY DEF CancelWrite
<1> HIDE DEF h
<1>5. /\ req' \in [Pipelines -> [Kinds -> Handler]]
      /\ req'[p]["cancel"] = h
      /\ \A q \in Pipelines, l \in Kinds : q # p \/ l # "cancel" => req'[q][l] = req[q][l]
  BY <1>1, <1>3, <1>4 DEF IInv, TypeOK
<1>6. /\ status'[p] = "CANCELED" /\ \A q \in Pipelines \ {p} : status'[q] = status[q]
      /\ status' \in [Pipelines -> PipelineStatus \cup {"NONE"}]
  BY <1>3 DEF CancelWrite, IInv, TypeOK
<1>7. /\ \A q \in Pipelines \ {p} : jobs'[q] = jobs[q]
      /\ \A j \in Jobs : jobs'[p][j] = IF jobs[p][j] \in {"QUEUED", "RUNNING"} THEN "CANCELED" ELSE jobs[p][j]
      /\ jobs' \in [Pipelines -> [Jobs -> JobStatus]]
  BY DEF CancelWrite, IInv, TypeOK, JobStatus
<1>8. \A q \in Pipelines : Kept(q) /\ Calm(q)
  BY <1>7 DEF Kept, Calm, Finished
<1>9. TypeOK'
  <2>1. cancelAt' \in [Pipelines -> Steps \cup {"none"}]
    <3>1. req[p]["update"].step \in Steps
      BY DEF IInv, TypeOK, Handler, Kinds
    <3> QED BY <3>1 DEF CancelWrite, IInv, TypeOK
  <2> QED BY <1>5, <1>6, <1>7, <2>1 DEF CancelWrite, IInv, TypeOK, bus, budget
<1>10. HandlersOK'
  <2>1. HandlerOK(p, "cancel", req[p]["cancel"])'
    BY <1>3, <1>5, <1>6 DEF HandlerOK, Earned
  <2> QED BY <1>1, <1>5, <1>6, <1>8, <2>1, OneHandlerMoves
<1>11. VerdictEarned' /\ EventsEarned' /\ GreenCheckEarned'
  <2>1. Earned(p, status[p])'
    BY <1>6 DEF Earned
  <2> QED BY <1>1, <1>6, <1>8, <2>1, VerdictsStay, EventsStay, GreenStays
<1>12. RunOK' /\ NotYet'
  BY <1>1, <1>6, <1>7, PlacesStay
<1> QED BY <1>9, <1>10, <1>11, <1>12 DEF IInv

\* The write of updateJobStatus leaves the finished jobs alone: the job it writes
\* has not finished since the check, or has the very status that is written.
LEMMA UpdateWriteStep ==
  ASSUME IInv, NEW p \in Pipelines, UpdateWrite(p)
  PROVE  IInv' /\ \A q \in Pipelines : Kept(q)
<1> DEFINE h == req[p]["update"]
<1>1. /\ status' = status /\ checks' = checks /\ events' = events
      /\ run' = run /\ bull' = bull /\ queue' = queue
      /\ "update" \in Kinds /\ "reread" \in Steps /\ TypeOK /\ GoTo(p, "update", "reread")
  BY DEF UpdateWrite, bus, Kinds, Steps, IInv
<1>2. h.step = "write" /\ HandlerOK(p, "update", h)
  BY <1>1 DEF UpdateWrite, At, IInv, HandlersOK
<1>3. h.job \in Jobs /\ h.to \in JobStatus /\ status[p] # "NONE"
      /\ (jobs[p][h.job] \in Finished => jobs[p][h.job] = h.to)
  BY <1>2 DEF HandlerOK
<1>4. jobs' = [jobs EXCEPT ![p][h.job] = h.to]
  BY DEF UpdateWrite
<1> HIDE DEF h
<1>5. /\ \A q \in Pipelines \ {p} : jobs'[q] = jobs[q]
      /\ \A j \in Jobs : jobs'[p][j] = IF j = h.job THEN h.to ELSE jobs[p][j]
      /\ jobs' \in [Pipelines -> [Jobs -> JobStatus]]
  BY <1>1, <1>3, <1>4 DEF TypeOK
<1>6. \A q \in Pipelines : Kept(q) /\ (q # p => Calm(q))
  BY <1>3, <1>5 DEF Kept, Calm, Finished
<1>7. TypeOK'
  <2>1. req' \in [Pipelines -> [Kinds -> Handler]]
    BY <1>1, GoToHandler
  <2> QED BY <1>5, <2>1 DEF UpdateWrite, IInv, TypeOK, bus, budget
<1>8. HandlersOK'
  <2>1. /\ req'[p]["update"].step = "reread"
        /\ req'[p]["update"].job = h.job /\ req'[p]["update"].to = h.to
        /\ \A q \in Pipelines, l \in Kinds : q # p \/ l # "update" => req'[q][l] = req[q][l]
    BY <1>1, GoToHandler DEF h
  <2>2. HandlerOK(p, "update", req[p]["update"])'
    BY <1>1, <1>3, <2>1 DEF HandlerOK
  <2> QED BY <1>1, <1>6, <2>1, <2>2, OneHandlerMoves
<1>9. VerdictEarned' /\ EventsEarned' /\ GreenCheckEarned'
  BY <1>1, <1>6, VerdictsStay, EventsStay, GreenStays
<1>10. RunOK' /\ NotYet'
  BY <1>1, <1>3, <1>5, PlacesStay
<1> QED BY <1>6, <1>7, <1>8, <1>9, <1>10 DEF IInv

\* The sum that is stored is one the jobs still agree with, however old it is.
LEMMA UpdateSettleStep ==
  ASSUME IInv, NEW p \in Pipelines, UpdateSettle(p)
  PROVE  IInv'
<1> DEFINE h == req[p]["update"]
           s == IF h.snap \in Terminal THEN "find" ELSE "ok"
<1>1. /\ jobs' = jobs /\ checks' = checks /\ events' = events
      /\ run' = run /\ bull' = bull /\ queue' = queue
      /\ "update" \in Kinds /\ s \in Steps /\ TypeOK /\ GoTo(p, "update", s)
  BY DEF UpdateSettle, bus, Kinds, Steps, IInv
<1>2. h.step = "settle" /\ HandlerOK(p, "update", h)
  BY <1>1 DEF UpdateSettle, At, IInv, HandlersOK
<1>3. h.snap \in PipelineStatus /\ Earned(p, h.snap) /\ h.job \in Jobs /\ h.to \in JobStatus
  BY <1>2 DEF HandlerOK
<1>4. /\ status'[p] = h.snap /\ \A q \in Pipelines \ {p} : status'[q] = status[q]
      /\ status' \in [Pipelines -> PipelineStatus \cup {"NONE"}]
      /\ status'[p] # "NONE"
  BY <1>1, <1>3 DEF UpdateSettle, TypeOK, PipelineStatus
<1>5. TypeOK'
  <2>1. req' \in [Pipelines -> [Kinds -> Handler]]
    BY <1>1, GoToHandler
  <2> QED BY <1>4, <2>1 DEF UpdateSettle, IInv, TypeOK, bus, budget
<1>6. HandlersOK'
  <2>1. /\ req'[p]["update"].step = s /\ req'[p]["update"].snap = h.snap
        /\ req'[p]["update"].job = h.job /\ req'[p]["update"].to = h.to
        /\ \A q \in Pipelines, l \in Kinds : q # p \/ l # "update" => req'[q][l] = req[q][l]
    BY <1>1, GoToHandler
  <2>2. HandlerOK(p, "update", req[p]["update"])'
    BY <1>1, <1>3, <1>4, <2>1 DEF HandlerOK, Earned, AllSucceeded, SomeFailed
  <2> QED BY <1>1, <1>4, <2>1, <2>2, JobsStay, OneHandlerMoves
<1>7. VerdictEarned' /\ EventsEarned' /\ GreenCheckEarned'
  <2>1. Earned(p, status[p])'
    BY <1>1, <1>3, <1>4 DEF Earned, AllSucceeded, SomeFailed
  <2> QED BY <1>1, <1>4, <2>1, JobsStay, VerdictsStay, EventsStay, GreenStays
<1>8. RunOK' /\ NotYet'
  BY <1>1, <1>4, PlacesStay
<1> QED BY <1>5, <1>6, <1>7, <1>8 DEF IInv

\* The event that is sent is one the jobs agree with.
LEMMA EmitStep ==
  ASSUME IInv, NEW p \in Pipelines, Emit(p)
  PROVE  IInv'
<1> DEFINE h == req[p]["update"]
<1>1. /\ status' = status /\ jobs' = jobs /\ checks' = checks
      /\ run' = run /\ bull' = bull /\ queue' = queue
      /\ "update" \in Kinds /\ "ok" \in Steps /\ TypeOK /\ GoTo(p, "update", "ok")
  BY DEF Emit, rows, bus, Kinds, Steps, IInv
<1>2. h.step = "emit" /\ HandlerOK(p, "update", h)
  BY <1>1 DEF Emit, At, IInv, HandlersOK
<1>3. h.snap \in Terminal /\ Earned(p, h.snap)
  BY <1>2 DEF HandlerOK
<1>4. /\ events'[p] = Append(events[p], h.snap) /\ \A q \in Pipelines \ {p} : events'[q] = events[q]
      /\ events' \in [Pipelines -> Seq(Terminal)]
  BY <1>1, <1>3 DEF Emit, TypeOK
<1>5. TypeOK'
  <2>1. req' \in [Pipelines -> [Kinds -> Handler]]
    BY <1>1, GoToHandler
  <2> QED BY <1>4, <2>1 DEF Emit, IInv, TypeOK, rows, bus, budget
<1>6. HandlersOK'
  <2>1. /\ req'[p]["update"].step = "ok"
        /\ req'[p]["update"].job = h.job /\ req'[p]["update"].to = h.to
        /\ \A q \in Pipelines, l \in Kinds : q # p \/ l # "update" => req'[q][l] = req[q][l]
    BY <1>1, GoToHandler
  <2>2. HandlerOK(p, "update", req[p]["update"])'
    BY <1>1, <1>2, <2>1 DEF HandlerOK
  <2> QED BY <1>1, <2>1, <2>2, JobsStay, OneHandlerMoves
<1>7. EventsEarned'
  <2> SUFFICES ASSUME NEW q \in Pipelines, NEW i \in DOMAIN events'[q]
               PROVE  Earned(q, events[q][i])'
    BY DEF EventsEarned
  <2>1. CASE q # p
    BY <1>1, <1>4, <2>1 DEF IInv, EventsEarned, Earned, AllSucceeded, SomeFailed
  <2>2. CASE q = p
    <3>1. events[p] \in Seq(Terminal)
      BY <1>1 DEF TypeOK
    <3>2. events'[p][i] = h.snap \/ (i \in DOMAIN events[p] /\ events'[p][i] = events[p][i])
      BY <1>4, <2>2, <3>1
    <3>3. Earned(p, events'[p][i])
      BY <1>3, <3>2 DEF IInv, EventsEarned
    <3> QED BY <1>1, <2>2, <3>3 DEF Earned, AllSucceeded, SomeFailed
  <2> QED BY <2>1, <2>2
<1>8. VerdictEarned' /\ GreenCheckEarned' /\ RunOK' /\ NotYet'
  BY <1>1, JobsStay, VerdictsStay, GreenStays, PlacesStay
<1> QED BY <1>5, <1>6, <1>7, <1>8 DEF IInv

-----------------------------------------------------------------------------
(***************************************************************************)
(* The runner, and what goes wrong.                                        *)
(***************************************************************************)

\* A step that changes neither handlers nor what they rely on.
LEMMA SameRows ==
  ASSUME IInv, status' = status, jobs' = jobs, checks' = checks, events' = events, req' = req
  PROVE  HandlersOK' /\ VerdictEarned' /\ EventsEarned' /\ GreenCheckEarned'
  BY NoHandlerMoves, JobsStay, VerdictsStay, EventsStay, GreenStays

\* The worker takes a pipeline that exists, and puts none in the queue.
LEMMA TakeRunStep ==
  ASSUME IInv, TakeRun
  PROVE  IInv'
<1>1. status' = status /\ jobs' = jobs /\ checks' = checks /\ events' = events /\ req' = req
  BY DEF TakeRun, rows
<1>2. queue \in Seq(Pipelines) /\ queue # <<>>
  BY DEF TakeRun, IInv, TypeOK
<1>3. /\ Head(queue) = queue[1] /\ 1 \in DOMAIN queue /\ queue[1] \in Pipelines
      /\ queue' = Tail(queue) /\ queue' \in Seq(Pipelines)
      /\ \A i \in DOMAIN queue' : i + 1 \in DOMAIN queue /\ queue'[i] = queue[i + 1]
  BY <1>2 DEF TakeRun
<1>4. status[queue[1]] # "NONE"
  BY <1>3 DEF IInv, NotYet
<1>5. run' = [phase |-> "export", pipe |-> queue[1], pos |-> 1] /\ bull' = [bull EXCEPT ![queue[1]] = "active"]
  BY <1>3 DEF TakeRun
<1>6. TypeOK'
  <2>1. run' \in [phase : Phases, pipe : Pipelines \cup {NoPipeline}, pos : Nat]
    BY <1>3, <1>5 DEF Phases
  <2>2. bull' \in [Pipelines -> {"none", "waiting", "active", "stalled", "completed", "failed"}]
    BY <1>5 DEF IInv, TypeOK
  <2> QED BY <1>3, <2>1, <2>2 DEF TakeRun, IInv, TypeOK, rows, budget
<1>7. RunOK'
  BY <1>1, <1>3, <1>4, <1>5 DEF RunOK
<1>8. NotYet'
  <2>1. \A i \in DOMAIN queue' : status'[queue'[i]] # "NONE"
    BY <1>1, <1>3 DEF IInv, NotYet
  <2>2. ASSUME NEW q \in Pipelines, status'[q] = "NONE"
        PROVE  bull'[q] = "none" /\ \A j \in Jobs : jobs'[q][j] = "QUEUED"
    BY <1>1, <1>4, <1>5, <2>2 DEF IInv, NotYet, TypeOK
  <2> QED BY <2>1, <2>2 DEF NotYet
<1> QED BY <1>1, <1>6, <1>7, <1>8, SameRows DEF IInv

\* The runner goes on with its run, or with the next job, without a call.
LEMMA GoOnStep ==
  ASSUME IInv, run # NoRun, run'.phase \in Phases \ {"idle"}, run'.pipe = run.pipe, run'.pos \in Nat,
         run' \in [phase : Phases, pipe : Pipelines \cup {NoPipeline}, pos : Nat],
         run'.phase \in {"await", "log", "exec", "collect"} => run'.pos \in Jobs,
         UNCHANGED <<status, jobs, checks, events, req, bus, budget, cancelAt>>,
         logged' \in [Pipelines -> SUBSET Jobs], artifacts' \in [Pipelines -> SUBSET Jobs]
  PROVE  IInv'
<1>1. status' = status /\ jobs' = jobs /\ checks' = checks /\ events' = events /\ req' = req
      /\ queue' = queue /\ bull' = bull
  BY DEF bus
<1>2. TypeOK'
  BY DEF IInv, TypeOK, bus, budget
<1>3. RunOK'
  BY <1>1 DEF IInv, RunOK
<1>4. NotYet'
  BY <1>1 DEF IInv, NotYet
<1> QED BY <1>1, <1>2, <1>3, <1>4, SameRows DEF IInv

\* The run of a pipeline that exists is over, with any outcome.
LEMMA EndRunStep ==
  ASSUME IInv, NEW o \in {"stalled", "completed", "failed"}, run # NoRun, EndRun(o),
         UNCHANGED <<status, jobs, checks, events, req, queue, stalls, cancelAt>>,
         logged' \in [Pipelines -> SUBSET Jobs], artifacts' \in [Pipelines -> SUBSET Jobs],
         faults' \in Nat, cancels' \in Nat
  PROVE  IInv'
<1>1. status' = status /\ jobs' = jobs /\ checks' = checks /\ events' = events /\ req' = req
  OBVIOUS
<1>2. run.pipe \in Pipelines /\ status[run.pipe] # "NONE"
  BY DEF IInv, RunOK
<1>3. run' = NoRun /\ bull' = [bull EXCEPT ![run.pipe] = o]
  BY DEF EndRun, Cur
<1>4. TypeOK'
  BY <1>3 DEF IInv, TypeOK, rows, NoRun, Phases
<1>5. NotYet'
  <2>1. ASSUME NEW q \in Pipelines, status'[q] = "NONE"
        PROVE  bull'[q] = "none" /\ \A j \in Jobs : jobs'[q][j] = "QUEUED"
    BY <1>1, <1>2, <1>3, <2>1 DEF IInv, NotYet, TypeOK
  <2> QED BY <1>1, <2>1 DEF IInv, NotYet
<1> QED BY <1>1, <1>3, <1>4, <1>5, SameRows DEF IInv, RunOK

\* A call of updateJobStatus for the job of the run.
LEMMA CallStep ==
  ASSUME IInv, NEW to \in JobStatus, run # NoRun, run.pos \in Jobs, Call(to),
         UNCHANGED <<rows, checks, events, bus, budget, cancelAt>>
  PROVE  IInv'
<1> DEFINE h == [Idle EXCEPT !.step = "read", !.job = run.pos, !.to = to]
<1>1. status' = status /\ jobs' = jobs /\ checks' = checks /\ events' = events
      /\ queue' = queue /\ bull' = bull
  BY DEF rows, bus
<1>2. PICK p \in Pipelines : p = run.pipe /\ status[p] # "NONE"
  BY DEF IInv, RunOK
<1>3. h \in Handler /\ h.step = "read" /\ h.job = run.pos /\ h.to = to
  <2>1. run.pos \in 0..NumJobs
    BY PipelinesAssumption DEF Jobs
  <2> QED BY <2>1, IdleHandler DEF Idle, Handler, Steps
<1>4. req' = [req EXCEPT ![p]["update"] = h] /\ "update" \in Kinds
  BY <1>2 DEF Call, Cur, Kinds
<1> HIDE DEF h
<1>5. /\ req' \in [Pipelines -> [Kinds -> Handler]]
      /\ req'[p]["update"] = h
      /\ \A q \in Pipelines, l \in Kinds : q # p \/ l # "update" => req'[q][l] = req[q][l]
  BY <1>3, <1>4 DEF IInv, TypeOK
<1>6. run' \in [phase : Phases, pipe : Pipelines \cup {NoPipeline}, pos : Nat]
      /\ run'.phase = "await" /\ run'.pipe = p /\ run'.pos = run.pos
  BY <1>2 DEF Call, IInv, TypeOK, Phases
<1>7. TypeOK'
  BY <1>5, <1>6 DEF IInv, TypeOK, rows, bus, budget
<1>8. HandlersOK'
  <2>1. HandlerOK(p, "update", req[p]["update"])'
    BY <1>1, <1>2, <1>3, <1>5 DEF HandlerOK
  <2> QED BY <1>1, <1>4, <1>5, <2>1, JobsStay, OneHandlerMoves
<1>9. VerdictEarned' /\ EventsEarned' /\ GreenCheckEarned'
  BY <1>1, JobsStay, VerdictsStay, EventsStay, GreenStays
<1>10. RunOK' /\ NotYet'
  BY <1>1, <1>2, <1>6 DEF IInv, RunOK, NotYet
<1> QED BY <1>7, <1>8, <1>9, <1>10 DEF IInv

\* The answer of a call arrives: the handler is gone, and the runner goes on with
\* the run, or ends it.
LEMMA AnswerStep ==
  ASSUME IInv, Accepted \/ EmptyReply \/ Rejected
  PROVE  IInv'
<1> DEFINE Run == [phase : Phases, pipe : Pipelines \cup {NoPipeline}, pos : Nat]
<1>1. status' = status /\ jobs' = jobs /\ checks' = checks /\ events' = events /\ queue' = queue
      /\ req' = [req EXCEPT ![run.pipe]["update"] = Idle]
  BY DEF Accepted, EmptyReply, Rejected, rows, Cur
<1>2. run.phase = "await" /\ run \in Run
  BY DEF Accepted, EmptyReply, Rejected, IInv, TypeOK
<1>3. PICK p \in Pipelines :
        p = run.pipe /\ status[p] # "NONE" /\ run.pos \in Jobs /\ "update" \in Kinds
  BY <1>2 DEF IInv, RunOK, NoRun, Kinds
<1>4. /\ req' \in [Pipelines -> [Kinds -> Handler]]
      /\ req'[p]["update"] = Idle
      /\ \A q \in Pipelines, l \in Kinds : q # p \/ l # "update" => req'[q][l] = req[q][l]
  BY <1>1, <1>3, IdleHandler DEF IInv, TypeOK
<1>5. HandlersOK'
  <2>1. HandlerOK(p, "update", req[p]["update"])'
    BY <1>4, IdleHandler DEF HandlerOK
  <2> QED BY <1>1, <1>3, <1>4, <2>1, JobsStay, OneHandlerMoves
<1>6. VerdictEarned' /\ EventsEarned' /\ GreenCheckEarned'
  BY <1>1, JobsStay, VerdictsStay, EventsStay, GreenStays
<1>7. \/ /\ bull' = bull /\ run' \in Run /\ run'.pipe = p
         /\ \/ run'.phase \in {"log", "collect"} /\ run'.pos = run.pos
            \/ run'.phase = "check"
      \/ run' = NoRun /\ \E o \in {"completed", "failed"} : bull' = [bull EXCEPT ![p] = o]
  <2>1. CASE run' = [run EXCEPT !.phase = "log"] /\ bull' = bull
    BY <1>2, <1>3, <2>1 DEF Phases
  <2>2. CASE run' = [run EXCEPT !.phase = "collect"] /\ bull' = bull
    BY <1>2, <1>3, <2>2 DEF Phases
  <2>3. CASE run' = [run EXCEPT !.phase = "check", !.pos = @ + 1] /\ bull' = bull
    <3>1. run.pos + 1 \in Nat
      BY <1>2
    <3>2. run' = [phase |-> "check", pipe |-> run.pipe, pos |-> run.pos + 1]
      BY <1>2, <2>3
    <3> QED BY <1>3, <2>3, <3>1, <3>2 DEF Phases
  <2>4. CASE EndRun("completed") \/ EndRun("failed")
    BY <1>3, <2>4 DEF EndRun, Cur
  <2> QED BY <2>1, <2>2, <2>3, <2>4 DEF Accepted, EmptyReply, Rejected
<1>8. TypeOK'
  <2>1. run' \in Run
    BY <1>7 DEF NoRun, Phases
  <2>2. bull' \in [Pipelines -> {"none", "waiting", "active", "stalled", "completed", "failed"}]
    BY <1>7 DEF IInv, TypeOK
  <2> QED BY <1>4, <2>1, <2>2 DEF Accepted, EmptyReply, Rejected, IInv, TypeOK, rows, budget
<1>9. RunOK'
  BY <1>1, <1>3, <1>7 DEF RunOK
<1>10. NotYet'
  <2>1. ASSUME NEW q \in Pipelines, status'[q] = "NONE"
        PROVE  bull'[q] = "none" /\ \A j \in Jobs : jobs'[q][j] = "QUEUED"
    BY <1>1, <1>3, <1>7, <2>1 DEF IInv, NotYet, TypeOK
  <2> QED BY <1>1, <2>1 DEF IInv, NotYet
<1> QED BY <1>5, <1>6, <1>8, <1>9, <1>10 DEF IInv

LEMMA ApiCrashStep ==
  ASSUME IInv, ApiCrash
  PROVE  IInv'
<1>1. status' = status /\ jobs' = jobs /\ checks' = checks /\ events' = events
      /\ run' = run /\ bull' = bull /\ queue' = queue
  BY DEF ApiCrash, rows, bus
<1> DEFINE r == [Idle EXCEPT !.step = "rejected"]
<1>2. r \in Handler /\ r.step = "rejected"
  BY IdleHandler DEF Handler, Steps
<1>3. req' = [p \in Pipelines |-> [k \in Kinds |->
                IF k = "update" /\ ~At(p, k, "idle") THEN r ELSE Idle]]
  BY DEF ApiCrash
<1> HIDE DEF r
<1>4. /\ req' \in [Pipelines -> [Kinds -> Handler]]
      /\ \A p \in Pipelines, k \in Kinds :
           req'[p][k] = Idle \/ (req'[p][k] = r /\ req[p][k].step # "idle")
  BY <1>2, <1>3, IdleHandler DEF At
<1>5. HandlersOK'
  <2> SUFFICES ASSUME NEW p \in Pipelines, NEW k \in Kinds
               PROVE  HandlerOK(p, k, req[p][k])'
    BY DEF HandlersOK
  <2>1. CASE req'[p][k] = Idle
    BY <2>1, IdleHandler DEF HandlerOK
  <2>2. CASE req'[p][k] = r /\ req[p][k].step # "idle"
    BY <1>1, <1>2, <2>2 DEF HandlerOK, IInv, HandlersOK
  <2> QED BY <1>4, <2>1, <2>2
<1>6. TypeOK'
  <2>1. faults' \in Nat
    BY DEF ApiCrash, Fault, IInv, TypeOK
  <2> QED BY <1>4, <2>1 DEF ApiCrash, IInv, TypeOK, rows, bus
<1>7. VerdictEarned' /\ EventsEarned' /\ GreenCheckEarned' /\ RunOK' /\ NotYet'
  BY <1>1, JobsStay, VerdictsStay, EventsStay, GreenStays, PlacesStay
<1> QED BY <1>5, <1>6, <1>7 DEF IInv

\* A run that is delivered again is one of a pipeline that exists.
LEMMA RedeliverStep ==
  ASSUME IInv, NEW p \in Pipelines, Redeliver(p)
  PROVE  IInv'
<1>1. status' = status /\ jobs' = jobs /\ checks' = checks /\ events' = events /\ req' = req
      /\ run' = run
  BY DEF Redeliver, rows
<1>2. status[p] # "NONE"
  BY DEF Redeliver, IInv, NotYet
<1>3. queue \in Seq(Pipelines)
  BY DEF IInv, TypeOK
<1>4. queue' = <<p>> \o queue \/ queue' = queue
  BY DEF Redeliver
<1>5. queue' \in Seq(Pipelines) /\ \A i \in DOMAIN queue' : status'[queue'[i]] # "NONE"
  <2>1. CASE queue' = <<p>> \o queue
    <3>1. /\ queue' \in Seq(Pipelines) /\ DOMAIN queue' = 1..(Len(queue) + 1)
          /\ \A i \in DOMAIN queue' : queue'[i] = IF i = 1 THEN p ELSE queue[i - 1]
      BY <1>3, <2>1
    <3>2. \A i \in DOMAIN queue' : i = 1 \/ i - 1 \in DOMAIN queue
      BY <1>3, <3>1
    <3> QED BY <1>1, <1>2, <3>1, <3>2 DEF IInv, NotYet
  <2>2. CASE queue' = queue
    BY <1>1, <1>3, <2>2 DEF IInv, NotYet
  <2> QED BY <1>4, <2>1, <2>2
<1>6. \E o \in {"waiting", "failed"} : bull' = [bull EXCEPT ![p] = o]
  BY DEF Redeliver
<1>7. TypeOK'
  <2>1. bull' \in [Pipelines -> {"none", "waiting", "active", "stalled", "completed", "failed"}]
    BY <1>6 DEF IInv, TypeOK
  <2>2. stalls' \in [Pipelines -> Nat]
    <3>1. stalls \in [Pipelines -> Nat] /\ stalls[p] + 1 \in Nat
      BY DEF IInv, TypeOK
    <3>2. stalls' = stalls \/ stalls' = [stalls EXCEPT ![p] = stalls[p] + 1]
      BY DEF Redeliver
    <3> QED BY <3>1, <3>2
  <2> QED BY <1>5, <2>1, <2>2 DEF Redeliver, IInv, TypeOK, rows, budget
<1>8. NotYet'
  <2>1. ASSUME NEW q \in Pipelines, status'[q] = "NONE"
        PROVE  bull'[q] = "none" /\ \A j \in Jobs : jobs'[q][j] = "QUEUED"
    BY <1>1, <1>2, <1>6, <2>1 DEF IInv, NotYet, TypeOK
  <2> QED BY <1>5, <2>1 DEF NotYet
<1>9. RunOK'
  BY <1>1 DEF IInv, RunOK
<1> QED BY <1>1, <1>7, <1>8, <1>9, SameRows DEF IInv

\* A step of the worker that is not part of a call.
LEMMA WorkStep ==
  ASSUME IInv, Export \/ NextJob \/ LastJob \/ FirstLog \/ Execute \/ Collect
  PROVE  IInv'
<1> DEFINE Run == [phase : Phases, pipe : Pipelines \cup {NoPipeline}, pos : Nat]
<1>1. run # NoRun /\ run \in Run /\ run.pos + 1 \in Nat
  BY DEF Export, NextJob, LastJob, FirstLog, Execute, Collect, NoRun, IInv, TypeOK
<1>2. run.phase \in {"await", "log", "exec", "collect"} => run.pos \in Jobs
  BY <1>1 DEF IInv, RunOK
<1>3. /\ faults \in Nat /\ cancels \in Nat
      /\ logged \in [Pipelines -> SUBSET Jobs] /\ artifacts \in [Pipelines -> SUBSET Jobs]
  BY DEF IInv, TypeOK
<1>4. CASE Export
  <2>1. run'.phase = "check" /\ run'.pipe = run.pipe /\ run'.pos = run.pos /\ run' \in Run
    BY <1>1, <1>4 DEF Export, Phases
  <2> QED BY <1>1, <1>3, <1>4, <2>1, GoOnStep DEF Export, Phases, rows
<1>5. CASE NextJob
  <2>1. PICK to \in JobStatus : Call(to)
    BY <1>5 DEF NextJob, JobStatus
  <2> QED BY <1>1, <1>5, <2>1, CallStep DEF NextJob
<1>6. CASE LastJob
  BY <1>1, <1>3, <1>6, EndRunStep DEF LastJob, budget, rows
<1>7. CASE FirstLog
  <2>1. CASE /\ logged' = [logged EXCEPT ![Cur] = @ \cup {run.pos}]
             /\ run' = [run EXCEPT !.phase = "exec"] /\ UNCHANGED bull
    <3>1. run.pos \in Jobs
      BY <1>2, <1>7 DEF FirstLog
    <3>2. run'.phase = "exec" /\ run'.pipe = run.pipe /\ run'.pos = run.pos /\ run' \in Run
      BY <1>1, <2>1 DEF Phases
    <3>3. logged' \in [Pipelines -> SUBSET Jobs]
      BY <1>3, <2>1, <3>1
    <3> QED BY <1>1, <1>3, <1>7, <2>1, <3>1, <3>2, <3>3, GoOnStep DEF FirstLog, Phases, bus
  <2>2. CASE EndRun("failed")
    <3>1. run.pos \in Jobs
      BY <1>2, <1>7 DEF FirstLog
    <3>2. logged' \in [Pipelines -> SUBSET Jobs]
      BY <1>3, <1>7, <3>1 DEF FirstLog
    <3> QED BY <1>1, <1>3, <1>7, <2>2, <3>2, EndRunStep DEF FirstLog, budget
  <2> QED BY <1>7, <2>1, <2>2 DEF FirstLog
<1>8. CASE Execute
  <2>1. PICK to \in JobStatus : Call(to)
    BY <1>8 DEF Execute, JobStatus
  <2>2. run.pos \in Jobs
    BY <1>2, <1>8 DEF Execute
  <2> QED BY <1>1, <1>8, <2>1, <2>2, CallStep DEF Execute
<1>9. CASE Collect
  <2>1. artifacts' \in [Pipelines -> SUBSET Jobs]
    BY <1>2, <1>3, <1>9 DEF Collect
  <2>2. CASE run' = [run EXCEPT !.phase = "check", !.pos = @ + 1] /\ UNCHANGED bull
    <3>1. run'.phase = "check" /\ run'.pipe = run.pipe /\ run'.pos = run.pos + 1
      BY <1>1, <2>2
    <3>2. run' \in Run
      BY <1>1, <2>2 DEF Phases
    <3> QED BY <1>1, <1>3, <1>9, <2>1, <2>2, <3>1, <3>2, GoOnStep DEF Collect, Phases, bus
  <2>3. CASE EndRun("failed")
    BY <1>1, <1>3, <1>9, <2>1, <2>3, EndRunStep DEF Collect, budget
  <2> QED BY <1>9, <2>2, <2>3 DEF Collect
<1> QED BY <1>4, <1>5, <1>6, <1>7, <1>8, <1>9

\* The worker loses its run.
LEMMA WorkerFaultStep ==
  ASSUME IInv, RunnerThrows \/ RunnerCrash
  PROVE  IInv'
<1>1. run # NoRun /\ faults' \in Nat /\ cancels' \in Nat
  BY DEF RunnerThrows, RunnerCrash, Fault, IInv, TypeOK, rows
<1>2. PICK o \in {"stalled", "completed", "failed"} : EndRun(o)
  BY DEF RunnerThrows, RunnerCrash
<1>3. /\ UNCHANGED <<status, jobs, checks, events, req, queue, stalls, cancelAt>>
      /\ logged' \in [Pipelines -> SUBSET Jobs] /\ artifacts' \in [Pipelines -> SUBSET Jobs]
  BY DEF RunnerThrows, RunnerCrash, rows, IInv, TypeOK
<1> QED BY <1>1, <1>2, <1>3, EndRunStep

-----------------------------------------------------------------------------
(***************************************************************************)
(* The invariant, and what follows from it.                                *)
(***************************************************************************)

LEMMA InitIInv == Init => IInv
<1> SUFFICES ASSUME Init PROVE IInv
  OBVIOUS
<1>1. checks = <<>> /\ queue = <<>> /\ \A p \in Pipelines : events[p] = <<>> /\ status[p] = "NONE"
  BY DEF Init
<1>2. TypeOK
  BY IdleHandler DEF Init, TypeOK, JobStatus, NoRun, Phases
<1>3. HandlersOK
  BY IdleHandler DEF Init, HandlersOK, HandlerOK
<1>4. RunOK /\ NotYet
  BY DEF Init, RunOK, NotYet
<1>5. VerdictEarned /\ EventsEarned /\ GreenCheckEarned
  BY <1>1 DEF VerdictEarned, EventsEarned, GreenCheckEarned
<1> QED BY <1>2, <1>3, <1>4, <1>5 DEF IInv

LEMMA HandleStep ==
  ASSUME IInv, NEW p \in Pipelines, NEW k \in Kinds, Handle(p, k)
  PROVE  IInv'
BY FindCheckStep, PutCheckStep, EnqueueStep, CancelWriteStep, UpdateReadStep, UpdateWriteStep,
   UpdateRereadStep, UpdateSettleStep, EmitStep DEF Handle

LEMMA NextIInv ==
  ASSUME IInv, [Next]_vars
  PROVE  IInv'
<1>1. ASSUME NEW p \in Pipelines, Create(p) \/ CancelRead(p)
      PROVE  IInv'
  BY <1>1, CreateStep, CancelReadStep
<1>2. ASSUME NEW p \in Pipelines, NEW k \in Kinds, Handle(p, k)
      PROVE  IInv'
  BY <1>2, HandleStep
<1>3. CASE Runner
  BY <1>3, TakeRunStep, AnswerStep, WorkStep DEF Runner
<1>4. CASE RunnerThrows \/ RunnerCrash \/ ApiCrash
  BY <1>4, WorkerFaultStep, ApiCrashStep
<1>5. ASSUME NEW p \in Pipelines, DropReply(p) \/ Redeliver(p)
      PROVE  IInv'
  BY <1>5, DropReplyStep, RedeliverStep
<1>6. CASE UNCHANGED vars
  <2>1. /\ UNCHANGED <<rows, checks, events, bus, run, cancelAt, budget>> /\ req' = req
    BY <1>6 DEF vars
  <2>2. status' = status /\ jobs' = jobs /\ checks' = checks /\ events' = events /\ req' = req
        /\ run' = run /\ queue' = queue /\ bull' = bull
    BY <2>1 DEF rows, bus
  <2>3. TypeOK'
    BY <2>1 DEF IInv, TypeOK, rows, bus, budget
  <2>4. RunOK' /\ NotYet'
    BY <2>2, PlacesStay
  <2> QED BY <2>2, <2>3, <2>4, SameRows DEF IInv
<1> QED BY <1>1, <1>2, <1>3, <1>4, <1>5, <1>6 DEF Next

\* The invariant holds in every state of every behaviour of the CI.
THEOREM Invariance == Spec => []IInv
  BY InitIInv, NextIInv, PTL DEF Spec

\* Type correctness of the rows, the handlers, the queue and the runner.
THEOREM TypeCorrect == Spec => []TypeOK
<1>1. IInv => TypeOK
  BY DEF IInv
<1> QED BY <1>1, Invariance, PTL

\* A pipeline says SUCCESS only if all its jobs do, and FAILURE only if one does.
THEOREM VerdictsEarned == Spec => []VerdictEarned
<1>1. IInv => VerdictEarned
  BY DEF IInv
<1> QED BY <1>1, Invariance, PTL

\* A green check of the pull request names a revision whose jobs all succeeded in
\* some pipeline, however the handlers of the branch's pipelines interleave.
THEOREM GreenChecksEarned == Spec => []GreenCheckEarned
<1>1. IInv => GreenCheckEarned
  BY DEF IInv
<1> QED BY <1>1, Invariance, PTL

\* Every step keeps the outcomes of the jobs that have ended by themselves.
LEMMA NextKeeps ==
  ASSUME IInv, [Next]_vars, NEW p \in Pipelines
  PROVE  Kept(p)
<1>1. ASSUME NEW q \in Pipelines, Create(q)
      PROVE  Kept(p)
  BY <1>1 DEF Create, Kept, Finished, IInv, NotYet, TypeOK
<1>2. ASSUME NEW q \in Pipelines, CancelWrite(q)
      PROVE  Kept(p)
  BY <1>2 DEF CancelWrite, Kept, Finished, IInv, TypeOK
<1>3. ASSUME NEW q \in Pipelines, UpdateWrite(q)
      PROVE  Kept(p)
  BY <1>3, UpdateWriteStep
<1>4. CASE UNCHANGED jobs
  BY <1>4 DEF Kept
<1>5. ASSUME NEW q \in Pipelines, NEW k \in Kinds, Handle(q, k)
      PROVE  (k = "cancel" /\ CancelWrite(q)) \/ UpdateWrite(q) \/ UNCHANGED jobs
  BY <1>5 DEF Handle, FindCheck, PutCheck, Enqueue, UpdateRead, UpdateReread, UpdateSettle, Emit, rows
<1>6. Runner => UNCHANGED jobs
  BY DEF Runner, TakeRun, Export, NextJob, LastJob, Accepted, EmptyReply, Rejected, FirstLog, Execute, Collect, rows
<1>7. RunnerThrows \/ RunnerCrash \/ ApiCrash \/ UNCHANGED vars => UNCHANGED jobs
  BY DEF RunnerThrows, RunnerCrash, ApiCrash, vars, rows
<1>8. ASSUME NEW q \in Pipelines, CancelRead(q) \/ DropReply(q) \/ Redeliver(q)
      PROVE  UNCHANGED jobs
  BY <1>8 DEF CancelRead, DropReply, Redeliver, rows
<1> QED BY <1>1, <1>2, <1>3, <1>4, <1>5, <1>6, <1>7, <1>8 DEF Next

\* A job that has ended by itself keeps its outcome for good, although the write of
\* updateJobStatus does not look at the row again.
THEOREM FinishedJobsFinal == Spec => FinishedJobIsFinal
<1>1. IInv /\ [Next]_vars =>
        [\A p \in Pipelines, j \in Jobs :
           jobs[p][j] \in {"SUCCESS", "FAILURE"} => jobs'[p][j] = jobs[p][j]]_vars
  BY NextKeeps DEF Kept, Finished
<1> QED BY <1>1, Invariance, PTL DEF Spec, FinishedJobIsFinal

-----------------------------------------------------------------------------
(***************************************************************************)
(* For any number of pipelines and jobs: the jobs of a pipeline run in     *)
(* their order, its completion is announced once, and a cancel holds but   *)
(* for the two windows CancelHolds names.                                  *)
(*                                                                         *)
(* All three rest on the same facts: no two calls of updateJobStatus for   *)
(* one pipeline overlap (Places), a run has only succeeded or canceled     *)
(* jobs behind it (RunOrder, CallOK), and after a cancel either the        *)
(* pipeline stays canceled or none of its jobs can move (CancelOK).        *)
(***************************************************************************)

\* The steps of a call of updateJobStatus under way, and those after the job was written.
Written == {"reread", "settle", "find", "put", "emit", "ok"}
Calling == {"read", "write"} \cup Written

\* The jobs of p before the n-th have succeeded, or have been passed over as canceled.
Succeeded(p, n) == \A i \in Jobs : i < n => jobs[p][i] = "SUCCESS"
Passed(p, n) == \A i \in Jobs : i < n => jobs[p][i] \in {"SUCCESS", "CANCELED"}
AllOver(p) == \A j \in Jobs : jobs[p][j] \in Terminal

\* What the call h of updateJobStatus for p goes by.
CallOK(p, h) ==
  /\ h.step \in Calling =>
       /\ h.to \in Started \cup {"CANCELED"}
       /\ Passed(p, h.job)
       /\ h.to = "CANCELED" => cancelAt[p] # "none"
  /\ h.step = "read" =>
       /\ h.to = "RUNNING" => Succeeded(p, h.job) \/ AllOver(p)
       /\ h.to \in {"SUCCESS", "FAILURE"} =>
            Succeeded(p, h.job) /\ jobs[p][h.job] \in {"RUNNING", "CANCELED"}
  /\ h.step \in {"write"} \cup Written /\ h.to \in Started => Succeeded(p, h.job)
  /\ h.step \in Written => jobs[p][h.job] = h.to \/ (h.to = "RUNNING" /\ jobs[p][h.job] = "CANCELED")
  /\ h.step \in {"read", "write", "reread"} /\ h.to = "CANCELED" => status[p] = "CANCELED"
  /\ h.step \in {"write", "reread"} /\ h.to # "CANCELED" => cancelAt[p] # "settle"
  /\ h.step \in {"settle", "find", "put", "emit"} => h.snap # "CANCELED"
  /\ h.step \in {"write"} \cup (Written \ {"ok"}) => events[p] = <<>>

\* What a cancel has left for good, with the call h under way.
CancelOK(p, h) ==
  /\ cancelAt[p] \notin {"none", "settle"} => status[p] = "CANCELED" /\ h.step # "settle"
  /\ cancelAt[p] \notin {"none", "write"} => AllOver(p) /\ (h.step = "write" => h.to \in Terminal)
  /\ status[p] = "CANCELED" \/ (\E j \in Jobs : jobs[p][j] = "CANCELED") => cancelAt[p] # "none"
  /\ status[p] = "NONE" => cancelAt[p] = "none"

\* The jobs of p in their order, and its artifacts and events.
OrderOK(p) ==
  /\ \A j \in Jobs : jobs[p][j] \in Started => Succeeded(p, j)
  /\ \A j \in artifacts[p] : jobs[p][j] = "SUCCESS"
  /\ Len(events[p]) <= 1
  /\ \A i \in DOMAIN events[p] : events[p][i] # "CANCELED"

\* A run is in the queue once, or with the runner, or neither; it is called for only
\* while the runner has it, so that no two calls for one pipeline overlap.
Places ==
  /\ \A p \in Pipelines :
       /\ bull[p] \in {"none", "waiting"} => req[p]["update"].step = "idle"
       /\ req[p]["create"].step # "idle" => bull[p] = "none"
  /\ \A i \in DOMAIN queue : bull[queue[i]] = "waiting"
  /\ \A i, j \in DOMAIN queue : queue[i] = queue[j] => i = j
  /\ run # NoRun => bull[run.pipe] = "active"

\* What the runner has behind it.
RunOrder ==
  LET p == run.pipe
      h == req[p]["update"]
  IN run # NoRun =>
       /\ run.phase # "await" => h.step = "idle"
       /\ run.phase = "await" => h.step = "rejected" \/ (h.step # "idle" /\ h.job = run.pos)
       /\ run.phase \in {"export", "check"} =>
            Passed(p, run.pos) /\ (Succeeded(p, run.pos) \/ cancelAt[p] # "none")
       /\ run.phase \in {"log", "exec"} =>
            Succeeded(p, run.pos) /\ jobs[p][run.pos] \in {"RUNNING", "CANCELED"}
       /\ run.phase = "collect" => Succeeded(p, run.pos) /\ jobs[p][run.pos] = "SUCCESS"

PartOK(p) == CallOK(p, req[p]["update"]) /\ CancelOK(p, req[p]["update"]) /\ OrderOK(p)

OInv == IInv /\ (\A p \in Pipelines : PartOK(p)) /\ Places /\ RunOrder

-----------------------------------------------------------------------------
(***************************************************************************)
(* What a step leaves alone.                                               *)
(***************************************************************************)

\* What a step does not touch stays right.
LEMMA SamePart ==
  ASSUME NEW p \in Pipelines, PartOK(p), req'[p]["update"] = req[p]["update"],
         jobs'[p] = jobs[p], status'[p] = status[p], cancelAt'[p] = cancelAt[p],
         events'[p] = events[p], artifacts'[p] = artifacts[p]
  PROVE  PartOK(p)'
BY DEF PartOK, CallOK, CancelOK, OrderOK, Succeeded, Passed, AllOver

\* No run changes its place, and no call begins.
LEMMA SamePlaces ==
  ASSUME Places, bull' = bull, queue' = queue,
         run' = run \/ (run # NoRun /\ run'.pipe = run.pipe),
         \A q \in Pipelines : req[q]["update"].step = "idle" => req'[q]["update"].step = "idle",
         \A q \in Pipelines : req[q]["create"].step = "idle" => req'[q]["create"].step = "idle"
  PROVE  Places'
BY DEF Places

\* The run goes on as it was, with its call.
LEMMA SameRun ==
  ASSUME RunOrder, run' = run,
         run # NoRun => /\ jobs'[run.pipe] = jobs[run.pipe]
                        /\ cancelAt'[run.pipe] = cancelAt[run.pipe]
                        /\ req'[run.pipe]["update"] = req[run.pipe]["update"]
  PROVE  RunOrder'
BY DEF RunOrder, Succeeded, Passed

\* A call that moves on is the one the run waits for, or none the run knows of.
LEMMA RunAwaits ==
  ASSUME IInv, RunOrder, NEW p \in Pipelines, run' = run,
         req[p]["update"].step \notin {"idle", "rejected"},
         \/ req'[p]["update"].step = "rejected"
         \/ req'[p]["update"].step # "idle" /\ req'[p]["update"].job = req[p]["update"].job,
         \A q \in Pipelines \ {p} :
           /\ jobs'[q] = jobs[q] /\ cancelAt'[q] = cancelAt[q]
           /\ req'[q]["update"] = req[q]["update"]
  PROVE  RunOrder'
<1> SUFFICES ASSUME run # NoRun PROVE RunOrder'
  BY DEF RunOrder
<1>1. run.pipe \in Pipelines
  BY DEF IInv, RunOK
<1>2. CASE run.pipe = p
  <2>1. run.phase = "await"
    BY <1>2 DEF RunOrder
  <2>2. req'[p]["update"].step = "rejected" \/ (req'[p]["update"].step # "idle" /\ req'[p]["update"].job = run.pos)
    BY <1>2, <2>1 DEF RunOrder
  <2> QED BY <1>2, <2>1, <2>2 DEF RunOrder
<1>3. CASE run.pipe # p
  BY <1>1, <1>3, SameRun
<1> QED BY <1>2, <1>3

\* A call moves on, and with it the pipeline it is for.
LEMMA CallMoves ==
  ASSUME OInv, IInv', NEW p \in Pipelines, run' = run, bull' = bull, queue' = queue,
         req[p]["update"].step \notin {"idle", "rejected"},
         \/ req'[p]["update"].step = "rejected"
         \/ req'[p]["update"].step # "idle" /\ req'[p]["update"].job = req[p]["update"].job,
         \A q \in Pipelines, l \in Kinds : q # p \/ l # "update" => req'[q][l] = req[q][l],
         artifacts' = artifacts,
         \A q \in Pipelines \ {p} :
           /\ jobs'[q] = jobs[q] /\ status'[q] = status[q]
           /\ cancelAt'[q] = cancelAt[q] /\ events'[q] = events[q],
         PartOK(p)'
  PROVE  OInv'
<1>1. \A q \in Pipelines : q # p => req'[q]["update"] = req[q]["update"]
  BY DEF Kinds
<1>2. \A q \in Pipelines : req'[q]["create"] = req[q]["create"]
  BY DEF Kinds
<1>3. ASSUME NEW q \in Pipelines PROVE PartOK(q)'
  <2>1. CASE q = p
    BY <2>1
  <2>2. CASE q # p
    BY <1>1, <2>2, SamePart DEF OInv
  <2> QED BY <2>1, <2>2
<1>4. Places'
  BY <1>1, <1>2, SamePlaces DEF OInv
<1>5. RunOrder'
  BY <1>1, RunAwaits DEF OInv
<1> QED BY <1>3, <1>4, <1>5 DEF OInv

\* Only handlers of other calls move.
LEMMA OthersMove ==
  ASSUME OInv, IInv', jobs' = jobs, status' = status, cancelAt' = cancelAt, events' = events,
         artifacts' = artifacts, run' = run, bull' = bull, queue' = queue,
         \A q \in Pipelines : req'[q]["update"] = req[q]["update"],
         \A q \in Pipelines : req[q]["create"].step = "idle" => req'[q]["create"].step = "idle"
  PROVE  OInv'
<1>1. \A q \in Pipelines : PartOK(q)'
  BY SamePart DEF OInv
<1>2. Places' /\ RunOrder'
  <2>1. run # NoRun => run.pipe \in Pipelines
    BY DEF OInv, IInv, RunOK
  <2> QED BY <2>1, SamePlaces, SameRun DEF OInv
<1> QED BY <1>1, <1>2 DEF OInv

-----------------------------------------------------------------------------
(***************************************************************************)
(* The handlers.                                                           *)
(***************************************************************************)

\* The initial state has no calls, no runs and no cancels.
LEMMA InitOInv == Init => OInv
<1> SUFFICES ASSUME Init PROVE OInv
  OBVIOUS
<1>1. /\ \A p \in Pipelines, k \in Kinds : req[p][k] = Idle
      /\ \A p \in Pipelines : /\ events[p] = <<>> /\ artifacts[p] = {} /\ status[p] = "NONE"
                              /\ cancelAt[p] = "none" /\ bull[p] = "none"
                              /\ \A j \in Jobs : jobs[p][j] = "QUEUED"
      /\ queue = <<>> /\ run = NoRun
  BY DEF Init
<1>2. ASSUME NEW p \in Pipelines PROVE PartOK(p)
  <2>1. req[p]["update"].step = "idle"
    BY <1>1, IdleHandler DEF Kinds
  <2>2. CallOK(p, req[p]["update"])
    BY <2>1 DEF CallOK, Calling, Written
  <2>3. CancelOK(p, req[p]["update"]) /\ OrderOK(p)
    BY <1>1 DEF CancelOK, OrderOK, Started
  <2> QED BY <2>2, <2>3 DEF PartOK
<1>3. Places /\ RunOrder
  BY <1>1, IdleHandler DEF Places, RunOrder, Kinds
<1> QED BY <1>2, <1>3, InitIInv DEF OInv

\* A pipeline that is created had no call and no cancel.
LEMMA CreateOrder ==
  ASSUME OInv, IInv', NEW p \in Pipelines, Create(p)
  PROVE  OInv'
<1>1. /\ events' = events /\ artifacts' = artifacts /\ cancelAt' = cancelAt
      /\ run' = run /\ bull' = bull /\ queue' = queue
      /\ status[p] = "NONE" /\ TypeOK /\ "create" \in Kinds
  BY DEF Create, bus, OInv, IInv, Kinds
<1>2. status'[p] = "QUEUED" /\ \A q \in Pipelines \ {p} : status'[q] = status[q]
  BY <1>1 DEF Create, TypeOK
<1>3. bull[p] = "none" /\ \A j \in Jobs : jobs[p][j] = "QUEUED"
  BY <1>1 DEF OInv, IInv, NotYet
<1>4. jobs' = jobs
  <2>1. jobs[p] = [j \in Jobs |-> "QUEUED"]
    BY <1>1, <1>3 DEF TypeOK
  <2> QED BY <1>1, <2>1 DEF Create, TypeOK
<1>5. \A q \in Pipelines, l \in Kinds : q # p \/ l # "create" => req'[q][l] = req[q][l]
  BY <1>1 DEF Create, TypeOK
<1>6. \A q \in Pipelines : req'[q]["update"] = req[q]["update"]
  BY <1>5 DEF Kinds
<1>7. req[p]["update"].step = "idle"
  BY <1>3 DEF OInv, Places
<1>8. ASSUME NEW q \in Pipelines PROVE PartOK(q)'
  <2>1. CASE q # p
    BY <1>1, <1>2, <1>4, <1>6, <2>1, SamePart DEF OInv
  <2>2. CASE q = p
    <3>1. CallOK(p, req[p]["update"])'
      BY <1>6, <1>7 DEF CallOK, Calling, Written
    <3>2. cancelAt[p] = "none" /\ OrderOK(p)
      BY <1>1 DEF OInv, PartOK, CancelOK
    <3>3. CancelOK(p, req[p]["update"])'
      BY <1>1, <1>2, <1>3, <1>4, <3>2 DEF CancelOK
    <3>4. OrderOK(p)'
      BY <1>1, <1>4, <3>2 DEF OrderOK, Succeeded
    <3> QED BY <2>2, <3>1, <3>3, <3>4 DEF PartOK
  <2> QED BY <2>1, <2>2
<1>9. Places'
  <2>1. \A q \in Pipelines : q # p => req'[q]["create"] = req[q]["create"]
    BY <1>5 DEF Kinds
  <2> QED BY <1>1, <1>3, <1>6, <2>1 DEF OInv, Places
<1>10. RunOrder'
  <2>1. run # NoRun => run.pipe \in Pipelines
    BY DEF OInv, IInv, RunOK
  <2> QED BY <1>1, <1>4, <1>6, <2>1, SameRun DEF OInv
<1> QED BY <1>8, <1>9, <1>10 DEF OInv

\* A run that is put in the queue was not there before.
LEMMA EnqueueOrder ==
  ASSUME OInv, IInv', NEW p \in Pipelines, Enqueue(p)
  PROVE  OInv'
<1>1. /\ jobs' = jobs /\ status' = status /\ events' = events /\ artifacts' = artifacts
      /\ cancelAt' = cancelAt /\ run' = run /\ TypeOK /\ "create" \in Kinds
      /\ queue' = Append(queue, p) /\ bull' = [bull EXCEPT ![p] = "waiting"]
  BY DEF Enqueue, rows, OInv, IInv, Kinds
<1>2. \A q \in Pipelines, l \in Kinds : req'[q][l] = IF q = p /\ l = "create" THEN Idle ELSE req[q][l]
  BY <1>1 DEF Enqueue, TypeOK
<1>3. \A q \in Pipelines : req'[q]["update"] = req[q]["update"]
  BY <1>2 DEF Kinds
<1>4. bull[p] = "none" /\ bull'[p] = "waiting" /\ \A q \in Pipelines : q # p => bull'[q] = bull[q]
  BY <1>1 DEF Enqueue, At, OInv, Places, TypeOK
<1>5. \A q \in Pipelines : PartOK(q)'
  BY <1>1, <1>3, SamePart DEF OInv
<1>6. /\ queue \in Seq(Pipelines)
      /\ \A i \in DOMAIN queue : queue[i] # p /\ queue[i] \in Pipelines
  BY <1>1, <1>4 DEF TypeOK, OInv, Places
<1>7. \A i \in DOMAIN queue' : \/ i \in DOMAIN queue /\ queue'[i] = queue[i] /\ i # Len(queue) + 1
                               \/ i = Len(queue) + 1 /\ queue'[i] = p
  BY <1>1, <1>6
<1>8. Places'
  <2>1. \A q \in Pipelines : /\ bull'[q] \in {"none", "waiting"} => req'[q]["update"].step = "idle"
                             /\ req'[q]["create"].step # "idle" => bull'[q] = "none"
    BY <1>1, <1>2, <1>3, <1>4, IdleHandler DEF OInv, Places, Kinds
  <2>2. \A i \in DOMAIN queue' : bull'[queue'[i]] = "waiting"
    BY <1>4, <1>6, <1>7 DEF OInv, Places
  <2>3. \A i, j \in DOMAIN queue' : queue'[i] = queue'[j] => i = j
    BY <1>6, <1>7 DEF OInv, Places
  <2>4. run' # NoRun => bull'[run'.pipe] = "active"
    <3>1. run # NoRun => run.pipe \in Pipelines /\ bull[run.pipe] = "active"
      BY DEF OInv, IInv, RunOK, Places
    <3> QED BY <1>1, <1>4, <3>1
  <2> QED BY <2>1, <2>2, <2>3, <2>4 DEF Places
<1>9. RunOrder'
  <2>1. run # NoRun => run.pipe \in Pipelines
    BY DEF OInv, IInv, RunOK
  <2> QED BY <1>1, <1>3, <2>1, SameRun DEF OInv
<1> QED BY <1>5, <1>8, <1>9 DEF OInv

\* Of the two queries for the check, updateJobStatus's change nothing its call relies on.
LEMMA CheckOrder ==
  ASSUME OInv, IInv', NEW p \in Pipelines, NEW k \in Kinds, FindCheck(p, k) \/ PutCheck(p, k)
  PROVE  OInv'
<1>1. /\ jobs' = jobs /\ status' = status /\ events' = events /\ artifacts' = artifacts
      /\ cancelAt' = cancelAt /\ run' = run /\ bull' = bull /\ queue' = queue
      /\ TypeOK /\ req[p][k] \in Handler /\ req[p][k].step \in {"find", "put"}
  <2>1. TypeOK
    BY DEF OInv, IInv
  <2>2. req[p][k] \in Handler
    BY <2>1 DEF TypeOK
  <2> QED BY <2>1, <2>2 DEF FindCheck, PutCheck, At, rows, bus
<1> PICK h : h = req'[p][k]
  OBVIOUS
<1>2. \A q \in Pipelines, l \in Kinds : q # p \/ l # k => req'[q][l] = req[q][l]
  <2>1. PICK g : req' = [req EXCEPT ![p][k] = g]
    BY DEF FindCheck, PutCheck
  <2> QED BY <1>1, <2>1 DEF TypeOK
<1>3. CASE k # "update"
  <2>1. \A q \in Pipelines : req'[q]["update"] = req[q]["update"]
    BY <1>2, <1>3 DEF Kinds
  <2>2. \A q \in Pipelines : req[q]["create"].step = "idle" => req'[q]["create"].step = "idle"
    BY <1>1, <1>2 DEF Kinds
  <2> QED BY <1>1, <2>1, <2>2, OthersMove
<1>4. CASE k = "update"
  <2>1. /\ h.step \in {"put", "emit"} /\ h.job = req[p]["update"].job
        /\ h.to = req[p]["update"].to /\ h.snap = req[p]["update"].snap
    <3>1. CASE FindCheck(p, k)
      <4>1. PICK r : req' = [req EXCEPT ![p][k] = [@ EXCEPT !.step = "put", !.row = r]]
        BY <3>1 DEF FindCheck
      <4>2. h = [req[p][k] EXCEPT !.step = "put", !.row = r]
        BY <1>1, <4>1 DEF TypeOK
      <4> QED BY <1>1, <1>4, <4>2 DEF Handler
    <3>2. CASE PutCheck(p, k)
      <4>1. h = [req[p][k] EXCEPT !.step = "emit", !.row = 0]
        BY <1>1, <1>4, <3>2 DEF PutCheck, AfterCheck, TypeOK
      <4> QED BY <1>1, <1>4, <4>1 DEF Handler
    <3> QED BY <3>1, <3>2
  <2>2. PartOK(p) /\ req[p]["update"].step \in {"find", "put"} /\ h = req'[p]["update"]
    BY <1>1, <1>4 DEF OInv
  <2>3. CallOK(p, req[p]["update"])'
    BY <1>1, <2>1, <2>2 DEF PartOK, CallOK, Calling, Written, Succeeded, Passed
  <2>4. CancelOK(p, req[p]["update"])'
    BY <1>1, <2>1, <2>2 DEF PartOK, CancelOK, AllOver
  <2>5. OrderOK(p)'
    BY <1>1, <2>2 DEF PartOK, OrderOK, Succeeded
  <2>6. PartOK(p)'
    BY <2>3, <2>4, <2>5 DEF PartOK
  <2> QED BY <1>1, <1>2, <1>4, <2>1, <2>2, <2>6, CallMoves
<1> QED BY <1>3, <1>4

LEMMA CancelReadOrder ==
  ASSUME OInv, IInv', NEW p \in Pipelines, CancelRead(p)
  PROVE  OInv'
<1>1. /\ jobs' = jobs /\ status' = status /\ events' = events /\ artifacts' = artifacts
      /\ cancelAt' = cancelAt /\ run' = run /\ bull' = bull /\ queue' = queue
      /\ TypeOK /\ "cancel" \in Kinds /\ "cancelWrite" \in Steps /\ GoTo(p, "cancel", "cancelWrite")
  BY DEF CancelRead, rows, bus, OInv, IInv, Kinds, Steps
<1>2. \A q \in Pipelines, l \in Kinds : q # p \/ l # "cancel" => req'[q][l] = req[q][l]
  BY <1>1, GoToHandler
<1>3. \A q \in Pipelines : req'[q]["update"] = req[q]["update"] /\ req'[q]["create"] = req[q]["create"]
  BY <1>2 DEF Kinds
<1> QED BY <1>1, <1>3, OthersMove

\* A cancel ends the jobs that have not ended: what has succeeded is not touched.
LEMMA CancelWriteOrder ==
  ASSUME OInv, IInv', NEW p \in Pipelines, CancelWrite(p)
  PROVE  OInv'
<1> PICK u : u = req[p]["update"]
  OBVIOUS
<1>1. /\ events' = events /\ artifacts' = artifacts /\ run' = run /\ bull' = bull /\ queue' = queue
      /\ TypeOK /\ "cancel" \in Kinds /\ "update" \in Kinds
  BY DEF CancelWrite, bus, OInv, IInv, Kinds
<1>2. \A q \in Pipelines, l \in Kinds : q # p \/ l # "cancel" => req'[q][l] = req[q][l]
  BY <1>1 DEF CancelWrite, TypeOK
<1>3. \A q \in Pipelines : req'[q]["update"] = req[q]["update"] /\ req'[q]["create"] = req[q]["create"]
  BY <1>2 DEF Kinds
<1>4. /\ \A q \in Pipelines \ {p} : jobs'[q] = jobs[q]
      /\ \A j \in Jobs : jobs[p][j] \in JobStatus /\
           jobs'[p][j] = IF jobs[p][j] \in {"QUEUED", "RUNNING"} THEN "CANCELED" ELSE jobs[p][j]
  BY <1>1 DEF CancelWrite, TypeOK
<1>5. /\ status'[p] = "CANCELED" /\ cancelAt'[p] = u.step
      /\ \A q \in Pipelines \ {p} : status'[q] = status[q] /\ cancelAt'[q] = cancelAt[q]
  BY <1>1 DEF CancelWrite, TypeOK
<1>6. u \in Handler /\ u.step \in Steps /\ u.step # "none" /\ PartOK(p) /\ HandlerOK(p, "update", u)
  <2>1. u \in Handler
    BY <1>1 DEF TypeOK
  <2>2. u.step \in Steps /\ u.step # "none"
    BY <2>1 DEF Handler, Steps
  <2> QED BY <1>1, <2>1, <2>2 DEF OInv, IInv, HandlersOK
<1>7. AllOver(p)'
  BY <1>4 DEF AllOver, Terminal, JobStatus
<1>8. \A n : /\ Succeeded(p, n) => Succeeded(p, n)'
             /\ Passed(p, n) => Passed(p, n)'
  BY <1>4 DEF Succeeded, Passed
<1>9. CallOK(p, req[p]["update"])'
  <2>1. u.step \in Calling => u.job \in Jobs
    BY <1>6 DEF HandlerOK, Calling, Written
  <2>2. u.step \in Calling =>
          /\ u.to \in Started \cup {"CANCELED"} /\ Passed(p, u.job)' /\ cancelAt'[p] # "none"
    BY <1>5, <1>6, <1>8 DEF PartOK, CallOK
  <2>3. u.step = "read" =>
          /\ u.to = "RUNNING" => Succeeded(p, u.job)' \/ AllOver(p)'
          /\ u.to \in {"SUCCESS", "FAILURE"} =>
               Succeeded(p, u.job)' /\ jobs'[p][u.job] \in {"RUNNING", "CANCELED"}
    BY <1>4, <1>6, <1>7, <1>8, <2>1 DEF PartOK, CallOK, Calling
  <2>4. u.step \in {"write"} \cup Written /\ u.to \in Started => Succeeded(p, u.job)'
    BY <1>6, <1>8 DEF PartOK, CallOK
  <2>5. u.step \in Written =>
          jobs'[p][u.job] = u.to \/ (u.to = "RUNNING" /\ jobs'[p][u.job] = "CANCELED")
    <3> SUFFICES ASSUME u.step \in Written
                 PROVE  jobs'[p][u.job] = u.to \/ (u.to = "RUNNING" /\ jobs'[p][u.job] = "CANCELED")
      OBVIOUS
    <3>1. u.job \in Jobs /\ u.to \in Started \cup {"CANCELED"}
      BY <2>1, <2>2 DEF Calling
    <3>2. jobs[p][u.job] = u.to \/ (u.to = "RUNNING" /\ jobs[p][u.job] = "CANCELED")
      BY <1>6 DEF PartOK, CallOK
    <3> QED BY <1>4, <3>1, <3>2 DEF Started
  <2>6. u.step \in {"write", "reread"} => cancelAt'[p] # "settle"
    BY <1>5
  <2>7. u.step \in {"settle", "find", "put", "emit"} => u.snap # "CANCELED"
    BY <1>6 DEF PartOK, CallOK
  <2>8. u.step \in {"write"} \cup (Written \ {"ok"}) => events'[p] = <<>>
    BY <1>1, <1>6 DEF PartOK, CallOK
  <2>9. u = req'[p]["update"]
    BY <1>3
  <2> QED BY <1>5, <2>2, <2>3, <2>4, <2>5, <2>6, <2>7, <2>8, <2>9 DEF CallOK
<1>10. CancelOK(p, req[p]["update"])'
  BY <1>3, <1>5, <1>6, <1>7 DEF CancelOK
<1>11. OrderOK(p)'
  <2>1. \A j \in Jobs : jobs'[p][j] \in Started => Succeeded(p, j)'
    BY <1>4, <1>6, <1>8 DEF PartOK, OrderOK, Started
  <2>2. \A j \in artifacts'[p] : jobs'[p][j] = "SUCCESS"
    <3>1. artifacts[p] \subseteq Jobs
      BY <1>1 DEF TypeOK
    <3> QED BY <1>1, <1>4, <1>6, <3>1 DEF PartOK, OrderOK
  <2> QED BY <1>1, <1>6, <2>1, <2>2 DEF PartOK, OrderOK
<1>12. \A q \in Pipelines : PartOK(q)'
  <2>1. PartOK(p)'
    BY <1>9, <1>10, <1>11 DEF PartOK
  <2>2. \A q \in Pipelines : q # p => PartOK(q)'
    BY <1>1, <1>3, <1>4, <1>5, SamePart DEF OInv
  <2> QED BY <2>1, <2>2
<1>13. Places'
  BY <1>1, <1>3, SamePlaces DEF OInv
<1>14. RunOrder'
  <2> SUFFICES ASSUME run # NoRun PROVE RunOrder'
    BY <1>1 DEF RunOrder
  <2>1. run.pipe \in Pipelines /\ (run.phase \in {"log", "exec", "collect"} => run.pos \in Jobs)
    BY DEF OInv, IInv, RunOK
  <2>2. CASE run.pipe # p
    BY <1>1, <1>3, <1>4, <1>5, <2>1, <2>2, SameRun DEF OInv
  <2>3. CASE run.pipe = p
    <3>1. run.phase \in {"log", "exec"} => jobs'[p][run.pos] \in {"RUNNING", "CANCELED"}
      BY <1>4, <2>1, <2>3 DEF OInv, RunOrder
    <3>2. run.phase = "collect" => jobs'[p][run.pos] = "SUCCESS"
      BY <1>4, <2>1, <2>3 DEF OInv, RunOrder
    <3> QED BY <1>1, <1>3, <1>5, <1>6, <1>8, <2>3, <3>1, <3>2 DEF OInv, RunOrder
  <2> QED BY <2>2, <2>3
<1> QED BY <1>12, <1>13, <1>14 DEF OInv

\* A job that may still change is one of a pipeline that has not announced its end.
LEMMA NotAnnounced ==
  ASSUME OInv, NEW p \in Pipelines, NEW u, u = req[p]["update"], u.step = "read",
         CanTransitionJob(jobs[p][u.job], u.to)
  PROVE  /\ events[p] = <<>>
         /\ u.to # "CANCELED" => jobs[p][u.job] \in {"QUEUED", "RUNNING"} /\ Succeeded(p, u.job)
<1>1. /\ u.job \in Jobs /\ jobs[p][u.job] \in JobStatus /\ events[p] \in Seq(Terminal)
      /\ CallOK(p, u) /\ OrderOK(p) /\ EventsEarned
  <2>1. TypeOK /\ "update" \in Kinds /\ HandlerOK(p, "update", u)
    BY DEF OInv, IInv, HandlersOK, Kinds
  <2>2. u.job \in Jobs
    BY <2>1 DEF HandlerOK
  <2> QED BY <2>1, <2>2 DEF TypeOK, OInv, IInv, PartOK
<1>2. u.to \in Started \cup {"CANCELED"} /\ Passed(p, u.job)
  BY <1>1 DEF CallOK, Calling
<1>3. u.to \in {"SUCCESS", "FAILURE"} => Succeeded(p, u.job) /\ jobs[p][u.job] = "RUNNING"
  BY <1>1 DEF CallOK, CanTransitionJob
<1>4. u.to = "RUNNING" => Succeeded(p, u.job) /\ jobs[p][u.job] \in {"QUEUED", "RUNNING"}
  BY <1>1 DEF CallOK, CanTransitionJob, AllOver, Terminal
<1>5. u.to = "CANCELED" => jobs[p][u.job] \in {"QUEUED", "RUNNING", "CANCELED"}
  BY <1>1 DEF CanTransitionJob, JobStatus, Terminal
<1>6. ~AllSucceeded(p)
  BY <1>1, <1>2, <1>3, <1>4, <1>5 DEF AllSucceeded, Started
<1>7. ~SomeFailed(p)
  <2> SUFFICES ASSUME NEW f \in Jobs, jobs[p][f] = "FAILURE" PROVE FALSE
    BY DEF SomeFailed
  <2>1. Succeeded(p, f)
    BY <1>1 DEF OrderOK, Started
  <2>2. f < u.job \/ f = u.job \/ u.job < f
    BY <1>1, PipelinesAssumption DEF Jobs
  <2> QED BY <1>1, <1>2, <1>3, <1>4, <1>5, <2>1, <2>2 DEF Passed, Succeeded, Started
<1>8. events[p] = <<>>
  <2> SUFFICES ASSUME events[p] # <<>> PROVE FALSE
    OBVIOUS
  <2>1. 1 \in DOMAIN events[p] /\ events[p][1] \in Terminal
    BY <1>1
  <2>2. events[p][1] \in {"SUCCESS", "FAILURE"} /\ Earned(p, events[p][1])
    BY <1>1, <2>1 DEF OrderOK, EventsEarned, Terminal
  <2> QED BY <1>6, <1>7, <2>2 DEF Earned
<1> QED BY <1>2, <1>3, <1>4, <1>8 DEF Started

LEMMA UpdateReadOrder ==
  ASSUME OInv, IInv', NEW p \in Pipelines, UpdateRead(p)
  PROVE  OInv'
<1> PICK u : u = req[p]["update"]
  OBVIOUS
<1> PICK s : s = IF CanTransitionJob(jobs[p][u.job], u.to) THEN "write" ELSE "rejected"
  OBVIOUS
<1>1. /\ jobs' = jobs /\ status' = status /\ events' = events /\ artifacts' = artifacts
      /\ cancelAt' = cancelAt /\ run' = run /\ bull' = bull /\ queue' = queue
      /\ TypeOK /\ "update" \in Kinds /\ s \in Steps /\ GoTo(p, "update", s) /\ u.step = "read"
  BY DEF UpdateRead, At, rows, bus, OInv, IInv, Kinds, Steps
<1> PICK h : h = req'[p]["update"]
  OBVIOUS
<1>2. /\ h.step = s /\ h.job = u.job /\ h.to = u.to /\ h.snap = u.snap
      /\ \A q \in Pipelines, l \in Kinds : q # p \/ l # "update" => req'[q][l] = req[q][l]
  BY <1>1, GoToHandler
<1>3. CallOK(p, u) /\ CancelOK(p, u) /\ OrderOK(p)
  BY DEF OInv, PartOK
<1>4. CASE s = "rejected"
  <2>1. CallOK(p, h)' /\ CancelOK(p, h)'
    BY <1>1, <1>2, <1>3, <1>4 DEF CallOK, CancelOK, Calling, Written, AllOver
  <2>2. PartOK(p)'
    BY <1>1, <1>3, <2>1 DEF PartOK, OrderOK, Succeeded
  <2> QED BY <1>1, <1>2, <1>4, <2>2, CallMoves
<1>5. CASE s = "write"
  <2>1. /\ events[p] = <<>>
        /\ u.to # "CANCELED" => jobs[p][u.job] \in {"QUEUED", "RUNNING"} /\ Succeeded(p, u.job)
    BY <1>1, <1>5, NotAnnounced
  <2>2. CanTransitionJob(jobs[p][u.job], u.to)
    BY <1>5
  <2>3. u.job \in Jobs /\ u.to \in Started \cup {"CANCELED"}
    <3>1. HandlerOK(p, "update", u)
      BY <1>1 DEF OInv, IInv, HandlersOK
    <3> QED BY <1>1, <1>3, <3>1 DEF HandlerOK, CallOK, Calling
  <2>4. AllOver(p) => u.to = "CANCELED"
    BY <2>1, <2>3 DEF AllOver, Terminal
  <2>5. u.to # "CANCELED" => cancelAt[p] # "settle"
    BY <1>3, <2>4 DEF CancelOK
  <2>6. CallOK(p, h)'
    <3>1. Calling = {"read", "write"} \cup Written /\ "write" \notin Written /\ "write" \in Calling
      BY DEF Calling, Written
    <3>2. u.to \in Started => u.to # "CANCELED"
      BY DEF Started
    <3>3. Passed(p, u.job) /\ (u.to = "CANCELED" => cancelAt[p] # "none" /\ status[p] = "CANCELED")
      BY <1>1, <1>3 DEF CallOK, Calling
    <3>4. (Passed(p, h.job) <=> Passed(p, u.job))' /\ (Succeeded(p, h.job) <=> Succeeded(p, u.job))'
      BY <1>2
    <3>5. Passed(p, u.job)' /\ (u.to # "CANCELED" => Succeeded(p, u.job)')
      BY <1>1, <2>1, <3>3 DEF Passed, Succeeded
    <3> QED BY <1>1, <1>2, <1>5, <2>1, <2>3, <2>5, <3>1, <3>2, <3>3, <3>4, <3>5 DEF CallOK
  <2>7. CancelOK(p, h)'
    <3>1. CancelOK(p, u) /\ (AllOver(p)' <=> AllOver(p))
      BY <1>1, <1>3 DEF AllOver
    <3> QED BY <1>1, <1>2, <1>5, <2>4, <3>1 DEF CancelOK, Terminal
  <2>8. PartOK(p)'
    BY <1>1, <1>3, <2>6, <2>7 DEF PartOK, OrderOK, Succeeded
  <2> QED BY <1>1, <1>2, <1>5, <2>8, CallMoves
<1> QED BY <1>4, <1>5

\* What is written is a job whose predecessors have succeeded, or one that is passed over.
LEMMA UpdateWriteOrder ==
  ASSUME OInv, IInv', NEW p \in Pipelines, UpdateWrite(p)
  PROVE  OInv'
<1> PICK u : u = req[p]["update"]
  OBVIOUS
<1>1. /\ status' = status /\ events' = events /\ artifacts' = artifacts
      /\ cancelAt' = cancelAt /\ run' = run /\ bull' = bull /\ queue' = queue
      /\ TypeOK /\ "update" \in Kinds /\ "reread" \in Steps /\ GoTo(p, "update", "reread")
      /\ u.step = "write"
  BY DEF UpdateWrite, At, bus, OInv, IInv, Kinds, Steps
<1> PICK h : h = req'[p]["update"]
  OBVIOUS
<1>2. /\ h.step = "reread" /\ h.job = u.job /\ h.to = u.to /\ h.snap = u.snap
      /\ \A q \in Pipelines, l \in Kinds : q # p \/ l # "update" => req'[q][l] = req[q][l]
  BY <1>1, GoToHandler
<1>3. CallOK(p, u) /\ CancelOK(p, u) /\ OrderOK(p) /\ Kept(p) /\ HandlerOK(p, "update", u)
  BY <1>1, UpdateWriteStep DEF OInv, PartOK, IInv, HandlersOK
<1>4. u.job \in Jobs /\ u.to \in Started \cup {"CANCELED"} /\ Passed(p, u.job)
  BY <1>1, <1>3 DEF HandlerOK, CallOK, Calling
<1>5. /\ \A q \in Pipelines \ {p} : jobs'[q] = jobs[q]
      /\ \A j \in Jobs : jobs'[p][j] = IF j = u.job THEN u.to ELSE jobs[p][j]
  BY <1>1, <1>4 DEF UpdateWrite, TypeOK
<1>6. \A n : Succeeded(p, n) => Succeeded(p, n)'
  BY <1>3 DEF Succeeded, Kept, Finished
<1>7. u.to \in Started => Succeeded(p, u.job)'
  BY <1>1, <1>3, <1>6 DEF CallOK
<1>8. Passed(p, u.job)' /\ jobs'[p][u.job] = u.to
  <2>1. ~(u.job < u.job)
    BY <1>4, PipelinesAssumption DEF Jobs
  <2> QED BY <1>4, <1>5, <2>1 DEF Passed
<1>9. CallOK(p, h)'
  <2>1. /\ "reread" \in Written /\ "reread" \in Calling /\ "reread" \in Written \ {"ok"}
    BY DEF Calling, Written
  <2>2. /\ u.to = "CANCELED" => cancelAt[p] # "none" /\ status[p] = "CANCELED"
        /\ u.to # "CANCELED" => cancelAt[p] # "settle"
        /\ events[p] = <<>>
    BY <1>1, <1>3 DEF CallOK, Calling
  <2>3. (Passed(p, h.job) <=> Passed(p, u.job))' /\ (Succeeded(p, h.job) <=> Succeeded(p, u.job))'
    BY <1>2
  <2> QED BY <1>1, <1>2, <1>4, <1>7, <1>8, <2>1, <2>2, <2>3 DEF CallOK
<1>10. CancelOK(p, h)'
  <2>1. cancelAt[p] \notin {"none", "write"} => AllOver(p)'
    BY <1>1, <1>3, <1>5 DEF CancelOK, AllOver
  <2>2. u.to = "CANCELED" => cancelAt[p] # "none"
    BY <1>1, <1>3 DEF CallOK, Calling
  <2>3. (\E j \in Jobs : jobs'[p][j] = "CANCELED") => cancelAt[p] # "none"
    BY <1>3, <1>5, <2>2 DEF CancelOK
  <2> QED BY <1>1, <1>2, <1>3, <2>1, <2>3 DEF CancelOK
<1>11. OrderOK(p)'
  <2>1. \A j \in Jobs : jobs'[p][j] \in Started => Succeeded(p, j)'
    <3> SUFFICES ASSUME NEW j \in Jobs, jobs'[p][j] \in Started PROVE Succeeded(p, j)'
      OBVIOUS
    <3>1. CASE j = u.job
      BY <1>5, <1>7, <3>1
    <3>2. CASE j # u.job
      BY <1>3, <1>5, <1>6, <3>2 DEF OrderOK
    <3> QED BY <3>1, <3>2
  <2>2. \A j \in artifacts'[p] : jobs'[p][j] = "SUCCESS"
    <3>1. artifacts[p] \subseteq Jobs
      BY <1>1 DEF TypeOK
    <3> QED BY <1>1, <1>3, <3>1 DEF OrderOK, Kept, Finished
  <2> QED BY <1>1, <1>3, <2>1, <2>2 DEF OrderOK
<1>12. PartOK(p)'
  BY <1>9, <1>10, <1>11 DEF PartOK
<1> QED BY <1>1, <1>2, <1>5, <1>12, CallMoves

\* A sum that is going to be stored was made of jobs no cancel had touched.
LEMMA UpdateRereadOrder ==
  ASSUME OInv, IInv', NEW p \in Pipelines, UpdateReread(p)
  PROVE  OInv'
<1> PICK u : u = req[p]["update"]
  OBVIOUS
<1>1. /\ jobs' = jobs /\ status' = status /\ events' = events /\ artifacts' = artifacts
      /\ cancelAt' = cancelAt /\ run' = run /\ bull' = bull /\ queue' = queue
      /\ TypeOK /\ "update" \in Kinds /\ "ok" \in Steps /\ u.step = "reread"
  BY DEF UpdateReread, At, rows, bus, OInv, IInv, Kinds, Steps
<1>2. CallOK(p, u) /\ CancelOK(p, u) /\ OrderOK(p)
  BY DEF OInv, PartOK
<1> PICK h : h = req'[p]["update"]
  OBVIOUS
<1>3. /\ h.job = u.job /\ h.to = u.to
      /\ \A q \in Pipelines, l \in Kinds : q # p \/ l # "update" => req'[q][l] = req[q][l]
      /\ h.step = "ok" \/ (h.step = "settle" /\ h.snap # "CANCELED" /\ cancelAt[p] = "none")
  <2>1. CASE GoTo(p, "update", "ok")
    BY <1>1, <2>1, GoToHandler
  <2>2. CASE ~GoTo(p, "update", "ok")
    <3> PICK s : s = AggregatePipelineStatus(jobs[p], status[p])
      OBVIOUS
    <3>1. req' = [req EXCEPT ![p]["update"] = [@ EXCEPT !.step = "settle", !.snap = s]] /\ status[p] # "CANCELED"
      BY <2>2 DEF UpdateReread
    <3>2. u \in Handler /\ h = [u EXCEPT !.step = "settle", !.snap = s]
      BY <1>1, <3>1 DEF TypeOK
    <3>3. h.job = u.job /\ h.to = u.to /\ h.step = "settle" /\ h.snap = s
      BY <3>2 DEF Handler
    <3>4. cancelAt[p] = "none"
      BY <1>1, <1>2, <3>1 DEF CallOK, CancelOK
    <3>5. s # "CANCELED"
      <4>1. \A j \in DOMAIN jobs[p] : jobs[p][j] # "CANCELED"
        BY <1>1, <1>2, <3>4 DEF CancelOK, TypeOK
      <4> QED BY <3>1, <4>1 DEF AggregatePipelineStatus
    <3>6. \A q \in Pipelines, l \in Kinds : q # p \/ l # "update" => req'[q][l] = req[q][l]
      BY <1>1, <3>1 DEF TypeOK
    <3> QED BY <3>3, <3>4, <3>5, <3>6
  <2> QED BY <2>1, <2>2
<1>4. CallOK(p, h)'
  <2>1. CallOK(p, u)'
    BY <1>1, <1>2 DEF CallOK, Succeeded, Passed, AllOver
  <2>2. CallOK(p, h)' <=> CallOK(p, h)
    BY <1>1 DEF CallOK, Succeeded, Passed, AllOver
  <2>3. CallOK(p, h)
    BY <1>1, <1>2, <1>3 DEF CallOK, Calling, Written
  <2> QED BY <2>2, <2>3
<1>5. CancelOK(p, h)'
  BY <1>1, <1>2, <1>3 DEF CancelOK, AllOver
<1>6. PartOK(p)'
  BY <1>1, <1>2, <1>4, <1>5 DEF PartOK, OrderOK, Succeeded
<1> QED BY <1>1, <1>3, <1>6, CallMoves

\* What is stored does not undo a cancel but in the window CancelHolds names.
LEMMA UpdateSettleOrder ==
  ASSUME OInv, IInv', NEW p \in Pipelines, UpdateSettle(p)
  PROVE  OInv'
<1> PICK u : u = req[p]["update"]
  OBVIOUS
<1> PICK s : s = IF u.snap \in Terminal THEN "find" ELSE "ok"
  OBVIOUS
<1>1. /\ jobs' = jobs /\ events' = events /\ artifacts' = artifacts
      /\ cancelAt' = cancelAt /\ run' = run /\ bull' = bull /\ queue' = queue
      /\ TypeOK /\ "update" \in Kinds /\ s \in Steps /\ GoTo(p, "update", s) /\ u.step = "settle"
  BY DEF UpdateSettle, At, bus, OInv, IInv, Kinds, Steps
<1> PICK h : h = req'[p]["update"]
  OBVIOUS
<1>2. /\ h.step = s /\ h.job = u.job /\ h.to = u.to /\ h.snap = u.snap
      /\ \A q \in Pipelines, l \in Kinds : q # p \/ l # "update" => req'[q][l] = req[q][l]
  BY <1>1, GoToHandler
<1>3. CallOK(p, u) /\ CancelOK(p, u) /\ OrderOK(p) /\ HandlerOK(p, "update", u)
  BY <1>1 DEF OInv, PartOK, IInv, HandlersOK
<1>4. u.snap \in PipelineStatus /\ u.snap # "CANCELED" /\ u.snap # "NONE"
  BY <1>1, <1>3 DEF HandlerOK, CallOK, PipelineStatus
<1>5. status'[p] = u.snap /\ \A q \in Pipelines \ {p} : status'[q] = status[q]
  BY <1>1 DEF UpdateSettle, TypeOK
<1>6. CallOK(p, h)'
  <2>1. /\ h.step \in {"find", "ok"} /\ h.step \in Written /\ h.step \in Calling
        /\ u.step \in Written \ {"ok"} /\ u.step \in Calling
    BY <1>1, <1>2 DEF Calling, Written
  <2>2. (Passed(p, h.job) <=> Passed(p, h.job)') /\ (Succeeded(p, h.job) <=> Succeeded(p, h.job)')
    BY <1>1 DEF Passed, Succeeded
  <2> QED BY <1>1, <1>2, <1>3, <2>1, <2>2 DEF CallOK
<1>7. CancelOK(p, h)'
  <2>1. AllOver(p)' <=> AllOver(p)
    BY <1>1 DEF AllOver
  <2> QED BY <1>1, <1>2, <1>3, <1>4, <1>5, <2>1 DEF CancelOK
<1>8. PartOK(p)'
  BY <1>1, <1>3, <1>6, <1>7 DEF PartOK, OrderOK, Succeeded
<1>9. h.step # "idle"
  BY <1>2
<1> QED BY <1>1, <1>2, <1>5, <1>8, <1>9, CallMoves

\* The first announcement, and the last.
LEMMA EmitOrder ==
  ASSUME OInv, IInv', NEW p \in Pipelines, Emit(p)
  PROVE  OInv'
<1> PICK u : u = req[p]["update"]
  OBVIOUS
<1>1. /\ jobs' = jobs /\ status' = status /\ artifacts' = artifacts
      /\ cancelAt' = cancelAt /\ run' = run /\ bull' = bull /\ queue' = queue
      /\ TypeOK /\ "update" \in Kinds /\ "ok" \in Steps /\ GoTo(p, "update", "ok") /\ u.step = "emit"
  BY DEF Emit, At, rows, bus, OInv, IInv, Kinds, Steps
<1> PICK h : h = req'[p]["update"]
  OBVIOUS
<1>2. /\ h.step = "ok" /\ h.job = u.job /\ h.to = u.to /\ h.snap = u.snap
      /\ \A q \in Pipelines, l \in Kinds : q # p \/ l # "update" => req'[q][l] = req[q][l]
  BY <1>1, GoToHandler
<1>3. CallOK(p, u) /\ CancelOK(p, u) /\ OrderOK(p) /\ HandlerOK(p, "update", u)
  BY <1>1 DEF OInv, PartOK, IInv, HandlersOK
<1>4. events[p] = <<>> /\ u.snap # "CANCELED"
  BY <1>1, <1>3 DEF CallOK, Written
<1>5. events'[p] = <<u.snap>> /\ \A q \in Pipelines \ {p} : events'[q] = events[q]
  BY <1>1, <1>4 DEF Emit, TypeOK
<1>6. CallOK(p, h)'
  <2>1. /\ "ok" \in Written /\ "ok" \in Calling /\ u.step \in Written /\ u.step \in Calling
        /\ "ok" \notin {"write"} \cup (Written \ {"ok"})
    BY <1>1 DEF Calling, Written
  <2>2. (Passed(p, h.job) <=> Passed(p, h.job)') /\ (Succeeded(p, h.job) <=> Succeeded(p, h.job)')
    BY <1>1 DEF Passed, Succeeded
  <2> QED BY <1>1, <1>2, <1>3, <2>1, <2>2 DEF CallOK
<1>7. CancelOK(p, h)'
  BY <1>1, <1>2, <1>3 DEF CancelOK, AllOver
<1>8. OrderOK(p)'
  BY <1>1, <1>3, <1>4, <1>5 DEF OrderOK, Succeeded
<1>9. PartOK(p)'
  BY <1>6, <1>7, <1>8 DEF PartOK
<1> QED BY <1>1, <1>2, <1>5, <1>9, CallMoves

\* A call that has ended, and for which nobody waits, is forgotten.
LEMMA DropReplyOrder ==
  ASSUME OInv, IInv', NEW p \in Pipelines, DropReply(p)
  PROVE  OInv'
<1>1. /\ jobs' = jobs /\ status' = status /\ events' = events /\ artifacts' = artifacts
      /\ cancelAt' = cancelAt /\ run' = run /\ bull' = bull /\ queue' = queue
      /\ TypeOK /\ "update" \in Kinds
  BY DEF DropReply, rows, bus, OInv, IInv, Kinds
<1>2. \A q \in Pipelines, l \in Kinds : req'[q][l] = IF q = p /\ l = "update" THEN Idle ELSE req[q][l]
  BY <1>1 DEF DropReply, TypeOK
<1>3. \A q \in Pipelines : /\ req'[q]["update"] = IF q = p THEN Idle ELSE req[q]["update"]
                           /\ req'[q]["create"] = req[q]["create"]
  BY <1>2 DEF Kinds
<1>4. CallOK(p, Idle)' /\ CancelOK(p, Idle)' /\ OrderOK(p)'
  <2>1. CancelOK(p, req[p]["update"]) /\ OrderOK(p)
    BY DEF OInv, PartOK
  <2> QED BY <1>1, <2>1, IdleHandler DEF CallOK, CancelOK, OrderOK, Calling, Written, AllOver, Succeeded
<1>5. \A q \in Pipelines : PartOK(q)'
  <2>1. PartOK(p)'
    BY <1>3, <1>4 DEF PartOK
  <2>2. \A q \in Pipelines : q # p => PartOK(q)'
    BY <1>1, <1>3, SamePart DEF OInv
  <2> QED BY <2>1, <2>2
<1>6. Places'
  BY <1>1, <1>3, IdleHandler, SamePlaces DEF OInv
<1>7. RunOrder'
  <2> SUFFICES ASSUME run # NoRun PROVE RunOrder'
    BY <1>1 DEF RunOrder
  <2>1. run.pipe \in Pipelines
    BY DEF OInv, IInv, RunOK
  <2>2. run.pipe # p
    BY DEF DropReply, OInv, RunOrder
  <2> QED BY <1>1, <1>3, <2>1, <2>2, SameRun DEF OInv
<1> QED BY <1>5, <1>6, <1>7 DEF OInv

-----------------------------------------------------------------------------
(***************************************************************************)
(* The runner, and what goes wrong.                                        *)
(***************************************************************************)

\* A call that is over, or none, leaves the pipeline's part right.
LEMMA CallOver ==
  ASSUME IInv, NEW p \in Pipelines, PartOK(p),
         req'[p]["update"] = req[p]["update"] \/ req'[p]["update"].step \in {"idle", "rejected"},
         jobs' = jobs, status' = status, cancelAt' = cancelAt, events' = events, artifacts' = artifacts
  PROVE  PartOK(p)'
<1>1. CASE req'[p]["update"] = req[p]["update"]
  BY <1>1, SamePart
<1>2. CASE req'[p]["update"].step \in {"idle", "rejected"}
  <2>1. CallOK(p, req[p]["update"])'
    BY <1>2 DEF CallOK, Calling, Written
  <2>2. CancelOK(p, req[p]["update"])' /\ OrderOK(p)'
    BY <1>2 DEF PartOK, CancelOK, OrderOK, AllOver, Succeeded
  <2> QED BY <2>1, <2>2 DEF PartOK
<1> QED BY <1>1, <1>2

LEMMA OneCallOver ==
  ASSUME TypeOK, NEW p \in Pipelines, req' = req \/ req' = [req EXCEPT ![p]["update"] = Idle]
  PROVE  \A q \in Pipelines : /\ req'[q]["update"] = req[q]["update"] \/ req'[q]["update"] = Idle
                              /\ req'[q]["create"] = req[q]["create"]
<1>1. CASE req' = req
  BY <1>1
<1>2. CASE req' = [req EXCEPT ![p]["update"] = Idle]
  <2>1. \A q \in Pipelines, l \in Kinds : req'[q][l] = IF q = p /\ l = "update" THEN Idle ELSE req[q][l]
    BY <1>2 DEF TypeOK
  <2> QED BY <2>1 DEF Kinds
<1> QED BY <1>1, <1>2

\* A run that is over, with any outcome, has no place any more.
LEMMA EndRunPlaces ==
  ASSUME OInv, NEW o \in {"stalled", "completed", "failed"}, run # NoRun, EndRun(o),
         queue' = queue, req' = req \/ req' = [req EXCEPT ![run.pipe]["update"] = Idle]
  PROVE  Places'
<1> PICK p : p = run.pipe
  OBVIOUS
<1>1. /\ p \in Pipelines /\ TypeOK /\ "update" \in Kinds /\ "create" \in Kinds
      /\ run' = NoRun /\ bull' = [bull EXCEPT ![p] = o]
  BY DEF OInv, IInv, RunOK, EndRun, Cur, Kinds
<1>2. \A q \in Pipelines : /\ req'[q]["update"] = req[q]["update"] \/ req'[q]["update"] = Idle
                           /\ req'[q]["create"] = req[q]["create"]
  BY <1>1, OneCallOver
<1>4. bull[p] = "active" /\ \A q \in Pipelines : bull'[q] = IF q = p THEN o ELSE bull[q]
  BY <1>1 DEF OInv, Places, TypeOK
<1>5. \A q \in Pipelines : /\ bull'[q] \in {"none", "waiting"} => req'[q]["update"].step = "idle"
                           /\ req'[q]["create"].step # "idle" => bull'[q] = "none"
  BY <1>2, <1>4, IdleHandler DEF OInv, Places
<1>6. \A i \in DOMAIN queue : queue[i] \in Pipelines
  BY <1>1 DEF TypeOK
<1> QED BY <1>1, <1>4, <1>5, <1>6 DEF OInv, Places

\* Its call is over too, if there was one.
LEMMA EndRunOrder ==
  ASSUME OInv, IInv', NEW o \in {"stalled", "completed", "failed"}, run # NoRun, EndRun(o),
         jobs' = jobs, status' = status, cancelAt' = cancelAt, events' = events, artifacts' = artifacts,
         queue' = queue, req' = req \/ req' = [req EXCEPT ![run.pipe]["update"] = Idle]
  PROVE  OInv'
<1> PICK p : p = run.pipe
  OBVIOUS
<1>1. /\ p \in Pipelines /\ TypeOK /\ "update" \in Kinds /\ "create" \in Kinds
      /\ run' = NoRun /\ bull' = [bull EXCEPT ![p] = o]
  BY DEF OInv, IInv, RunOK, EndRun, Cur, Kinds
<1>2. \A q \in Pipelines : /\ req'[q]["update"] = req[q]["update"] \/ req'[q]["update"] = Idle
                           /\ req'[q]["create"] = req[q]["create"]
  BY <1>1, OneCallOver
<1>3. \A q \in Pipelines : PartOK(q)'
  BY <1>2, CallOver, IdleHandler DEF OInv
<1>4. Places'
  BY EndRunPlaces
<1>5. RunOrder'
  BY <1>1 DEF RunOrder
<1> QED BY <1>3, <1>4, <1>5 DEF OInv

\* The run goes on, and its call is over if there was one.
LEMMA GoOnOrder ==
  ASSUME OInv, IInv', RunOrder', run # NoRun, run'.pipe = run.pipe,
         jobs' = jobs, status' = status, cancelAt' = cancelAt, events' = events, artifacts' = artifacts,
         queue' = queue, bull' = bull, req' = req \/ req' = [req EXCEPT ![run.pipe]["update"] = Idle]
  PROVE  OInv'
<1>1. /\ run.pipe \in Pipelines /\ TypeOK /\ "update" \in Kinds /\ "create" \in Kinds
  BY DEF OInv, IInv, RunOK, Kinds
<1>2. \A q \in Pipelines : /\ req'[q]["update"] = req[q]["update"] \/ req'[q]["update"] = Idle
                           /\ req'[q]["create"] = req[q]["create"]
  BY <1>1, OneCallOver
<1>3. \A q \in Pipelines : PartOK(q)'
  BY <1>2, CallOver, IdleHandler DEF OInv
<1>4. Places'
  BY <1>2, SamePlaces, IdleHandler DEF OInv
<1> QED BY <1>3, <1>4 DEF OInv

\* The worker takes a run that has no call under way, and starts at the first job.
LEMMA TakeRunOrder ==
  ASSUME OInv, IInv', TakeRun
  PROVE  OInv'
<1>1. /\ jobs' = jobs /\ status' = status /\ events' = events /\ artifacts' = artifacts
      /\ cancelAt' = cancelAt /\ req' = req /\ TypeOK /\ queue \in Seq(Pipelines) /\ queue # <<>>
  BY DEF TakeRun, rows, OInv, IInv, TypeOK
<1> PICK p \in Pipelines : p = queue[1]
  BY <1>1
<1>2. /\ 1 \in DOMAIN queue /\ queue' = Tail(queue)
      /\ \A i \in DOMAIN queue' : /\ i + 1 \in DOMAIN queue /\ queue'[i] = queue[i + 1]
                                  /\ i + 1 # 1 /\ i \in Nat /\ queue'[i] \in Pipelines
      /\ run' = [phase |-> "export", pipe |-> p, pos |-> 1] /\ bull' = [bull EXCEPT ![p] = "active"]
  BY <1>1 DEF TakeRun
<1>3. bull[p] = "waiting" /\ \A q \in Pipelines : bull'[q] = IF q = p THEN "active" ELSE bull[q]
  BY <1>1, <1>2 DEF OInv, Places, TypeOK
<1>4. req[p]["update"].step = "idle" /\ req[p]["create"].step = "idle"
  BY <1>3 DEF OInv, Places
<1>5. \A q \in Pipelines : PartOK(q)'
  BY <1>1, SamePart DEF OInv
<1>6. Places'
  <2>1. \A q \in Pipelines : /\ bull'[q] \in {"none", "waiting"} => req'[q]["update"].step = "idle"
                             /\ req'[q]["create"].step # "idle" => bull'[q] = "none"
    BY <1>1, <1>3, <1>4 DEF OInv, Places
  <2>2. \A i \in DOMAIN queue' : bull'[queue'[i]] = "waiting"
    BY <1>2, <1>3 DEF OInv, Places
  <2>3. \A i, j \in DOMAIN queue' : queue'[i] = queue'[j] => i = j
    <3> SUFFICES ASSUME NEW i \in DOMAIN queue', NEW j \in DOMAIN queue', queue'[i] = queue'[j] PROVE i = j
      OBVIOUS
    <3>1. i + 1 = j + 1
      BY <1>2 DEF OInv, Places
    <3> QED BY <1>2, <3>1
  <2> QED BY <1>2, <1>3, <2>1, <2>2, <2>3 DEF Places
<1>7. RunOrder'
  <2>1. \A i \in Jobs : ~(i < 1)
    BY PipelinesAssumption DEF Jobs
  <2> QED BY <1>1, <1>2, <1>4, <2>1 DEF RunOrder, Passed, Succeeded
<1> QED BY <1>5, <1>6, <1>7 DEF OInv

\* A call for the job the run is at, with what the runner knows.
LEMMA CallOrder ==
  ASSUME OInv, IInv', NEW to \in Started \cup {"CANCELED"}, run # NoRun, run.phase # "await",
         Call(to), UNCHANGED <<rows, checks, events, bus, budget, cancelAt>>,
         Passed(run.pipe, run.pos),
         to = "CANCELED" => cancelAt[run.pipe] # "none" /\ status[run.pipe] = "CANCELED",
         to = "RUNNING" => Succeeded(run.pipe, run.pos) \/ AllOver(run.pipe),
         to \in {"SUCCESS", "FAILURE"} =>
           Succeeded(run.pipe, run.pos) /\ jobs[run.pipe][run.pos] \in {"RUNNING", "CANCELED"}
  PROVE  OInv'
<1> PICK p : p = run.pipe
  OBVIOUS
<1> PICK h : h = [Idle EXCEPT !.step = "read", !.job = run.pos, !.to = to]
  OBVIOUS
<1>1. /\ jobs' = jobs /\ status' = status /\ events' = events /\ artifacts' = artifacts
      /\ cancelAt' = cancelAt /\ queue' = queue /\ bull' = bull
      /\ p \in Pipelines /\ TypeOK /\ "update" \in Kinds /\ run \in [phase : Phases, pipe : Pipelines \cup {NoPipeline}, pos : Nat]
  BY DEF rows, bus, OInv, IInv, RunOK, TypeOK, Kinds
<1>2. h.step = "read" /\ h.job = run.pos /\ h.to = to
  BY DEF Idle
<1>3. /\ req'[p]["update"] = h
      /\ \A q \in Pipelines, l \in Kinds : q # p \/ l # "update" => req'[q][l] = req[q][l]
  BY <1>1 DEF Call, Cur, TypeOK
<1>4. \A q \in Pipelines : /\ q # p => req'[q]["update"] = req[q]["update"]
                           /\ req'[q]["create"] = req[q]["create"]
  BY <1>3 DEF Kinds
<1>5. run'.phase = "await" /\ run'.pipe = p /\ run'.pos = run.pos
  BY <1>1 DEF Call
<1>6. CallOK(p, h)'
  <2>1. CallOK(p, h)
    BY <1>2 DEF CallOK, Written, Started
  <2>2. CallOK(p, h)' <=> CallOK(p, h)
    BY <1>1 DEF CallOK, Succeeded, Passed, AllOver
  <2> QED BY <2>1, <2>2
<1>7. CancelOK(p, h)' /\ OrderOK(p)'
  <2>1. CancelOK(p, req[p]["update"]) /\ OrderOK(p)
    BY <1>1 DEF OInv, PartOK
  <2> QED BY <1>1, <1>2, <2>1 DEF CancelOK, OrderOK, AllOver, Succeeded
<1>8. \A q \in Pipelines : PartOK(q)'
  <2>1. PartOK(p)'
    BY <1>3, <1>6, <1>7 DEF PartOK
  <2>2. \A q \in Pipelines : q # p => PartOK(q)'
    BY <1>1, <1>4, SamePart DEF OInv
  <2> QED BY <2>1, <2>2
<1>9. Places'
  <2>1. bull[p] = "active"
    BY DEF OInv, Places
  <2> QED BY <1>1, <1>4, <1>5, <2>1 DEF OInv, Places
<1>10. RunOrder'
  BY <1>2, <1>3, <1>5 DEF RunOrder
<1> QED BY <1>8, <1>9, <1>10 DEF OInv

\* Each step of the runner, with what it has behind it.
LEMMA RunnerOrder ==
  ASSUME OInv, IInv', Runner
  PROVE  OInv'
<1> PICK p, n : p = run.pipe /\ n = run.pos
  OBVIOUS
<1> PICK u : u = req[p]["update"]
  OBVIOUS
<1> DEFINE Run == [phase : Phases, pipe : Pipelines \cup {NoPipeline}, pos : Nat]
<1>1. TypeOK /\ run \in Run /\ RunOrder /\ "update" \in Kinds
  BY DEF OInv, IInv, TypeOK, Kinds
<1>2. run # NoRun => /\ p \in Pipelines /\ n \in Nat /\ CancelOK(p, u) /\ CallOK(p, u) /\ OrderOK(p)
                     /\ HandlerOK(p, "update", u)
                     /\ (run.phase \in {"await", "log", "exec", "collect"} => n \in Jobs)
  BY <1>1 DEF OInv, PartOK, IInv, RunOK, HandlersOK
<1>3. \A i \in Jobs : i < n + 1 => i < n \/ i = n
  <2>1. run = NoRun => n = 0
    BY DEF NoRun
  <2> QED BY <1>2, <2>1, PipelinesAssumption DEF Jobs
<1>4. CASE TakeRun
  BY <1>4, TakeRunOrder
<1>5. CASE Export
  <2>1. /\ jobs' = jobs /\ status' = status /\ events' = events /\ artifacts' = artifacts
        /\ cancelAt' = cancelAt /\ queue' = queue /\ bull' = bull /\ req' = req
        /\ run.phase = "export" /\ run # NoRun
    BY <1>5 DEF Export, rows, bus, NoRun
  <2>2. run'.phase = "check" /\ run'.pipe = p /\ run'.pos = n
    BY <1>1, <1>5 DEF Export
  <2>3. RunOrder'
    BY <1>1, <2>1, <2>2 DEF RunOrder, Passed, Succeeded
  <2> QED BY <2>1, <2>2, <2>3, GoOnOrder
<1>6. CASE NextJob
  <2>1. run.phase = "check" /\ run # NoRun /\ UNCHANGED <<rows, checks, events, bus, budget, cancelAt>>
    BY <1>6 DEF NextJob, NoRun
  <2>2. Passed(p, n) /\ (Succeeded(p, n) \/ cancelAt[p] # "none")
    BY <1>1, <2>1 DEF RunOrder
  <2>3. CASE status[p] = "CANCELED"
    <3>1. Call("CANCELED")
      BY <1>6, <2>3 DEF NextJob, Cur
    <3>2. cancelAt[p] # "none"
      BY <1>2, <2>1, <2>3 DEF CancelOK
    <3> QED BY <2>1, <2>2, <2>3, <3>1, <3>2, CallOrder
  <2>4. CASE status[p] # "CANCELED"
    <3>1. Call("RUNNING") /\ "RUNNING" \in Started
      BY <1>6, <2>4 DEF NextJob, Cur, Started
    <3>2. Succeeded(p, n) \/ AllOver(p)
      BY <1>2, <2>1, <2>2, <2>4 DEF CancelOK
    <3> QED BY <2>1, <2>2, <3>1, <3>2, CallOrder
  <2> QED BY <2>3, <2>4
<1>7. CASE LastJob
  <2>1. run # NoRun /\ EndRun("completed")
    BY <1>7 DEF LastJob, NoRun
  <2> QED BY <1>7, <2>1, EndRunOrder DEF LastJob, rows
<1>8. CASE Accepted
  <2>1. /\ jobs' = jobs /\ status' = status /\ events' = events /\ artifacts' = artifacts
        /\ cancelAt' = cancelAt /\ queue' = queue /\ req' = [req EXCEPT ![run.pipe]["update"] = Idle]
        /\ run.phase = "await" /\ run # NoRun /\ u.step = "ok"
    BY <1>8 DEF Accepted, At, Cur, rows, NoRun
  <2>2. u.job = n
    BY <1>1, <2>1 DEF RunOrder
  <2>3. /\ Passed(p, n) /\ (u.to = "CANCELED" => cancelAt[p] # "none")
        /\ u.to \in Started => Succeeded(p, n)
        /\ jobs[p][n] = u.to \/ (u.to = "RUNNING" /\ jobs[p][n] = "CANCELED")
    BY <1>2, <2>1, <2>2 DEF CallOK, Calling, Written
  <2>4. req'[p]["update"] = Idle
    BY <1>1, <1>2, <2>1 DEF TypeOK
  <2>5. CASE u.to = "RUNNING" /\ run' = [run EXCEPT !.phase = "log"] /\ UNCHANGED bull
    <3>1. run'.phase = "log" /\ run'.pipe = p /\ run'.pos = n
      BY <1>1, <2>5
    <3>2. RunOrder'
      BY <2>1, <2>3, <2>4, <2>5, <3>1, IdleHandler DEF RunOrder, Passed, Succeeded, Started
    <3> QED BY <2>1, <2>5, <3>1, <3>2, GoOnOrder
  <2>6. CASE u.to = "SUCCESS" /\ run' = [run EXCEPT !.phase = "collect"] /\ UNCHANGED bull
    <3>1. run'.phase = "collect" /\ run'.pipe = p /\ run'.pos = n
      BY <1>1, <2>6
    <3>2. RunOrder'
      BY <2>1, <2>3, <2>4, <2>6, <3>1, IdleHandler DEF RunOrder, Passed, Succeeded, Started
    <3> QED BY <2>1, <2>6, <3>1, <3>2, GoOnOrder
  <2>7. CASE u.to = "CANCELED" /\ run' = [run EXCEPT !.phase = "check", !.pos = @ + 1] /\ UNCHANGED bull
    <3>1. run'.phase = "check" /\ run'.pipe = p /\ run'.pos = n + 1
      BY <1>1, <2>7
    <3>2. Passed(p, n + 1)'
      BY <1>3, <2>1, <2>3, <2>7 DEF Passed
    <3>3. RunOrder'
      BY <2>1, <2>3, <2>4, <2>7, <3>1, <3>2, IdleHandler DEF RunOrder, Passed
    <3> QED BY <2>1, <2>7, <3>1, <3>3, GoOnOrder
  <2>8. CASE EndRun("completed")
    BY <2>1, <2>8, EndRunOrder
  <2> QED BY <1>8, <2>5, <2>6, <2>7, <2>8 DEF Accepted, Cur
<1>9. CASE EmptyReply \/ Rejected
  <2>1. run # NoRun /\ EndRun("failed")
    BY <1>9 DEF EmptyReply, Rejected, NoRun
  <2> QED BY <1>9, <2>1, EndRunOrder DEF EmptyReply, Rejected, Cur, rows
<1>10. CASE FirstLog
  <2>1. /\ jobs' = jobs /\ status' = status /\ events' = events /\ artifacts' = artifacts
        /\ cancelAt' = cancelAt /\ queue' = queue /\ req' = req
        /\ run.phase = "log" /\ run # NoRun
    BY <1>10 DEF FirstLog, NoRun
  <2>2. CASE run' = [run EXCEPT !.phase = "exec"] /\ UNCHANGED bull
    <3>1. run'.phase = "exec" /\ run'.pipe = p /\ run'.pos = n
      BY <1>1, <2>2
    <3>2. RunOrder'
      BY <1>1, <2>1, <3>1 DEF RunOrder, Passed, Succeeded
    <3> QED BY <2>1, <2>2, <3>1, <3>2, GoOnOrder
  <2>3. CASE EndRun("failed")
    BY <2>1, <2>3, EndRunOrder
  <2> QED BY <1>10, <2>2, <2>3 DEF FirstLog
<1>11. CASE Execute
  <2>1. run.phase = "exec" /\ run # NoRun /\ UNCHANGED <<rows, checks, events, bus, budget, cancelAt>>
    BY <1>11 DEF Execute, NoRun
  <2>2. PICK to \in {"SUCCESS", "FAILURE"} : Call(to)
    BY <1>11 DEF Execute
  <2>3. Succeeded(p, n) /\ Passed(p, n) /\ jobs[p][n] \in {"RUNNING", "CANCELED"}
    BY <1>1, <2>1 DEF RunOrder, Succeeded, Passed
  <2> QED BY <2>1, <2>2, <2>3, CallOrder DEF Started
<1>12. CASE Collect
  <2>1. /\ jobs' = jobs /\ status' = status /\ events' = events /\ cancelAt' = cancelAt
        /\ queue' = queue /\ req' = req /\ run.phase = "collect" /\ run # NoRun
    BY <1>12 DEF Collect, NoRun
  <2>2. \/ run' = [run EXCEPT !.phase = "check", !.pos = @ + 1] /\ bull' = bull
        \/ EndRun("failed")
    BY <1>12 DEF Collect
  <2>3. Succeeded(p, n) /\ jobs[p][n] = "SUCCESS" /\ u.step = "idle"
    BY <1>1, <2>1 DEF RunOrder
  <2>4. Succeeded(p, n + 1)'
    BY <1>3, <2>1, <2>3 DEF Succeeded
  <2>5. RunOrder'
    <3>1. CASE run' = [run EXCEPT !.phase = "check", !.pos = @ + 1]
      <4>1. run'.phase = "check" /\ run'.pipe = p /\ run'.pos = n + 1
        BY <1>1, <3>1
      <4> QED BY <2>1, <2>3, <2>4, <4>1 DEF RunOrder, Passed, Succeeded
    <3>2. CASE EndRun("failed")
      BY <3>2 DEF EndRun, RunOrder
    <3> QED BY <2>2, <3>1, <3>2
  <2>6. \A q \in Pipelines : \A j \in artifacts'[q] : j \in artifacts[q] \/ (q = p /\ j = n)
    BY <1>1, <1>12 DEF Collect, Cur, TypeOK
  <2>7. \A q \in Pipelines : PartOK(q)'
    <3> SUFFICES ASSUME NEW q \in Pipelines PROVE PartOK(q)'
      OBVIOUS
    <3>1. CallOK(q, req[q]["update"])' /\ CancelOK(q, req[q]["update"])'
      BY <2>1 DEF OInv, PartOK, CallOK, CancelOK, Succeeded, Passed, AllOver
    <3>2. OrderOK(q)'
      BY <2>1, <2>3, <2>6 DEF OInv, PartOK, OrderOK, Succeeded
    <3> QED BY <3>1, <3>2 DEF PartOK
  <2>8. Places'
    <3>1. CASE run' = [run EXCEPT !.phase = "check", !.pos = @ + 1] /\ bull' = bull
      <4>1. run'.pipe = run.pipe
        BY <1>1, <3>1
      <4> QED BY <2>1, <3>1, <4>1, SamePlaces DEF OInv
    <3>2. CASE EndRun("failed")
      BY <2>1, <3>2, EndRunPlaces
    <3> QED BY <2>2, <3>1, <3>2
  <2> QED BY <2>5, <2>7, <2>8 DEF OInv
<1> QED BY <1>4, <1>5, <1>6, <1>7, <1>8, <1>9, <1>10, <1>11, <1>12 DEF Runner

\* The worker dies or throws; the API dies, and the calls under way with it.
LEMMA FaultOrder ==
  ASSUME OInv, IInv', RunnerThrows \/ RunnerCrash \/ ApiCrash
  PROVE  OInv'
<1>1. CASE RunnerThrows \/ RunnerCrash
  <2>1. run # NoRun
    BY <1>1 DEF RunnerThrows, RunnerCrash
  <2>2. PICK o \in {"stalled", "completed", "failed"} : EndRun(o)
    BY <1>1 DEF RunnerThrows, RunnerCrash
  <2> QED BY <1>1, <2>1, <2>2, EndRunOrder DEF RunnerThrows, RunnerCrash, rows
<1>2. CASE ApiCrash
  <2> PICK r : r = [Idle EXCEPT !.step = "rejected"]
    OBVIOUS
  <2>1. /\ jobs' = jobs /\ status' = status /\ events' = events /\ artifacts' = artifacts
        /\ cancelAt' = cancelAt /\ queue' = queue /\ bull' = bull /\ run' = run
        /\ "update" \in Kinds /\ "create" \in Kinds
    BY <1>2 DEF ApiCrash, rows, bus, Kinds
  <2>2. r.step = "rejected"
    BY DEF Idle
  <2>3. \A q \in Pipelines :
          /\ req'[q]["update"] = IF req[q]["update"].step = "idle" THEN Idle ELSE r
          /\ req'[q]["create"] = Idle
    BY <1>2, <2>1 DEF ApiCrash, At
  <2>4. \A q \in Pipelines : PartOK(q)'
    BY <2>1, <2>2, <2>3, CallOver, IdleHandler DEF OInv
  <2>5. Places'
    BY <2>1, <2>3, SamePlaces, IdleHandler DEF OInv
  <2>6. RunOrder'
    <3>1. run # NoRun => run.pipe \in Pipelines
      BY DEF OInv, IInv, RunOK
    <3> QED BY <2>1, <2>2, <2>3, <3>1, IdleHandler DEF OInv, RunOrder, Succeeded, Passed
  <2> QED BY <2>4, <2>5, <2>6 DEF OInv
<1> QED BY <1>1, <1>2

\* A run is delivered again only when no call for it is under way.
LEMMA RedeliverOrder ==
  ASSUME OInv, IInv', NEW p \in Pipelines, Redeliver(p)
  PROVE  OInv'
<1>1. /\ jobs' = jobs /\ status' = status /\ events' = events /\ artifacts' = artifacts
      /\ cancelAt' = cancelAt /\ req' = req /\ run' = run /\ TypeOK /\ queue \in Seq(Pipelines)
      /\ bull[p] = "stalled" /\ req[p]["update"].step = "idle"
  BY DEF Redeliver, At, rows, OInv, IInv, TypeOK
<1>2. PICK o \in {"waiting", "failed"} :
        bull' = [bull EXCEPT ![p] = o] /\ queue' = IF o = "waiting" THEN <<p>> \o queue ELSE queue
  BY DEF Redeliver
<1>3. \A q \in Pipelines : bull'[q] = IF q = p THEN o ELSE bull[q]
  BY <1>1, <1>2 DEF TypeOK
<1>4. \A q \in Pipelines : PartOK(q)'
  BY <1>1, SamePart DEF OInv
<1>5. \A i \in DOMAIN queue : queue[i] # p /\ queue[i] \in Pipelines /\ i \in Nat /\ i >= 1
  BY <1>1 DEF OInv, Places
<1>6. \A i \in DOMAIN queue' : /\ i \in Nat
                               /\ \/ queue' = queue /\ i \in DOMAIN queue
                                  \/ i = 1 /\ queue'[i] = p /\ o = "waiting"
                                  \/ i # 1 /\ i - 1 \in DOMAIN queue /\ queue'[i] = queue[i - 1] /\ queue' # queue
  BY <1>1, <1>2
<1>7. Places'
  <2>1. \A q \in Pipelines : /\ bull'[q] \in {"none", "waiting"} => req'[q]["update"].step = "idle"
                             /\ req'[q]["create"].step # "idle" => bull'[q] = "none"
    BY <1>1, <1>3 DEF OInv, Places
  <2>2. \A i \in DOMAIN queue' : bull'[queue'[i]] = "waiting"
    BY <1>3, <1>5, <1>6 DEF OInv, Places
  <2>3. \A i, j \in DOMAIN queue' : queue'[i] = queue'[j] => i = j
    BY <1>5, <1>6 DEF OInv, Places
  <2>4. run # NoRun => run.pipe \in Pipelines /\ bull[run.pipe] = "active"
    BY DEF OInv, IInv, RunOK, Places
  <2> QED BY <1>1, <1>3, <2>1, <2>2, <2>3, <2>4 DEF Places
<1>8. RunOrder'
  BY <1>1, SameRun DEF OInv
<1> QED BY <1>4, <1>7, <1>8 DEF OInv

-----------------------------------------------------------------------------
(***************************************************************************)
(* The invariant, and what follows from it.                                *)
(***************************************************************************)

LEMMA NextOInv ==
  ASSUME OInv, [Next]_vars
  PROVE  OInv'
<1>1. IInv'
  BY NextIInv DEF OInv
<1>2. ASSUME NEW p \in Pipelines, Create(p) \/ CancelRead(p)
      PROVE  OInv'
  BY <1>1, <1>2, CreateOrder, CancelReadOrder
<1>3. ASSUME NEW p \in Pipelines, NEW k \in Kinds, Handle(p, k)
      PROVE  OInv'
  BY <1>1, <1>3, CheckOrder, EnqueueOrder, CancelWriteOrder, UpdateReadOrder, UpdateWriteOrder,
     UpdateRereadOrder, UpdateSettleOrder, EmitOrder DEF Handle
<1>4. CASE Runner
  BY <1>1, <1>4, RunnerOrder
<1>5. CASE RunnerThrows \/ RunnerCrash \/ ApiCrash
  BY <1>1, <1>5, FaultOrder
<1>6. ASSUME NEW p \in Pipelines, DropReply(p) \/ Redeliver(p)
      PROVE  OInv'
  BY <1>1, <1>6, DropReplyOrder, RedeliverOrder
<1>7. CASE UNCHANGED vars
  BY <1>1, <1>7, OthersMove DEF vars, rows, bus
<1> QED BY <1>2, <1>3, <1>4, <1>5, <1>6, <1>7 DEF Next

\* The invariant holds in every state of every behaviour of the CI.
THEOREM OrderInvariance == Spec => []OInv
  BY InitOInv, NextOInv, PTL DEF Spec

\* The loop over the jobs: none is started before those before it have succeeded, and
\* only successful jobs have artifacts, whatever is canceled, lost or delivered again.
THEOREM JobsAlwaysInOrder == Spec => []JobsInOrder
<1>1. ASSUME OInv PROVE JobsInOrder
  <2> SUFFICES ASSUME NEW p \in Pipelines, NEW j \in Jobs
               PROVE  /\ jobs[p][j] \in Started => \A i \in 1..(j - 1) : jobs[p][i] = "SUCCESS"
                      /\ j \in artifacts[p] => jobs[p][j] = "SUCCESS"
    BY DEF JobsInOrder
  <2>1. OrderOK(p)
    BY <1>1 DEF OInv, PartOK
  <2>2. \A i \in 1..(j - 1) : i \in Jobs /\ i < j
    BY PipelinesAssumption DEF Jobs
  <2> QED BY <2>1, <2>2 DEF OrderOK, Succeeded
<1> QED BY <1>1, OrderInvariance, PTL

\* onPipelineCompleted: the webhooks hear of the end of a pipeline at most once, and what
\* they hear is what its jobs say.
THEOREM AnnouncedOnce == Spec => []CompletedOnce
<1>1. OInv => CompletedOnce
  BY DEF OInv, IInv, EventsEarned, Earned, PartOK, OrderOK, CompletedOnce
<1> QED BY <1>1, OrderInvariance, PTL

\* cancel: the pipeline stays canceled, and no job of it runs again, but for a call of
\* updateJobStatus that stood between a read and its write.
THEOREM CancelsHold == Spec => []CancelHolds
<1>1. ASSUME OInv PROVE CancelHolds
  <2>1. \A p \in Pipelines : CancelOK(p, req[p]["update"])
    BY <1>1 DEF OInv, PartOK
  <2> QED BY <2>1 DEF CancelOK, CancelHolds, AllOver, Terminal
<1> QED BY <1>1, OrderInvariance, PTL

=============================================================================
