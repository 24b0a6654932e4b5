----------------------------- MODULE CiPipelines -----------------------------
(***************************************************************************)
(* CI pipelines of one branch: the API handlers of PipelinesService, the   *)
(* BullMQ queue `pipelines`, and the runner that works it off.             *)
(*                                                                         *)
(* The API runs on one thread, but every `await` of a handler lets another *)
(* handler in.  A handler in flight is therefore a record that says at     *)
(* which await it stands and what it has read so far, and each step below  *)
(* is the code between two awaits that touch the database.  The runner is  *)
(* another process; it calls the API and waits for each answer.            *)
(*                                                                         *)
(* One pull request whose source is the branch stays open throughout: its  *)
(* "CI" rows are what updatePrStatusChecks maintains.                      *)
(***************************************************************************)
EXTENDS Naturals, Sequences, PipelineState

CONSTANTS
  Pipelines,   \* the pipelines that may be triggered on the branch
  NumJobs,     \* jobs of a pipeline, numbered in the order of the run payload
  RevisionOf,  \* the revision each pipeline was triggered for
  NoPipeline,  \* the runner holds no pipeline
  Replies,     \* how a handler that returns nothing answers: "empty", 200 or 201 without a
               \* body, as Nest does; or "read", an answer that the runner's client can read
  MaxStalls,   \* BullMQ's maxStalledCount: redeliveries of a run whose worker died
  MaxFaults,   \* bound: crashes and failed calls in a behaviour
  MaxCancels   \* bound: cancel requests in a behaviour

ASSUME PipelinesAssumption ==
  /\ NoPipeline \notin Pipelines
  /\ Replies \subseteq {"empty", "read"}
  /\ NumJobs \in Nat \ {0}
  /\ RevisionOf \in [Pipelines -> Nat]
  /\ MaxStalls \in Nat
  /\ MaxFaults \in Nat
  /\ MaxCancels \in Nat

VARIABLES
  status,     \* Pipeline.status; "NONE" while the row does not exist
  jobs,       \* jobs[p][j] is PipelineJob.status
  logged,     \* logged[p]: the jobs of p that have a JobLog row of sequence 0
  artifacts,  \* artifacts[p]: the jobs of p that have Artifact rows
  checks,     \* the PRStatusCheck rows named "CI" of the open pull request
  events,     \* events[p]: the PIPELINE_COMPLETED deliveries handed to the webhooks
  req,        \* req[p][k]: the handler of kind k in flight for p
  queue,      \* the waiting runs of the BullMQ queue, next one first
  bull,       \* bull[p]: the state of the BullMQ job of p
  stalls,     \* stalls[p]: how often BullMQ has redelivered p
  run,        \* what the runner is doing
  faults,     \* faults so far
  cancels,    \* cancel requests so far
  cancelAt    \* history: the step updateJobStatus was at when the cancel was written

rows == <<status, jobs, logged, artifacts>>
bus == <<queue, bull, stalls>>
budget == <<faults, cancels>>
vars == <<rows, checks, events, req, bus, run, budget, cancelAt>>

-----------------------------------------------------------------------------

Jobs == 1..NumJobs
Started == {"RUNNING", "SUCCESS", "FAILURE"}

Kinds == {"create", "cancel", "update"}
Steps == {"idle", "find", "put", "enqueue", "cancelWrite", "read", "write",
          "reread", "settle", "emit", "ok", "rejected"}

\* A handler: its step, the job and the status asked for (updateJobStatus), the
\* pipeline status it has computed, the row its findFirst returned (0: none).
Handler == [step : Steps, job : 0..NumJobs, to : JobStatus \cup {"NONE"},
            snap : PipelineStatus \cup {"NONE"}, row : Nat]
Idle == [step |-> "idle", job |-> 0, to |-> "NONE", snap |-> "NONE", row |-> 0]

Phases == {"idle", "export", "check", "await", "log", "exec", "collect"}
NoRun == [phase |-> "idle", pipe |-> NoPipeline, pos |-> 0]

\* A plausible slip: the status of the pipeline is stored as it is.
CheckStatusVerbatim(s) == s

CheckStatus(s) ==
  CASE s = "SUCCESS" -> "SUCCESS"
    [] s \in {"FAILURE", "CANCELED"} -> "FAILURE"
    [] OTHER -> "PENDING"

Init ==
  /\ status = [p \in Pipelines |-> "NONE"]
  /\ jobs = [p \in Pipelines |-> [j \in Jobs |-> "QUEUED"]]
  /\ logged = [p \in Pipelines |-> {}]
  /\ artifacts = [p \in Pipelines |-> {}]
  /\ checks = <<>>
  /\ events = [p \in Pipelines |-> <<>>]
  /\ req = [p \in Pipelines |-> [k \in Kinds |-> Idle]]
  /\ queue = <<>>
  /\ bull = [p \in Pipelines |-> "none"]
  /\ stalls = [p \in Pipelines |-> 0]
  /\ run = NoRun
  /\ faults = 0
  /\ cancels = 0
  /\ cancelAt = [p \in Pipelines |-> "none"]

-----------------------------------------------------------------------------
(***************************************************************************)
(* Steps of handlers.  At(p, k, s) is the await a handler stands at.       *)
(***************************************************************************)

At(p, k, s) == req[p][k].step = s
GoTo(p, k, s) == req' = [req EXCEPT ![p][k].step = s]

\* createAndEnqueue, up to its first await after the rows exist: the pipeline
\* and its jobs are inserted by one nested write.
Create(p) ==
  /\ status[p] = "NONE"
  /\ status' = [status EXCEPT ![p] = "QUEUED"]
  /\ jobs' = [jobs EXCEPT ![p] = [j \in Jobs |-> "QUEUED"]]
  /\ req' = [req EXCEPT ![p]["create"] = [Idle EXCEPT !.step = "find", !.snap = "QUEUED"]]
  /\ UNCHANGED <<logged, artifacts, checks, events, bus, run, budget, cancelAt>>

\* The end of createAndEnqueue: queue.add, with the pipeline's id as the job's.
Enqueue(p) ==
  /\ At(p, "create", "enqueue")
  /\ queue' = Append(queue, p)
  /\ bull' = [bull EXCEPT ![p] = "waiting"]
  /\ req' = [req EXCEPT ![p]["create"] = Idle]
  /\ UNCHANGED <<rows, checks, events, stalls, run, budget, cancelAt>>

\* updatePrStatusChecks: findFirst of the row named "CI".  The query has no
\* order, so with several such rows it may return any of them.
FindCheck(p, k) ==
  /\ At(p, k, "find")
  /\ \E r \in IF checks = <<>> THEN {0} ELSE DOMAIN checks :
       req' = [req EXCEPT ![p][k] = [@ EXCEPT !.step = "put", !.row = r]]
  /\ UNCHANGED <<rows, checks, events, bus, run, budget, cancelAt>>

\* What a handler does once the check is written: createAndEnqueue goes on to
\* the queue, cancel answers, updateJobStatus announces the completion.
AfterCheck(k, h) ==
  CASE k = "create" -> [Idle EXCEPT !.step = "enqueue"]
    [] k = "cancel" -> Idle
    [] k = "update" -> [h EXCEPT !.step = "emit", !.row = 0]

\* A plausible slip: a canceled or unknown status counts as a success.
PutCheckLenient(p, k) ==
  LET h == req[p][k]
      new == [status |-> IF h.snap = "FAILURE" THEN "FAILURE" ELSE "SUCCESS",
              revision |-> RevisionOf[p]]
  IN /\ At(p, k, "put")
     /\ checks' = IF h.row = 0 THEN Append(checks, new) ELSE [checks EXCEPT ![h.row] = new]
     /\ req' = [req EXCEPT ![p][k] = AfterCheck(k, h)]
     /\ UNCHANGED <<rows, events, bus, run, budget, cancelAt>>

\* updatePrStatusChecks: the row found is overwritten, or a new one is created.
PutCheck(p, k) ==
  LET h == req[p][k]
      new == [status |-> CheckStatus(h.snap), revision |-> RevisionOf[p]]
  IN /\ At(p, k, "put")
     /\ \/ h.row = 0 /\ checks' = Append(checks, new)
        \/ h.row # 0 /\ checks' = [checks EXCEPT ![h.row] = new]
     /\ req' = [req EXCEPT ![p][k] = AfterCheck(k, h)]
     /\ UNCHANGED <<rows, events, bus, run, budget, cancelAt>>

\* cancel: the row is read and the transition checked.  A refusal changes nothing.
CancelRead(p) ==
  /\ cancels < MaxCancels
  /\ At(p, "cancel", "idle")
  /\ status[p] # "NONE"
  /\ CanTransitionPipeline(status[p], "CANCELED")
  /\ GoTo(p, "cancel", "cancelWrite")
  /\ cancels' = cancels + 1
  /\ UNCHANGED <<rows, checks, events, bus, run, faults, cancelAt>>

\* A plausible slip: updateMany without its filter cancels the finished jobs too.
CancelWriteAll(p) ==
  /\ At(p, "cancel", "cancelWrite")
  /\ status' = [status EXCEPT ![p] = "CANCELED"]
  /\ jobs' = [jobs EXCEPT ![p] = [j \in Jobs |-> "CANCELED"]]
  /\ req' = [req EXCEPT ![p]["cancel"] = [@ EXCEPT !.step = "find", !.snap = "CANCELED"]]
  /\ cancelAt' = [cancelAt EXCEPT ![p] = req[p]["update"].step]
  /\ UNCHANGED <<logged, artifacts, checks, events, bus, run, budget>>

\* cancel: the pipeline and its QUEUED and RUNNING jobs, in one nested write
\* that does not look at the status again.
CancelWrite(p) ==
  /\ At(p, "cancel", "cancelWrite")
  /\ status' = [status EXCEPT ![p] = "CANCELED"]
  /\ jobs' = [jobs EXCEPT ![p] =
       [j \in Jobs |-> IF @[j] \in {"QUEUED", "RUNNING"} THEN "CANCELED" ELSE @[j]]]
  /\ req' = [req EXCEPT ![p]["cancel"] = [@ EXCEPT !.step = "find", !.snap = "CANCELED"]]
  /\ cancelAt' = [cancelAt EXCEPT ![p] = req[p]["update"].step]
  /\ UNCHANGED <<logged, artifacts, checks, events, bus, run, budget>>

\* updateJobStatus: the job is read and the transition checked; 400 if it fails.
UpdateRead(p) ==
  LET h == req[p]["update"] IN
  /\ At(p, "update", "read")
  /\ GoTo(p, "update", IF CanTransitionJob(jobs[p][h.job], h.to) THEN "write" ELSE "rejected")
  /\ UNCHANGED <<rows, checks, events, bus, run, budget, cancelAt>>

\* updateJobStatus: the new status of the job, whatever the row holds by now.
UpdateWrite(p) ==
  LET h == req[p]["update"] IN
  /\ At(p, "update", "write")
  /\ jobs' = [jobs EXCEPT ![p][h.job] = h.to]
  /\ GoTo(p, "update", "reread")
  /\ UNCHANGED <<status, logged, artifacts, checks, events, bus, run, budget, cancelAt>>

\* updateJobStatus: the pipeline is read again; a canceled one is left alone,
\* otherwise the statuses of its jobs are added up.
UpdateReread(p) ==
  /\ At(p, "update", "reread")
  /\ \/ status[p] = "CANCELED" /\ GoTo(p, "update", "ok")
     \/ /\ status[p] # "CANCELED"
        /\ req' = [req EXCEPT ![p]["update"] =
             [@ EXCEPT !.step = "settle", !.snap = AggregatePipelineStatus(jobs[p], status[p])]]
  /\ UNCHANGED <<rows, checks, events, bus, run, budget, cancelAt>>

\* updateJobStatus: the sum is written to the pipeline, whatever it holds by now.
UpdateSettle(p) ==
  LET h == req[p]["update"] IN
  /\ At(p, "update", "settle")
  /\ status' = [status EXCEPT ![p] = h.snap]
  /\ GoTo(p, "update", IF h.snap \in Terminal THEN "find" ELSE "ok")
  /\ UNCHANGED <<jobs, logged, artifacts, checks, events, bus, run, budget, cancelAt>>

\* onPipelineCompleted, after the checks: the webhook event (and, on FAILURE, the
\* notification, which changes nothing modelled here).
Emit(p) ==
  /\ At(p, "update", "emit")
  /\ events' = [events EXCEPT ![p] = Append(@, req[p]["update"].snap)]
  /\ GoTo(p, "update", "ok")
  /\ UNCHANGED <<rows, checks, bus, run, budget, cancelAt>>

-----------------------------------------------------------------------------
(***************************************************************************)
(* The runner: one worker of concurrency 1.                                *)
(***************************************************************************)

Cur == run.pipe
EndRun(outcome) == run' = NoRun /\ bull' = [bull EXCEPT ![Cur] = outcome]
Call(to) ==
  /\ req' = [req EXCEPT ![Cur]["update"] =
               [Idle EXCEPT !.step = "read", !.job = run.pos, !.to = to]]
  /\ run' = [run EXCEPT !.phase = "await"]

\* The worker takes the next run from the queue.
TakeRun ==
  /\ run = NoRun
  /\ queue # <<>>
  /\ run' = [phase |-> "export", pipe |-> Head(queue), pos |-> 1]
  /\ queue' = Tail(queue)
  /\ bull' = [bull EXCEPT ![Head(queue)] = "active"]
  /\ UNCHANGED <<rows, checks, events, req, stalls, budget, cancelAt>>

\* svn export of the revision into a fresh directory.
Export ==
  /\ run.phase = "export"
  /\ run' = [run EXCEPT !.phase = "check"]
  /\ UNCHANGED <<rows, checks, events, req, bus, budget, cancelAt>>

\* The head of the loop over the payload's jobs: isPipelineCanceled, then the
\* call that marks the job CANCELED or RUNNING.
NextJob ==
  /\ run.phase = "check"
  /\ run.pos \in Jobs
  /\ Call(IF status[Cur] = "CANCELED" THEN "CANCELED" ELSE "RUNNING")
  /\ UNCHANGED <<rows, checks, events, bus, budget, cancelAt>>

\* The loop is over, and so is the run.
LastJob ==
  /\ run.phase = "check"
  /\ run.pos \notin Jobs
  /\ EndRun("completed")
  /\ UNCHANGED <<rows, checks, events, req, queue, stalls, budget, cancelAt>>

\* A plausible slip: the loop does not break after a failed job.
AcceptedNoBreak ==
  LET to == req[Cur]["update"].to IN
  /\ run.phase = "await" /\ "read" \in Replies
  /\ At(Cur, "update", "ok")
  /\ req' = [req EXCEPT ![Cur]["update"] = Idle]
  /\ \/ to = "RUNNING" /\ run' = [run EXCEPT !.phase = "log"] /\ UNCHANGED bull
     \/ to = "SUCCESS" /\ run' = [run EXCEPT !.phase = "collect"] /\ UNCHANGED bull
     \/ /\ to \in {"CANCELED", "FAILURE"}
        /\ run' = [run EXCEPT !.phase = "check", !.pos = @ + 1] /\ UNCHANGED bull
  /\ UNCHANGED <<rows, checks, events, queue, stalls, budget, cancelAt>>

\* A call of updateJobStatus comes back with success, in an answer the client can read.
\* After FAILURE the loop breaks, which completes the run.
Accepted ==
  LET to == req[Cur]["update"].to IN
  /\ run.phase = "await" /\ "read" \in Replies
  /\ At(Cur, "update", "ok")
  /\ req' = [req EXCEPT ![Cur]["update"] = Idle]
  /\ \/ to = "RUNNING" /\ run' = [run EXCEPT !.phase = "log"] /\ UNCHANGED bull
     \/ to = "SUCCESS" /\ run' = [run EXCEPT !.phase = "collect"] /\ UNCHANGED bull
     \/ to = "CANCELED" /\ run' = [run EXCEPT !.phase = "check", !.pos = @ + 1] /\ UNCHANGED bull
     \/ to = "FAILURE" /\ EndRun("completed")
  /\ UNCHANGED <<rows, checks, events, queue, stalls, budget, cancelAt>>

\* It comes back with success and no body: the change is made, response.json() throws in
\* the runner all the same, and the run is failed.
EmptyReply ==
  /\ run.phase = "await" /\ "empty" \in Replies
  /\ At(Cur, "update", "ok")
  /\ req' = [req EXCEPT ![Cur]["update"] = Idle]
  /\ EndRun("failed")
  /\ UNCHANGED <<rows, checks, events, queue, stalls, budget, cancelAt>>

\* It comes back with an error: the processor throws, and since the queue gives a
\* job one attempt the run is failed for good.
Rejected ==
  /\ run.phase = "await"
  /\ At(Cur, "update", "rejected")
  /\ req' = [req EXCEPT ![Cur]["update"] = Idle]
  /\ EndRun("failed")
  /\ UNCHANGED <<rows, checks, events, queue, stalls, budget, cancelAt>>

\* The first appendLog of a job.  Its sequence is 0 in every run, and the rows are
\* unique in (job, sequence): a second run of the job cannot log, and throws.  So does one
\* whose line is stored and whose answer is empty.
FirstLog ==
  /\ run.phase = "log"
  /\ \/ /\ run.pos \notin logged[Cur]
        /\ logged' = [logged EXCEPT ![Cur] = @ \cup {run.pos}]
        /\ \/ "read" \in Replies /\ run' = [run EXCEPT !.phase = "exec"] /\ UNCHANGED bull
           \/ "empty" \in Replies /\ EndRun("failed")
     \/ run.pos \in logged[Cur] /\ EndRun("failed") /\ UNCHANGED logged
  /\ UNCHANGED <<status, jobs, artifacts, checks, events, req, queue, stalls, budget, cancelAt>>

\* The steps have run, or timed out (exit code 124), and the outcome is reported.
Execute ==
  /\ run.phase = "exec"
  /\ \E outcome \in {"SUCCESS", "FAILURE"} : Call(outcome)
  /\ UNCHANGED <<rows, checks, events, bus, budget, cancelAt>>

\* Artifacts of a successful job, if it declares any; the empty answer to the first one
\* fails the run.
Collect ==
  LET collected == [artifacts EXCEPT ![Cur] = @ \cup {run.pos}] IN
  /\ run.phase = "collect"
  /\ \/ /\ UNCHANGED artifacts \/ ("read" \in Replies /\ artifacts' = collected)
        /\ run' = [run EXCEPT !.phase = "check", !.pos = @ + 1]
        /\ UNCHANGED bull
     \/ "empty" \in Replies /\ artifacts' = collected /\ EndRun("failed")
  /\ UNCHANGED <<status, jobs, logged, checks, events, req, queue, stalls, budget, cancelAt>>

-----------------------------------------------------------------------------
(***************************************************************************)
(* What goes wrong.                                                        *)
(***************************************************************************)

Fault == faults < MaxFaults /\ faults' = faults + 1

\* A failed export, executor or API call, or a reply that is lost: the processor
\* throws.  The handler it was waiting for goes on in the API.
RunnerThrows ==
  /\ Fault
  /\ run # NoRun
  /\ EndRun("failed")
  /\ UNCHANGED <<rows, checks, events, req, queue, stalls, cancels, cancelAt>>

\* The runner's process dies, with the run in hand.
RunnerCrash ==
  /\ Fault
  /\ run # NoRun
  /\ EndRun("stalled")
  /\ UNCHANGED <<rows, checks, events, req, queue, stalls, cancels, cancelAt>>

\* A handler ends and nobody waits for the answer any more.
DropReply(p) ==
  /\ req[p]["update"].step \in {"ok", "rejected"}
  /\ ~(run.phase = "await" /\ run.pipe = p)
  /\ req' = [req EXCEPT ![p]["update"] = Idle]
  /\ UNCHANGED <<rows, checks, events, bus, run, budget, cancelAt>>

\* The API's process dies: the handlers in flight stop where they stand, and the
\* runner's pending call fails.
ApiCrash ==
  /\ Fault
  /\ \E p \in Pipelines, k \in Kinds : ~At(p, k, "idle")
  /\ req' = [p \in Pipelines |-> [k \in Kinds |->
               IF k = "update" /\ ~At(p, k, "idle")
               THEN [Idle EXCEPT !.step = "rejected"] ELSE Idle]]
  /\ UNCHANGED <<rows, checks, events, bus, run, cancels, cancelAt>>

\* A plausible slip: a run that has stalled too often is never failed.
RedeliverForgets(p) ==
  /\ bull[p] = "stalled"
  /\ At(p, "update", "idle")
  /\ stalls[p] < MaxStalls
  /\ queue' = <<p>> \o queue
  /\ bull' = [bull EXCEPT ![p] = "waiting"]
  /\ stalls' = [stalls EXCEPT ![p] = @ + 1]
  /\ UNCHANGED <<rows, checks, events, req, run, budget, cancelAt>>

\* BullMQ finds the lock of the run expired and puts the run back in front, or
\* fails it when it has stalled too often.  The lock lasts 30 seconds, so the last
\* call of the dead worker has been handled by then.
Redeliver(p) ==
  /\ bull[p] = "stalled"
  /\ At(p, "update", "idle")
  /\ \/ /\ stalls[p] < MaxStalls
        /\ queue' = <<p>> \o queue
        /\ bull' = [bull EXCEPT ![p] = "waiting"]
        /\ stalls' = [stalls EXCEPT ![p] = @ + 1]
     \/ /\ stalls[p] >= MaxStalls
        /\ bull' = [bull EXCEPT ![p] = "failed"]
        /\ UNCHANGED <<queue, stalls>>
  /\ UNCHANGED <<rows, checks, events, req, run, budget, cancelAt>>

-----------------------------------------------------------------------------

\* The next step of the handler of kind k in flight for p.
Handle(p, k) ==
  \/ FindCheck(p, k)
  \/ PutCheck(p, k)
  \/ k = "create" /\ Enqueue(p)
  \/ k = "cancel" /\ CancelWrite(p)
  \/ /\ k = "update"
     /\ UpdateRead(p) \/ UpdateWrite(p) \/ UpdateReread(p) \/ UpdateSettle(p) \/ Emit(p)

Runner ==
  \/ TakeRun \/ Export \/ NextJob \/ LastJob
  \/ Accepted \/ EmptyReply \/ Rejected \/ FirstLog \/ Execute \/ Collect

Next ==
  \/ \E p \in Pipelines : Create(p) \/ CancelRead(p)
  \/ \E p \in Pipelines, k \in Kinds : Handle(p, k)
  \/ Runner
  \/ RunnerThrows \/ RunnerCrash \/ ApiCrash
  \/ \E p \in Pipelines : DropReply(p) \/ Redeliver(p)

Spec == Init /\ [][Next]_vars

(***************************************************************************)
(* The event loop runs every handler in flight, the worker goes on with    *)
(* its run and takes the next one, BullMQ looks for stalled runs on a      *)
(* timer.  Users and faults owe nothing.                                   *)
(***************************************************************************)
Fairness ==
  /\ \A p \in Pipelines, k \in Kinds : WF_vars(Handle(p, k))
  /\ \A p \in Pipelines : WF_vars(DropReply(p)) /\ WF_vars(Redeliver(p))
  /\ WF_vars(Runner)

FairSpec == Spec /\ Fairness

-----------------------------------------------------------------------------
(***************************************************************************)
(* Properties.                                                             *)
(***************************************************************************)

TypeOK ==
  /\ status \in [Pipelines -> PipelineStatus \cup {"NONE"}]
  /\ jobs \in [Pipelines -> [Jobs -> JobStatus]]
  /\ logged \in [Pipelines -> SUBSET Jobs]
  /\ artifacts \in [Pipelines -> SUBSET Jobs]
  /\ checks \in Seq([status : {"SUCCESS", "FAILURE", "PENDING"}, revision : Nat])
  /\ events \in [Pipelines -> Seq(Terminal)]
  /\ req \in [Pipelines -> [Kinds -> Handler]]
  /\ queue \in Seq(Pipelines)
  /\ bull \in [Pipelines -> {"none", "waiting", "active", "stalled", "completed", "failed"}]
  /\ stalls \in [Pipelines -> Nat]
  /\ run \in [phase : Phases, pipe : Pipelines \cup {NoPipeline}, pos : Nat]
  /\ faults \in Nat
  /\ cancels \in Nat
  /\ cancelAt \in [Pipelines -> Steps \cup {"none"}]

AllSucceeded(p) == \A j \in Jobs : jobs[p][j] = "SUCCESS"
SomeFailed(p) == \E j \in Jobs : jobs[p][j] = "FAILURE"

\* A pipeline row says SUCCESS only while every job row does, and FAILURE only
\* while some job row does: neither a cancel between the three queries of
\* updateJobStatus nor a run delivered again gives a verdict its jobs contradict.
VerdictEarned ==
  \A p \in Pipelines :
    /\ status[p] = "SUCCESS" => AllSucceeded(p)
    /\ status[p] = "FAILURE" => SomeFailed(p)

\* A job has been started only if every job before it in the payload succeeded,
\* and only a successful job has artifacts: the loop's break on a failure, the
\* cancel, a crash and a second delivery never let a later job run.
JobsInOrder ==
  \A p \in Pipelines, j \in Jobs :
    /\ jobs[p][j] \in Started => \A i \in 1..(j - 1) : jobs[p][i] = "SUCCESS"
    /\ j \in artifacts[p] => jobs[p][j] = "SUCCESS"

\* A green CI check of the pull request names a revision for which some pipeline
\* really ran all its jobs with success, whatever the order in which the handlers
\* of several pipelines, and the cancels, have written the row.
GreenCheckEarned ==
  \A r \in DOMAIN checks :
    checks[r].status = "SUCCESS" =>
      \E p \in Pipelines : RevisionOf[p] = checks[r].revision /\ AllSucceeded(p)

\* The webhooks hear of the completion of a pipeline at most once, and what they
\* hear is what its jobs say.
CompletedOnce ==
  \A p \in Pipelines :
    /\ Len(events[p]) <= 1
    /\ \A i \in DOMAIN events[p] :
         /\ events[p][i] = "SUCCESS" => AllSucceeded(p)
         /\ events[p][i] = "FAILURE" => SomeFailed(p)

\* A job that ended by itself keeps its outcome: no cancel, no late write and no
\* second delivery of the run changes a SUCCESS or a FAILURE.
FinishedJobIsFinal ==
  [][\A p \in Pipelines, j \in Jobs :
       jobs[p][j] \in {"SUCCESS", "FAILURE"} => jobs'[p][j] = jobs[p][j]]_vars

\* A cancel holds for good: the pipeline stays canceled unless updateJobStatus had
\* read it but not yet written it back, and none of its jobs runs any more unless
\* updateJobStatus had checked a job but not yet written it.
CancelHolds ==
  \A p \in Pipelines :
    /\ cancelAt[p] \notin {"none", "settle"} => status[p] = "CANCELED"
    /\ cancelAt[p] \notin {"none", "write"} => \A j \in Jobs : jobs[p][j] # "RUNNING"

\* What pipeline-state.test.ts says of terminal states, of the rows themselves.
TerminalIsFinal ==
  [][\A p \in Pipelines : status[p] \in Terminal => status'[p] = status[p]]_vars

\* Every run put in the queue leaves it for good: it completes or it fails,
\* whatever crashes, since redeliveries are counted.
RunConsumed ==
  \A p \in Pipelines : bull[p] = "waiting" ~> bull[p] \in {"completed", "failed"}

\* What README.md says of the runner, that it executes the pipelines: in a behaviour without
\* faults and cancels every triggered pipeline gets a verdict, and the webhooks hear of it.
UndisturbedFinishes ==
  [](faults = 0 /\ cancels = 0) =>
    \A p \in Pipelines :
      status[p] = "QUEUED" ~> status[p] \in {"SUCCESS", "FAILURE"} /\ Len(events[p]) = 1

=============================================================================
