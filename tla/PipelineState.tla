---------------------------- MODULE PipelineState ----------------------------
(***************************************************************************)
(* The status rules of packages/shared/src/pipeline-state.ts: which status *)
(* changes a pipeline and a job may make, and how the statuses of the jobs *)
(* add up to the status of their pipeline.  Pure operators, no state.      *)
(***************************************************************************)

PipelineStatus == {"PENDING", "QUEUED", "RUNNING", "SUCCESS", "FAILURE", "CANCELED"}
JobStatus == {"QUEUED", "RUNNING", "SUCCESS", "FAILURE", "CANCELED"}

Terminal == {"SUCCESS", "FAILURE", "CANCELED"}

CanTransitionPipeline(from, to) ==
  \/ from = to
  \/ from = "PENDING" /\ to \in {"QUEUED", "CANCELED"}
  \/ from = "QUEUED"  /\ to \in {"RUNNING", "CANCELED"}
  \/ from = "RUNNING" /\ to \in Terminal

\* A plausible slip: the test for a terminal status is forgotten, and a job
\* may be started again whatever became of it.
CanTransitionJobRestart(from, to) ==
  \/ from = to
  \/ to \in {"RUNNING", "CANCELED"}
  \/ from = "RUNNING" /\ to \in Terminal

CanTransitionJob(from, to) ==
  \/ from = to
  \/ from = "QUEUED"  /\ to \in {"RUNNING", "CANCELED"}
  \/ from = "RUNNING" /\ to \in Terminal

\* A plausible slip: `some` in the place of `every` for SUCCESS.
AggregateAnySuccess(js, current) ==
  IF current = "CANCELED" THEN "CANCELED"
  ELSE IF \E j \in DOMAIN js : js[j] = "FAILURE" THEN "FAILURE"
  ELSE IF \E j \in DOMAIN js : js[j] = "SUCCESS" THEN "SUCCESS"
  ELSE IF \E j \in DOMAIN js : js[j] = "RUNNING" THEN "RUNNING"
  ELSE "QUEUED"

\* A plausible slip: waiting jobs are looked for before failed ones.
AggregateQueuedFirst(js, current) ==
  LET some(s) == \E j \in DOMAIN js : js[j] = s IN
  IF current = "CANCELED" THEN "CANCELED"
  ELSE IF some("RUNNING") THEN "RUNNING"
  ELSE IF some("QUEUED") THEN "QUEUED"
  ELSE IF some("FAILURE") THEN "FAILURE"
  ELSE IF some("CANCELED") THEN "CANCELED"
  ELSE "SUCCESS"

(***************************************************************************)
(* aggregatePipelineStatus.  `js` maps the jobs of the pipeline to their   *)
(* statuses, `current` is the status the pipeline row holds.  The YAML     *)
(* schema gives every pipeline a job, so the empty list and the last       *)
(* fall-through of the source never apply.                                 *)
(***************************************************************************)
AggregatePipelineStatus(js, current) ==
  LET some(s) == \E j \in DOMAIN js : js[j] = s IN
  IF current = "CANCELED" THEN "CANCELED"
  ELSE IF some("FAILURE") THEN "FAILURE"
  ELSE IF some("CANCELED") THEN "CANCELED"
  ELSE IF \A j \in DOMAIN js : js[j] = "SUCCESS" THEN "SUCCESS"
  ELSE IF some("RUNNING") THEN "RUNNING"
  ELSE "QUEUED"

=============================================================================
