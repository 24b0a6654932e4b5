-------------------------------- MODULE JobLogs --------------------------------
(***************************************************************************)
(* The log of one pipeline job: the executor that runs its steps, the      *)
(* chunks the runner posts, the rows the API stores and publishes, and the *)
(* page that shows them live (PipelineLogsGateway, PipelineDetailPanel).   *)
(*                                                                         *)
(* Only the first line is awaited: every later chunk is posted in the      *)
(* background, so chunks overtake each other on their way, and overtake    *)
(* the status of the job.  Nest answers these calls without a body, which  *)
(* the runner's client cannot read: as the API is, a run throws once the   *)
(* API has marked its job RUNNING, before it writes a line.  Replies lets  *)
(* any of the answers be empty, or one that the client can read.           *)
(***************************************************************************)
EXTENDS Naturals, FiniteSets, Sequences

CONSTANTS
  Steps,      \* steps of the job
  MaxChunks,  \* bound: chunks, the first line included
  Replies,    \* "empty", "read", or both
  MaxFaults   \* bound: lost posts and connections

VARIABLES
  run,      \* where the runner is with the job
  step,     \* steps begun
  next,     \* the sequence of the next chunk
  written,  \* chunks written
  posts,    \* posts under way: the chunk, its sequence, and whether it is stored
  rows,     \* rows[s]: the chunk in the JobLog row with sequence s
  status,   \* PipelineJob.status
  page,     \* the page somebody looks at
  faults,
  lost      \* history: a chunk was lost on its way to the API

vars == <<run, step, next, written, posts, rows, status, page, faults, lost>>

Closed == [at |-> "closed", shown |-> <<>>, status |-> "QUEUED", late |-> FALSE]

Init ==
  /\ run = "ready" /\ step = 0
  /\ next = 0 /\ written = 0
  /\ posts = {}
  /\ rows = <<>>
  /\ status = "QUEUED"
  /\ page = Closed
  /\ faults = 0 /\ lost = FALSE

Fault == faults < MaxFaults /\ faults' = faults + 1

-----------------------------------------------------------------------------
(***************************************************************************)
(* The page.                                                               *)
(***************************************************************************)

\* The log whole, with nobody left who could add to it.
Complete == run = "over" /\ posts = {} /\ ~lost

\* PipelineDetailPage: the pipeline, and then the rows of its jobs in order.
OpenPage ==
  /\ page.at = "closed"
  /\ page' = [Closed EXCEPT !.at = "read", !.status = status]
  /\ UNCHANGED <<run, step, next, written, posts, rows, status, faults, lost>>

\* The row with i - 1 rows before it.
RowAt(i) == CHOOSE s \in DOMAIN rows : Cardinality({k \in DOMAIN rows : k < s}) = i - 1

\* PipelinesService.getJobLogs: the rows in the order of their sequence.
GetJobLogs ==
  /\ page.at = "read"
  /\ page' = [page EXCEPT !.at = "joining", !.late = Complete,
                          !.shown = [i \in 1..Cardinality(DOMAIN rows) |-> rows[RowAt(i)]]]
  /\ UNCHANGED <<run, step, next, written, posts, rows, status, faults, lost>>

\* The socket connects, and subscribe-pipeline and subscribe-job reach the gateway.
Subscribe ==
  /\ page.at = "joining"
  /\ page' = [page EXCEPT !.at = "open"]
  /\ UNCHANGED <<run, step, next, written, posts, rows, status, faults, lost>>

\* The connection breaks.  Socket.IO makes a new one, which nobody subscribes.
Disconnect ==
  /\ page.at = "open"
  /\ Fault
  /\ page' = [page EXCEPT !.at = "deaf"]
  /\ UNCHANGED <<run, step, next, written, posts, rows, status, lost>>

ClosePage ==
  /\ page.at # "closed"
  /\ page' = Closed
  /\ UNCHANGED <<run, step, next, written, posts, rows, status, faults, lost>>

\* A chunk is added at the end, whatever its sequence.
ShowChunk(chunk) == page' = IF page.at = "open" THEN [page EXCEPT !.shown = Append(@, chunk)] ELSE page

\* A status gives the panel a new list of jobs, on which its effect depends: the socket
\* is closed and a new one subscribes.
ShowStatus(s) ==
  page' = IF page.at = "open" THEN [page EXCEPT !.status = s, !.at = "joining"] ELSE page

-----------------------------------------------------------------------------
(***************************************************************************)
(* The runner.                                                             *)
(***************************************************************************)

\* A plausible slip: the sequence advances when the post is answered.
AppendLogAnswered ==
  /\ written < MaxChunks
  /\ posts' = posts \cup {[chunk |-> written, seq |-> Cardinality(DOMAIN rows), stored |-> FALSE]}
  /\ written' = written + 1
  /\ UNCHANGED next

\* appendLog: sequence++ at once, and the post leaves.
AppendLog ==
  /\ written < MaxChunks
  /\ posts' = posts \cup {[chunk |-> written, seq |-> next, stored |-> FALSE]}
  /\ written' = written + 1
  /\ next' = next + 1

\* createPipelineWorker: RUNNING, and the first line, if the answer can be read; if it
\* cannot, the run is over.
StartJob ==
  /\ run = "ready"
  /\ status' = "RUNNING"
  /\ ShowStatus("RUNNING")
  /\ \/ "read" \in Replies /\ run' = "first" /\ AppendLog
     \/ "empty" \in Replies /\ run' = "over" /\ UNCHANGED <<next, written, posts>>
  /\ UNCHANGED <<step, rows, faults, lost>>

\* The first line is answered: execute.
Execute ==
  /\ run = "first" /\ posts = {}
  /\ run' = "running"
  /\ step' = 1
  /\ UNCHANGED <<next, written, posts, rows, status, page, faults, lost>>

\* onOutput: a process of the job writes; also one that outlives its step.
Output ==
  /\ run \in {"running", "left"}
  /\ AppendLog
  /\ UNCHANGED <<run, step, rows, status, page, faults, lost>>

\* LocalProcessExecutor: a step ends well, and the next begins.
NextStep ==
  /\ run = "running" /\ step < Steps
  /\ step' = step + 1
  /\ UNCHANGED <<run, next, written, posts, rows, status, page, faults, lost>>

\* The last step ends, or one fails (run' = "over"), or one runs into its timeout, says
\* so and is killed, but not what it has started (run' = "left").  The status follows
\* at once: the posts may still be under way.
EndJob ==
  /\ run = "running"
  /\ \/ /\ run' \in {"over", "left"}
        /\ status' \in {"FAILURE"} \cup (IF step = Steps THEN {"SUCCESS"} ELSE {})
        /\ UNCHANGED <<posts, written, next>>
     \/ /\ run' = "left"
        /\ AppendLog
        /\ status' = "FAILURE"
  /\ ShowStatus(status')
  /\ UNCHANGED <<step, rows, faults, lost>>

\* The last process of the job is gone.
LastProcess ==
  /\ run = "left"
  /\ run' = "over"
  /\ UNCHANGED <<step, next, written, posts, rows, status, page, faults, lost>>

\* appendLog rejects.  The first line is awaited: the job fails.  Nobody handles the
\* rejection of a later one, which ends the process of the runner: of the others, those
\* that the API has not stored may be lost.
Rejects(p) ==
  LET others == posts \ {p} IN
  /\ run' = "over"
  /\ \E left \in SUBSET others :
       /\ \A q \in others : q.stored => q \in left
       /\ posts' = left
       /\ lost' = (lost \/ left # others \/ ~p.stored)

\* A post fails.
PostFails(p) ==
  /\ p \in posts /\ ~p.stored
  /\ Fault
  /\ Rejects(p)
  /\ UNCHANGED <<step, next, written, rows, status, page>>

-----------------------------------------------------------------------------
(***************************************************************************)
(* PipelinesService.appendJobLog: the row, and then the channel.           *)
(***************************************************************************)

StoreChunk(p) ==
  /\ p \in posts /\ ~p.stored
  /\ IF p.seq \in DOMAIN rows
     THEN \* the pair of job and sequence is unique
          posts' = posts \ {p} /\ run' = "over" /\ UNCHANGED rows
     ELSE /\ rows' = [s \in DOMAIN rows \cup {p.seq} |-> IF s = p.seq THEN p.chunk ELSE rows[s]]
          /\ posts' = (posts \ {p}) \cup {[p EXCEPT !.stored = TRUE]}
          /\ UNCHANGED run
  /\ UNCHANGED <<step, next, written, status, page, faults, lost>>

\* The gateway passes it on to the sockets that have subscribed, and the post is answered;
\* an answer that is empty rejects, though the chunk is stored.
PublishChunk(p) ==
  /\ p \in posts /\ p.stored
  /\ ShowChunk(p.chunk)
  /\ \/ "read" \in Replies /\ posts' = posts \ {p} /\ UNCHANGED <<run, lost>>
     \/ "empty" \in Replies /\ Rejects(p)
  /\ UNCHANGED <<step, next, written, rows, status, faults>>

Next ==
  \/ OpenPage \/ GetJobLogs \/ Subscribe \/ Disconnect \/ ClosePage
  \/ StartJob \/ Execute \/ Output \/ NextStep \/ EndJob \/ LastProcess
  \/ \E p \in posts : PostFails(p) \/ StoreChunk(p) \/ PublishChunk(p)

Spec == Init /\ [][Next]_vars

-----------------------------------------------------------------------------

InOrder == [i \in 1..written |-> i - 1]

\* However the posts overtake each other, and whatever becomes of their answers: unless a
\* chunk was lost, with a post that failed or a runner that died, what is stored in the end
\* is what the job wrote, each chunk at its place; and a page that is opened then shows just
\* that.
LogWhole ==
  /\ Complete => rows = [s \in 0..(written - 1) |-> s]
  /\ page.late => page.shown = InOrder

=============================================================================
