# SVNHUB: a verification project in TLA+

SVNHUB is a forge for Subversion repositories: a NestJS API (`apps/api`), a CI runner fed by
BullMQ (`apps/runner`), a Next.js front end (`apps/web`) and a shared package
(`packages/shared`). This directory holds TLA+ models of the parts of it that keep state and
are shared by several actors, the TLC configurations that check them on small instances, and
proofs of their main invariants that TLAPS checks for every value of the constants.

Contents: [how the system runs](#how-the-system-runs), [inventory](#inventory),
[plan](#plan), [modules](#modules-and-the-code), [runs](#runs),
[fairness](#fairness), [proofs](#proofs), [findings](#findings),
[further hazards](#further-hazards), [what is not modelled](#what-is-not-modelled).

Run a model with `tlc -config Platform.cfg MCPlatform`, check a proof with
`tlapm CiPipelinesProofs.tla`.

## How the system runs

- The **API** is one Node process. A handler runs without interruption up to its next `await`;
  between two awaits of one handler any other may run. One Prisma call (nested writes included)
  is atomic; the code opens no transactions and takes no row locks, and nearly every update is
  read - check - write. So the grain of every model is *the code between two awaits that
  touch shared state*.
- The **runner** is another process with one BullMQ worker of concurrency 1. It talks to the API by
  HTTP calls with a shared secret; it waits for each answer except those of the log chunks a
  running job writes.
- **BullMQ/Redis** holds the queues `pipelines` (1 attempt), `webhooks` (5 attempts, 3 for e-mails) and
  `backups` (2 attempts, one worker). A job whose worker died is delivered again once its lock (30 s)
  has expired, at most `maxStalledCount` = 1 times.
- **Subversion** is used through `svn`, `svnadmin` and `svnlook`, one process per command. Apache serves
  the repositories to native clients, reading the `authz` and `htpasswd` files that the API writes.
  The repository hooks call back into the API: pre-commit waits for its answer, post-commit runs in
  the background and is not retried.
- The **web application** renders pages on its server (whose middleware refreshes an expired session
  first) and loads the rest in the browser. Every answer may arrive after that of a later request.

## Inventory

| Component (source) | State | Hard part | What makes it correct | Modules |
|---|---|---|---|---|
| Pipeline states (`packages/shared/src/pipeline-state.ts`) | - | - | verdicts match jobs | `PipelineState` |
| CI pipelines (`pipelines/*`, `apps/runner`) | Pipeline, PipelineJob, JobLog, Artifact, PRStatusCheck rows; the queue; the runner's loop | handlers interleave at awaits; the worker dies; answers get lost or cannot be read | verdict = jobs, order of jobs, one completion, cancels hold, runs leave the queue, the PR check is earned | `CiPipelines`, proved |
| Job executors, log gateway, log page | JobLog rows, sockets, the page | chunks overtake each other and the status; empty answers reject | the stored log is what the job wrote | `JobLogs`, proved |
| Working copy pool (`svn-engine/working-copy-pool.service.ts`) | Map of arrays, directories | evictions await while others push and pop, and overlap | one borrower per copy, bounded, none removed in use | `WorkingCopyPool`, proved |
| Subversion processes (`svn-engine/svn-cli.executor.ts`) | a process, its pipes, a timer, a promise | timer, exit, close and chunks in any order | resolved means done; rejected means never run, failed, or ended | `SvnCli`, proved |
| Mutex (`common/mutex.ts`) | `locked`, `queue` | hand-over, throwing tasks | implements a lock | `Mutex`, `Lock`, proved |
| authz file (`permissions/authz.service.ts`) | three families of rows, temporary file, file | three queries, crash between them, failure of the rebuild | the file is whole, keeps what was answered, names only groups it defines | `AuthzSync`, proved |
| Access (`permissions/*`, `teams/*`, `auth/guards/*` and ten other queries) | User, RepoMember, Group, GroupMember, RepoTeam, PathPermission | the same question answered by queries written apart | they give one answer | `Access`, proved |
| Accounts (`users/*`, `auth/*`, `permissions/htpasswd.service.ts`) | User, RefreshToken, htpasswd | reads before the mutex, slow hashes, the file of all rewritten for one | no update lost; a deactivated user has no password and no session | `Accounts`, proved |
| Avatars (`users/avatar.service.ts`) | file, address in the row, browser caches | file before row, caches | the page shows the last picture | `Avatars`, proved |
| Pull requests (`prs/*`), merge (`svn-engine/svn-merge.service.ts`) | PullRequest, PRReview, PRStatusCheck, RepoPolicy rows; branches, trunk, mergeinfo | long merge handler against everything else; svn fails half-way; lost answers | merged means on the trunk, once, reviewed | `PullRequests`, proved |
| Issues (`issues/*`) | Issue, IssueLabel, Label | retry of numbers, two-step label sync, closing by a merge, requests that end half-way | numbers dense, the issue as asked | `Issues`, proved |
| Backups (`backups/*`) | Backup and health rows, directories, queue | failures after success and within the error path, retention, stalled jobs | the newest good backup survives; no verification stays pending | `Backups`, proved |
| Webhooks, e-mail, notifications | Webhook and Notification rows, queue | events after the change, several workers, crashes | nothing owed is dropped | `Deliveries`, proved |
| Repositories and hooks (`repositories/*`) | Repository row, directory, hooks | disk and row in five steps, no undo | a row has its directory; a slug at rest is whole or free | `Repositories`, proved |
| Revision index and history | svn log, RevisionIndex | background hooks out of order; readers of several steps | one consistent answer | `History`, proved |
| Dashboard, profile feed | rows of three kinds; the page | paging a growing list by offset, each kind read up to a batch | the newest entries in order, none skipped | `Feeds`, proved |
| Statistics | RevisionIndex; the clock | calendar arithmetic in three places | the buckets hold every commit | `Stats`, proved |
| Paths (`packages/shared/src/svn-path.ts`) | - | names with slashes (only native clients make them), empty segments | paths come back | `SvnPaths`, proved |
| Browser session (`web/src/lib/*`, `middleware.ts`) | localStorage, cookies, RefreshToken | two copies of a pair that works once, rotated by tabs and by the middleware | nobody is signed out by a refresh of his own, but for what `SessionKept` names | `WebSession`, proved |
| Panels (`web/src/components/*`) | what a panel shows, requests under way | answers out of order or unreadable, whole-list updates from stale props | the panel settles on the API's state | `Panels`, proved |
| Audit log (`audit/*`) | append-only rows | - | - | not modelled |

How they meet: the post-commit hook indexes revisions and creates pipelines; pipelines write the checks
that a merge looks at; a merge borrows from the pool, commits through svn (whose pre-commit hook asks
the API again), closes issues and hands events to the webhooks; changes of teams, permissions and
users rebuild authz and htpasswd under the one mutex; every svn command is one `SvnCli` process.

The hazards this code is exposed to, each with its line and with the properties that would catch
it, are in `PROJECT.json` under `hazards`; [further hazards](#further-hazards) lists smaller ones met on
the way.

## Plan

All of it is done but for the last item.

1. `PipelineState`, `CiPipelines` and proofs.
2. `WorkingCopyPool` and proofs.
3. `Lock`, `Mutex` (with the refinement), `AuthzSync` and proofs.
4. `PullRequests` and proofs.
5. `Accounts`, on the same `Mutex`; `WebSession`.
6. `Backups`, `Issues`, `Deliveries`.
7. `Repositories` and proofs, `History`.
8. Pure parts: `Access` (roles and queries), `SvnPaths` and proofs, `Stats`.
9. `SvnCli`, `JobLogs`, `Feeds`, `Avatars`, `Panels`.
10. `Services` and `Browser`, which gather the small components, with the proofs of those components;
    `PlatformProofs`, which carries them over to what the run `Platform` checks.
11. Proofs for `SvnCli`, `History`, `Feeds` and `Stats`, in `ServicesProofs` and `BrowserProofs`.
12. Left: an abstract specification of a run (jobs one after the other until one fails) that `CiPipelines`
    implements; the order of the jobs of a pipeline file; the parsers of svn's XML.

Composition: `CiPipelines` EXTENDS `PipelineState`; `AuthzSync` and `Accounts` EXTEND `Mutex`, which
INSTANCEs `Lock`; `PullRequests` assumes of the pool what `WorkingCopyPool` checks (`Exclusive`: a merge
has its directory to itself). Every `MC*` module EXTENDS its component and adds only the symmetry set
or values of constants. `Services` INSTANCEs `Accounts`, `Access`, `Issues`, `Avatars`, `Backups`,
`Deliveries` and `SvnCli`, and `Browser` INSTANCEs `WebSession`, `JobLogs`, `Panels`, `History`, `Feeds` and
`Stats`, so that one module holds the proofs of several small components. These share no state; where two of
them declare a variable of one name (`job`, `queue`, `rows`, `loads`, `faults`), it stands for that of the
component a behaviour is about. `MCPlatform` EXTENDS `Repositories` and INSTANCEs `ServicesProofs`,
`BrowserProofs` and `CiPipelinesProofs` (each its components with their theorems); their variables are the slots
`v1` ... `v15`. Modules with proofs EXTEND their component.

## Modules and the code

The `map` of `PROJECT.json` gives the lines each definition stands for. Definitions introduced
by "A plausible slip" are wrong variants of the definition that follows; nothing uses them. They
document what each property would catch.

**PipelineState** - the tables `canTransitionPipeline`, `canTransitionJob` and
`aggregatePipelineStatus`, which compares in the order of the code.

**CiPipelines** - pipelines of one branch with an open pull request. `status`, `jobs`, `logged`,
`artifacts` and `checks` are rows; `queue`, `bull` and `stalls` are BullMQ; `run` is the runner;
`req[p][k]` is the handler of kind create, cancel or update in flight for p, with the await it stands
at and the values it has read (`snap`, `row`).

- *createAndEnqueue* = `Create`, `FindCheck`, `PutCheck`, `Enqueue`.
- *cancel* = `CancelRead`, `CancelWrite`, `FindCheck`, `PutCheck`.
- *updateJobStatus* = `UpdateRead`, `UpdateWrite`, `UpdateReread`, `UpdateSettle`, then for a
  terminal sum `FindCheck`, `PutCheck`, `Emit`.
- *the worker* = `TakeRun`, `Export`, `NextJob`, `Accepted` or `EmptyReply`, `FirstLog`, `Execute`,
  `Collect`, `LastJob`. `FirstLog` is there because log sequence numbers restart at 0 with every run and
  are unique per job: a redelivered run dies at its first line.
- *answers*: the handlers of the API that the runner calls return nothing, which Nest sends as 200 or 201
  without a body, and the runner's client parses every answer but a 204 as JSON. So the call throws after its
  change was made (`EmptyReply`), and the run is given up: this is what the code does today, at the first call
  of every run (finding 2). The constant `Replies` says which answers there are: `{"empty"}` is the code as it
  is; with `"read"` in it any call may be answered readably as well, so that what a run does after its first
  call, which the code states and never reaches, is checked too. Every property is checked, and every theorem
  proved, for any mixture.
- *faults* = `RunnerThrows`, `RunnerCrash`, `ApiCrash`, `DropReply`, `Redeliver`.

**JobLogs** - one job from the call that marks it RUNNING on, whose answer may be empty like all others
(`Replies`, as in `CiPipelines`). `Output` writes a chunk and sends a post nobody waits for; `StoreChunk` and
`PublishChunk` are the two halves of the handler. `PublishChunk` answers: an empty answer rejects a post that was
stored, and `PostFails` one that may be lost. `Rejects` is what a rejection does: the first line is awaited, so its
rejection ends the run; nobody handles that of a later one, which ends the process of the runner
with whatever posts the API has not stored (`lost`, a history variable).
`OpenPage`, `GetJobLogs`, `Subscribe`, `Disconnect` are the page; `RowAt(i)`, the row with i - 1 before it, is the
`orderBy` of its query.

**WorkingCopyPool** - one pool key. `bucket` is the array in the Map; an eviction remembers the array it walks
over (`alias`, `old`), because `evictStale` replaces the array when it is done. Any number of evictions may
overlap, since the timer does not wait for the last one. `putBack` is a history variable: an eviction has put
back an array that another one had replaced. `Prepare`, `Use`, `Release` and `RevertFails` are
`withWorkingCopy`.

**SvnCli** - one call of `run`. `Data` is the event handler of a chunk, which decodes it on its own; `Timeout`
kills, `End` is the end of the process (with 0 after its work; with 1 before it or after it, as `svn commit` may
fail once the revision is there, which `PullRequests` has as `WcCommitLost`; or by a signal), `Close` the
handler that settles the promise. `Decoded` gives what each byte adds to the text: the first byte of a character
shows it if the second is in the same chunk.

**Mutex** and **Lock** - `Enter` and `Leave` are `acquire` and `release`, each without an await.
`Lock` says what callers rely on: one owner, taken from those who asked, never nobody while
somebody asks. `Promise == INSTANCE Lock WITH owner <- Owner, asking <- Asking` is the refinement
mapping.

**AuthzSync** - rows are version numbers per family: `groups` (teams and members), `repos`
(repositories, their members, permissions and team links), `uses` (the version of the groups those
links refer to, by name), `admins`. `Begin` and `DisbandTeam` are the writes of the operations, `RenameTeam` among
them, which changes what two of the queries read; `CallRebuild`,
`ReadGroups`, `ReadRepositories`, `ReadAdmins`, `OpenTmp`, `WriteTmp`, `RenameTmp`, `Answer` are
`rebuildAll`. `Boot` stands for `onModuleInit`, which rebuilds before the API serves. `promised` is
a history variable: the versions of the operations that have answered.

**Access** - the rows as sets and functions for one repository, and each query as an operator: `Allowed` is the
guard, `Listed` the list of repositories, `Found` the search, `Recent` the dashboard, `EligiblePrReviewers` and
`RepoMaintainers` the notifications, `ReviewRequested` the dashboard's requests for a review, `UserEntry`,
`TeamEntry`, `EveryonesEntry` and `SvnGrants` the compiled authz section, for the root, the trunk and the tags:
a permission `NONE` is not compiled, and `/tags` has an entry for everybody. A team's removal is two steps
(`DeleteTeamRules`, `DeleteTeamRow`), as in the code.

**Accounts** - `job[c]` is the operation of caller c: its step and the row it has read. The section of the
mutex is `EnterSection`, `ReadEntries` (or `Misread`: any error reads as an empty file), `WriteEntries` (or
`WriteFails`), `LeaveSection`; `RestartApi` is a crash with the reconciliation that follows.
`section` and `excused` are history: what each section left for its user, and the users whose deactivation
met a race or a fault. `excused` is narrow on purpose: it names the windows the code leaves open. It does not take in
an LDAP login of a local account: `TakenOver` names that case in the property itself.

**Avatars** - `WriteFile` before `SetUrl`; `Serve` gives whatever file there is under any version; `cache` is
what browsers keep.

**PullRequests** - `merge` in the order of the code: `MergeLoad`, `Preview`, `CheckPolicy`, `WcUpdate`,
`WcMerge` (or `WcMergeFails`), `WcCommit` (or `WcCommitLost`), `Mark`, `DropBranch`, `Announce`. `create`
is `CreateCheck`, `CreateNumber`, `CreateInsert` (numbers are unique: a lost race inserts nothing);
`updateStatus` is `StatusLoad`, `StatusSet`; `addReview` is `Review`. Subversion is reduced to what the
properties tell apart: revision numbers, the last commit of each branch, the commits on the trunk with
the mergeinfo they record, which branches conflict, and the out-of-date check (each merge changes
`svn:mergeinfo` of the root, so a merge commits only on the newest trunk). `found` in a row is
not a column: it records what the merge had found on the branch, for `MergedIsIn`. `cleared` is a
history variable: pull requests somebody has approved, or that were there while the policy
(`minApprovals`, which may be 0) asked for no approval.

**Issues** - `Create`, `ReadMax`, `Insert` are the creation with its attempts; `Update`, `UpdateRow`,
`DeleteLabels`, `AddLabels`, `Announce` the update; `Close`, `CloseRow` the closing by a merge; `Fail` ends any
of them between two queries, by an error or with the process. `asked`, `calm`, `beaten`, `undone` are history;
`undone[n]` is what requests that failed have left of an issue: labels half replaced, an event not sent.

**Backups** - `TakeJob`, `EndJob`, `Crash` are BullMQ; `StartHotcopy` ... `EndHotcopy` is `runHotcopy` with
`applyRetention`; `StartVerify`, `Verified` is `runVerify`, and `VerifyFails` the failure of its catch block. A
job that failed often enough, or stalled twice, is given up (`GiveUp`); `forsaken` is history: the repositories
whose verification was given up and has not begun again.

**Deliveries** - a comment on an issue: `EnqueueDelivery` per webhook, `EnqueueEmail` per user, `NotifyMentions`,
`Answer`; `Take`, `Delivered`, `Failed` are the workers. `owed` fills when the request has answered.

**Repositories** - `create` is `Create`, `SvnAdminCreate`, `SvnMkdir`, `InsertRow`, `InstallHooks`, `MakeOwner`,
`IndexFirst`; `remove` is `RemoveRow`, `RemoveContents`, `RemoveDirectory`; `Fails` ends either anywhere; `RestartApi`
loses what is in flight and installs the hooks again, as the startup does.

**History** - one path per revision. `IndexRevision` and `LoseCall` are the hook's call; `StartPaging`, `ReadPage` the
history panel; `StartChangelog` ... `EndChangelog` the changelog; `ReadList`, `ReadReadme` a tree; `CheckRef`,
`CopyRef`, `CopyRefused` the creation of a branch or a tag.

**Feeds** - `ActivityFeed` is the merge of three sorted queries and the cut of a page; `Reload`, `LoadMore`, `Read`,
`Answered` are the page. `PagesInOrder` and `NoneSkipped` compare what it shows with the rows, not with the queries;
`since` and `alone` are history: when the list was asked for from its start, and whether no two requests were on
their way together since. **Stats** - `Ask`, `Group`, `Answer` are one request, in a calendar of three-day weeks
and months of two to four days, some shorter than today's day of the month. `MonthStart` is the calendar:
the first days of the months. A total is the size of a set of pairs, one for each commit.

**SvnPaths** - a path is the sequence of its segments; every function of the file is an operator.

**WebSession** - pairs are numbered; `storage` and `cookie` are the two places; `RefreshReaches` is the API
deleting the old token, `RefreshAnswered` the browser storing the new pair, `Visit`, `MiddlewareRefresh`,
`SetCookies` a page. `raced` and `behind` are history: `raced` is set when uses of the pair overlap or an answer
is lost, `behind` when the middleware has rotated the cookies for a link followed inside a page, which leaves
`localStorage` with the old token.

**Panels** - a component is a record of how it differs: whether it reloads after a request, guards its buttons,
sends one item or the whole list, aborts earlier loads, polls. `Click`, `CallReaches`, `CallAnswered` and
`ReadLoad`, `LoadAnswered` are common to all; `EmptyAnswer` is the answer to a `DELETE` of the panels that
remove (`empty`): it has no body, the client throws, and the panel loads nothing. The panel of access tokens
only adds what is new (`only = "new"`): every press creates another token, so an item of it is pressed once.

**Services**, **ServiceParameters**, **Browser**, **BrowserParameters** - no code of their own: they gather
components (see [plan](#plan)). The `...Parameters` declare the constants a proof asks something of, with those
assumptions.

## Runs

`CHECK_DEADLOCK FALSE` is set throughout: users owe the system nothing, so each model
stops when the bounded requests, faults or revisions are used up.

| Run | Checks | Instance | Shows |
|---|---|---|---|
| `CiPipelines_run` | VerdictEarned, JobsInOrder, CompletedOnce, CancelHolds, FinishedJobIsFinal, RunConsumed | 1 pipeline, 3 jobs, 2 faults, 2 cancels, 1 redelivery, answers empty or readable | one run against cancels, crashes, unreadable answers and a second delivery |
| `CiPipelines_terminal` | TerminalIsFinal | 1 pipeline, 2 jobs, 1 cancel, empty answers | **violated**, finding 1 |
| `CiPipelines_verdict` | UndisturbedFinishes | 1 pipeline, 1 job, empty answers | **violated**, finding 2 |
| `WorkingCopyPool` | Exclusive, PoolBounded, NeverRemovedInUse | 3 requests, 3 directories, pool of 2, 2 evictions that overlap | no copy lent twice, none removed in use, until an old array is put back; the bound holds always |
| `AuthzSync` | FileWhole, AnswersHold, InSyncWhenQuiet, DanglingOnlyInFlight, ImplementsLock | boot and 3 requests, 3 writes, 1 fault | the file follows the database, through failures and a restart |
| `AuthzSync_live` | EveryOperationEnds | the same, 2 writes | everybody who waits for the mutex is answered |
| `AuthzSync_rules` | SameRulesAsTheWeb | boot and 1 request | **violated**, finding 3 |
| `PullRequests` | MergedIsIn, AppliedOnce, ReviewedOnly | 1 branch, 1 pull request, 2 requests, 1 reviewer, minimum 0 or 1, 4 revisions, 1 fault | concurrent and repeated merges |
| `PullRequests_gone` | MergedMeansMerged | the same, minimum 1, 3 revisions, no fault | **violated**, finding 4 |
| `Platform` | the 21 below | two clients, two things, two users | the other parts |
| `History_author` | IndexedAsCommitted | 2 revisions | **violated**, finding 5 |
| `Access_profile` | ProfileCountsVisible | 2 users, 1 team | **violated**, finding 6 |

`Platform` runs fifteen parts that share no state; the variable `part`, chosen in the initial state, says
which one a behaviour is about, so the run is the sum of fifteen runs and no product of them. Each
property is guarded by its part:

| Part | Property | Says |
|---|---|---|
| repositories | RowHasDirectory, QuietIsWhole | a row has its directory; without faults and overlaps a slug at rest is whole or free |
| accounts | NoLostUpdate | no rewrite of the htpasswd file undoes that of another user |
| | DeactivationCloses | a deactivated user has neither an entry nor a session, unless a race or fault met the deactivation, or (for the entry) a directory login took a local account over |
| access | QueriesAgree | guards, lists, search, dashboard, notifications name the same users |
| | SvnFollowsRole | on the trunk the native client gets what the role on the web says, where no permission grants a user something of his own; everybody reads the tags and nobody writes them |
| issues | NumbersDense | numbers have no gap; nobody gives up while fewer than `maxAttempts` others are created |
| | AsAskedUnlessRaced | an issue no two requests met on is as asked, but for the labels and the event that a request which ended half-way left undone |
| deliveries | NothingDropped | what an answered request owed is under way, arrived or tried enough |
| backups | LatestBackupKept, VerifyingIsUnderWay | the newest good backup is on disk; VERIFYING has its job, unless the queue gave it up |
| session | SessionKept | without overlapping uses and lost answers nobody is signed out but by a logout, a tab the middleware has left behind excepted |
| panels | PanelSettles, NoPressLost | a panel at rest shows the API's state, but for items whose removal was answered without a body; no press is lost but to a stale list |
| ci | GreenCheckEarned | a green check was earned by the revision it names |
| logs | LogWhole | the stored log is what was written, unless a chunk was lost |
| history | ReadersConsistent | readers of several steps get one consistent answer |
| feeds | FeedsTruthful | pages are the newest entries of the rows in order until a row changes, and skip none while rows change, but for kinds with more rows than a batch |
| stats | TotalsWhole | what the database has counted is shown, in as many buckets as the page says |
| svn | OutcomeTrue | a command that resolves did its work and is read whole; one that rejects never ran, failed, or was ended |
| avatars | PictureCurrent | the address shows the last picture |

It also evaluates the assumption `PathsTranslate`: the three theorems of `SvnPaths` for all paths of up to
two segments, empty ones included.

Types (`TypeOK`, and for the parts of `Services` and `Browser` the type invariants of the proof modules) and
`LockAccounted` are proved, for the modules that have proofs, and were checked by TLC before;
they are not repeated in the runs, whose place the properties above need more. `GreenCheckEarned` is
checked in `Platform` on two pipelines of one job each.

Why the bounds are enough:

- *CI*: three jobs have a first, a middle and a last; two faults allow a crash of the worker and
  another during the second delivery; with both kinds of answers in `Replies` a run may break
  off at each of its calls or go on to its end; two cancels allow a cancel of a canceled pipeline to be
  tried. Pipelines share only the queue and the check rows, so two cover their races.
- *Pool*: three borrowers with a pool of two reach a full pool, an empty pool and both at once; a
  timeout of 0 in a clock of 1 gives copies that are fresh and stale; two evictions overlap in every
  order, and ten steps lead to one that puts an old array back (`LentOnce` by itself is violated then).
- *authz*: three requests make a waiting list of two behind the owner; three writes allow an
  older rebuild to race two newer ones, or the two writes of a team's end and a third. The
  startup is a fourth caller.
- *Pull requests*: two requests merge the same pull request at once, and one is repeated after a lost
  answer; four revisions give two commits on the branch and two on the trunk, which is what
  `AppliedOnce` needs to fail. Two pull requests do not end within minutes; the theorems cover
  every number of pull requests, branches, requests and revisions.
- *Platform*: the races are between two: two clients creating and removing one slug (three ids: a removal
  between two creations), two callers of the mutex with three operations, two creations against one number with
  two attempts, two backup jobs with two faults (a job is redelivered once, the second crash ends it), three
  loads of one panel (two that overlap and the one that follows a request), three pairs of tokens (the refused,
  the rotated and the next), four revisions in pages of one, four time steps of a feed with pages and batches of
  two, so that three rows of one kind exceed the batch, fourteen days with a month shorter than today's day. A
  mutant of each property is found within the same bounds.

## Fairness

Safety is checked of `Spec`, without fairness. Two specifications add it:

- `CiPipelines!FairSpec`: weak fairness of each handler's next step (Node's event loop runs what is ready), of
  the runner's next step, whichever answer it gets (one worker, which takes the next run when it is free; jobs
  have a timeout, so an executor always returns), of `DropReply` and of `Redeliver` (BullMQ looks for stalled
  jobs on a timer). Cancels, triggers and faults are owed by nobody; that they are bounded stands for a system
  that is not crashing for ever.
- `AuthzSync!FairSpec`: weak fairness of each caller's next step. A caller that waits for the mutex
  has no step; that it gets in is what `EveryOperationEnds` shows, not what is assumed.

The parts of `Platform` have no liveness property: what they could promise (a panel settles, a mail
arrives) rests on networks and users nothing in the code makes fair. They state instead what holds at rest.

## Proofs

Assumptions are those named in the modules: `PipelinesAssumption`, `MutexAssumption`, `AuthzAssumption`,
`PullRequestsAssumption`, `RepositoriesAssumption`, `NamesAssumption`, `PoolAssumption`, and in
`ServiceParameters` `AccountsAssumption`, `AccessAssumption`, `IssuesAssumption`, `AvatarsAssumption`,
`BackupsAssumption`, `DeliveriesAssumption`, `SvnCliAssumption`; in `BrowserParameters` `HistoryAssumption`,
`FeedsAssumption`, `StatsAssumption`; in `MCPlatform` `NobodyApart` and `PipelinesApart`. They give types of
constants, say that null values are not members, that there is an account, that the creator of the repository
has one, and that the repositories are finitely many. `StatsAssumption` says more: that a week has more than one
day; that months follow one another, with as many before today as a request looks back; and that the heatmap has
cells for more days than it is asked for, which the code has by its numbers (it draws 53 weeks and is given 364
days back, `contribution-heatmap.tsx:26`, `user-stats.service.ts:86`). TLC evaluates each. Each proof about a
specification has an inductive invariant, a lemma for every action or a step for each, and theorems that follow
from it. Every inductive invariant was checked by TLC, as an invariant of a run, before it was proved.

**CiPipelinesProofs**: `TypeCorrect`, `VerdictsEarned`, `GreenChecksEarned`, `FinishedJobsFinal`.
`VerdictEarned` alone is not inductive: `UpdateSettle` writes a sum computed from an earlier
state. `HandlerOK` says of every handler what it still relies on: a job it is about to write is not
finished (or already has that outcome), and a sum that is a verdict still agrees with the jobs, since
finished jobs do not change. `RunOK` and `NotYet` give the runner and the queue only pipelines that
exist. All of it is proved for any `Replies`: an empty answer ends the run where it stands.

Its second half adds `JobsAlwaysInOrder`, `AnnouncedOnce`, `CancelsHold`. `Places` says that a
run is at one place at a time, in the queue or with the runner, so calls of `updateJobStatus` for one pipeline
never overlap, second deliveries included. With that, `RunOrder` and `CallOK` keep behind the runner's position
only jobs that succeeded or were canceled, and `NotAnnounced` says that a call which may still write a job is
for a pipeline that has not announced its end. `CancelOK` is the argument about a cancel: after it the status
stays CANCELED, or all jobs are over and a call in flight settles the run.

**MutexProofs**: `MutexCorrect` (types and `LockAccounted`, for any set of callers) and
`MutexImplementsLock`: the initial state maps to `LockInit`, `Enter` to `Take` or `Ask`, `Leave` to
`PassOn`, `Restart` to `Empty`. The step lemmas are stated of `Enter`, `Leave` and `Restart` so that
modules built on the mutex cite them.

**AuthzSyncProofs**: `TypeCorrect`, `LockHolds`, `FileAlwaysWhole`, `AnswersAlwaysHold`, `SyncedWhenQuiet`,
`DanglingNeverLeft`, `RebuildsImplementLock`. The invariant `Places` ties a caller's step to its place at the
mutex, and `Ordered` bounds what the holder has read: not older than the file nor than its own write, not newer
than the database. So a rename never takes a promised version back. `Owed` adds for a system without faults that
what the file lacks of the groups and of the links to them, by links or by new names, was written by an
operation still in flight, which therefore brings it in before it answers. `RebuildsImplementLock` is the
refinement of `Lock` by the whole service: every step of `AuthzSync`, failures and restarts included, is one of
the mutex or leaves it alone (`NextIsMutex`), and the mutex implements `Lock`.

**PullRequestsProofs**: `TypeCorrect`, `MergedAlwaysIn`, `AlwaysAppliedOnce`, `AlwaysReviewed`. `HandlerOK` says
of a merge in flight that its commits are not on the trunk as of its base (`Before`), or, with nothing
to commit, that they are (`In`); svn accepts only a commit whose base is the newest trunk, so the new
commit goes beyond the earlier ones of its branch. `ApprovalsNoted` ties the counted reviews and a
policy that asks for none to `cleared`.

**WorkingCopyPoolProofs**: `CopiesAreExclusive`, `PoolsAreBounded`, `NoneRemovedInUse`, for any number of
evictions at once. The timer starts an eviction every 60 s whether the last one is done or not, so the theorems
do not assume that they follow each other. What the code gives: the bound, always (`AtMost`: no array an
eviction walks over or keeps is longer); the rest until an eviction that was overtaken puts its array back
(`putBack`), which lends copies of that array a second time (`IInv` is `Base`, and `Kept` until then). That it
holds until then although `evictStale` awaits in the middle of its walk rests on the order of the array:
`release` pushes, so `Sorted` puts the stale entries first; an eviction then has nothing to keep before its last
await (`Walk`, of each eviction and the array it walks over), and what it stores is the rest of the array as it
is at that moment. `Made` keeps `mkdtemp` from handing out a directory that is in use.

**ServicesProofs**, one section per component, each with its own inductive invariant:

- *Accounts* (`AccountsLoseNoUpdate`, `AccountsClose`), on the lemmas of `MutexProofs`. Whoever is between the
  reading and the writing of the file holds the mutex (`Places`), so what it has read is the file (`FileInv`) and
  nobody's change is undone. `ClosedInv` says of each inactive user that the file and the sessions are
  closed, or that an operation which will close them is on its way (`Closing`), and that none which would
  open them again is (`SawRight`), unless the user is `excused` or, for the file, `TakenOver`.
- *Access* (`AccessQueriesAgree`, `AccessSvnFollows`). Every query is brought down to one set, the roles a user
  has (`RolesOf`); on a path nobody is named at, what the section grants follows from that set, and from the
  entry of everybody. The invariant is about the removal of a team, which takes two queries: once the row is
  gone, so are its members and links, although some may still be given to it between the two.
- *Issues* (`IssuesDense`, `IssuesAsAsked`). The numbers are 1..k (`Dense`), and a creation counts right how many
  others were made since it began (`CountingOK`). An issue whose requests do not overlap is as the last one
  asked, but for the steps this one still has to do (`RowOK`, `CalmInv`), and for what those that failed have left
  undone: `undone` grows by just the steps a request still had, and a later request that does them takes them off.
- *Avatars* (`AvatarsCurrent`). When the file changes, the address is one no browser has kept a picture for
  (`InTurn`).
- *Backups* (`BackupsKept`, `BackupsUnderWay`). The retention works on the repository whose newest success it
  has just made, and never takes that one (`CopyOK`, `KeptInv`). What a crash leaves VERIFYING is covered by the job
  that was put back, since a job at work passes no repository over (`VerifyInv`); what a job leaves VERIFYING that was
  given up is `forsaken`. Nothing is asked of the number or the kind of the faults.
- *Deliveries* (`DeliveriesKept`). A letter is covered from the moment its job is queued (`LetterCovered`), and
  stays so: a job leaves the queue only when it arrived or was tried often enough.
- *SvnCli* (`OutcomesTrue`), for any text. As long as no chunk has ended within a character, what has been
  decoded in pieces is what decoding all of it at once gives (`OutputRead`): the text is compared byte by byte,
  each of which depends on its neighbours only. `FateKnown` ties the promise to the exit code, and the code 0 to
  the work; of another code it says nothing.

**BrowserProofs**, in the same way:

- *WebSession* (`SessionStaysKept`). While uses of the pair do not overlap, one tab at most is busy
  (`OneTabBusy`); what it has sent is the pair the API still has, or its answer brings the one that took its
  place (`CallCurrent`); at rest the cookie is that pair, and the storage too, unless a page is loading or the
  tab is left behind (`behind`): then storage may hold a pair that is dead, and a refresh with it clears both
  places.
- *JobLogs* (`LogsWhole`). The number of a chunk is its place (`ChunksPlaced`), and none is missing before its
  row is there, unless it is `lost` (`RowsWhole`), whether its answer can be read or not; the order of the rows
  is then the order they were written in. A page that came after the end shows them all.
- *Panels* (`PanelsSettle`, `PressesKept`), for every component at once. What a panel asked for last is shown,
  or comes with the newest load, or that load is still to be sent (`Coming`), for items that were not removed
  with an empty answer (`mine`); a list edited in place has one call for what it adds (`EditOK`); a panel that
  sends its whole list waits for the answer, so its one call carries all presses (`PressInTurn`, `PressOK`). The
  attempt to prove `PanelSettles` found an error of the model: tokens could be added twice, which a third
  request turned into a violation the code does not have (`only = "new"` now).

- *History* (`ReadersStayConsistent`). A list of revisions is described by rank: the i-th of it is the one that
  i - 1 others exceed. So a page has what so many exceed (`PageFollows`), and a revision that is indexed later
  only raises the ranks of those already there: one that the reader still wants is behind what was read, or was
  read (`PagesOK`). A changelog has listed what is newer than the tags to come, and nothing else (`SectionsOK`),
  since no two tags that are listed come from one revision (`TagsApart`).
- *Feeds* (`FeedsStayTruthful`). No two rows have a date in common (`RowsDated`), so a set of entries has one
  order and the merge of the three sorted queries is that of all entries, unless a kind has more rows than are
  fetched. While requests do not overlap and no row changes, the one page under way is what stands at its offset
  and goes where the list ends (`CalmOK`); what is missing of the rows is then older, or `Crowded` out by a
  batch of its kind (`InPlaceInOrder`). While rows change and each kind fits a batch, entries are only pushed
  down, so the pages read so far cover every entry above their end that was there when the list was asked for
  (`GrowOK`, `CoversGrow`, `PageCovers`). A profile is cut above whatever a kind with more rows does not tell.
- *Stats* (`TotalsStayWhole`), for weeks and months of any length. A bucket is known by the day it starts on; the
  days on which the weeks or months of a range start are counted by a bijection with the numbers of those
  weeks (multiples of `WeekDays`) or months, so no bucket is cut off (`WeeksLaid`, `MonthsLaid`, `DaysLaid`). Totals
  are compared as sets of pairs: what the database has counted is what the buckets and the cells show, moved
  (`TotalMoves`). All of it holds until midnight starts another week or month (`Settled`), as `TotalsWhole` says.

Lists are never argued about by induction. In a finite set whose elements have different numbers the ranks
are an injection into as many numbers, hence onto them (`Ranks`), and that defines the sorted list; the greatest
or least of some numbers is there because `<` is well-founded (`GreatestOf`, `LeastOf`).

**PlatformProofs** starts with the repositories, whose variables are the platform's own: `TypeCorrect`,
`RowsHaveDirectories`, `QuietSlugIsWhole`. A row and its directory change in
different steps; what keeps them together is that `svnadmin create` refuses a directory with something in it.
`OneHolder` and `HolderAlone` say so: the request between `SvnAdminCreate` and `InsertRow` is the only one that
holds the directory, and there is no row meanwhile. `CalmInv` adds, for `QuietIsWhole`, what every step still
owes when nothing failed and nothing overlapped.

Then come the names of paths: `PathsComeBack`, `ChangesFindBranches`, `NamesStayApart`, for paths and names of
every length. The second is an equivalence: a branch whose name has a slash is never traced from its changes, so
it gets no pipelines. The API refuses such a name (`branches.service.ts:103`, `:147`); `svn copy` of a native
client does not.

The rest carries the theorems of the parts over to the specification that the run `Platform` checks. `part` never
changes (`PartStays`), so a behaviour of the platform about a part is a behaviour of that part's own specification
(one lemma `...Part` for each), and what is proved of the part holds of it. For the repositories this is the
refinement `PlatformRepositories`, of every behaviour. The theorems `Platform...` are about the parts with the bounds
`MCPlatform` gives them; those of `ServicesProofs`, `BrowserProofs` and `CiPipelinesProofs` hold for every value.

Only model-checked:

- `RunConsumed`, `EveryOperationEnds`: liveness under fairness, which this prover cannot do.

Every safety property that a passing run checks has a theorem. None of them rests on what a recursive definition
computes: sorting, sums and decoding are defined by rank, as sizes of sets and place by place.

## Findings

1. `pipelines.service.ts:260` - a cancel between the reread and the last write of `updateJobStatus`
   is overwritten; the pipeline leaves CANCELED although the table and its test forbid that.
   `CancelHolds` shows that this is the only window.
2. `api-client.ts:63` (runner) - the client parses every answer but a 204 as JSON, and `updateJobStatus` of the
   API (`internal-pipelines.controller.ts:32-35`) answers 200 with no body. The first call of every run throws
   once its change is made: the run is given up, its only attempt spent, and the pipeline stays RUNNING
   (`README.md:24` of the repository: the runner executes pipelines).
3. `users.service.ts:160` - a change of `isAdmin` is not compiled into the authz file until
   something else rebuilds it (`docs/PLAN-svnhub-mvp.md:232`).
4. `svn-engine.service.ts:462` - a failed `svn merge` is taken for an empty one, and the pull request is
   marked MERGED with nothing merged, for instance when the branch is deleted between the preview
   and the merge (`docs/PLAN-svnhub-mvp.md:148`).
5. `svn-engine.service.ts:282` - the author and message of a revision are looked for under labels that
   `svnlook info` does not print, so the index has neither
   (`docs/PLAN-svnhub-v2-contas-teams-overview.md:83`). The other properties of `History` do not depend on
   the author.
6. `user-stats.service.ts:304` - the filter on `id` that is right for repositories is applied to the rows of
   `RevisionIndex`: profiles count no commits for a viewer who is not an administrator
   (`docs/PLAN-svnhub-v2-contas-teams-overview.md:92`).

## Further hazards

Met while modelling; the models have most of them as behaviours. Where a document of the repository says
otherwise, it is cited; these have no run of their own, since the properties name them as exceptions.

- *CI*: once the answers can be read, `pipelines.service.ts:515` lets whichever pipeline ends last write the one
  CI row of a pull request, so a red newest revision can show green (`docs/PLAN-svnhub-mvp.md:149`); today no
  run gets that far (finding 2).
- *Access*: `addRule("/tags", "*", "r")` (`authz.service.ts:139`) opens the tags of every repository for reading
  to everybody, private ones included, and closes them for writing to their own maintainers, against
  `docs/PLAN-svnhub-mvp.md:232`; a permission `NONE` of a path is skipped (`authz.service.ts:123`, against
  `docs/PLAN-svnhub-mvp.md:121`); the authz file goes on naming inactive users, whom only their missing password
  keeps out.
- *Accounts*: an LDAP login clears `isLocal` of a local account and leaves its entry in htpasswd
  (`auth.service.ts:37-43`); a later deactivation does not remove it (`users.service.ts:351-356`), so the native
  client still lets the user in until the API starts again (`docs/OPERATIONS.md:98`,
  `docs/PLAN-svnhub-v2-contas-teams-overview.md:38`). Any error while reading htpasswd reads as an empty file
  (`Misread`); a deactivation whose file write fails is not repeated; two refreshes of one token both succeed if
  they interleave.
- *Issues*: a request that fails between the two queries of `syncIssueLabels` loses all labels; one that fails
  before it announces a change of status leaves the subscribers untold, and asking again for the status the row
  already has tells nobody.
- *Repositories*: a crash after `svnadmin create` leaves a directory that blocks the name; hooks installed late by a
  creation that was overtaken report to an id that is gone.
- *Branches*: two creations of one branch, the second becomes a copy below the first; a branch with a slash in
  its name, which the API refuses (`branches.service.ts:103`) and a native client can make, is not traced
  (`ChangesFindBranches`); by default the pre-commit hook refuses the service's own tags and merges.
- *Pull requests*: two open ones for one pair of branches; `updateStatus` may overwrite MERGED; the issues a merge
  closes are looked up in the log of a branch that was just deleted.
- *Backups*: the catch block of `runVerify` writes to the database that may just have failed
  (`backups.service.ts:231`), and after the last attempt VERIFYING stays until somebody asks for another
  verification; `hotcopy-all` stops at the first failure; RUNNING rows stay after a crash; an audit entry that
  fails turns HEALTHY into UNHEALTHY, or a good backup into a failed one.
- *Deliveries*: address and secret are those at the time of queueing; a crash before the queue call drops the
  event, as the request is not answered.
- *Pool*: when removing takes longer than the timer of 60 s, two evictions overlap, and the one that ends last
  puts back its own, older array: a copy that was lent since is offered again, and may be removed in use; a copy
  released during an eviction is dropped from the list and stays on disk.
- *Logs*: the answer to a log line has no body either: that to the first, awaited line ends the run, and that to
  a later chunk is a rejection nobody handles, which ends the process of the runner
  (`pipeline-worker.ts:67-69`). A page reconnects at each status event and misses chunks meanwhile; sequence
  numbers restart with a redelivered run.
- *Session*: one tab is enough to be signed out: when its token nears expiry, a link followed inside the page
  makes the middleware rotate the cookies (`middleware.ts:30-76`), `localStorage` keeps the old token, and the
  next refresh of the tab is refused and clears both (`auth-session.ts:21`). Two tabs, or a tab and the
  middleware, refreshing at once sign the user out as well; a logout racing a refresh.
- *Panels*: the `DELETE` handlers of webhooks, teams, members, links, permissions, tokens, branches and
  repositories answer 200 without a body, which `apiFetch` cannot parse (`web/src/lib/api-client.ts:34-38`): the
  item is gone and the panel goes on showing it, with or without an error. Loads that overlap without abort (all
  but the search); a slow first load overwrites the list reloaded after a POST; forms whose button is enabled
  before the page changes.
- *Feeds*: beyond 100 rows of a kind the older ones are never shown, entries of other kinds that are older still
  come in their place, and the button never goes (`dashboard.service.ts:17`, `:193-221`); a list that grows
  between two pages repeats entries; `total` counts rows and the list entries.
- *Statistics*: the clock is read again after the query.
- *Revisions*: `getPathRefInfo` asks for `-l 1`, the newest revision of a branch, not the one that created it;
  a filter by path applied after the limit makes `hasMore` false too early.

## What is not modelled

- *Append-only*: the audit log.
- *Text*: the XML parsers of svn's output, diffs, Markdown, the YAML of a pipeline file, the text of mails and
  of the authz file; the parsing of issue references.
- *Pages*: markup, charts, server-rendered pages without requests of their own.
- *Inside the modelled components*: path filters of pipelines, pull request comments, slugs of teams, profile
  fields, access tokens (one query each), imports and archives of repositories, `svnadmin recover`, languages and
  contributors, `onModuleDestroy` of the pool.
