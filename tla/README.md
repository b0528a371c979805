# Formal model of AI AWS Architect

The backend (`src/ai-aws-architect`, Go) turns a conversation into an AWS
architecture, plans it with Terraform, applies an approved plan in the customer's
account and tears it down again; the frontend (`src/ai-aws-architect-frontend`,
TypeScript) shows a chat, its configuration and its deployment. This directory holds
TLA+ modules translated from that code, the TLC configurations that check them on
small instances, and theorems that TLAPS proves for every size of instance.

Paths below are relative to `src/ai-aws-architect/internal` unless they start
with another directory; `hooks/`, `lib/` and `components/` are those of
`src/ai-aws-architect-frontend/src`.

## 1. Inventory

| Component | Source | State it keeps | Operations | Modelled |
|---|---|---|---|---|
| Deployment state machine | `domain/deployment.go` | none | `CanTransition`, `InFlight`, `MayHaveLiveResources` | `DeploymentStatus` |
| Deployment service | `deployment/service.go`, `httpapi/handlers/deployments.go` | none | `Plan`, `Approve`, `Destroy`, `Cancel`, `Resolve` | `Deployments`, `Provisioning` |
| Deployments and jobs tables | `store/deployments.go`, `store/jobs.go`, migration 0005 | two tables, two partial unique indexes | `Create`, `Transition`, `ApproveAndQueueApply`, `Claim`, `Succeed`, `Fail`, `MarkUnknown`, `CancelPending`, `ReclaimStale` | `Deployments` |
| Deployment worker | `deployment/worker.go` | the job in hand, reclaimed jobs in memory | `Run`, `execute`, the three handlers, `handleRunError`, `ensureFinished`, `Reconcile`, `sweepWorkspaces` | `Deployments` |
| Terraform runner | `runner/` | a workspace per deployment, the remote state per chat | `Plan`, `Apply`, `Destroy`, `Cleanup`, `Sweep` | partly: `Deployments`, `Provisioning`, `Failures` |
| HCL generation | `runner/terraform/generate.go` | none | `generateRoot` | partly: `Documents` |
| Failure classification | `awsfail/awsfail.go` | none | `Classify`, the flags of a code | `Failures` |
| Chat and config store | `store/chats.go`, `store/configs.go` | chats, messages, config versions, budget | `AppendTurn`, `Revert`, `ApplyManualEdit`, `UpdateChat`, `ArchiveChat` | `ChatConfig` |
| Reasoning service | `reasoning/service.go`, `llm.go`, `stub.go` | none between turns | a turn, a manual edit | partly: `ChatConfig`, `Documents` |
| Sessions and refresh tokens | `auth/service.go`, `store/tokens.go` | refresh tokens | issue, rotation with grace and reuse cascade, logout | `RefreshTokens` |
| AWS connection | `awsconnect/`, `store/connections.go` | one row per user | `Start`, `Verify`, `Check`, `Status`, `TargetFor`, `Disconnect` | `AwsConnection` |
| Catalog and validation | `catalog/` | none | `Validate`, normal form | `Catalog` |
| Configuration diff | `configdiff/` | none | `Diff` | partly: `ConfigDiff` |
| HTTP handlers | `httpapi/` | none | decoding, checks before the services | partly: `ChatConfig` |
| Frontend session client | `lib/client.ts`, `lib/tokens.ts`, `lib/auth.tsx` | tokens shared by the tabs, one refresh in flight per tab | refresh, login, logout | `BrowserSession` |
| Frontend polling | `hooks/useDeployment.ts`, `components/DeploymentPanel.tsx` | what is shown, timers and requests pending | poll, act | `DeploymentPoll` |
| Prompts and tool schema, Bedrock client, password hashing and JWT, configuration, start-up, migrations, users, frontend views, images and scripts | | | | no, see section 7 |

How they interact: HTTP handlers call the services, the services call the stores,
and every store statement is a Postgres transaction. The service and the workers
never call each other: they meet only in the `deployments` and `jobs` tables, and in
the Terraform workspaces on disk and the remote state of the chat. Any number of API
processes and workers run at once. A plan and a job each resolve the user's AWS
connection when they need it. The browser's tabs share one `localStorage`; a page
learns of the server only by its own requests.

What is hard here, and what it must get right:

* **Deployment pipeline.** A run takes minutes, may die at any point, and changes
  real infrastructure. Runs for one chat share one Terraform state. Correct means:
  one run per chat; only the approved plan is applied; nothing that exists is
  forgotten; a job of unknown outcome is never repeated; a chat is never blocked for
  ever.
* **Config versions and budget.** A turn takes seconds at the model while other turns,
  reverts and edits commit. Correct means that no version is built on a base another
  replaced, that each is explained, and that a ceiling binds what it was set with.
* **Refresh tokens.** Two tabs refresh at once, a response is lost, a stolen token is
  replayed. Correct means that a replay outside the grace period ends every session
  of the family, and that the browser itself never presents a token twice.
* **AWS connection.** `Check`, `Verify` and `Disconnect` each read, call STS, and write.
  Correct means that the row catches up with what AWS would answer, and that resources
  stay on record as the connection moves.
* **Classification.** A wrong "determinate" tells the pipeline that nothing happened.
* **Documents.** A stored document is validated, compared and rendered again and again;
  each must find in it what the one before left there.
* **Frontend.** Responses arrive late and in any order.

`PROJECT.json` lists these hazards line by line, with the properties that
cover each, or why none does.

## 2. The modules

| Module | What it is |
|---|---|
| `DeploymentStatus` | the statuses, the legal transitions and the classifications of `domain/deployment.go`; pure |
| `Deployments` | the pipeline: tables, requests, workers, Terraform runs, faults |
| `ChatSlot` | abstract: what the pipeline promises a chat; `Deployments` implements it |
| `AwsConnection` | one user's connection row, its requests, the customer's role |
| `Provisioning` | extends `AwsConnection` and `DeploymentStatus`: a deployment and the accounts it is planned for, applied in and recorded with |
| `ChatConfig` | one chat: row, transcript, versions, and the requests on it |
| `RefreshTokens` | the token table of one user and the transactions on it |
| `BrowserSession` | extends `RefreshTokens`: the tabs of a browser, and messages that get lost |
| `Catalog`, `ConfigDiff` | validation and normal form; changes by path; pure |
| `Documents` | extends both: documents proposed, stored, compared, rendered |
| `Failures` | a command or a call fails, is classified, stored and read back |
| `DeploymentPoll` | extends `DeploymentStatus`: the panel of one page and the server behind it |
| `MCDeployments`, `MCChatConfig`, `MCBrowserSession`, `MCDocuments` | small instances for the `.cfg` files; the other modules need none |
| `DeploymentsProofs`, `DeploymentsSlotProofs`, `ProvisioningProofs`, `ChatConfigProofs`, `BrowserSessionProofs` (with the token table), `FailuresProofs`, `DeploymentPollProofs`, `DocumentsProofs` | theorems |

### `Deployments`

| Variable | In the code |
|---|---|
| `dep` | rows of `deployments`: status (`"none"`: not inserted yet), `plan_hash`, whether `approved_at` is set |
| `jobs` | rows of `jobs`: type, status, attempts |
| `wk` | per worker goroutine: where in `execute` it is, its job, the outcome of its run |
| `stale` | per worker: the slice `ReclaimStale` returned to `Reconcile`, what is left of it |
| `req` | per HTTP request in progress: the next statement of `Destroy`, `Cancel` or `Resolve` |
| `saved` | per deployment: the plan file in its workspace, named by the attempt that wrote it |
| `fresh` | deployments whose plan no step of the program has removed since it was made, nor outdated by changing the chat's state (a lost disk leaves it) |
| `infra` | per chat: the deployment whose apply last touched AWS, or `Nothing` |
| `faults` | number of faults so far |

`plan_hash` is the hash of the saved plan; both are named by the number of the attempt
that produced the plan, so they are equal exactly when the code's are. Deployment and
job ids are fresh UUIDs; the model fixes in advance, by `ChatOf` and `JobDep`, which
chat or deployment an id will be inserted for. The number of ids bounds an instance;
`Spare` leaves enough rows for what is already under way, so that this bound never
stops a request or a worker half-way.

One step is one database transaction or one Terraform run.

| Action | Code |
|---|---|
| `Create`, `Approve` | `DeploymentStore.Create`, `ApproveAndQueueApply`: one transaction each |
| `DestroyRead`, `DestroyMark`, `DestroyQueue` | `Service.Destroy`: read and check, `Transition`, `Schedule` |
| `CancelRead`, `CancelWrite` | `Service.Cancel`: read and check, `Transition` |
| `ResolveRead`, `ResolveDrop`, `ResolveWrite` | `Service.Resolve`: read and check, `CancelPending`, `Transition` |
| `Claim` | `JobStore.Claim` |
| `BuildFails` | `buildRequest` fails and `execute` returns |
| `DestroyBegin`, `DestroySkip` | `runDestroy` before Terraform |
| `RunPlan`, `RunApply`, `RunDestroy` | the run, with the workspace clean-ups that follow it directly |
| `Record`, `Succeed`, `ScheduleTeardown`, `Disown` | after a successful run |
| `LoseJob`, `LoseDeployment`, `Fail`, `WasRequeued`, `FailDeployment` | `handleRunError` |
| `Finish`, `Settle` | the deferred clean-up of `runApply`, then `ensureFinished` |
| `Reclaim`, `Reconcile` | `ReclaimStale`, then the loop of `Worker.Reconcile` |
| `Sweep` | `sweepWorkspaces` |
| `Abandon`, `StatementFails`, `SettleFails`, `Crash`, `LoseWorkspace` | faults, see below |

`Accepts` and `Moved` are `DeploymentStore.Transition`: idempotent on the same status,
refused when illegal or when the partial unique index rejects it, superseding the
other applied deployment of the chat when the new status is `applied`.

Abstractions:

* **Time.** `run_after` (retry backoff, teardown timer) is a delay of any length:
  `Claim` may take any pending row, and `SKIP LOCKED` may pass over the oldest. A job is
  stale only when no live worker holds it: `config.go:218` insists on
  `JOB_STALE_AFTER > DEPLOY_MAX_RUN_TIME`, and the claim sets the heartbeat. A worker
  that pauses between two statements, for longer than its backoff or than that
  margin, breaks this: that is the fault `stall`, which no run has (see section 4).
* **Terraform.** A run is one step that ends well, or fails or dies having done any
  part of its work. `Apply` works from the saved plan alone, and Terraform refuses a
  plan whose state has moved. `Destroy` works from the chat's state and removes what
  is there, whoever created it. The state lock in S3 (`use_lockfile`) is not modelled:
  it is a second defence, and whether the first one holds is the question.
* **Outcome.** `awsfail.Classify` is represented by the two flags the worker branches
  on. A missing or refused plan matches no rule and is therefore indeterminate.
* **Preconditions of `Plan`.** Chat, config version and connection are read before
  `Create` and touch no state of this module; a refusal there is `Create` not
  happening.
* **`Resolve`.** The person's assertion is true: `ResolveRead` requires that nothing of
  the deployment remains at that moment. What happens until `ResolveWrite` is free.
* **Workspaces.** One work root; a worker on another host, or a redeploy, is the fault
  `disk`. The leftover plan file of a run that was killed is not modelled: a plan job
  is never run again after that.
* Texts, outputs, summaries and timestamps are left out.

`Faults` says which kinds may occur and `MaxFaults` how often: `crash` (a worker's
process dies, Terraform with it, since the run's context derives from the process's;
no statement follows), `half_recorded` (the same, between moving the deployment
and settling the job), `statement` (a database statement of a worker fails and the
code goes where it then goes), `precondition`, `abandon` (a request is cut short
between two statements), `disk`, `stall`. `half_recorded` is a kind of its own because
it breaks `ApplyHoldsLock` by itself: with it in `Faults` TLC refutes that property, and
no other crash does (`Faulty`, and `ApplyKeepsLock` in section 5).

**`ChatSlot`.** Per chat, three sets of at most one deployment: `working` (planning,
applying, destroying), `waiting` (awaiting approval), `live` (applied). Its actions are
what a user may see happen: a plan begins and takes the place of one not approved, is
offered, approved, goes live in the step in which the earlier one ceases to be, is torn
down, ends, or is lost from sight. `Deployments` states the mapping (`ImplementsSlot`,
by `INSTANCE ... WITH`): the three sets are read off the statuses.

### `AwsConnection` and `Provisioning`

`row` is the user's row of `aws_connections`; `ids` numbers the external ids generated;
`trust` says per account which external id the role there answers to; `req` holds what
each request in progress has read and heard. The role's name is fixed per user, so an
account stands for its ARN. `Start` is `EnsurePending`; `VerifyRead`, `CheckRead`, `TargetRead`
read the row, `VerifyRole` and `StsFails` are STS's answer, and `Write` is the verdict, an
`UPDATE` by user that meets whatever row is there by then. `DisconnectRead` and
`Disconnect` look up and delete. The customer creates and deletes the stack in the
accounts of `Owned`; `Age` ends the freshness of a check.

`Provisioning` adds one deployment (`dep`: status and `aws_account_id`), its job, the target
of the run in progress, the target the workspace was prepared for (`saved`), and the
accounts its resources are in (`infra`). `PlanRead` and `Create` are `Service.Plan`; `JobStart`,
`JobResolved` and `JobFails` are `buildRequest`, which resolves the connection anew; `RunPlan`,
`RunApply`, `RunDestroy`, `RunFails` are Terraform. An apply works from the saved plan (`Planned`),
in the account that plan names, whatever target the job has resolved; a teardown prepares
the workspace again for the run's own. A plan or an apply that fails cleans its workspace
up; a teardown that fails leaves it as prepared. `moved` is history: the connection has
named an account other than the row's. What `Deployments` has (several deployments and
jobs, workers, crashes) is left out here.

### `ChatConfig`

`chat`, `versions`, `messages` are the three tables for one chat; `req` holds the next
statement of each request and what it has read. A turn is `TurnCheck`, `TurnReadChat`,
`TurnReadConfig`, then `TurnWrite` with whatever document, scope and ceiling the model came up
with; a manual edit is `EditCheck`, `EditReadPrevious`, `EditWrite`; `Revert`, `UpdateCheck` /
`UpdateWrite`, `Restore` and `Archive` are the handlers of those names. `RequestFails` is every
refusal and failure, a process that dies included: each transaction is all or nothing.
`EditReadPrevious` may read nothing and go on: an error of `CurrentConfig` is dropped there
(`reasoning/service.go:477`), and the diff is then one from an empty document.
Documents are compared and priced only (`Catalog` and `ConfigDiff` look into them). The
model's repair attempts end in one answer and write nothing.

### `RefreshTokens` and `BrowserSession`

`rows` is `refresh_tokens` as committed. A rotation runs at READ COMMITTED: `RotateRead` takes
the row lock and the verdict, `RotateWrite` writes and commits, and for a cascade the rows
its `UPDATE` sees are those of the earlier snapshot (`txn[q].seen`). `cut` is history: the
tokens that were there when some cascade began. `GraceEnds` and `Expire` are the clocks.

In `BrowserSession` each tab, one load of the page, has one refresh under way at most
(`refresh`; its request to the server is the rotation of that tab), calls that wait for it
(`waiting`), calls out without a token (`bare`), a logout, and storage events from other
tabs (`cleared`). `TimerRefresh` and `CallRefresh` start or join a refresh; `RefreshArrives`,
`RefreshServed`, `RefreshLost`, `RefreshEnds` carry it through. A call for which another tab has
left no token goes out bare (`CallBare`) and its 401 calls `refreshSession` after all
(`BareAnswered`); with nothing stored that throws before the `try` whose `finally` forgets the
refresh (`Reject`), and the rejected promise stays in `inFlightRefresh` for as long as the page
does (`Dead`). `BodyStalls` is an answer whose headers are there, which ends the timeout, and
whose body is not; it comes in `BodyArrives`, or never. The sessions of this module do not
reach the end of `refreshTTL`.

### `Catalog`, `ConfigDiff`, `Documents`

`Errors`, `Blockers`, `Verdict` and `Normal` are `catalog.Validate`; an issue is the part of the
document it is about. `Diff` is `configdiff.Diff`, by path. `Documents` proposes documents one
after another: a block added, replaced or removed, needs restated, or the user's own
document sent with its own schema version and cost. What is not rejected is stored with its
changes. `RootModule` is `generateRoot`: the module blocks by name, source and arguments. A block
id is a string with known characters, since `hclIdent` is a conversion that matters
(two ids may end as one name).

A JSON value is its kind and, of a collection, its members by key or position, so the loop
over a map and the loop over a list of `walk` are one (`Member`, over `Keys`). `walk` recurses;
`Walk4` is the recursion unrolled to the depth of a document, whose parameters, four levels
down, are scalars (`checkParam` accepts nothing else). `Patched4` reads a change list back,
to the same depth. `sort.Slice` promises nothing but that the result is in order: `Sorted`
chooses a permutation that is.

`DefaultsAssumption` is a fact about data: each optional parameter of the shipped templates has
a default that passes its own check. `Load` does not look, and `Validate` fills
defaults in unchecked; with a default that does not fit, `StoredIsNormal` and `OkIsVetted` fail.

### `Failures`

A text is the set of rules of `byMessage` that its words match, of which the first in order
decides; it matches up to `MaxMatches` rules, and the words of a doubtful call's diagnostic
may match those of a refusal besides its own. A Terraform command over `Resources` prints,
calls AWS, exits or is killed; a call is done, refused or doubtful.
`RunError` is what the runner wraps it in, `Classify` what the worker or the connection makes
of it, `ReadBack` what is worked out anew from the stored code.

### `DeploymentPoll`

`server` is the status of each deployment; `selected` is the hook's argument, `shown` what is
on the page, `task` the timers and requests pending, `current` the one `timer.current` names. `Open`
and `Close` are the hook's first effect and its clean-up, `Fires`, `Read`, `Refreshed` one turn of
the loop, `Act`, `Serve`, `Applied` a button, `apply(fn)` and its answer. `Settle`, the effect that
stops the timer, runs in the step that changes what is shown: React runs it before any later
request or timer is served. A slot (`Slots`) is one timer or request; the model lets no
more than that many be pending. The server moves a deployment by any legal transition
(`Moves`): workers, other pages and scheduled teardowns.

## 3. Runs

| Run | Instance | Shows |
|---|---|---|
| `Faulty` | 1 chat, 2 deployments, 6 jobs, 2 workers, 1 `Destroy` or `Resolve` request at a time, `MaxAttempts` 1, one fault of `crash`, `statement`, `precondition`, `abandon`, `disk` | `TypeOK`, `OnePerChat`, `ApplyHoldsLock`, `AwaitedPlanStaysValid`, `LiveIsRecorded`, `DestroyOnlyTornDown`, `LegalTransitions`, `ImplementsSlot` |
| `Retries` | 1 deployment, 4 jobs, 2 workers, `Destroy` and `Cancel` requests, `MaxAttempts` 2, two faults of every kind but `stall` | `OneTerraformPerChat`, `AttemptsBounded`, `ApplyRunsApprovedPlan`, `UnknownJobIsFinal`; `InFlightHasWork` until a fault, requeued jobs included, `LossIsOnRecord` after it |
| `Settling` | 1 chat, 2 deployments, 5 jobs (the second is only planned), 2 workers, `Destroy` requests, a death of a worker anywhere, fairness | `DeploymentsSettle` until a fault, `JobsSettle` |
| `Provisioning` | 2 accounts, both the customer's, 1 row, 2 requests or jobs, 1 fault | `TypeOK`, `NeverSplit`, `RecordIsTrue` |
| `Connections` | 2 accounts, one the customer's, 2 rows in turn, 2 requests, 1 fault, `ConnectionSpec` | `BrokenSaysWhy`, `ExternalIdKept`, `VerdictCatchesUp` |
| `Chats` | a cheap, a dear and a faulty document, ceilings below and between, 2 requests, 3 versions, 4 messages | `TypeOK`, `HistoryIsChain`, `EveryVersionNarrated`, `EditShowsNoStaleChange`, `BudgetBindsItsTurn` |
| `Sessions` | 2 tabs, 3 tokens, 1 message lost | `CascadeEndsSessions`, `WaitersCanGoOn`, `ReplacementIsFixed`, `PresentedOnce` |
| `Documents` | 3 templates, block ids that collide, 2 blocks, a ceiling of 4 | `StoredIsNormal`, `ChangesRebuild`, `OkIsVetted`, `RootIsStable` |
| `Failures` | 2 resources, texts of one rule or two | `OnlyWordsHideDoubt`, `OutputDoesNotClassify`, `FlagsSurviveStorage` |
| `Polling` | 1 deployment, 2 slots, 1 request lost, fairness | `OneLoop`, `StopsOnceSettled` |
| `OlderDestroy`, `Unpolled` | | disagreements, section 4 |

Why these bounds are enough to be interesting:

* **Pipeline.** Interference between deployments needs two of one chat (superseding, a
  second plan cancelling the first, an old teardown meeting a new plan); interference
  between workers needs two; a deployment with a plan, an apply and a teardown goes
  through its whole life. In `Retries` a fourth job is a second teardown, scheduled and
  requested, so that one may run while the loss of the other is recorded. What `Faulty`
  checks holds as well with four jobs of one deployment, and with four and three of two
  (five minutes on four workers, too long for a run). One retry distinguishes first,
  repeated and last attempts. One fault reaches every single-failure path; two reach a
  failure of the recovery. One death is what another worker recovers from. The liveness
  run has one job less, to end in reasonable time: its second deployment is planned and
  meets the first one's scheduled teardown, but is never approved, since that takes a job
  for its own teardown. With `Teardown` FALSE, when both are applied, it holds as well
  (five minutes). Nor does it requeue: two deployments with retries take longer than
  five minutes. What a requeue may confuse is checked in `Retries` (`InFlightHasWork`), and
  liveness with `MaxAttempts` 2 and one deployment was found to hold (half a minute; not
  kept as a run). Chats interact in `Reclaim` only, where they do not meet.
* **Connection.** A verdict can be late for one row only while another request writes
  it, so two requests; a second row is the reconnect a late verdict may hit; a second
  account is somewhere else to move to. `Provisioning` needs both accounts to work and
  one row; `Connections` two rows and, for its liveness to be checked in reasonable
  time, one working account (the other stays one that never works).
* **Chat.** A base is overtaken by one other writer; three versions are a base, its
  successor and the one refused or stored after it. Four messages are two turns.
* **Sessions.** A race needs two tabs; three tokens are a token, its replacement and
  the one of a grace rotation or a new login. `Spare` keeps a token for every refresh
  under way, so that the bound never blocks a request.
* **Failures.** Two resources let one be refused and the other left in doubt; a text of two
  rules is the one that a refusal's words may take over, and a third would decide
  nothing that two do not, since only the first in order counts.
* **Documents.** Two blocks are enough for a requirement between blocks, a colliding
  name, a position that shifts and a third block refused as one too many. The catalogue
  has every kind of parameter check that the shipped one needs but booleans.
* **Polling.** Two slots are a loop and an action, or a loop and a timer left over.
  A deployment that is closed and opened again leaves behind what a second one would;
  with two, `OneLoop` holds as well but liveness takes too long, and `OneLoop` is
  proved for any number of both.

Workers, requests and accounts are interchangeable where a run says
`SYMMETRY`; runs that check liveness never do. Deadlock is not checked where the
system may rightly come to rest: the pipeline, with every deployment settled and the ids
of the instance used up, `Sessions`, with its tokens used up, and `Failures`, once the
failure is reported.

**Fairness.**
`Deployments!LiveSpec`: weak fairness of what a worker does with the job in hand (a
statement returns, a run is under `MaxRunTime`), of claiming (the poll ticker of `Run`
drains the queue), of `Reclaim` and `Reconcile` (the reconcile ticker), and of the remaining
statements of a request. Users, faults and the sweep have none. Weak fairness of each
worker's claim is enough for every queued job to be taken, because an instance has
finitely many jobs: the backlog ahead of a job runs out.
`BrowserSession` has none: `rawRequest` clears its timer before it reads the body
(`lib/client.ts:166`), so nothing makes a refresh end. `WaitersCanGoOn` says of every state what
needs none: that the next step of a refresh that is waited for may be taken.
`ConnectionSpec`: freshness runs out, a request goes on to its end, and pages that show
the connection keep being loaded; the last is strong, because in an instance with two
slots other requests may hold both again and again, which a server's do not.
`DeploymentPoll!LiveSpec`: a timer runs out, a request is answered or times out, the page
takes the answer. The user and the server's own moves have none.

**Mutants.** Every property of a passing run is broken by a plausible slip in one
definition (an operator marked "Mutant" before it): the index without `destroying`, a
retry too many, a loss not recorded, a stale base accepted, a grace rotation that looks no further
than the clock, a loop that is not cancelled, and so on. `PROJECT.json` pairs them.

## 4. Disagreements between the code and what it says of itself

With a run, which checks what a comment says and finds it violated:

| Run | Property | What happens |
|---|---|---|
| `OlderDestroy` | `AppliedExists` | destroying an older, failed deployment removes the newer one's infrastructure, which stays `applied` |
| `Unpolled` | `InFlightIsPolled` | the plan's `awaiting_approval` ends the loop; an approval arms one refresh after four seconds, and if that still says `applying`, the page never asks again |

Seen in the model while the passing runs were set up, each by one change of a
configuration (a fault kind added, or an operation), and not kept as a run:

* `ensureFinished` after a pause longer than the backoff (`stall`) marks a job unknown that
  another worker is running by now, which unlocks the chat (`OneTerraformPerChat`). Under
  the same fault `JobStore.Fail`, which has no guard on the status it replaces, requeues a job
  that was reclaimed meanwhile (`UnknownJobIsFinal`). Add `"stall"` to the `Faults` of `Retries`.
* `Cancel` checks the status before an apply fails and writes after it (`LiveIsRecorded`, with
  `cancel` in `Ops` and a fault): what the apply left is on no record.
* Two teardowns of a deployment, one scheduled and one requested: the second may be running
  Terraform while the loss of the first is recorded, which moves the deployment to `unknown`
  and lets a person resolve it. Terraform then destroys for a `cancelled` deployment;
  `DestroyOnlyTornDown` excepts that case as long as nothing of the deployment is left,
  which is proved for a steady worker and no `cancel` requests (section 5).
* `Resolve` drops the teardown that `Destroy` queued after `Resolve`'s check; the deployment
  stays `destroying` with no job (`InFlightHasWork`, with `resolve` in the `Ops` of `Retries` and
  two requests; no fault is needed).
* Reclaiming a plan's job after a death between recording the plan and settling the job
  (`half_recorded`) moves its deployment to unknown during the apply (`ApplyHoldsLock`). So it
  does when nobody dies but two statements fail, the one that settles the job and the one in
  `ensureFinished` (`statement`, twice). The chat is unlocked then, so that a new plan waits for
  approval while the apply makes it obsolete (`AwaitedPlanStaysValid`), or a person resolves
  the deployment before its apply creates anything (`LiveIsRecorded`).
* `buildRequest` fails: the job is settled, the deployment never (`NothingIsStranded` under
  `precondition`). The same property fails under `statement`, when the result of a run cannot
  be recorded and only its job becomes unknown (`worker.go:254`), and under `crash`, when a
  process dies between settling a job and moving its deployment (`worker.go:118`). A
  deployment stranded while planning or applying shows in a failed or unknown job
  (`LossIsOnRecord`, in `Retries` and, by a trial, in `Faulty`).
* A teardown refused by the in-flight index, or one whose first statement fails, is taken for
  one with nothing left to do (`worker.go:279`): its job has succeeded, and a deployment that
  is `destroying` by then stays so with no trace. So does one whose request ends between
  the transition and `Schedule`.
* A throttled apply is retried although its plan was cleaned up with the first attempt;
  the retry fails with no plan and is of unknown outcome.

Seen in the other modules, and stated there by the way a property is worded:

* The connection moves to another account between the plan's request and its job:
  `buildRequest` resolves it anew and never compares, so plan, approval and apply are for
  the new account while `aws_account_id` ("records where the resources actually went",
  migration 0005, lines 43-44) keeps the old one, and a teardown after the next move runs
  against the wrong account. `RecordIsTrue` excepts a connection that has `moved`; `NeverSplit`,
  which does not, says that the resources are at least all in one account.
* `ApplyManualEdit` drops an error of `CurrentConfig` (`reasoning/service.go:477`); the edit is
  stored and answered with a diff from an empty document. `EditShowsNoStaleChange` allows
  that diff besides the one from the version replaced.
* A rotation in flight inserts a token that a concurrent cascade's `UPDATE`, whose snapshot
  is older, does not see (`store/tokens.go:111-113` says every session is ended);
  `CascadeEndsSessions` excepts exactly that token.
* The timeout of a request ends with the headers of its answer (`lib/client.ts:166`). If the
  body of a refresh stalls, the refresh never ends, nor does any call of the tab that needs
  it; `WaitersCanGoOn` excepts that.
* `refreshSession` with nothing stored, which a call meets that goes out after another tab's
  logout, leaves its rejected promise in `inFlightRefresh` (`lib/client.ts:56`): this page
  cannot refresh any more, after a later login either (`Dead`).
* A refresh that arrives after a logout has revoked its token reads as reuse, of a
  "long-revoked token" (`store/tokens.go:61-62`), and logs the user out everywhere.
* A run killed by `MaxRunTime` has no diagnostics, so `byMessage` matches whatever Terraform
  had printed so far, and may call it clean (`worker.go:315-317` expects indeterminate). So
  may a diagnostic of a call in doubt whose text also has the words of a refusal, whose
  rules come first, or a refusal's diagnostic next to it. `OnlyWordsHideDoubt` says that
  there is no other way.
* `Classify(nil)` has other flags than the code `unknown` read back.
* Block ids `a-b` and `a_b` both pass validation and end as one module name.
* A ceiling is compared with the one the turn read: a later turn that began earlier may
  loosen what another has tightened since (`store/configs.go:165`). `BudgetBindsItsTurn`
  is about the turn that writes.
* An archived chat is still changed by a request already past its check, and by a revert;
  a revert to an equal document stores an empty change list.
* A late verdict can leave a connection `active` that no longer works, until the next check
  (`VerdictCatchesUp` says that it comes).
* An answer for a deployment that is no longer selected is shown, and, if it is settled,
  clears the timer of the new loop; an action's answer after a switch replaces the new
  loop's timer by one refresh. "A settled deployment cannot change on its own"
  (`hooks/useDeployment.ts:71`) leaves out scheduled teardowns, superseding and other pages.
  The panel offers Destroy for `superseded`, which the server always refuses.

Met while reading, and with no run: `unknown` is described as having a fresh plan as its
only exit (`domain/deployment.go:31`), yet a plan is a new deployment and the exits are
`destroying` and `cancelled`; `MayHaveLiveResources` "errs towards yes" but leaves `applying`
out; `CancelPending` is "used when a deployment is resolved or superseded"
(`store/jobs.go:166`) but superseding leaves the queue alone; `cmd/api/main.go:146` says
Terraform is not killed on shutdown, yet the run's context derives from the one the
signal cancels; `store/deployments.go:252` says every status write goes through `Transition`,
yet `Create`, `ApproveAndQueueApply` and the supersede update write it themselves (legally:
`TransitionsAreLegal`, section 5).

## 5. What is proved

For every value of the constants, from the assumptions named in the modules (ids are
distinct from the special values, bounds are naturals, `Cost` is a function, a tab has
one refresh: `Requests = Tabs`):

| Theorem | Module | States |
|---|---|---|
| `TypeCorrect` | `DeploymentsProofs` | `Spec => []TypeOK` |
| `OnePerChatHolds` | | `Spec => []OnePerChat` |
| `TransitionsAreLegal` | | `Spec => LegalTransitions` |
| `AttemptsAreBounded` | | `Spec => []AttemptsBounded` |
| `OneTerraformHolds` | | `Spec => []OneTerraformPerChat`, if `"stall"` is not in `Faults` |
| `UnknownIsFinal` | | `Spec => UnknownJobIsFinal`, if `"stall"` is not in `Faults` |
| `ApprovedPlanRuns` | | `Spec => []ApplyRunsApprovedPlan`, stalls included |
| `ApplyKeepsLock` | | `Spec => []ApplyHoldsLock`, if `Steady` |
| `AwaitedPlanStays` | | `Spec => []AwaitedPlanStaysValid`, if `Steady` |
| `LiveStaysRecorded` | | `Spec => []LiveIsRecorded`, if `Steady` and `"cancel"` is not in `Ops` |
| `DestroysWhatIsTornDown` | | `Spec => []DestroyOnlyTornDown`, if `Steady` and `"cancel"` is not in `Ops` |
| `MovingHasWork` | | `Spec => []InFlightHasWork`, if `"stall"` is not in `Faults` and `"resolve"` not in `Ops` |
| `TablesImplementSlot` | `DeploymentsSlotProofs` | `Spec => ImplementsSlot`: the refinement of `ChatSlot` |
| `TypeCorrect`, `RecordsAreTrue`, `NeverSplits`, `BrokenIsExplained`, `ReconnectsKeepTheId` | `ProvisioningProofs` | all of the runs `Provisioning` and `Connections` but liveness |
| `TypeCorrect`, `HistoryIsAChain`, `EditsShowNoStaleChange`, `VersionsAreNarrated`, `CeilingBindsItsTurn` | `ChatConfigProofs` | all of the run `Chats` |
| `CascadeEnds`, `ReplacementNeverMoves` | `BrowserSessionProofs` | `TokensSpec => []CascadeEndsSessions` and `ReplacementIsFixed` |
| `TabsUseTokens`, `TabsRespectCascades` | | `BrowserSession!Spec => TokensSpec`, hence both of the above |
| `TokensPresentedOnce` | | `BrowserSession!Spec => PresentedOnce` |
| `FlagsAreKept`, `OutputIsIgnored`, `DoubtIsHiddenByWordsOnly` | `FailuresProofs` | `FlagsSurviveStorage`, `OutputDoesNotClassify`, `OnlyWordsHideDoubt` |
| `TypeCorrect`, `PageHasOneLoop` | `DeploymentPollProofs` | `TypeOK`, `OneLoop` |
| `StoredStaysNormal`, `OkStaysVetted`, `ChangesAlwaysRebuild`, `RootStaysStable` | `DocumentsProofs` | all of the run `Documents`, if `NilIsApart` |

`Steady` (`DeploymentsProofs`) says that neither `stall` nor `half_recorded` is in `Faults`
and that, if `statement` is, `MaxFaults` is at most 1. Crashes anywhere else, lost disks,
abandoned requests and failed preconditions may occur any number of times where statements
do not fail. The run `Faulty` is an instance of it. The hypothesis is needed: with
`half_recorded`, and likewise with two failed statements, TLC refutes `ApplyHoldsLock`,
`AwaitedPlanStaysValid` and `LiveIsRecorded` (section 4).
For `DestroyOnlyTornDown`, which takes it over from `LiveIsRecorded`, no counterexample was
met with `half_recorded`; whether it needs that part is open. The operations left out,
`cancel` and `resolve`, are needed likewise (section 4).

`NilIsApart` (`DocumentsProofs`) says that `Nil`, which marks a field left out, is not itself
an object or a list. It is true of the model value a configuration gives it; it speaks of all
functions, so it is a hypothesis of the theorems and not an `ASSUME` that TLC could evaluate.
The assumptions named in `Catalog` and `Documents` hold of the run: TLC evaluates them.

The arguments.

* **Pipeline.** `TypeOK` is inductive; it is proved one group of actions at a time. Every
  action writes `dep` as `Transition` does (`Moved`, or the plan's variant that also stores
  the hash), as `Create` or `Approve` does, or not at all: that lemma carries
  `TransitionsAreLegal` and `OnePerChatHolds`, the second by the index check inside
  `Accepts`, the row lock and count inside `Create`, and the supersede update.
  `AttemptsBounded` is not inductive: a pending job at the bound could be claimed once
  more. `AttemptsInv` adds that a pending job has attempts left.
  `OneTerraformPerChat` is not inductive either: `ClaimInv` adds that the job of a worker
  inside its run is `running` in the table, that no two workers hold the same job, and that
  at most one job of a chat is running. That is where the absence of stalls is used: a
  requeued job is claimed only when its former worker has let go of it. `UnknownIsFinal`
  needs `FailInv` besides: a worker about to `Fail` a job still has it running, so that `Fail`
  never finds one that is unknown. The hypothesis is necessary in both. It is not for
  `ApprovedPlanRuns`: `HeldInv` says that a job somebody is still to record or to fail is
  not pending and in no other hand, which stalls do not change. With it, `PlanJobInv` (one
  plan job for each deployment) and `HashInv` (no hash as long as the plan may run
  again; an apply is queued only with a hash and an approval), the hash is written once,
  and `SavedInv` follows: the file in the workspace, if there is one, is the one hashed.
* **Lock.** Most of the proof is about who changes what, stated once as lemmas: where a
  worker goes (`WorkerSteps`), which of its steps, or which other action, changes a job's
  status (`JobStatusSteps`), a deployment's (`StatusMoves`), what exists in AWS (`AwsSteps`) and
  a plan file (`FileSteps`), and what a request may hold (`RequestSteps`). An apply must hold
  the lock from the approval until its outcome is recorded, which only what is running and
  what is over could disturb. So: the job of a worker that has yet to settle it is running
  (`RunningInv`); an apply is queued after its approval, a teardown after its apply is over
  (`PastInv`); a deployment has one apply job (`ApplyJobInv`); nobody takes up a settled job
  again (`OverInv`); what awaits approval or is applied has its hash, and a lost plan has none
  (`HashedInv`). `SettlingInv` is the part that needs `Steady`: a plan whose hash is recorded
  and whose job is still running is being settled, hence is never reclaimed, and no job in
  a worker's reclaimed list is one. With these, `LockInv`: a deployment whose apply is
  queued or running is `applying`, but for one escape that a failed statement opens, and in
  which the same worker is about to remove the plan file, so that the apply cannot run.
* **What is shown, what exists.** `AwaitInv` adds to the lock that a plan that is about to be
  recorded is intact (nothing the program does has removed or outdated it, and its file is
  there or went with its disk) and that no teardown runs in the chat of one that waits; only
  a run of its own plan job or a teardown of its chat could spoil it (`IntactStays`).
  `LiveInv` says what
  a finished run has left in AWS until it is recorded, and that a request past `Resolve`'s
  check still has nothing to lose. `DestroyInv` is `DestroyOnlyTornDown` for every worker about
  to run a teardown, also one that cannot start it.
* **Work.** `BoundInv`: until a fault, every running job is in a worker's hand, none is
  reclaimed, a worker has settled its job before it lets go of it, and the deployment that a
  job moved still has that job pending or in hand, or is about to have its teardown queued.
* **Slot.** What a step does to the statuses (`Stays`, or one of the ways to write `dep`) is, with
  `OnePerChat`, one step of `ChatSlot` or a stutter: `OnePerChat` makes the three sets the
  mapping reads off the table sets of at most one.
* **Provisioning.** `RequestsInv` says what a request past its read holds; `PipelineInv`, that
  one request at most resolves a target for the job and no run is in progress then, and
  that nothing is under way without a job; `AccountInv`, that as long as the connection has
  not moved, every target taken from it names the deployment's account. `SplitInv`, for
  `NeverSplit`: once there are resources nothing is planned any more, and an apply that is
  tried again finds no plan, since the failure has cleaned it up. The connection's
  steps are steps of `Spec`, so what is proved of `Spec` holds of `ConnectionSpec` too.
* **Chat.** `BaseInv` says that what requests have read stays part of the history: a base
  is a version there is or none, and what a turn computed its change list from is
  that version's document. Versions are only appended, so with `TypeOK` and `HistoryIsChain`
  it is inductive, and `Latest` is then the chat's pointer.
* **Tokens.** `RowsIInv`: a token that was replaced is revoked and its replacement issued; a
  cascade's snapshot and `cut` hold issued tokens only; none of `cut` is live. Nothing makes
  a revoked row live again, and a grace rotation of a token of `cut` would need a live
  replacement outside it. Every step of the tabs is a step of the table or leaves it alone.
  `PresentInv`, for `PresentedOnce`: a tab that has presented the stored token still waits for
  the answer, and the token in an answer is new to every tab and in no other answer. That a
  grace rotation issues a token of its own instead of handing out the first one's is what
  makes it inductive.
* **Failures.** `ErrInv`: an error has a diagnostic in it whenever there was one, and a
  failure is what `Classify` makes of the error. `DoubtInv`: the error of a command that is over
  and left a call in doubt is made of that command's own diagnostics and output; `Classify`
  then says "clean" only for a determinate rule among what it reads.
* **Polling.** `TaskInv` gives each kind of task the deployments and answers it may have; with
  it `OneLoop` is inductive: a loop is started only where the clean-up has just cancelled
  what was there.

* **Documents.** Every proposal offers some list of blocks for storing (`Proposals`), so one
  invariant, `StoredDoc`, carries all four: what is stored has the shape of a document, no
  errors, and is its own normal form. Defaults that fit make the parameters of a
  vetted block complete (`DefaultsComplete`), hence `Normal` idempotent (`NormalTwice`) and
  free of new errors (`NormalIsClean`). `RootIsStable`: no errors means no id twice,
  so ranks tell the places apart; the place of a block is then the number of smaller ones,
  and there is exactly one permutation that sorts (`SortExists`, `SortUnique`). `ChangesRebuild`:
  the changes found for the members of a collection stay apart by their paths
  (`PartsAreApart`), so what is removed, added or compared further down is read back member by
  member (`OneLevel`), depth after depth (`Level0` to `Level4`). It needs a normal
  document: a `null` inside would be reported as a removal.

Only model-checked: liveness under fairness (`DeploymentsSettle`, `JobsSettle`, `VerdictCatchesUp`,
`StopsOnceSettled`), which is out of the prover's reach, as are `ENABLED` (`WaitersCanGoOn`) and
what a recursive definition computes for every input: that is why `Diff` is unrolled, and
why the amount of an estimate, a sum over the blocks, is compared but not computed; and
`LossIsOnRecord`, whose proof is left (section 6). Every other invariant and action property
that a passing run checks is proved, under the hypotheses named above.

## 6. Plan

Done: the pipeline and its slot, the connection and its composition with a deployment,
the chat, the tokens and the tabs, validation with diff and rendering, classification,
polling; and of each of them, nearly every property a passing run checks (section 5).

Left, in this order:

1. `LossIsOnRecord` as a theorem, with the lemmas on who changes a job's status.
2. Whether `DestroyOnlyTornDown` needs all of `Steady`, and what of `LiveIsRecorded` can be said of
   `cancel` requests: what such a request may lose, and nothing else.
3. `Workspaces`: `Sweep` as list-then-delete, with ages, composed with the job states.
4. `Failures` in place of the free choice of `Outcome` in `Deployments`.
5. The plan parser of the runner, as operators against a reference reading.

## 7. Not modelled

* Prompts and the tool schema (`reasoning/prompt.go`, `schema.go`), logging: text without state.
* The Bedrock client (`bedrock/client.go`): one call to an external service; every answer it can
  give is an input of `TurnWrite`.
* Password hashing and JWT (`auth/password.go`, `jwt.go`): calls to cryptographic libraries.
* Configuration, start-up and migrations (`config/`, `store/db.go`, `migrate.go`, `cmd/api`): read or
  run once; what the pipeline relies on (`JOB_STALE_AFTER` above `DEPLOY_MAX_RUN_TIME`) is an
  assumption above.
* Users (`store/users.go`): one table, insert and lookup.
* The stub model (`reasoning/stub.go`) and stub runner, for development: special cases of the
  answers a model or a runner may give.
* Of the runner: the plan parser, the age of workspaces. Of rendering: tags, provider
  and variable values. Of the diff: statistics and unified text.
* Frontend views and `useChatSession.ts`: rendering and local view state. Images,
  infrastructure files and scripts.

## 8. Running

    tlc -workers 2 -config Faulty.cfg MCDeployments
    tlc -workers 2 -config Provisioning.cfg Provisioning
    tlapm DeploymentsProofs.tla

A configuration belongs to the MC module of its component where there is one
(`MCDeployments`: `Faulty`, `Retries`, `Settling`, `OlderDestroy`; `MCChatConfig`: `Chats`;
`MCBrowserSession`: `Sessions`; `MCDocuments`: `Documents`), else to the component's module
(`Provisioning`: `Provisioning`, `Connections`; `Failures`; `DeploymentPoll`: `Polling`, `Unpolled`).
The longest runs take about two minutes with two workers.
