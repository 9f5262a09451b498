# CodeDNA AI / Zero-Setup Workspace: TLA+ verification

The repository is a SaaS backend (FastAPI, SQLAlchemy on PostgreSQL, Celery on
Redis) with a Next.js frontend.  It scans GitHub pull requests, launches
repositories in local sandboxes, and turns engineering requests into draft pull
requests.  This directory models its control: who writes which row when, what is
told to GitHub in between, what a crash or a race leaves behind.

## 1. The system and its components

| component | state it keeps | operations | who it talks to | modelled by |
|---|---|---|---|---|
| pull request scan pipeline (`webhook_service`, `repository_service`, `workers/tasks`, `scan_service`, `dead_letter_service`) | `pull_request_scans` rows, Celery messages, Redis dead letters | webhook, manual scan, the task `run_pr_scan` with retries, `mark_failed`, dead letter | GitHub, Semgrep, AI review, broker | `ScanContract`, `ScanPipeline` |
| analysis of a scan: rules, Semgrep, AI review with its budget, provider router, risk score, conclusion | rules in the database, counters in Redis | evaluate, review, check and count, score, conclude; create and update rules | provider, Redis, GitHub | `ScanReport`, `ScanAnalysis` |
| workspace lifecycle (`workspace_lifecycle`, `_lock`, `_runtime`) | `workspace_instances` rows, a Redis lock per repository, operating system processes | launch, stop, restart, cancel, delete, the launch task, `reconcile`, `cleanup_orphans` | the host, broker, Celery beat | `WorkspaceLifecycle` |
| engineering requests, execution plans, validation, draft pull requests | one row of each, a GitHub branch | create, analyze, approve, reject, plan, validate, prepare, publish | AI provider, GitHub | `EngineeringDelivery` |
| code generation, change applier, self-healing, execution orchestrator | `execution_runs`, files of a secure workspace | execute, resume, cancel, roll back, heal | the services above (no endpoint calls it yet) | `ChangeApplier`, `CodeGeneration`, `ExecutionRun` |
| planning artefacts: setup intent, environment spec, blueprint, provision | one row each per repository | four generate calls | GitHub (reads) | `SetupIntent`, `WorkspacePlanning`, `SetupChain` |
| sandbox launcher | `workspace_launches` row, a Docker container | launch, stop, read with expiry | Docker | `SandboxLaunch` |
| secure workspace manager, repository materializer | directories | create, resolve a path, enforce size, delete | file system, GitHub | partly, in `ExecutionRun` |
| repository DNA, brains, auth, dashboard, frontend, migrations | one row or document each | derive, read, edit | API | not modelled |

The components meet in four places: the database (every actor has its own session
and sees the others' commits), the Celery queue (API to worker), Redis (counters and
locks), and the outside (GitHub, Docker, processes), which no rollback takes back.

Hard behaviours, and the properties they call for:

* scan pipeline: two deliveries race on one pull request; a row is committed
  before its message is published; a message is acknowledged before it is
  executed; effects on GitHub precede the commit of the row.  Wanted: one scan
  per delivery key and per head, no message in two places, no row forgotten
  without a fault, a completed row that is reported, a dead letter that is final.
* analysis: the budget is checked and counted in separate requests to Redis, which
  may fail; rules are edited meanwhile; a retry analyses again.  Wanted: a bound on
  the overshoot, a conclusion that depends on the rules alone, a report unless a rule does
  not compile or the scanner raises at every attempt.
* workspace lifecycle: API threads, launch workers, the sweep and the purge all
  write one row, each from a copy it loaded earlier; processes live outside the
  database.  Wanted: no process without a place that names it, launches that end,
  dead sandboxes that are noticed, recovery at most once.
* engineering requests: approval races with a new analysis; validation and draft
  are read before a long external call and acted on after it.  Wanted: only approved
  plans are pushed, a passed run has its draft, a record that agrees with GitHub.
* orchestrator: stages that survive a resume, rollback, cancellation between stages,
  writes that stop half-way.  Wanted: what was validated is what is in the workspace,
  a failure is rolled back, a repair that fails leaves no trace.
* planning artefacts: each call derives from rows that others rewrite, and saves only
  the columns that differ from its own copy.  Wanted: regenerating repairs whatever
  was mixed; a declared command is never hidden by a guessed one.
* sandbox: a request works on the row it loaded, and holds the row lock through
  Docker calls.  Wanted: no stray container, no stuck request.

`PROJECT.json` lists the components with their status and the hazards with their
lines.

## 2. Plan

In the order in which the modules were written:

1. `ScanContract`, `ScanPipeline`, `MCScanPipeline`, `ScanPipelineProofs`.
2. `WorkspaceLifecycle`, `MCWorkspaceLifecycle`, `WorkspaceLifecycleProofs`.
3. `EngineeringDelivery`, `MCEngineeringDelivery`, `EngineeringDeliveryProofs`.
4. `ChangeApplier`, `CodeGeneration`, `ExecutionRun`, `MCExecutionRun`, `ExecutionRunProofs`.
5. `SetupIntent`, `WorkspacePlanning`, `SetupChain`, `MCSetupChain`, `SetupChainProofs`.
6. `SandboxLaunch`, `SandboxLaunchProofs`.
7. `ScanReport`, `ScanAnalysis`, `MCScanAnalysis`, `ScanAnalysisProofs`.
8. `ListLemmas`: what lists put together, sums and folds come to, for the proofs of 4 and 5.

Left:

9. Path resolution over segments (`SecureWorkspaceManager.resolve_path`).

Modules to be proved about use no recursion; conditions on constants are named
`ASSUME`s in the module that declares them.  `SetupChain` extends `WorkspacePlanning`,
which extends `SetupIntent`; `ExecutionRun` extends `CodeGeneration`, which extends
`ChangeApplier`; `ScanAnalysis` extends `ScanReport`: in each, a state machine over the
operators of the pure modules below it.  `ScanPipeline` implements `ScanContract`.

## 3. ScanPipeline

Rows are named after the request that inserts them (a request inserts at most
one).  A PostgreSQL transaction is one step, taken at its commit; each call to
GitHub or the broker is a step of its own.  So every place where another actor
or a crash can come in between is a state of the model.

| in the model | in the code |
|---|---|
| `ReceiveWebhook`, `serving` | `github_webhook` is `async` with a synchronous body: one delivery at a time per API process |
| `LookupScan`, `InsertScan`, `Enqueue` | `_handle_pull_request_event`: `_find_duplicate_scan`, the transaction with its `IntegrityError` path, `run_pr_scan.delay` |
| `SubmitManualScan` | `create_manual_scan`, with no idempotency key |
| `Take` | acknowledgement before execution (`acks_late` is not set) |
| `LoadScan` .. `CommitCompleted` | `PullRequestScanService.run`, each commit and each GitHub call |
| `StepRaises`, `Retry`, `GiveUp`, `FailCheckRun`, `CommitFailed`, `Bury` | the exception path, `task.retry`, `mark_failed`, the dead letter |
| `HandlerDies`, `WorkerDies` | process crash or broker outage, at most `MaxFaults` |
| `seenCheck`, `seenStatus`, `WriteStatus` | what the worker's session holds; a column equal to the loaded value is not written |

Left out: the report's contents, the audit log, installation events, the GitHub
token.  Messages are a set of records (row, publication, retry number), since
Celery neither orders retries nor tells two equal messages apart; a publication
repeated because the broker's confirmation was lost is a second member of
`Copies`.

`ScanContract` says what a scan promises without saying how; `ContractHolds` is
the refinement (`Scans <- Requests, reports <- comments`).

Runs:

* `scan_races` (two API processes, two workers, one message published once or
  twice, one retry, an event that is not scanned): `OneScanPerKey`, `OneCarrier`,
  `NoSilentLoss`.  No crashes, because the races are the point.
* `scan_contract` (one API process, one worker, one publication, two events on
  one head, one manual scan, one fault, one retry): `OneScanPerHead`,
  `CompletedIsPublished`, `DeadLetterIsFinal`, `ContractHolds`, and, under
  fairness, `AcceptedScansSettle`.
* `scan_failed_check` finds that a failed scan can show a check run that is not
  failed (see Findings).

Why one publication in `scan_contract`: with two, the two executions of one row
overwrite each other and neither the contract nor the dead letter property can be
promised by this code; `DeadLetterIsFinal` and `ContractHolds` are stated for the
broker that publishes once.  Why one process: with two, two events about one head
(not two deliveries of one event, which the unique index stops) can both pass the
duplicate lookup.  The compose files run one uvicorn process.

Bounds: one retry shows first, last and in-between attempts (the code has
`MAX_SCAN_RETRIES`, three by default); two workers and two copies are enough for
two executions to overlap; one fault reaches every crash point because crashes are
enabled at each of them.

Fairness: `WF` on the rest of a handler that was entered and on the worker's step.
Uvicorn and the Celery worker keep running what they began; the arrival of a request
and crashes are not fair.  A `StepRaises` is always
possible, and attempts are bounded, so liveness does not assume that a step
succeeds.

## 4. WorkspaceLifecycle

One repository.  `seen[a]` is the row as the session of request or worker `a`
holds it; `Written` is SQLAlchemy's unit of work: of the loaded and the wanted row,
only the columns that differ are sent.  This is what makes lost updates come out as
they do in the program.

| in the model | in the code |
|---|---|
| `AcquireLock`, `FindActive`, `InsertInstance`, `EnqueueLaunch` | `create` and `_enqueue_launch`; the lock's answer does not stop a caller |
| `LoadForCall`, `CommitCall` | `stop`, `restart`, `cancel`, `delete`: load and terminate, then commit |
| `TakeTask`, `LoadInstance`, `CheckCancelled`, `Prepare`, `StartProcess`, `RecordProcess`, `ProbeReady`, `BecomeRunning` | `run`, with its commits; starting a process and committing its pid are two steps |
| `LaunchFails`, `CancelNow` | `_fail`, `_cancel_now` |
| `BeginSweep`, `VisitInstance`, `Heartbeat`, `DeclareCrashed`, `Recover` | `reconcile`, then a launch inside the sweep's task |
| `FindStale`, `Purge` | `cleanup_orphans`, one row at a time |
| `Answering`, `Kill` | `is_running`: signal 0 reaches a zombie as it does a live process; `terminate` |
| `ProcessExits`, `Reap`, `WorkerDies`, `LockExpires` | a sandbox that exits, its worker waiting for it, a crash or a failing commit, the lock's TTL |

A sandbox is a child for which nobody calls `wait` (workspace_runtime.py:160).  When it has
ended it is a zombie (`zombies`), which answers signal 0 and gets heartbeats, until Python
happens to poll it because the same worker starts another subprocess, or the worker ends:
`Reap` may come at any time or never.  `DeclareCrashed` also stands for the execution
timeout, which is a choice of any sweep, since the model has no clock.

Simplifications: the refresh is part of its commit; a process id is never reused;
API and workers share a host (the docstring's local mode; the compose files
separate them, which is a hazard without a property); the probe may answer either
way; beat sends sweeps (the compose files start no beat).  Which command a sandbox
runs, logs, events and metrics are left out.

Runs:

* `workspace_processes` (four requests among launch, stop, cancel, delete; one
  worker; requests symmetric): `NoOrphanProcess`.  Restarts and automatic recovery
  are not in this run: a restart that loaded the row before the pid was committed
  leaves the pid in the row, and a whole launch later replaces it.  That is listed
  as a hazard.  It covers the interleavings of a launch with every call that
  clears the pid.  One worker, because two could launch the same pending row; no
  fault, because a worker may die between starting a process and committing its pid.
* `workspace_progress` (three requests, restarts and cancellations, no Redis):
  `LaunchSettles`, under fairness.
* `workspace_recovery` (two requests, automatic recovery, one worker crash or
  broker outage): `TypeOK`, `RecoveredOnce`, `DeadSandboxNoticed`.  The last promises what
  signal 0 can tell: an instance does not stay running once its process has ceased to
  answer.  Of a process that has merely exited the code promises less than `reconcile` says
  (see Findings), and the property does not claim it.  "Once" needs
  sweeps that do not overlap; with several workers it is once per worker (section 11).
* `workspace_two_launches`: the statement of the code's comments about concurrent
  launches, which the code does not keep (see Findings).

Fairness: `WF` on the steps of a request and of a task that was begun; `SF` per
instance on taking its task (the Celery queue is first in, first out, so a task is
taken although the worker is busy at times) and on beginning a sweep (beat sends
one every 30 seconds).  No fairness on the API calls, on exits, expiry and crashes.

Bounds: two or more requests on one row reach every pair of load and commit; four
give a launch with three calls on it, or two launches with two. In
`workspace_progress` the requests, which are alike, begin in the order of their
names (`InTurn`): to begin is not fair, so that nothing fair is cut. `MaxFaults = 1`
is one crash at any step. The checks of liveness without symmetry have the smaller
instances.

## 5. EngineeringDelivery

One engineering request, and users who call its endpoints at the same time (the
endpoints are plain functions, so each call has a thread and a session).  A call is a
`Begin...` action, which reads what the call will depend on, and a step for each later
commit or external effect; `seen[c]` is what its session still holds from before.

| in the model | in the code |
|---|---|
| `BeginAnalysis`, `FlushAnalysis`, `CommitAnalysis`, `AnalysisFails` | `analyze`: the load, the flush of "analyzing" that locks the row, the commit of the plan, an error |
| `BeginDecision`, `CommitApproval`, `CommitRejection` | `approve_plan`, `reject_plan`: the check on the loaded row, the UPDATE that waits for a lock |
| `BeginPlan`, `SavePlan` | `ExecutionPlanService.generate`; a second insert is an error of the unique index |
| `BeginValidation`, `FindRun`, `SaveRun` | `ValidationService.run` with the default validator, which fails on a blocked execution plan |
| `BeginPreparation`, `FindDraft`, `SaveDraft` | `DraftPullRequestService.generate`, by itself or in the middle of a validation |
| `BeginPublication`, `BuildChanges`, `PushBranch`, `OpenPullRequest`, `RecordPublication`, `PublicationFails` | `GitHubDraftPRCreator.create` with the gate, the regenerated code, the push, the pull request that is opened or reused |
| `CallDies` | the API process stops; PostgreSQL rolls back |

Plans are model values; `Unsafe` is the set of those whose files the safety engine
blocks.  The branch is the set of plans from which something was pushed, so a push that
stops halfway is a push.  Simplifications: a call's first reads are one step; a
refresh is part of its commit; which pull request a URL names is left out (a reviewer may close
one, and the next publication opens another); so are the code preview, which nothing
reads but the text of the draft, the rules over a change set (they appear as
`PublicationFails`), and the injected validators and fixers.

Runs:

* `delivery_calls` (two users, a harmless plan and a blocked one): `TypeOK`,
  `OnlyApprovedPlansPushed`, `PassedHasDraft`, `PushFollowsValidation`, `RecordIsTrue`, and
  `CallsFinish` under fairness.  Two users reach every pair of calls, and each user's
  later calls meet what the earlier ones left; the proofs below cover any number.

Fairness: `SF` on the steps of a call that was begun.  A thread keeps running; strong,
because another user who keeps analyzing can take the row's lock over and over, and
PostgreSQL serves those who wait for a row in order.  Calls of the AI provider and of GitHub have
timeouts, and end in `AnalysisFails` or `PublicationFails` then.  Beginning calls and
`CallDies` are not fair.

## 6. ChangeApplier, CodeGeneration, ExecutionRun

`ChangeApplier` is `SafeChangeApplier` as operators.  A text is a sequence of tokens;
`Decode` is what `decode("utf-8", errors="replace")` does to a byte that is not UTF-8.
`Compute` works a change list out in memory, one entry per *spelling* of a path;
`Refused` is what happens before anything is written (a path, the number of files, the
bytes); `Write(tree, changes, k)` is the tree once the entries of the first k changes are
on disk, so that a write that stops half-way is a state.  `InSequence` is the reference:
the operations one after the other on the files.

`CodeGeneration` is what the engine makes of a model's output and which plans its rules
reject.  `ExecutionRun` is one run of the orchestrator.

| in the model | in the code |
|---|---|
| `Execute`, `BuildContext` | `execute`: what is restored from the row for a resumption |
| `NextStage`, `SaveStage`, `Complete`, `Cancel`, `TimeOut` | the loop over `STAGES`; the act of a stage and the commit of its completion are two steps |
| `Materialize`, `Generate`, `Apply`, `ValidatePasses`, `ValidateFails`, `DraftPr` | the `_run_...` methods, and their failures `...Fails` with the rollback of `_rollback_if_needed` |
| `ApplyFixes`, `NoFixes`, `FixesBreak`, `RevalidatePasses`, `RevalidateFails`, `Restore`, `Unhealed`, `HealedPasses`, `HealedFails` | `SelfHealingEngine.heal`, then the second `ValidationService.run` |
| `Approve`, `Withdraw`, `RequestCancellation` | the other users; an analysis or a rejection that loaded the request before its approval takes it back, at any moment of a run |
| `Refuse`, `refused` | a call of `execute` for a request that is not approved: it fails the run as it stands and rolls nothing back |
| `Die`, `HalfWritten`, `RollbackFails`, `ValidatorRaises` | faults, at most `MaxFaults` |

`execution_runs` (three attempts, two fixes at most, one fault anywhere, six plans that
edit in place, replace, delete and re-create, spell one file in two ways, break a rule or a
path, two kinds of fixes, two files and a forbidden one, one of the texts not UTF-8):
`TypeOK`, `FailedIsRolledBack`, `HealingRestores`, `CancelledInTime`,
`CompletedAsValidated`, `BatchIsSequence`, `RollbackRestores`, `CommittedStays`, and under
fairness `ExecuteReturns`.  Three attempts are a failure, a resumption that fails in
another stage and one that completes; two fixes overlap on a file, which is what the order
of the restoration is about.  The stages that ask for the approval (generation, validation)
fail when it has been withdrawn; `FailedIsRolledBack` is about a run that an attempt failed,
and leaves out the runs that a refused call failed (`refused`), for those keep their change
(see Findings).  Plans and texts are short because operations on one file
only interact pairwise through its text.

Fairness: `WF` on the steps of `execute`, a synchronous loop with bounded retries.  The
death of the process ends it too; nobody need call `execute` again.

## 7. SetupIntent, WorkspacePlanning, SetupChain

The first two are pure: `Intent` (what the reader infers from manifests, tree and DNA),
`Spec`, `Blueprint`, `Plan` and `CommandPlan` (what each service derives from rows of the
earlier ones).  A file is the set of the marks that the reader looks for in it; any number of
files may be workflows, and `build.gradle` and `build.gradle.kts` are two files, of which
`Gradle` says which one is read, as `ReadWorkflows` does of the workflows.  A command
carries the authority that offered it (manifest, CI, README, convention), which the code
has only in the order of its calls: this is what `DeclaredWins` and `AddingKeepsDeclared`
are about.  `SetupChain` has the calls: `ReadRepository`, `ReadForSpec`,
`ReadForBlueprint`, `ReadForPlan`, then `Load` (the select of the row to write) and `Save`
(the commit of the columns that differ from the copy loaded; `Collide` is the unique index),
and `Push`, which changes the repository.  `fresh` is the set of artefacts whose last writer
read the repository completely and met no other writer.

`AddingKeepsDeclared` is about pushes that hide nothing (`HidesNothing`).  The reader lets one
file hide another in two ways: once a workflow has a `run:` line, what the workflows without
one quote is left aside, and a `build.gradle` with a text is read in place of a
`build.gradle.kts`.  Both happen in histories of the run (`Hiding`), where a declared command
does disappear (see Findings).

`setup_planning` (eight histories of pushes over the ecosystems that the reader knows, five
calls, two at a time, one file or the tree unread): `RegeneratedIsReference`, `DeclaredWins`,
`DetectedIsReady`, `PlanIsHonest`, `AddingKeepsDeclared`.  Five calls are one overlap that
mixes a row and the four calls of a regeneration less what the overlap already made; each of
the later artefacts reads rows only, so longer sequences repeat these.  The instance is a
choice of repositories, not all of them: every kind of file that the reader opens occurs in one;
the proofs are for any repository.

`DetectedIsReady` is about the main language, the first of `LANGUAGE_PRIORITY` that was
detected.  Of any detected language it is false, which its proof brought out (see Findings).
The steps of a plan are written with `FlattenSeq`, a filter that can be reasoned about.

## 8. SandboxLaunch

| in the model | in the code |
|---|---|
| `LoadForLaunch`, `StopPrevious`, `FlushLaunching`, `RunContainer`, `Probe`, with `Unavailable`, `Refused`, `RunTimesOut`, `ProbeTimesOut` | `WorkspaceLauncher.launch`; from the flush on the row is locked |
| `LoadForRead`, `LoadForStop`, `StopExpired`, `WriteExpired`, `StopTracked`, `WriteStopped` | `get_optional`, `stop`, `_expire`, `_safe_stop` |
| `Die`, `Exit`, `Tick` | the API process, the container, the TTL |

`SourceInjected` says whether the launcher gets its source: as shipped it asks the
materializer for the default branch, which that refuses, so that no container runs; the
tests inject a runtime.  The run has it TRUE, to check what the rest of the code does.

`sandbox_requests` (five requests, two at a time, three launches, two TTLs): `NoStraySandbox`
for requests that come one at a time, `CommitsAreSettled` and, under `WF` on the steps of a
request (each runtime call has a timeout; a lock that is released is granted), `RequestsEnd`.
No `SF` is needed: no holder of the lock waits for another request, and the number of requests
is bounded.  `LaunchTypeOK` is proved (section 11).

## 9. ScanReport, ScanAnalysis

`ScanReport` has the pure parts of an analysis: company and architecture rules over files as
sets of marks, Semgrep's findings, the normalization of the AI answer, the risk score (in
units of 1/120, the weight of a changed line) and the conclusion.  `ScanAnalysis`
has the workers that run it: `Take` (or `NeverStarts`, when the provider's selection raises in
the constructor), the budget (`SkipReview`, `Unlimited`, `RefuseReview`, `CheckBudget`,
`Count` twice, `ReadFails`, `CountFails`), `SemgrepRaises`, `Ask`, the rules (`CheckCompanyRules`,
`RuleRaises`), `Publish`; the administrator (`CreateCompanyRule`, ...); and `Midnight`, since
the keys of the budget are those of the moment of the check.

`scan_analysis` (two workers, two pull requests scanned up to twice, five settings, one edit
of a rule, one failure of Redis, two days of one month): `BudgetHolds`, `BlockingIsStable`,
`ScansReport`.  Semgrep has three outcomes besides its findings: a tool that is missing, late or prints what
is no JSON is one medium finding (`ToolFinding`); one that prints nothing, whatever its exit
code, found nothing; any other failure is raised and costs the scan an attempt
(`SemgrepRaises`, counted in `raised`).  So `ScansReport` does not say that Semgrep never keeps a
scan from its report: a scan may end without one if Semgrep raised at each of its attempts, all
of which were made.

The arithmetic of the score and the normalization of the answer are in `ScanReport` so that
the conclusion is seen not to depend on them, although the report it stands in does: the
mutant of `BlockingIsStable` concludes from the level of risk. `BudgetHolds` states the
overshoot that the code allows, not the limit the configuration names: two workers that check
together both pass. What happens around an analysis (messages, deaths of workers, GitHub) is
`ScanPipeline`'s; an attempt that fails after its report is in both.

## 10. Findings

Each of these two is a run that TLC must find violated.

* `scan_failed_check`: docs/production-architecture.md:67 promises a failed check
  run when the retries are exhausted; GitHub's error is swallowed and the row failed.
* `workspace_two_launches`: the lock's answer is ignored, two launches are active.

Met while modelling, without a run of their own.  Where the model has the behaviour, a
property of a passing run is stated so as to leave it out, and its comment says so:

* a row committed but not published (webhook_service.py:202): the redelivery is answered as a
  duplicate of a scan that no worker runs, where production-architecture.md:56 says that the
  backend "creates or reuses" the scan;
* a cancellation or stop after the launch's last look at the flag is overwritten
  (workspace_lifecycle.py:287), and the cancelled launch comes up;
* two tasks of one instance both find it pending and start it twice (workspace_lifecycle.py:196),
  although tasks.py:92 calls the task "Idempotent and self-contained";
* in the compose files API and worker are different containers, so that a stop by the API
  signals a process id of its own container (workspace_runtime.py:178);
* the validation gate is read before the code is built and not again before the push
  (github_draft_pr_creator.py:170, 193): a validation that fails meanwhile does not stop it; a
  reused branch keeps the files of an earlier generation (github_draft_pr_creator.py:75);
* a sandbox that exits stays a zombie, which counts as alive (workspace_runtime.py:170-175) and gets
  heartbeats until it happens to be waited for or is overdue, although "a running instance whose
  process is no longer alive" is to be marked crashed (workspace_lifecycle.py:381-383);
* an approval can be taken back by an analysis or a rejection that loaded the request before it; the
  next call of `execute` then fails the run without a rollback, also one that was cancelled or whose
  process died after its change was applied (execution_orchestrator.py:116-118);
* a rollback leaves `apply` and `validate` among the completed stages
  (execution_orchestrator.py:150): the run, resumed, completes with a workspace that lacks the
  change;
* a file whose operations were all skipped is written back when it was not UTF-8, with U+FFFD in
  place of its bytes (safe_change_applier.py:245), although the module says of what is
  unsupported "skipped and reported (never guessed at)" (safe_change_applier.py:11);
* a failed materialization leaves its directory (repository_materializer.py:190);
* the update of a company rule does not compile its pattern, unlike its creation
  (schemas/rule.py:32): from then on every scan of the organization that has files fails;
* the provider is selected in a constructor outside of the task's try (tasks.py:45,
  provider_router.py:53): with no key, or with `ollama`, which README.md:11 names, the task ends
  with an exception, its row stays queued and is not retried, also when `AI_REVIEW_ENABLED=false`;
* "Semgrep failures" are "retryable task failures until the worker exhausts retries"
  (production-architecture.md:46), but a missing binary, a timeout and output that is no JSON are
  a medium finding of a completed scan (semgrep_service.py:49-89), and a run that fails and prints
  nothing is a scan without findings (:44, :77); other errors of the operating system, output that
  does not decode and a JSON array do raise, and are retried;
* a repository of which only Kotlin and Ruby (or PHP) files are seen is planned with readiness
  zero: Kotlin comes first among the languages and has no defaults (setup_intent_reader.py:120,
  561), although the defaults are to keep "an extension-only repository runnable-later
  (non-zero readiness)" (setup_intent_reader.py:118);
* a workflow with a `run:` line takes away the commands that another workflow without one quotes
  (setup_intent_reader.py:521, 617-620); a `build.gradle` with a text hides a `build.gradle.kts` and with it
  the `java -jar` of Spring Boot (:450, :464-466); a `docker-compose.yml` likewise hides a
  `docker-compose.yaml`, with ports and services only;
* a provision drops every step whose text begins with "no " (workspace_provisioner.py:224), be it a
  command of the repository; the model tells placeholders from commands by their authority, so that
  `PlanIsHonest` does not speak of a command that begins so;
* a health probe that raises, because it is late or its output does not decode, fails the launch with
  the container running and the row failed, so that nobody stops it (workspace_launcher.py:277, 298);
  `NoStraySandbox` is about a Docker that answers legibly and in time (`alone`);
* the launcher asks the materializer for the default branch (workspace_launcher.py:331), which
  that refuses; a version phrase read from a file becomes part of the image's tag
  (workspace_provisioner.py:278).

## 11. Proofs

`ScanPipelineProofs` proves, with TLAPS, for any number of requests, API processes,
workers, publications, retries and faults:

| theorem | says | assumes |
|---|---|---|
| `TypeCorrect` | `TypeOK` | |
| `OneScanPerKeyHolds` | one row per idempotency key | |
| `OneCarrierHolds` | a publication is in one place | |
| `OneScanPerHeadHolds` | one row per head | one API process |
| `ImplementsContract` | `Spec => ContractHolds` | one publication per message |
| `NoSilentLossHolds` | no row forgotten without a fault | |
| `DeadLetterIsFinalHolds` | a dead letter is final | one publication per message |
| `CompletedIsPublishedHolds` | a completed row is reported | one publication per message |

The only assumption on constants is `ScanAssumption`, which TLC evaluates on every
run.  The argument has five layers.

1. `TypeOK` and `Presence`: a request that has not been published has no message, no
   execution and a row only from its insert on.  A row's first publication is then
   known to be fresh, which `OneCarrier` needs when `Enqueue` adds messages.
2. `OneScanPerHead` needs `LoopHeld`: a webhook past its lookup holds the event loop,
   and no other row for its head was committed since; the lookup is stale otherwise.
3. `ExecutionInv == TypeOK /\ Presence /\ OneCarrier /\ Progress`, for one publication.
   `Progress` ties the row's status, the attempts and the comments to the position of
   the one message: its retry number is the number of attempts before it, and a row in
   execution has no more comments than attempts.
   None of the properties is inductive by itself: that `Fail` comes only after the last
   attempt depends on the retry number carried by the message being the attempts made.
   `ContractStep` then maps each step to a step of `ScanContract` or a stutter.
4. `Buried` (nothing carries a row that has a dead letter, and it stays failed) and
   `Reporting` (a worker about to commit has posted the comment and concluded its check
   run, and no other worker can undo it) extend it for the last two theorems.

5. `NoneForgotten` strengthens `NoSilentLoss`, which does not say that whoever has an
   unfinished row will still write it: it requires of the worker that the status it is
   going to commit differs from the one its session loaded, for SQLAlchemy would not send
   it otherwise.

`EngineeringDeliveryProofs` proves `TypeOK`, `OnlyApprovedPlansPushed`, `PassedHasDraft`,
`PushFollowsValidation` and `RecordIsTrue` for any number of users and plans, from
`DeliveryAssumption` alone.  None is inductive: each needs to know what the calls carry
that are under way.  `PlansApproved` says that every plan on its way to the branch (in
the row, in a session about to save the execution plan, in a publication) was approved;
`VerdictsDrafted` that a passed verdict about to be saved has its draft committed; `GateWasOpen` that
what a publication found at the gate cannot disappear; `UrlStays` that no session holds a URL that the
row lacks, so that a publication whose session saw the URL does not have to write it.
`PlanStays` serves the types: an approval that overtakes a re-analysis still finds a plan.
Each is preserved by each action, one step per action.

`WorkspaceLifecycleProofs` proves, for any number of requests, processes and bounds:

| theorem | says | assumes |
|---|---|---|
| `TypeCorrect` | `TypeOK` | |
| `RecoveredPerWorker` | an instance is restarted automatically at most once by each worker | finitely many workers |
| `RecoveredOnceHolds` | `RecoveredOnce` | one worker |
| `NoOrphanBeforeFault` | `NoOrphanProcess` until something fails | one worker, no restarts |
| `NoOrphanProcessHolds` | `NoOrphanProcess` | the same, and nothing fails |

`Busy` says what the requests and workers hold in each of their places: the types need it.
`Known` says that nobody works on a row that was never inserted.  `Once` adds the workers
about to restart an instance to its restarts: a sweep reads the count with the commit that
declares the crash, and the restart commits the count two steps later, so that another sweep
may read in between.  `Tracked`: an instance is started once, by the launch that found it
pending; a call that is going to clear the pid has seen that pid, and its process is dead
for good; the worker that has started a process and not yet committed its pid holds a copy of
the row without one, so that its commit writes the column.  The conditions are where the code
needs them.  A call that loaded the row of an earlier launch may clear the pid of the later
one, hence no restarts; two workers may launch one pending row, hence one worker; a worker may
die between the start and the commit, hence no fault before.

`ExecutionRunProofs` proves all eight safety properties for any repository, plans, fixes,
bounds and faults, from `RunAssumption` (bounds are numbers; plans and fixes are change lists,
that is, JSON, whose contents are text) and `ApplierAssumption` (what is decoded with
replacement characters decodes to itself).  `CommittedStays` and `CancelledInTime` do not depend on
what applying a plan comes to.  `Carried` says that the context of an attempt is what the row
has of the completed stages and that the stage which runs is the first one not completed;
only then does a stage's commit leave the earlier ones alone.  `Stopped` says that after the
stage that was running at the request to cancel no step but the check for it is taken.

`FailedIsRolledBack`, `CompletedAsValidated`, `HealingRestores` and `RollbackRestores` are
about files (`Kept`).  `Counted` and `Placed`: the workspace of a run exists, is the one in its
row, and no attempt makes a second.  `Settled`: a run that an attempt failed after its change
was applied has the files of the snapshot back (`refused` says that no attempt did, but a call that
found the request not approved), and nothing writes while no attempt runs.
`Validated`: what passed validation is what is in the workspace until a failure takes it
back.  `Healable`: the snapshots of a healing, taken back from the last to the first, come to
the files that the healing found, however its fixes overlap.  That is the fold of `Restore`;
its steps are unrolled (`FoldLeftSteps`), and its first step is split off (`FoldFirst`).

A fold, a sum and a list put together are recursive functions of the library.  The provers
have no induction over them, but what holds of every length follows from `LeastNumber`: a
length for which it did not hold would have a least one, which the step from the length before
refutes.  `ListLemmas` does this for lists, sums and typed folds, `FoldingIs` for the fold of
`Rollback`, which needs no types.

`TypeOK` and `BatchIsSequence` need to know what is written (`Fitting`): `Written` says that
every file is text, that a plan which is applied is a change list (`Planned`), and that what
was kept for a rollback is text; `Repairing`, that a healing which is to apply fixes once more
has fewer snapshots than tries.  What an entry comes to is a fold over its operations
(`WorkedOut`), and so is the reference, twice: over changes (`InSequenceIs`) and over the
operations of a change (`ThroughIs`).  `Agreed` compares them change by change: the file of a
path is what the operations listed on it so far have worked out to, every other file is as it
was.  It holds because what an operation comes to depends on what the file is and not on how
it came about (`SameOutcome`), because text reads back as it was written (`ReadBack`), and
because operations may be worked out in two portions (`WorkedOutJoin`).  A change without
operations would break it, since writing an entry decodes the file: `Planned` excludes it,
as `_normalize_changes` does.  That a plan of whole files may be applied again where its
writing broke off is `WholeTwice`.

`SetupChainProofs` proves all five properties of `SetupChain`, for any number of calls and
of pushes and for any contents of the repository, from `HistoriesAssumption` (a history is not
empty, and the files of a repository are a function).  `RegeneratedIsReference` needs
`CleanCalls`: a call that met no other writer carries what it should, and has loaded the row
as it still is; and `FreshFromFresh`: a fresh row was made from fresh rows.  `DeclaredWins` and
`AddingKeepsDeclared` are about the operators: the offers are made in the order of their
authority (`AllOffersUpTo`), a slot takes the first (`TakenFirst`), and each source offers on
what it offered when files are added that hide none of those read (`HidesNothing`), or gives
way to one as binding (`AllOffersGrow`).
`DetectedIsReady` and `PlanIsHonest` need what the points of a list of checks add up to
(`PointsOf`), and which steps the filter of the plan leaves (`PlanStepsAre`): a command of the
repository is never taken for a placeholder, because it has another authority.

`SandboxLaunchProofs` proves `LaunchTypeOK`, `CommitsAreSettled` and `NoStraySandbox` from
`LaunchAssumption`, for any number of requests, launches and periods.  `RowStays` (a read or a
stop under way has a row) is what makes an expiry write a row at all.  `Account` follows the
container through the only request that is served: the tracked one until it is stopped
(`Before`), none until the next one runs (`Between`), then the one that the request started.

`ScanAnalysisProofs` proves `BudgetHolds` for any number of workers, scans, settings, days and
failures of Redis, from `WorkersAssumption`, `LimitsAssumption` and `CalendarAssumption`.
`BudgetHolds` speaks of requests asked, which are far from the check that let them pass.  The
invariant relates both to the counter: `Counted` bounds a counter with the increments that are
due on it by the limit and one for each worker but one, since a check that passes has found the
counter below its limit, whatever the others are about to add; `Paid` bounds the requests
asked, with those whose increment is made or excused, by the counter and the failures.

`BlockingIsStable` and `ScansReport` are proved for any rules, from `RulesAssumption` (a rule
that is created has a pattern that compiles).  `Grounded` says of every published report that
its conclusion follows from its own violations, and that these are what the rules of its scan
found: two reports of one pull request under the same rules then block alike.  `ReportInv`
adds that the table of company rules can be evaluated while no update spoilt it, so that a
scan can go on from each of its places, and counts the attempts (`Attempts`): one that ended
before the rules were read ended because Semgrep raised, so that a scan which died without a
report while every rule compiled was lost to Semgrep at each attempt (`LostToSemgrep`).

With TLC only: the liveness properties, for TLAPS has no ENABLED and no fairness rule here.
Every invariant and every action property of a passing run is a theorem.

## 12. Not modelled

* Frontend, migrations, scripts, authentication, settings, repository DNA, brains and
  prompt building: rendering, single-row reads and writes, text; no control state worth a model.
* GitHub, Semgrep, Docker, the AI providers and the broker are represented by the effects and
  failures that the code reacts to.
* `SecureWorkspaceManager`: which paths are refused is the constant `Resolve`; resolving them,
  the accounting of sizes and deletion are file system work.  The list of a pull request's files
  and its head are read as one (a push in between gives files of another head).
* `ExecutionRun`: a rollback that fails inside of `heal`; two overlapping calls of `execute` on
  one run, which nothing in the code makes; the code preview of a request.
* `SetupChain`: the wording of evidence and notes, directory layouts, editor files.
* `ScanAnalysis`: deaths of workers (in `ScanPipeline`), the expiry of the counters, and two
  rules that say the same, which count as one.
* `WorkspaceLifecycle`: API and worker on different hosts.
