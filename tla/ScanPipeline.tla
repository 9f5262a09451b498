---------------------------- MODULE ScanPipeline ----------------------------
(***************************************************************************)
(* The pull request scan pipeline: the GitHub webhook and the manual-scan  *)
(* endpoint insert rows into pull_request_scans and publish one Celery     *)
(* message per row (webhook_service.py, repository_service.py); worker     *)
(* processes take the messages and run the scan with retries, writing the  *)
(* row, a GitHub check run and PR comments, and at last a dead letter      *)
(* (tasks.py, scan_service.py, dead_letter_service.py).                    *)
(*                                                                         *)
(* Each request inserts at most one row, so a row bears its request's      *)
(* name.  A PostgreSQL transaction is one step at its commit, and every    *)
(* GitHub or broker call is a step of its own, so the other actors and a   *)
(* crash can come between any two of them.                                 *)
(***************************************************************************)
EXTENDS Naturals, FiniteSets

CONSTANTS
    Requests,       \* HTTP requests, webhook deliveries and manual scans alike
    Manual,         \* the requests to POST /repositories/{id}/scans
    Rejected,       \* deliveries without a registered installation or a head SHA
    Head,           \* Head[r]: the pull request and head SHA that r is about
    Event,          \* Event[r]: the pull_request action of a delivery
    ScannedEvents,  \* PR_ACTIONS_TO_SCAN
    Procs,          \* API server processes, each with one event loop
    Workers,        \* Celery worker processes
    Copies,         \* {one} when the broker publishes once; more when a publication
                    \* is repeated because its acknowledgement was lost
    MaxRetries,     \* MAX_SCAN_RETRIES
    MaxFaults,      \* bound on process crashes and broker outages in a behaviour
    NoRequest, NoJob, NoCheck

Webhooks == Requests \ Manual

\* A Celery message: which row, which publication of it, and request.retries.
Jobs == [scan : Requests, copy : Copies, try : 0..MaxRetries]

ASSUME ScanAssumption ==
    /\ Manual \subseteq Requests /\ Rejected \subseteq Webhooks
    /\ MaxRetries \in Nat /\ MaxFaults \in Nat
    /\ NoRequest \notin Requests /\ NoJob \notin Jobs /\ NoCheck \notin Jobs

VARIABLES
    phase,       \* phase[r]: where the handler of r is
    reply,       \* reply[r]: what the handler answered
    sawRepo,     \* sawRepo[r]: the handler's query found the repository row
    serving,     \* serving[p]: the webhook that holds the event loop of p
    repo,        \* the repository row: absent, unlinked or linked to an installation
    status,      \* status[r]: the status column of row r, "absent" before the insert
    check,       \* check[r]: the github_check_run_id column of row r
    checkRuns,   \* GitHub: the check run each attempt created, by its state
    comments,    \* GitHub: how many report comments the scan has posted
    queue,       \* the Celery queue, messages waiting for their countdown included
    dead,        \* the Redis list codedna:dead_letter_scans
    pc,          \* pc[w]: where worker w is
    job,         \* job[w]: the message worker w executes
    seenCheck,   \* seenCheck[w]: github_check_run_id as loaded in the worker's session
    seenStatus,  \* seenStatus[w]: status as loaded in the worker's session
    attempts,    \* history: executions begun for each row
    lost,        \* history: rows of which a fault destroyed a message
    faults       \* history: crashes and outages so far

apiVars == <<phase, reply, sawRepo, serving>>
dbVars == <<repo, status, check>>
githubVars == <<checkRuns, comments>>
brokerVars == <<queue, dead>>
workerVars == <<pc, job, seenCheck, seenStatus>>
historyVars == <<attempts, lost, faults>>
vars == <<apiVars, dbVars, githubVars, brokerVars, workerVars, historyVars>>

Phases == {"new", "lookup", "insert", "enqueue", "done"}
Replies == {"none", "ignored", "duplicate", "queued", "error"}
ScanStatus == {"queued", "running", "completed", "failed"}
CheckStates == {"none", "in_progress", "completed", "failed"}
\* The steps of PullRequestScanService.run, any of which may raise.
TryPcs == {"load", "check", "saveCheck", "start", "scan", "report", "comment", "commit"}
\* After the last attempt: mark_failed, then the dead letter.
GiveUpPcs == {"failCheck", "failCommit", "bury"}
Pcs == {"idle", "raised"} \cup TryPcs \cup GiveUpPcs

TypeOK ==
    /\ phase \in [Requests -> Phases] /\ reply \in [Requests -> Replies]
    /\ sawRepo \in [Requests -> BOOLEAN]
    /\ serving \in [Procs -> Webhooks \cup {NoRequest}]
    /\ repo \in {"absent", "unlinked", "linked"}
    /\ status \in [Requests -> ScanStatus \cup {"absent"}]
    /\ check \in [Requests -> Jobs \cup {NoCheck}]
    /\ checkRuns \in [Jobs -> CheckStates]
    /\ comments \in [Requests -> Nat]
    /\ queue \subseteq Jobs /\ dead \subseteq Jobs
    /\ pc \in [Workers -> Pcs]
    /\ job \in [Workers -> Jobs \cup {NoJob}]
    /\ \A w \in Workers : job[w] = NoJob <=> pc[w] = "idle"
    /\ seenCheck \in [Workers -> Jobs \cup {NoCheck}]
    /\ seenStatus \in [Workers -> ScanStatus \cup {"absent"}]
    /\ attempts \in [Requests -> Nat] /\ lost \subseteq Requests /\ faults \in 0..MaxFaults

\* The workspace has seen the repository before, or not; a repository added by
\* hand has no installation until a webhook links it.
Init ==
    /\ phase = [r \in Requests |-> "new"] /\ reply = [r \in Requests |-> "none"]
    /\ sawRepo = [r \in Requests |-> FALSE]
    /\ serving = [p \in Procs |-> NoRequest]
    /\ repo \in {"absent", "unlinked", "linked"}
    /\ status = [r \in Requests |-> "absent"] /\ check = [r \in Requests |-> NoCheck]
    /\ checkRuns = [c \in Jobs |-> "none"] /\ comments = [r \in Requests |-> 0]
    /\ queue = {} /\ dead = {}
    /\ pc = [w \in Workers |-> "idle"] /\ job = [w \in Workers |-> NoJob]
    /\ seenCheck = [w \in Workers |-> NoCheck]
    /\ seenStatus = [w \in Workers |-> "absent"]
    /\ attempts = [r \in Requests |-> 0] /\ lost = {} /\ faults = 0

-----------------------------------------------------------------------------
(* The API: one handler per request. *)

\* The handler answers and, for a webhook, gives the event loop back.
Answer(r, answer) ==
    /\ phase' = [phase EXCEPT ![r] = "done"]
    /\ reply' = [reply EXCEPT ![r] = answer]
    /\ serving' = [p \in Procs |-> IF serving[p] = r THEN NoRequest ELSE serving[p]]
    /\ sawRepo' = [sawRepo EXCEPT ![r] = FALSE]

GoTo(r, next) == /\ phase' = [phase EXCEPT ![r] = next]
                 /\ UNCHANGED <<reply, serving>>

\* The early returns of _handle_pull_request_event, before anything is written.
Scannable(r) == Event[r] \in ScannedEvents /\ r \notin Rejected

IgnoreWebhook(r) ==
    /\ r \in Webhooks /\ phase[r] = "new" /\ ~Scannable(r)
    /\ Answer(r, "ignored")
    /\ UNCHANGED <<dbVars, githubVars, brokerVars, workerVars, historyVars>>

\* github_webhook is an async function with a synchronous body: from here to its
\* answer it has the event loop of its process to itself.
ReceiveWebhook(r, p) ==
    /\ r \in Webhooks /\ phase[r] = "new" /\ Scannable(r)
    /\ serving[p] = NoRequest
    /\ serving' = [serving EXCEPT ![p] = r]
    /\ phase' = [phase EXCEPT ![r] = "lookup"]
    /\ UNCHANGED <<reply, sawRepo, dbVars, githubVars, brokerVars, workerVars, historyVars>>

\* The webhook rows of this pull request and head SHA that are committed by now.
\* _find_duplicate_scan asks for the idempotency key first; a row with r's key has
\* r's head SHA, so the second query alone decides.
\* (A Seeded operator is a fault that no code has, to show what a property catches.)
SeededKeyOnlyLookup(r) ==
    {s \in Webhooks : status[s] # "absent" /\ Head[s] = Head[r] /\ Event[s] = Event[r]}
DuplicateScans(r) ==
    {s \in Webhooks : status[s] # "absent" /\ Head[s] = Head[r]}

LookupScan(r) ==
    /\ phase[r] = "lookup"
    /\ IF DuplicateScans(r) # {}
         THEN Answer(r, "duplicate")
         ELSE /\ GoTo(r, "insert")
              /\ sawRepo' = [sawRepo EXCEPT ![r] = repo # "absent"]
    /\ UNCHANGED <<dbVars, githubVars, brokerVars, workerVars, historyVars>>

\* The unique index on idempotency_key.
\* Seeded: a table without it.
SeededNoUniqueIndex(r) == FALSE
KeyTaken(r) ==
    \E s \in Webhooks : status[s] # "absent" /\ Head[s] = Head[r] /\ Event[s] = Event[r]

\* The transaction from _upsert_repository's INSERT to the commit.  A repository
\* row that another transaction inserted first is an IntegrityError outside the
\* try block, a scan row with the same key is one inside it.
InsertScan(r) ==
    /\ phase[r] = "insert"
    /\ UNCHANGED <<check, githubVars, brokerVars, workerVars, historyVars>>
    /\ \/ /\ ~sawRepo[r] /\ repo # "absent"
          /\ Answer(r, "error") /\ UNCHANGED <<repo, status>>
       \/ /\ sawRepo[r] \/ repo = "absent"
          /\ KeyTaken(r)
          /\ Answer(r, "duplicate") /\ UNCHANGED <<repo, status>>
       \/ /\ sawRepo[r] \/ repo = "absent"
          /\ ~KeyTaken(r)
          /\ status' = [status EXCEPT ![r] = "queued"] /\ repo' = "linked"
          /\ GoTo(r, "enqueue") /\ UNCHANGED sawRepo

\* queue_manual_scan: every call makes a row of its own, without a key.
SubmitManualScan(r) ==
    /\ r \in Manual /\ phase[r] = "new"
    /\ IF repo = "absent"
         THEN Answer(r, "error") /\ UNCHANGED status
         ELSE /\ GoTo(r, "enqueue") /\ UNCHANGED sawRepo
              /\ status' = [status EXCEPT ![r] = "queued"]
    /\ UNCHANGED <<repo, check, githubVars, brokerVars, workerVars, historyVars>>

\* run_pr_scan.delay, after the commit.
Enqueue(r) ==
    /\ phase[r] = "enqueue"
    /\ \E cs \in (SUBSET Copies) \ {{}} :
          queue' = queue \cup {[scan |-> r, copy |-> c, try |-> 0] : c \in cs}
    /\ Answer(r, "queued")
    /\ UNCHANGED <<dbVars, githubVars, dead, workerVars, historyVars>>

\* The process dies, or the broker refuses the message: the answer is an error,
\* and a row that is already committed has no message.
HandlerDies(r) ==
    /\ phase[r] \in {"lookup", "insert", "enqueue"} /\ faults < MaxFaults
    /\ Answer(r, "error")
    /\ faults' = faults + 1
    /\ lost' = IF phase[r] = "enqueue" THEN lost \cup {r} ELSE lost
    /\ UNCHANGED <<dbVars, githubVars, brokerVars, workerVars, attempts>>

-----------------------------------------------------------------------------
(* The worker: one message at a time, acknowledged before it is executed. *)

Row(w) == job[w].scan

At(w, next) == pc' = [pc EXCEPT ![w] = next]

\* A load or a refresh in the worker's session, and the expiry of what it holds.
LoadRow(w) ==
    /\ seenCheck' = [seenCheck EXCEPT ![w] = check[Row(w)]]
    /\ seenStatus' = [seenStatus EXCEPT ![w] = status[Row(w)]]
ExpireRow(w) ==
    /\ seenCheck' = [seenCheck EXCEPT ![w] = NoCheck]
    /\ seenStatus' = [seenStatus EXCEPT ![w] = "absent"]

\* The commit of an assignment to the status column: the session writes the column
\* only when the value differs from the one it loaded.
WriteStatus(w, value) ==
    status' = IF seenStatus[w] = value THEN status
              ELSE [status EXCEPT ![Row(w)] = value]

\* A GitHub call whose effect took place; the answer may still get lost.
Answered(w, next) == \E a \in BOOLEAN :
    IF a THEN At(w, next) /\ UNCHANGED <<seenCheck, seenStatus>>
         ELSE At(w, "raised") /\ ExpireRow(w)

Free(w) == /\ At(w, "idle") /\ ExpireRow(w)
           /\ job' = [job EXCEPT ![w] = NoJob]

\* Seeded: a message that stays in the queue while it is executed.
SeededTakeKeeps(w) ==
    /\ pc[w] = "idle"
    /\ \E m \in queue : /\ job' = [job EXCEPT ![w] = m]
                        /\ attempts' = [attempts EXCEPT ![m.scan] = @ + 1]
    /\ At(w, "load")
    /\ UNCHANGED <<apiVars, dbVars, githubVars, brokerVars, seenCheck, seenStatus, lost, faults>>
Take(w) ==
    /\ pc[w] = "idle"
    /\ \E m \in queue :
          /\ queue' = queue \ {m}
          /\ job' = [job EXCEPT ![w] = m]
          /\ attempts' = [attempts EXCEPT ![m.scan] = @ + 1]
    /\ At(w, "load")
    /\ UNCHANGED <<apiVars, dbVars, githubVars, dead, seenCheck, seenStatus, lost, faults>>

\* run loads the row; a repository without an installation raises (StepRaises).
LoadScan(w) ==
    /\ pc[w] = "load" /\ repo = "linked"
    /\ LoadRow(w) /\ At(w, "check")
    /\ UNCHANGED <<apiVars, dbVars, githubVars, brokerVars, job, historyVars>>

\* _mark_check_run_in_progress with a known check run.
UpdateCheckRun(w) ==
    /\ pc[w] = "check" /\ seenCheck[w] # NoCheck
    /\ checkRuns' = [checkRuns EXCEPT ![seenCheck[w]] = "in_progress"]
    /\ Answered(w, "start")
    /\ UNCHANGED <<apiVars, dbVars, comments, brokerVars, job, historyVars>>

\* Without one it creates a check run, named here by the attempt that makes it.
CreateCheckRun(w) ==
    /\ pc[w] = "check" /\ seenCheck[w] = NoCheck
    /\ checkRuns' = [checkRuns EXCEPT ![job[w]] = "in_progress"]
    /\ Answered(w, "saveCheck")
    /\ UNCHANGED <<apiVars, dbVars, comments, brokerVars, job, historyVars>>

SaveCheckRun(w) ==
    /\ pc[w] = "saveCheck"
    /\ check' = [check EXCEPT ![Row(w)] = job[w]]
    /\ seenCheck' = [seenCheck EXCEPT ![w] = job[w]]
    /\ seenStatus' = [seenStatus EXCEPT ![w] = status[Row(w)]]
    /\ At(w, "start")
    /\ UNCHANGED <<apiVars, repo, status, githubVars, brokerVars, job, historyVars>>

MarkRunning(w) ==
    /\ pc[w] = "start"
    /\ WriteStatus(w, "running")
    /\ ExpireRow(w) /\ At(w, "scan")
    /\ UNCHANGED <<apiVars, repo, check, githubVars, brokerVars, job, historyVars>>

\* The row is loaded again, the files are fetched and examined, and the results
\* stay in the session until the last commit.
ScanFiles(w) ==
    /\ pc[w] = "scan"
    /\ LoadRow(w) /\ At(w, "report")
    /\ UNCHANGED <<apiVars, dbVars, githubVars, brokerVars, job, historyVars>>

CompleteCheckRun(w) ==
    /\ pc[w] = "report"
    /\ \/ /\ seenCheck[w] = NoCheck
          /\ At(w, "comment") /\ UNCHANGED <<checkRuns, seenCheck, seenStatus>>
       \/ /\ seenCheck[w] # NoCheck
          /\ checkRuns' = [checkRuns EXCEPT ![seenCheck[w]] = "completed"]
          /\ Answered(w, "comment")
    /\ UNCHANGED <<apiVars, dbVars, comments, brokerVars, job, historyVars>>

PostComment(w) ==
    /\ pc[w] = "comment"
    /\ comments' = [comments EXCEPT ![Row(w)] = @ + 1]
    /\ Answered(w, "commit")
    /\ UNCHANGED <<apiVars, dbVars, checkRuns, brokerVars, job, historyVars>>

CommitCompleted(w) ==
    /\ pc[w] = "commit"
    /\ WriteStatus(w, "completed") /\ Free(w)
    /\ UNCHANGED <<apiVars, repo, check, githubVars, brokerVars, historyVars>>

\* An exception at any step of run, before the step took effect: a GitHub or
\* Semgrep error, an invalid rule, a failed commit.  The session is rolled back.
\* Seeded: a failure to post the comment is ignored.
SeededSwallow(w) ==
    /\ pc[w] \in TryPcs
    /\ At(w, IF pc[w] = "comment" THEN "commit" ELSE "raised")
    /\ IF pc[w] = "comment" THEN UNCHANGED <<seenCheck, seenStatus>> ELSE ExpireRow(w)
    /\ UNCHANGED <<apiVars, dbVars, githubVars, brokerVars, job, historyVars>>
StepRaises(w) ==
    /\ pc[w] \in TryPcs
    /\ At(w, "raised") /\ ExpireRow(w)
    /\ UNCHANGED <<apiVars, dbVars, githubVars, brokerVars, job, historyVars>>

\* Seeded: one retry too many.
SeededRetryAlways(m) == m.try <= MaxRetries
MayRetry(m) == m.try < MaxRetries

Retried(m) == [m EXCEPT !.try = @ + 1]

\* task.retry publishes the message again with a countdown.
Retry(w) ==
    /\ pc[w] = "raised" /\ MayRetry(job[w])
    /\ queue' = queue \cup {Retried(job[w])}
    /\ Free(w)
    /\ UNCHANGED <<apiVars, dbVars, githubVars, dead, historyVars>>

\* mark_failed loads the row and tells GitHub, swallowing what GitHub answers.
\* Seeded: an execution that ends without a word after its last attempt.
SeededGiveUpSilently(w) ==
    /\ pc[w] = "raised" /\ ~MayRetry(job[w])
    /\ Free(w)
    /\ UNCHANGED <<apiVars, dbVars, githubVars, brokerVars, historyVars>>
GiveUp(w) ==
    /\ pc[w] = "raised" /\ ~MayRetry(job[w])
    /\ LoadRow(w) /\ At(w, "failCheck")
    /\ UNCHANGED <<apiVars, dbVars, githubVars, brokerVars, job, historyVars>>

FailCheckRun(w) ==
    /\ pc[w] = "failCheck"
    /\ \/ /\ seenCheck[w] # NoCheck
          /\ checkRuns' = [checkRuns EXCEPT ![seenCheck[w]] = "failed"]
       \/ UNCHANGED checkRuns
    /\ At(w, "failCommit")
    /\ UNCHANGED <<apiVars, dbVars, comments, brokerVars, job, seenCheck, seenStatus, historyVars>>

\* Seeded: mark_failed without its commit.
SeededNoCommit(w) ==
    /\ pc[w] = "failCommit"
    /\ ExpireRow(w) /\ At(w, "bury")
    /\ UNCHANGED <<apiVars, dbVars, githubVars, brokerVars, job, historyVars>>
CommitFailed(w) ==
    /\ pc[w] = "failCommit"
    /\ WriteStatus(w, "failed") /\ ExpireRow(w) /\ At(w, "bury")
    /\ UNCHANGED <<apiVars, repo, check, githubVars, brokerVars, job, historyVars>>

\* The dead letter is pushed, or its failure is swallowed.
Bury(w) ==
    /\ pc[w] = "bury"
    /\ dead' \in {dead, dead \cup {job[w]}}
    /\ Free(w)
    /\ UNCHANGED <<apiVars, dbVars, githubVars, queue, historyVars>>

\* The process dies, the retry cannot be published or mark_failed itself raises:
\* the message is gone, since it was acknowledged before it was executed.
WorkerDies(w) ==
    /\ pc[w] # "idle" /\ faults < MaxFaults
    /\ Free(w)
    /\ faults' = faults + 1 /\ lost' = lost \cup {Row(w)}
    /\ UNCHANGED <<apiVars, dbVars, githubVars, brokerVars, attempts>>

-----------------------------------------------------------------------------

HandlerStep(r) == LookupScan(r) \/ InsertScan(r) \/ Enqueue(r)

RunStep(w) ==
    \/ LoadScan(w) \/ UpdateCheckRun(w) \/ CreateCheckRun(w) \/ SaveCheckRun(w)
    \/ MarkRunning(w) \/ ScanFiles(w) \/ CompleteCheckRun(w) \/ PostComment(w)
    \/ CommitCompleted(w) \/ StepRaises(w)
GiveUpStep(w) == Retry(w) \/ GiveUp(w) \/ FailCheckRun(w) \/ CommitFailed(w) \/ Bury(w)
WorkerStep(w) == Take(w) \/ RunStep(w) \/ GiveUpStep(w)

Next ==
    \/ \E r \in Requests : \/ IgnoreWebhook(r) \/ SubmitManualScan(r)
                           \/ HandlerStep(r) \/ HandlerDies(r)
                           \/ \E p \in Procs : ReceiveWebhook(r, p)
    \/ \E w \in Workers : WorkerStep(w) \/ WorkerDies(w)

Spec == Init /\ [][Next]_vars

\* A handler that was entered runs on, and so does a worker process; nobody has to
\* send a request, and no fault has to happen.
Fairness == /\ \A r \in Requests : WF_vars(HandlerStep(r))
            /\ \A w \in Workers : WF_vars(WorkerStep(w))

FairSpec == Spec /\ Fairness

-----------------------------------------------------------------------------
(* Properties. *)

Terminal == {"completed", "failed"}

\* Two messages of the same publication of the same row, whatever their retries.
SamePublication(m, n) == m.scan = n.scan /\ m.copy = n.copy

\* Somebody still holds a message of row r.
Carried(r) == \/ \E m \in queue : m.scan = r
              \/ \E w \in Workers : job[w] # NoJob /\ job[w].scan = r

\* The unique index and the IntegrityError path together: however many processes
\* race on a delivery, one idempotency key has one row.
OneScanPerKey ==
    \A r, s \in Webhooks :
        /\ status[r] # "absent" /\ status[s] # "absent"
        /\ Head[r] = Head[s] /\ Event[r] = Event[s]
        => r = s

\* What the duplicate lookup is for: a head SHA is scanned once for all the events
\* GitHub sends about it (test_same_pr_with_same_head_sha_creates_only_one_scan).
\* Nothing but the serial event loop protects it.
OneScanPerHead ==
    \A r, s \in Webhooks :
        status[r] # "absent" /\ status[s] # "absent" /\ Head[r] = Head[s] => r = s

\* A message is never in two places: no two workers, and no worker and the queue,
\* hold the same publication of a row's message, whatever was retried.
OneCarrier ==
    /\ \A m, n \in queue : SamePublication(m, n) => m = n
    /\ \A v, w \in Workers :
          job[v] # NoJob /\ job[w] # NoJob /\ SamePublication(job[v], job[w]) => v = w
    /\ \A m \in queue, w \in Workers : job[w] # NoJob => ~SamePublication(m, job[w])

\* An unfinished row has a handler about to publish it, a message or a worker,
\* unless a counted fault destroyed a message of it: the retry path loses nothing.
NoSilentLoss ==
    \A r \in Requests :
        status[r] \in {"queued", "running"} =>
            phase[r] = "enqueue" \/ Carried(r) \/ r \in lost

\* A row is "completed" only when its report stands on the pull request and its
\* check run is concluded on GitHub.
CompletedIsPublished ==
    \A r \in Requests : status[r] = "completed" =>
        /\ comments[r] > 0 /\ check[r] # NoCheck
        /\ checkRuns[check[r]] = "completed"

\* A dead letter is written for a row that used up its attempts, is failed and has
\* no execution left that could change it again.
DeadLetterIsFinal ==
    \A m \in dead : /\ m.try = MaxRetries /\ attempts[m.scan] = MaxRetries + 1
                     /\ status[m.scan] = "failed" /\ ~Carried(m.scan)

\* The pipeline implements its contract when the broker publishes a message once.
Contract == INSTANCE ScanContract WITH Scans <- Requests, reports <- comments
ContractHolds == Contract!Spec

\* Every accepted scan is finished or failed in the end, or a fault hit it.
AcceptedScansSettle ==
    \A r \in Requests : status[r] = "queued" ~> status[r] \in Terminal \/ r \in lost

\* docs/production-architecture.md, "Failure, Retry, and Dead-letter Flow": once the
\* retries are exhausted the check run is completed with conclusion failure.
FailedScanShowsFailedCheck ==
    \A r \in Requests : status[r] = "failed" /\ check[r] # NoCheck
                         => checkRuns[check[r]] = "failed"
=============================================================================
