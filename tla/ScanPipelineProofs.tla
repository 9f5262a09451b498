------------------------- MODULE ScanPipelineProofs -------------------------
EXTENDS ScanPipeline, TLAPS

\* Every action of a handler, and of a worker, keeps the types of the state.
LEMMA TypeInit == Init => TypeOK
  BY ScanAssumption DEF Init, TypeOK, Phases, Replies, CheckStates, Pcs, Webhooks

LEMMA AnswerTypes ==
  ASSUME TypeOK, NEW r \in Requests, NEW a \in Replies, Answer(r, a)
  PROVE  /\ phase' \in [Requests -> Phases] /\ reply' \in [Requests -> Replies]
         /\ sawRepo' \in [Requests -> BOOLEAN]
         /\ serving' \in [Procs -> Webhooks \cup {NoRequest}]
  BY DEF TypeOK, Answer, Phases

LEMMA HandlerKeepsTypes ==
  ASSUME TypeOK, NEW r \in Requests,
         \/ IgnoreWebhook(r) \/ SubmitManualScan(r) \/ HandlerStep(r) \/ HandlerDies(r)
         \/ \E p \in Procs : ReceiveWebhook(r, p)
  PROVE  TypeOK'
<1> USE ScanAssumption DEF TypeOK, apiVars, dbVars, githubVars, brokerVars, workerVars,
        historyVars, Phases, Replies, ScanStatus
<1>1. CASE IgnoreWebhook(r)
  BY <1>1, AnswerTypes DEF IgnoreWebhook
<1>2. CASE SubmitManualScan(r)
  <2>1. CASE repo = "absent"
    <3>1. Answer(r, "error") /\ UNCHANGED status
      BY <1>2, <2>1, Zenon DEF SubmitManualScan
    <3>. QED BY <1>2, <3>1, AnswerTypes DEF SubmitManualScan
  <2>2. CASE repo # "absent"
    BY <1>2, <2>2 DEF SubmitManualScan, GoTo
  <2>. QED BY <2>1, <2>2
<1>3. CASE LookupScan(r)
  <2>1. CASE DuplicateScans(r) # {}
    <3>1. Answer(r, "duplicate")
      BY <1>3, <2>1, Zenon DEF LookupScan
    <3>. QED BY <1>3, <3>1, AnswerTypes DEF LookupScan
  <2>2. CASE DuplicateScans(r) = {}
    <3>1. sawRepo' = [sawRepo EXCEPT ![r] = repo # "absent"]
      BY <1>3, <2>2, Zenon DEF LookupScan
    <3>2. sawRepo' \in [Requests -> BOOLEAN]
      BY <3>1, Zenon
    <3>. QED BY <1>3, <2>2, <3>2 DEF LookupScan, GoTo
  <2>. QED BY <2>1, <2>2
<1>4. CASE InsertScan(r)
  <2>1. CASE UNCHANGED <<repo, status>> /\ \E a \in {"error", "duplicate"} : Answer(r, a)
    BY <1>4, <2>1, AnswerTypes DEF InsertScan
  <2>2. CASE GoTo(r, "enqueue") /\ UNCHANGED sawRepo /\ repo' = "linked"
             /\ status' = [status EXCEPT ![r] = "queued"]
    BY <1>4, <2>2 DEF InsertScan, GoTo
  <2>. QED BY <1>4, <2>1, <2>2 DEF InsertScan
<1>5. CASE Enqueue(r)
  <2>1. PICK cs \in (SUBSET Copies) \ {{}} :
          queue' = queue \cup {[scan |-> r, copy |-> c, try |-> 0] : c \in cs}
    BY <1>5 DEF Enqueue
  <2>2. queue' \subseteq Jobs
    BY <2>1 DEF Jobs
  <2>. QED BY <1>5, <2>2, AnswerTypes DEF Enqueue
<1>6. CASE HandlerDies(r)
  BY <1>6, AnswerTypes DEF HandlerDies
<1>7. ASSUME NEW p \in Procs, ReceiveWebhook(r, p) PROVE TypeOK'
  BY <1>7 DEF ReceiveWebhook
<1>. QED BY <1>1, <1>2, <1>3, <1>4, <1>5, <1>6, <1>7 DEF HandlerStep

LEMMA RetriedJob ==
  ASSUME NEW m \in Jobs, MayRetry(m)
  PROVE  /\ Retried(m) \in Jobs
         /\ Retried(m).scan = m.scan /\ Retried(m).copy = m.copy
         /\ Retried(m).try = m.try + 1
  BY ScanAssumption DEF Jobs, MayRetry, Retried

LEMMA WorkerKeepsTypes ==
  ASSUME TypeOK, NEW w \in Workers, WorkerStep(w) \/ WorkerDies(w)
  PROVE  TypeOK'
<1> USE ScanAssumption DEF TypeOK, apiVars, dbVars, githubVars, brokerVars, workerVars,
        historyVars, Row, At, Free, LoadRow, ExpireRow, Pcs, TryPcs, GiveUpPcs
<1>0. pc[w] # "idle" => job[w] \in Jobs /\ job[w].scan \in Requests
  BY DEF Jobs
<1>1. CASE Take(w)
  BY <1>1 DEF Take, Jobs
<1>2. CASE LoadScan(w)
  BY <1>0, <1>2 DEF LoadScan
<1>3. CASE UpdateCheckRun(w)
  BY <1>3 DEF UpdateCheckRun, Answered, CheckStates
<1>4. CASE CreateCheckRun(w)
  BY <1>0, <1>4 DEF CreateCheckRun, Answered, CheckStates
<1>5. CASE SaveCheckRun(w)
  BY <1>0, <1>5 DEF SaveCheckRun
<1>6. CASE MarkRunning(w)
  BY <1>0, <1>6 DEF MarkRunning, WriteStatus, ScanStatus
<1>7. CASE ScanFiles(w)
  BY <1>0, <1>7 DEF ScanFiles
<1>8. CASE CompleteCheckRun(w)
  BY <1>8 DEF CompleteCheckRun, Answered, CheckStates
<1>9. CASE PostComment(w)
  BY <1>0, <1>9 DEF PostComment, Answered
<1>10. CASE CommitCompleted(w)
  BY <1>0, <1>10 DEF CommitCompleted, WriteStatus, ScanStatus
<1>11. CASE StepRaises(w)
  BY <1>11 DEF StepRaises
<1>12. CASE Retry(w)
  BY <1>0, <1>12, RetriedJob DEF Retry
<1>13. CASE GiveUp(w)
  BY <1>0, <1>13 DEF GiveUp
<1>14. CASE FailCheckRun(w)
  BY <1>14 DEF FailCheckRun, CheckStates
<1>15. CASE CommitFailed(w)
  BY <1>0, <1>15 DEF CommitFailed, WriteStatus, ScanStatus
<1>16. CASE Bury(w)
  BY <1>0, <1>16 DEF Bury
<1>17. CASE WorkerDies(w)
  BY <1>0, <1>17 DEF WorkerDies
<1>. QED BY <1>1, <1>2, <1>3, <1>4, <1>5, <1>6, <1>7, <1>8, <1>9, <1>10, <1>11,
            <1>12, <1>13, <1>14, <1>15, <1>16, <1>17
         DEF WorkerStep, RunStep, GiveUpStep

\* Type correctness, for any requests, processes, workers, copies and bounds.
THEOREM TypeCorrect == Spec => []TypeOK
<1>1. TypeOK /\ [Next]_vars => TypeOK'
  <2>. SUFFICES ASSUME TypeOK, [Next]_vars PROVE TypeOK' OBVIOUS
  <2>1. CASE UNCHANGED vars
    BY <2>1 DEF TypeOK, vars, apiVars, dbVars, githubVars, brokerVars, workerVars, historyVars
  <2>. QED BY <2>1, HandlerKeepsTypes, WorkerKeepsTypes DEF Next
<1>. QED BY <1>1, TypeInit, PTL DEF Spec

-----------------------------------------------------------------------------
(* What holds for any number of publications of a message. *)

\* What a worker's step changes besides the worker's own state.
LEMMA WorkerFrame ==
  ASSUME TypeOK, NEW w \in Workers, WorkerStep(w) \/ WorkerDies(w)
  PROVE  /\ UNCHANGED <<apiVars, repo>>
         /\ \/ UNCHANGED status
            \/ /\ job[w] # NoJob
               /\ \E v \in ScanStatus : status' = [status EXCEPT ![job[w].scan] = v]
         /\ \/ UNCHANGED comments
            \/ job[w] # NoJob /\ comments' = [comments EXCEPT ![job[w].scan] = @ + 1]
         /\ \/ /\ UNCHANGED <<queue, attempts>>
               /\ UNCHANGED job \/ job' = [job EXCEPT ![w] = NoJob]
            \/ /\ job[w] = NoJob
               /\ \E m \in queue : /\ queue' = queue \ {m}
                                   /\ job' = [job EXCEPT ![w] = m]
                                   /\ attempts' = [attempts EXCEPT ![m.scan] = @ + 1]
            \/ /\ job[w] # NoJob /\ MayRetry(job[w])
               /\ queue' = queue \cup {Retried(job[w])}
               /\ job' = [job EXCEPT ![w] = NoJob]
               /\ UNCHANGED attempts
<1> USE DEF TypeOK, apiVars, dbVars, githubVars, brokerVars, historyVars, Row, Free,
            ScanStatus, TryPcs
<1>1. CASE Take(w)
  BY <1>1 DEF Take
<1>2. CASE RunStep(w)
  BY <1>2 DEF RunStep, LoadScan, UpdateCheckRun, CreateCheckRun, SaveCheckRun, MarkRunning,
         ScanFiles, CompleteCheckRun, PostComment, CommitCompleted, StepRaises, WriteStatus
<1>3. CASE GiveUpStep(w)
  BY <1>3 DEF GiveUpStep, Retry, GiveUp, FailCheckRun, CommitFailed, Bury, WriteStatus
<1>4. CASE WorkerDies(w)
  BY <1>4 DEF WorkerDies
<1>. QED BY <1>1, <1>2, <1>3, <1>4 DEF WorkerStep

\* A row exists from its insert on, and its messages only after its handler is done.
Presence ==
  /\ \A r \in Requests :
        /\ phase[r] \in {"new", "lookup", "insert"} => status[r] = "absent"
        /\ phase[r] = "enqueue" => status[r] = "queued"
        /\ phase[r] # "done" => attempts[r] = 0 /\ comments[r] = 0
  /\ \A m \in queue : phase[m.scan] = "done" /\ status[m.scan] # "absent"
  /\ \A w \in Workers : job[w] # NoJob =>
        phase[job[w].scan] = "done" /\ status[job[w].scan] # "absent"

\* What a handler's step changes: its own phase, its own row and its messages.
LEMMA HandlerFrame ==
  ASSUME TypeOK, NEW r \in Requests,
         \/ IgnoreWebhook(r) \/ SubmitManualScan(r) \/ HandlerStep(r) \/ HandlerDies(r)
         \/ \E p \in Procs : ReceiveWebhook(r, p)
  PROVE  /\ UNCHANGED <<githubVars, workerVars, attempts, dead, check>>
         /\ phase[r] # "done" /\ \E ph \in Phases : phase' = [phase EXCEPT ![r] = ph]
         /\ \/ UNCHANGED <<status, queue>> /\ phase'[r] = "done"
            \/ UNCHANGED <<status, queue>> /\ phase[r] # "enqueue"
                                         /\ phase'[r] \in {"lookup", "insert"}
            \/ /\ phase[r] \in {"new", "insert"} /\ phase'[r] = "enqueue"
               /\ r \in Webhooks => ~KeyTaken(r)
               /\ status' = [status EXCEPT ![r] = "queued"] /\ UNCHANGED queue
            \/ /\ phase[r] = "enqueue" /\ phase'[r] = "done"
               /\ \E cs \in SUBSET Copies : queue' =
                     queue \cup {[scan |-> r, copy |-> c, try |-> 0] : c \in cs}
               /\ UNCHANGED status
<1> USE DEF TypeOK, apiVars, dbVars, githubVars, brokerVars, workerVars, historyVars,
            Phases, Answer, GoTo
<1>1. CASE IgnoreWebhook(r)
  BY <1>1 DEF IgnoreWebhook
<1>2. CASE SubmitManualScan(r)
  BY <1>2 DEF SubmitManualScan, Webhooks
<1>3. CASE LookupScan(r)
  BY <1>3 DEF LookupScan
<1>4. CASE InsertScan(r)
  BY <1>4 DEF InsertScan
<1>5. CASE Enqueue(r)
  BY <1>5 DEF Enqueue
<1>6. CASE HandlerDies(r)
  BY <1>6 DEF HandlerDies
<1>7. ASSUME NEW p \in Procs, ReceiveWebhook(r, p)
      PROVE  UNCHANGED <<status, queue>> /\ phase[r] # "enqueue" /\ phase'[r] = "lookup"
             /\ UNCHANGED <<githubVars, workerVars, attempts, dead, check>>
             /\ phase[r] # "done" /\ phase' = [phase EXCEPT ![r] = "lookup"]
  BY <1>7 DEF ReceiveWebhook
<1>. QED BY <1>1, <1>2, <1>3, <1>4, <1>5, <1>6, <1>7 DEF HandlerStep

LEMMA PresenceInit == Init => Presence
  BY DEF Init, Presence

LEMMA PresenceStep ==
  ASSUME TypeOK, Presence, [Next]_vars
  PROVE  Presence'
<1>1. CASE UNCHANGED vars
  BY <1>1 DEF Presence, vars, apiVars, dbVars, githubVars, brokerVars, workerVars, historyVars
<1>2. ASSUME NEW w \in Workers, WorkerStep(w) \/ WorkerDies(w)
      PROVE  Presence'
  <2> USE DEF TypeOK, Presence, apiVars, Jobs
  <2>1. /\ phase' = phase
        /\ \A r \in Requests : status'[r] = "absent" <=> status[r] = "absent"
        /\ \A r \in Requests : phase[r] # "done" =>
              status'[r] = status[r] /\ attempts'[r] = attempts[r] /\ comments'[r] = comments[r]
    <3>1. phase' = phase
      BY <1>2, WorkerFrame
    <3>2. \A r \in Requests : status'[r] = "absent" <=> status[r] = "absent"
      BY <1>2, WorkerFrame DEF ScanStatus
    <3>3. ASSUME NEW r \in Requests, phase[r] # "done" PROVE status'[r] = status[r]
      BY <1>2, <3>3, WorkerFrame
    <3>4. ASSUME NEW r \in Requests, phase[r] # "done" PROVE attempts'[r] = attempts[r]
      BY <1>2, <3>4, WorkerFrame
    <3>5. ASSUME NEW r \in Requests, phase[r] # "done" PROVE comments'[r] = comments[r]
      BY <1>2, <3>5, WorkerFrame
    <3>. QED BY <3>1, <3>2, <3>3, <3>4, <3>5
  <2>2. /\ \A m \in queue' : phase[m.scan] = "done" /\ status[m.scan] # "absent"
        /\ \A v \in Workers : job'[v] # NoJob =>
             phase[job'[v].scan] = "done" /\ status[job'[v].scan] # "absent"
    <3>1. CASE UNCHANGED queue /\ (UNCHANGED job \/ job' = [job EXCEPT ![w] = NoJob])
      BY <3>1
    <3>2. ASSUME NEW m \in queue, queue' = queue \ {m}, job' = [job EXCEPT ![w] = m]
          PROVE  <2>2!1 /\ <2>2!2
      BY <3>2
    <3>3. CASE /\ job[w] # NoJob /\ MayRetry(job[w])
               /\ queue' = queue \cup {Retried(job[w])}
               /\ job' = [job EXCEPT ![w] = NoJob]
      <4>1. job[w] \in Jobs /\ Retried(job[w]).scan = job[w].scan
        BY <3>3, RetriedJob
      <4>. QED BY <3>3, <4>1
    <3>. QED BY <1>2, <3>1, <3>2, <3>3, WorkerFrame
  <2>4. queue' \subseteq Jobs /\ job' \in [Workers -> Jobs \cup {NoJob}]
    BY <1>2, WorkerKeepsTypes
  <2>. QED BY <2>1, <2>2, <2>4
<1>3. ASSUME NEW r \in Requests,
             \/ IgnoreWebhook(r) \/ SubmitManualScan(r) \/ HandlerStep(r) \/ HandlerDies(r)
             \/ \E p \in Procs : ReceiveWebhook(r, p)
      PROVE  Presence'
  BY <1>3, HandlerFrame DEF TypeOK, Presence, githubVars, workerVars, Jobs, Phases
<1>. QED BY <1>1, <1>2, <1>3 DEF Next

LEMMA PresenceHolds == Spec => [](TypeOK /\ Presence)
<1>1. TypeOK /\ Presence /\ [Next]_vars => Presence'
  BY PresenceStep
<1>. QED BY <1>1, PresenceInit, TypeCorrect, PTL DEF Spec

\* The unique index keeps one row per idempotency key, with any number of API
\* processes: the row that loses a race is never inserted.
THEOREM OneScanPerKeyHolds == Spec => []OneScanPerKey
<1>1. Init => OneScanPerKey
  BY DEF Init, OneScanPerKey, Webhooks
<1>2. TypeOK /\ Presence /\ OneScanPerKey /\ [Next]_vars => OneScanPerKey'
  <2> SUFFICES ASSUME TypeOK, Presence, OneScanPerKey, [Next]_vars
               PROVE  OneScanPerKey'
    OBVIOUS
  <2> USE DEF TypeOK, OneScanPerKey, Webhooks
  <2>1. CASE UNCHANGED vars
    BY <2>1 DEF vars, dbVars
  <2>2. ASSUME NEW w \in Workers, WorkerStep(w) \/ WorkerDies(w)
        PROVE  OneScanPerKey'
    BY <2>2, WorkerFrame DEF Presence, Jobs
  <2>3. ASSUME NEW r \in Requests,
               \/ IgnoreWebhook(r) \/ SubmitManualScan(r) \/ HandlerStep(r) \/ HandlerDies(r)
               \/ \E p \in Procs : ReceiveWebhook(r, p)
        PROVE  OneScanPerKey'
    BY <2>3, HandlerFrame DEF KeyTaken
  <2>. QED BY <2>1, <2>2, <2>3 DEF Next
<1>. QED BY <1>1, <1>2, PresenceHolds, PTL DEF Spec

\* Retrying moves a message and never copies it, so that no two workers execute the
\* same publication at once.
THEOREM OneCarrierHolds == Spec => []OneCarrier
<1>1. Init => OneCarrier
  BY DEF Init, OneCarrier
<1>2. TypeOK /\ Presence /\ OneCarrier /\ [Next]_vars => OneCarrier'
  <2> SUFFICES ASSUME TypeOK, Presence, OneCarrier, [Next]_vars
               PROVE  OneCarrier'
    OBVIOUS
  <2> USE DEF TypeOK, OneCarrier, SamePublication
  <2>1. CASE UNCHANGED vars
    BY <2>1 DEF vars, brokerVars, workerVars
  <2>2. ASSUME NEW w \in Workers, WorkerStep(w) \/ WorkerDies(w)
        PROVE  OneCarrier'
    <3>1. CASE UNCHANGED queue /\ (UNCHANGED job \/ job' = [job EXCEPT ![w] = NoJob])
      BY <3>1
    <3>2. ASSUME NEW m \in queue, queue' = queue \ {m}, job[w] = NoJob,
                 job' = [job EXCEPT ![w] = m]
          PROVE  OneCarrier'
      BY <3>2
    <3>3. CASE /\ job[w] # NoJob /\ MayRetry(job[w])
               /\ queue' = queue \cup {Retried(job[w])}
               /\ job' = [job EXCEPT ![w] = NoJob]
      <4>1. job[w] \in Jobs
        BY <3>3
      <4>2. /\ Retried(job[w]).scan = job[w].scan
            /\ Retried(job[w]).copy = job[w].copy
        BY <3>3, <4>1, RetriedJob
      <4>. QED BY <3>3, <4>2
    <3>4. \/ UNCHANGED queue /\ (UNCHANGED job \/ job' = [job EXCEPT ![w] = NoJob])
          \/ \E m \in queue : queue' = queue \ {m} /\ job[w] = NoJob
                             /\ job' = [job EXCEPT ![w] = m]
          \/ /\ job[w] # NoJob /\ MayRetry(job[w])
             /\ queue' = queue \cup {Retried(job[w])}
             /\ job' = [job EXCEPT ![w] = NoJob]
      BY <2>2, WorkerFrame
    <3>. QED BY <3>1, <3>2, <3>3, <3>4
  <2>3. ASSUME NEW r \in Requests,
               \/ IgnoreWebhook(r) \/ SubmitManualScan(r) \/ HandlerStep(r) \/ HandlerDies(r)
               \/ \E p \in Procs : ReceiveWebhook(r, p)
        PROVE  OneCarrier'
    <3>1. UNCHANGED job
      BY <2>3, HandlerFrame DEF workerVars
    <3>2. CASE UNCHANGED queue
      BY <3>1, <3>2
    <3>3. ASSUME NEW cs \in SUBSET Copies, phase[r] = "enqueue",
                 queue' = queue \cup {[scan |-> r, copy |-> c, try |-> 0] : c \in cs}
          PROVE  OneCarrier'
      <4>1. /\ \A m \in queue : m.scan # r
            /\ \A v \in Workers : job[v] # NoJob => job[v].scan # r
        BY <3>3 DEF Presence
      <4>. QED BY <3>1, <3>3, <4>1
    <3>. QED BY <2>3, <3>2, <3>3, HandlerFrame
  <2>. QED BY <2>1, <2>2, <2>3 DEF Next
<1>. QED BY <1>1, <1>2, PresenceHolds, PTL DEF Spec

\* A worker that will write the status of its row before it lets go of it: the value
\* to be written differs from the one that its session loaded.
Attending(w) ==
  /\ job[w] # NoJob /\ pc[w] # "bury"
  /\ pc[w] \in {"report", "comment", "commit"} => seenStatus[w] # "completed"
  /\ pc[w] \in {"failCheck", "failCommit"} => seenStatus[w] # "failed"

Attended(r) ==
  \/ phase[r] = "enqueue" \/ r \in lost
  \/ \E m \in queue : m.scan = r
  \/ \E w \in Workers : Attending(w) /\ job[w].scan = r

NoneForgotten == \A r \in Requests : status[r] \in {"queued", "running"} => Attended(r)

\* What the moving worker leaves alone.
LEMMA OthersAttend ==
  ASSUME TypeOK, NEW w \in Workers, job[w] # NoJob, RunStep(w) \/ GiveUpStep(w) \/ WorkerDies(w)
  PROVE  /\ UNCHANGED phase /\ queue \subseteq queue' /\ lost \subseteq lost'
         /\ \A r \in Requests : r # job[w].scan => status'[r] = status[r]
         /\ \A v \in Workers : v # w => /\ job'[v] = job[v]
                                        /\ Attending(v) => Attending(v)'
<1> USE DEF TypeOK, apiVars, dbVars, githubVars, brokerVars, historyVars, Row, Free, At, Attending,
            LoadRow, ExpireRow
<1>1. CASE RunStep(w)
  BY <1>1 DEF RunStep, LoadScan, UpdateCheckRun, CreateCheckRun, SaveCheckRun, MarkRunning,
         ScanFiles, CompleteCheckRun, PostComment, CommitCompleted, StepRaises, WriteStatus, Answered
<1>2. CASE GiveUpStep(w)
  BY <1>2 DEF GiveUpStep, Retry, GiveUp, FailCheckRun, CommitFailed, Bury, WriteStatus
<1>3. CASE WorkerDies(w)
  BY <1>3 DEF WorkerDies
<1>. QED BY <1>1, <1>2, <1>3

\* What becomes of the row of the worker that moves, when it is unfinished after the step.
LEMMA MoverAttends ==
  ASSUME TypeOK, NEW w \in Workers, job[w] # NoJob, RunStep(w) \/ GiveUpStep(w) \/ WorkerDies(w),
         status'[job[w].scan] \in {"queued", "running"}
  PROVE  \/ job'[w] = job[w] /\ Attending(w)'
         \/ \E m \in queue' : m.scan = job[w].scan
         \/ job[w].scan \in lost'
         \/ status'[job[w].scan] = status[job[w].scan] /\ ~Attending(w)
<1> USE DEF TypeOK, dbVars, brokerVars, historyVars, Row, Free, At, Attending,
            LoadRow, ExpireRow, WriteStatus
<1>0. job[w].scan \in Requests
  BY DEF Jobs
<1>1. CASE LoadScan(w) \/ ScanFiles(w) \/ StepRaises(w)
  BY <1>0, <1>1 DEF LoadScan, ScanFiles, StepRaises, TryPcs
<1>2. CASE UpdateCheckRun(w) \/ CreateCheckRun(w) \/ CompleteCheckRun(w) \/ PostComment(w)
  BY <1>0, <1>2 DEF UpdateCheckRun, CreateCheckRun, CompleteCheckRun, PostComment, Answered
<1>3. CASE SaveCheckRun(w) \/ MarkRunning(w)
  BY <1>0, <1>3 DEF SaveCheckRun, MarkRunning
<1>4. CASE CommitCompleted(w)
  BY <1>0, <1>4 DEF CommitCompleted
<1>5. CASE Retry(w)
  <2>1. Retried(job[w]).scan = job[w].scan
    BY <1>5, RetriedJob DEF Retry
  <2>. QED BY <1>5, <2>1 DEF Retry
<1>6. CASE GiveUp(w) \/ FailCheckRun(w)
  BY <1>0, <1>6 DEF GiveUp, FailCheckRun
<1>7. CASE CommitFailed(w) \/ Bury(w)
  BY <1>0, <1>7 DEF CommitFailed, Bury
<1>8. CASE WorkerDies(w)
  BY <1>8 DEF WorkerDies
<1>. QED BY <1>1, <1>2, <1>3, <1>4, <1>5, <1>6, <1>7, <1>8 DEF RunStep, GiveUpStep

LEMMA NoneForgottenStep ==
  ASSUME TypeOK, NoneForgotten, [Next]_vars
  PROVE  NoneForgotten'
<1>1. CASE UNCHANGED vars
  BY <1>1 DEF NoneForgotten, Attended, Attending, vars, apiVars, dbVars, brokerVars, workerVars,
         historyVars
<1>2. ASSUME NEW w \in Workers, Take(w)
      PROVE  NoneForgotten'
  <2>1. /\ job[w] = NoJob
        /\ \A v \in Workers : v # w /\ Attending(v) => Attending(v)' /\ job'[v] = job[v]
    BY <1>2 DEF Take, TypeOK, Attending, At
  <2>2. PICK m \in queue : queue' = queue \ {m} /\ job' = [job EXCEPT ![w] = m]
    BY <1>2 DEF Take
  <2>3. Attending(w)' /\ job'[w] = m
    BY <1>2, <2>2, ScanAssumption DEF Take, TypeOK, Attending, At
  <2>4. UNCHANGED <<phase, lost, status>>
    BY <1>2 DEF Take, apiVars, dbVars
  <2>. QED BY <2>1, <2>2, <2>3, <2>4 DEF NoneForgotten, Attended, Attending
<1>3. ASSUME NEW w \in Workers, RunStep(w) \/ GiveUpStep(w) \/ WorkerDies(w)
      PROVE  NoneForgotten'
  <2>1. job[w] # NoJob
    BY <1>3 DEF TypeOK, RunStep, LoadScan, UpdateCheckRun, CreateCheckRun, SaveCheckRun,
         MarkRunning, ScanFiles, CompleteCheckRun, PostComment, CommitCompleted, StepRaises,
         GiveUpStep, Retry, GiveUp, FailCheckRun, CommitFailed, Bury, WorkerDies, TryPcs
  <2>2. ASSUME NEW r \in Requests, r # job[w].scan, status'[r] \in {"queued", "running"}
        PROVE  Attended(r)'
    <3>1. Attended(r)
      BY <1>3, <2>1, <2>2, OthersAttend DEF NoneForgotten
    <3>. QED BY <1>3, <2>1, <2>2, <3>1, OthersAttend DEF Attended
  <2>3. ASSUME NEW r \in Requests, r = job[w].scan, status'[r] \in {"queued", "running"}
        PROVE  Attended(r)'
    <3>1. CASE job'[w] = job[w] /\ Attending(w)'
      BY <2>3, <3>1 DEF Attended
    <3>2. CASE status'[r] = status[r] /\ ~Attending(w)
      <4>1. Attended(r) /\ UNCHANGED phase
        BY <1>3, <2>1, <2>3, <3>2, OthersAttend DEF NoneForgotten
      <4>. QED BY <1>3, <2>1, <3>2, <4>1, OthersAttend DEF Attended
    <3>3. CASE (\E m \in queue' : m.scan = r) \/ r \in lost'
      BY <3>3 DEF Attended
    <3>. QED BY <1>3, <2>1, <2>3, <3>1, <3>2, <3>3, MoverAttends
  <2>. QED BY <2>2, <2>3 DEF NoneForgotten
<1>4. ASSUME NEW r \in Requests,
             \/ IgnoreWebhook(r) \/ SubmitManualScan(r) \/ HandlerStep(r) \/ HandlerDies(r)
             \/ \E p \in Procs : ReceiveWebhook(r, p)
      PROVE  NoneForgotten'
  <2>1. /\ queue \subseteq queue' /\ lost \subseteq lost'
        /\ \A w \in Workers : job'[w] = job[w] /\ (Attending(w) <=> Attending(w)')
        /\ \A s \in Requests : s # r => status'[s] = status[s] /\ phase'[s] = phase[s]
        /\ \/ phase'[r] = "enqueue" \/ r \in lost' \/ \E m \in queue' : m.scan = r
           \/ status'[r] = status[r] /\ phase[r] # "enqueue"
    <3> USE DEF TypeOK, Attending, dbVars, brokerVars, workerVars, historyVars, Answer, GoTo
    <3>1. CASE IgnoreWebhook(r) \/ SubmitManualScan(r)
      BY <3>1 DEF IgnoreWebhook, SubmitManualScan
    <3>2. CASE LookupScan(r) \/ InsertScan(r)
      BY <3>2 DEF LookupScan, InsertScan
    <3>3. CASE Enqueue(r)
      <4>1. PICK cs \in (SUBSET Copies) \ {{}} :
              queue' = queue \cup {[scan |-> r, copy |-> c, try |-> 0] : c \in cs}
        BY <3>3 DEF Enqueue
      <4>2. PICK c \in cs : TRUE
        BY <4>1
      <4>3. [scan |-> r, copy |-> c, try |-> 0] \in queue'
        BY <4>1, <4>2
      <4>4. UNCHANGED <<status, lost, job, pc, seenStatus>> /\ phase' = [phase EXCEPT ![r] = "done"]
        BY <3>3 DEF Enqueue
      <4>. QED BY <4>1, <4>3, <4>4
    <3>4. CASE HandlerDies(r)
      BY <3>4 DEF HandlerDies
    <3>5. ASSUME NEW p \in Procs, ReceiveWebhook(r, p) PROVE <2>1
      BY <3>5 DEF ReceiveWebhook
    <3>. QED BY <1>4, <3>1, <3>2, <3>3, <3>4, <3>5 DEF HandlerStep
  <2>2. ASSUME NEW s \in Requests, status'[s] \in {"queued", "running"}
        PROVE  Attended(s)'
    <3>1. CASE s # r
      BY <2>1, <2>2, <3>1 DEF NoneForgotten, Attended
    <3>2. CASE s = r
      BY <2>1, <2>2, <3>2 DEF NoneForgotten, Attended
    <3>. QED BY <3>1, <3>2
  <2>. QED BY <2>2 DEF NoneForgotten
<1>. QED BY <1>1, <1>2, <1>3, <1>4 DEF Next, WorkerStep

\* No retry, duplicate publication or give-up forgets a row: an unfinished one has a
\* handler, a message or a worker, unless a crash or an outage hit it.
THEOREM NoSilentLossHolds == Spec => []NoSilentLoss
<1>1. Init => NoneForgotten
  BY DEF Init, NoneForgotten
<1>2. TypeOK /\ NoneForgotten /\ [Next]_vars => NoneForgotten'
  BY NoneForgottenStep
<1>3. TypeOK /\ NoneForgotten => NoSilentLoss
  BY DEF NoneForgotten, NoSilentLoss, Attended, Attending, Carried
<1>. QED BY <1>1, <1>2, <1>3, TypeCorrect, PTL DEF Spec

-----------------------------------------------------------------------------
(* One API process, as docker-compose.prod.yml starts it. *)

SingleProcess == \E p \in Procs : Procs = {p}

\* A webhook between its first query and its answer has the event loop, and what its
\* duplicate lookup found (nothing) still holds when it inserts.
LoopHeld ==
  \A r \in Webhooks :
     /\ phase[r] \in {"lookup", "insert", "enqueue"} => \E p \in Procs : serving[p] = r
     /\ phase[r] = "insert" => DuplicateScans(r) = {}

\* With one API process a head SHA has one webhook scan whatever events and
\* redeliveries announce it; the unique index alone would not give this.
THEOREM OneScanPerHeadHolds == SingleProcess => (Spec => []OneScanPerHead)
<1> SUFFICES ASSUME SingleProcess PROVE Spec => []OneScanPerHead
  OBVIOUS
<1> DEFINE Inv == LoopHeld /\ OneScanPerHead
<1>1. Init => Inv
  BY DEF Init, LoopHeld, OneScanPerHead, Webhooks
<1>2. TypeOK /\ Presence /\ Inv /\ [Next]_vars => Inv'
  <2> SUFFICES ASSUME TypeOK, Presence, Inv, [Next]_vars PROVE Inv'
    OBVIOUS
  <2> USE DEF TypeOK, LoopHeld, OneScanPerHead, Webhooks, DuplicateScans
  <2>1. CASE UNCHANGED vars
    BY <2>1 DEF vars, dbVars, apiVars
  <2>2. ASSUME NEW w \in Workers, WorkerStep(w) \/ WorkerDies(w)
        PROVE  Inv'
    <3>1. UNCHANGED <<phase, serving>>
      BY <2>2, WorkerFrame DEF apiVars
    <3>2. \A r \in Requests : status'[r] = "absent" <=> status[r] = "absent"
      BY <2>2, WorkerFrame DEF Presence, ScanStatus, Jobs
    <3>. QED BY <3>1, <3>2
  <2>3. ASSUME NEW r \in Requests,
               IgnoreWebhook(r) \/ SubmitManualScan(r) \/ Enqueue(r) \/ HandlerDies(r)
        PROVE  Inv'
    <3>1. \A s \in Webhooks : status'[s] = status[s]
      BY <2>3 DEF IgnoreWebhook, SubmitManualScan, Enqueue, HandlerDies, dbVars
    <3>2. CASE r \in Webhooks
      <4>1. \E a \in Replies : Answer(r, a)
        BY <2>3, <3>2 DEF IgnoreWebhook, SubmitManualScan, Enqueue, HandlerDies, Replies
      <4>. QED BY <3>1, <4>1 DEF Answer
    <3>3. CASE r \notin Webhooks
      <4>1. \A s \in Webhooks : phase'[s] = phase[s]
        BY <2>3, <3>3 DEF IgnoreWebhook, SubmitManualScan, Enqueue, HandlerDies, Answer, GoTo
      <4>2. \A s \in Webhooks, p \in Procs : serving[p] = s => serving'[p] = s
        BY <2>3, <3>3 DEF IgnoreWebhook, SubmitManualScan, Enqueue, HandlerDies, Answer, GoTo
      <4>. QED BY <3>1, <4>1, <4>2
    <3>. QED BY <3>2, <3>3
  <2>4. ASSUME NEW r \in Requests, NEW p \in Procs, ReceiveWebhook(r, p)
        PROVE  Inv'
    <3>1. /\ serving[p] = NoRequest /\ serving' = [serving EXCEPT ![p] = r]
          /\ phase' = [phase EXCEPT ![r] = "lookup"] /\ UNCHANGED status /\ r \in Webhooks
      BY <2>4 DEF ReceiveWebhook, dbVars
    <3>2. serving'[p] = r /\ \A q \in Procs : q # p => serving'[q] = serving[q]
      BY <3>1
    <3>3. \A s \in Webhooks : (\E q \in Procs : serving[q] = s) => \E q \in Procs : serving'[q] = s
      BY <3>1, <3>2, ScanAssumption
    <3>4. \A s \in Webhooks : s # r => phase'[s] = phase[s]
      BY <3>1
    <3>. QED BY <3>1, <3>2, <3>3, <3>4
  <2>5. ASSUME NEW r \in Requests, LookupScan(r)
        PROVE  Inv'
    <3>1. CASE DuplicateScans(r) # {}
      <4>1. Answer(r, "duplicate") /\ UNCHANGED status
        BY <2>5, <3>1, Zenon DEF LookupScan, dbVars
      <4>. QED BY <4>1 DEF Answer
    <3>2. CASE DuplicateScans(r) = {}
      <4>1. GoTo(r, "insert") /\ UNCHANGED status
        BY <2>5, <3>2, Zenon DEF LookupScan, dbVars
      <4>. QED BY <2>5, <3>2, <4>1 DEF LookupScan, GoTo
    <3>. QED BY <3>1, <3>2
  <2>6. ASSUME NEW r \in Requests, InsertScan(r)
        PROVE  Inv'
    <3>1. CASE UNCHANGED status /\ \E a \in Replies : Answer(r, a)
      BY <3>1 DEF Answer
    <3>2. CASE GoTo(r, "enqueue") /\ status' = [status EXCEPT ![r] = "queued"]
      <4>1. r \in Webhooks => DuplicateScans(r) = {}
        BY <2>6 DEF InsertScan
      <4>2. r \in Webhooks => \A s \in Webhooks : s # r => phase[s] # "insert"
        BY <2>6 DEF InsertScan, SingleProcess
      <4>3. UNCHANGED serving /\ phase' = [phase EXCEPT ![r] = "enqueue"]
        BY <3>2 DEF GoTo
      <4>. QED BY <2>6, <3>2, <4>1, <4>2, <4>3 DEF InsertScan
    <3>. QED BY <2>6, <3>1, <3>2 DEF InsertScan, Replies
  <2>. QED BY <2>1, <2>2, <2>3, <2>4, <2>5, <2>6 DEF Next, HandlerStep
<1>3. Inv => OneScanPerHead
  OBVIOUS
<1>. QED BY <1>1, <1>2, <1>3, PresenceHolds, PTL DEF Spec

-----------------------------------------------------------------------------
(* A broker that publishes every message once: the contract is kept. *)

SinglePublish == \E c \in Copies : Copies = {c}

\* Where the session's copy of the row is the row, given that nobody else runs it.
FreshPcs == {"check", "saveCheck", "start", "report", "comment", "commit",
             "failCheck", "failCommit"}

\* How far an execution has come, told by its worker, agrees with the row, the pull
\* request and the number of attempts.
Execution(w) ==
  LET r == job[w].scan IN
  /\ attempts[r] = job[w].try + 1
  /\ pc[w] # "bury" => status[r] \in {"queued", "running"}
  /\ pc[w] = "bury" => status[r] = "failed"
  /\ pc[w] \in {"scan", "report", "comment", "commit"} => status[r] = "running"
  /\ pc[w] \in FreshPcs => seenStatus[w] = status[r]
  /\ pc[w] \in TryPcs \ {"commit"} => comments[r] < attempts[r]
  /\ pc[w] = "commit" => comments[r] > 0
  /\ pc[w] \in GiveUpPcs => job[w].try = MaxRetries

Waiting(m) == status[m.scan] \in {"queued", "running"} /\ attempts[m.scan] = m.try

Progress ==
  /\ \A r \in Requests : comments[r] <= attempts[r]
  /\ \A m \in queue : Waiting(m)
  /\ \A w \in Workers : job[w] # NoJob => Execution(w)

LEMMA ProgressInit == Init => Progress
  BY DEF Init, Progress

\* With one publication, a row has one carrier.
LEMMA SoleCarrier ==
  ASSUME SinglePublish, TypeOK, OneCarrier
  PROVE  /\ \A m, n \in queue : m.scan = n.scan => m = n
         /\ \A v, w \in Workers :
              job[v] # NoJob /\ job[w] # NoJob /\ job[v].scan = job[w].scan => v = w
         /\ \A m \in queue, w \in Workers : job[w] # NoJob => m.scan # job[w].scan
  BY DEF SinglePublish, TypeOK, OneCarrier, SamePublication, Jobs

\* A step of a busy worker touches its own state and its own row only.
LEMMA WorkerLocal ==
  ASSUME TypeOK, NEW w \in Workers, RunStep(w) \/ GiveUpStep(w) \/ WorkerDies(w)
  PROVE  /\ job[w] \in Jobs /\ job[w] # NoJob /\ pc[w] # "idle"
         /\ \A v \in Workers : v # w =>
              /\ job'[v] = job[v] /\ pc'[v] = pc[v]
              /\ seenStatus'[v] = seenStatus[v] /\ seenCheck'[v] = seenCheck[v]
         /\ \A s \in Requests : s # job[w].scan =>
              status'[s] = status[s] /\ comments'[s] = comments[s] /\ check'[s] = check[s]
         /\ attempts' = attempts
<1> USE DEF TypeOK, apiVars, dbVars, githubVars, brokerVars, workerVars, historyVars,
            Row, At, Free, LoadRow, ExpireRow, WriteStatus, Answered, TryPcs
<1>1. CASE RunStep(w)
  <2>1. job[w] \in Jobs /\ job[w] # NoJob /\ pc[w] # "idle"
    BY <1>1 DEF RunStep, LoadScan, UpdateCheckRun, CreateCheckRun, SaveCheckRun,
         MarkRunning, ScanFiles, CompleteCheckRun, PostComment, CommitCompleted, StepRaises
  <2>2. CASE LoadScan(w) \/ ScanFiles(w) \/ StepRaises(w)
    BY <2>1, <2>2 DEF LoadScan, ScanFiles, StepRaises
  <2>3. CASE UpdateCheckRun(w) \/ CreateCheckRun(w) \/ CompleteCheckRun(w)
    BY <2>1, <2>3 DEF UpdateCheckRun, CreateCheckRun, CompleteCheckRun
  <2>4. CASE SaveCheckRun(w) \/ MarkRunning(w) \/ CommitCompleted(w)
    BY <2>1, <2>4 DEF SaveCheckRun, MarkRunning, CommitCompleted
  <2>5. CASE PostComment(w)
    BY <2>1, <2>5 DEF PostComment
  <2>. QED BY <1>1, <2>2, <2>3, <2>4, <2>5 DEF RunStep
<1>2. CASE GiveUpStep(w)
  BY <1>2 DEF GiveUpStep, Retry, GiveUp, FailCheckRun, CommitFailed, Bury
<1>3. CASE WorkerDies(w)
  BY <1>3 DEF WorkerDies
<1>. QED BY <1>1, <1>2, <1>3

\* The worker that moves keeps its own part of the invariant.
LEMMA ExecutionStep ==
  ASSUME TypeOK, NEW w \in Workers, job[w] # NoJob, Execution(w), RunStep(w) \/ GiveUpStep(w)
  PROVE  job'[w] = NoJob \/ (job'[w] = job[w] /\ Execution(w)')
<1> USE DEF TypeOK, apiVars, dbVars, githubVars, brokerVars, workerVars, historyVars,
            Execution, Row, At, LoadRow, ExpireRow, WriteStatus, FreshPcs, TryPcs, GiveUpPcs
<1>0. job[w] \in Jobs /\ job[w].scan \in Requests /\ job[w].try \in 0..MaxRetries
  BY DEF Jobs
<1>1. CASE LoadScan(w)
  BY <1>0, <1>1 DEF LoadScan
<1>2. CASE UpdateCheckRun(w)
  BY <1>0, <1>2 DEF UpdateCheckRun, Answered
<1>3. CASE CreateCheckRun(w)
  BY <1>0, <1>3 DEF CreateCheckRun, Answered
<1>4. CASE SaveCheckRun(w)
  BY <1>0, <1>4 DEF SaveCheckRun
<1>5. CASE MarkRunning(w)
  BY <1>0, <1>5 DEF MarkRunning
<1>6. CASE ScanFiles(w)
  BY <1>0, <1>6 DEF ScanFiles
<1>7. CASE CompleteCheckRun(w)
  BY <1>0, <1>7 DEF CompleteCheckRun, Answered
<1>8. CASE PostComment(w)
  BY <1>0, <1>8 DEF PostComment, Answered
<1>9. CASE CommitCompleted(w) \/ Retry(w) \/ Bury(w)
  BY <1>9 DEF CommitCompleted, Retry, Bury, Free
<1>10. CASE StepRaises(w)
  BY <1>0, <1>10 DEF StepRaises
<1>11. CASE GiveUp(w)
  BY <1>0, <1>11, ScanAssumption DEF GiveUp, MayRetry
<1>12. CASE FailCheckRun(w)
  BY <1>0, <1>12 DEF FailCheckRun
<1>13. CASE CommitFailed(w)
  BY <1>0, <1>13 DEF CommitFailed
<1>. QED BY <1>1, <1>2, <1>3, <1>4, <1>5, <1>6, <1>7, <1>8, <1>9, <1>10, <1>11, <1>12, <1>13
         DEF RunStep, GiveUpStep

LEMMA ProgressStep ==
  ASSUME SinglePublish, TypeOK, Presence, OneCarrier, Progress, [Next]_vars
  PROVE  Progress'
<1> USE DEF TypeOK, Progress
<1>1. CASE UNCHANGED vars
  BY <1>1 DEF Execution, Waiting, vars, apiVars, dbVars, githubVars, brokerVars, workerVars,
              historyVars
<1>2. ASSUME NEW w \in Workers, RunStep(w) \/ GiveUpStep(w) \/ WorkerDies(w)
      PROVE  Progress'
  <2>1. \A v \in Workers : v # w /\ job'[v] # NoJob => Execution(v)'
    BY <1>2, WorkerLocal, SoleCarrier DEF Execution, Jobs
  <2>2. job'[w] # NoJob => Execution(w)'
    <3>1. CASE WorkerDies(w)
      BY <3>1 DEF WorkerDies, Free
    <3>. QED BY <1>2, <3>1, ExecutionStep, WorkerLocal
  <2>3. \A m \in queue' : Waiting(m)'
    <3>1. \A m \in queue : Waiting(m)'
      BY <1>2, WorkerLocal, SoleCarrier DEF Waiting, Jobs
    <3>2. CASE Retry(w)
      <4>1. /\ queue' = queue \cup {Retried(job[w])} /\ MayRetry(job[w])
            /\ UNCHANGED <<status, attempts>> /\ job[w] \in Jobs /\ pc[w] = "raised"
            /\ Execution(w)
        BY <1>2, <3>2, WorkerLocal DEF Retry, dbVars, historyVars
      <4>2. PICK n : n = Retried(job[w])
        OBVIOUS
      <4>3. Waiting(n)'
        BY <4>1, <4>2, RetriedJob DEF Waiting, Execution
      <4>. QED BY <3>1, <4>1, <4>2, <4>3
    <3>3. CASE ~Retry(w)
      <4>1. queue' = queue
        BY <1>2, <3>3 DEF RunStep, LoadScan, UpdateCheckRun, CreateCheckRun, SaveCheckRun,
           MarkRunning, ScanFiles, CompleteCheckRun, PostComment, CommitCompleted, StepRaises,
           GiveUpStep, GiveUp, FailCheckRun, CommitFailed, Bury, WorkerDies, brokerVars
      <4>. QED BY <3>1, <4>1
    <3>. QED BY <3>2, <3>3
  <2>4. \A r \in Requests : comments'[r] <= attempts'[r]
    <3>1. UNCHANGED comments \/ PostComment(w)
      BY <1>2 DEF RunStep, LoadScan, UpdateCheckRun, CreateCheckRun, SaveCheckRun,
         MarkRunning, ScanFiles, CompleteCheckRun, CommitCompleted, StepRaises, githubVars,
         GiveUpStep, GiveUp, Retry, FailCheckRun, CommitFailed, Bury, WorkerDies
    <3>2. CASE PostComment(w)
      BY <1>2, <3>2, WorkerLocal DEF PostComment, Execution, Row, TryPcs, Jobs, historyVars
    <3>. QED BY <1>2, <3>1, <3>2, WorkerLocal
  <2>. QED BY <2>1, <2>2, <2>3, <2>4
<1>3. ASSUME NEW w \in Workers, Take(w)
      PROVE  Progress'
  <2>1. PICK m \in queue : /\ queue' = queue \ {m} /\ job' = [job EXCEPT ![w] = m]
                           /\ attempts' = [attempts EXCEPT ![m.scan] = @ + 1]
    BY <1>3 DEF Take
  <2>2. m \in Jobs /\ m # NoJob /\ m.scan \in Requests
    BY <2>1, ScanAssumption DEF Jobs
  <2>3. /\ pc' = [pc EXCEPT ![w] = "load"] /\ UNCHANGED <<status, comments, seenStatus>>
        /\ pc[w] = "idle"
    BY <1>3 DEF Take, At, dbVars, githubVars
  <2>4. Execution(w)'
    BY <2>1, <2>2, <2>3 DEF Execution, Waiting, FreshPcs, TryPcs, GiveUpPcs
  <2>5. \A v \in Workers : v # w /\ job'[v] # NoJob => Execution(v)'
    BY <2>1, <2>2, <2>3, SoleCarrier DEF Execution, Jobs
  <2>6. \A n \in queue' : Waiting(n)'
    BY <2>1, <2>2, <2>3, SoleCarrier DEF Waiting, Jobs
  <2>7. \A r \in Requests : comments'[r] <= attempts'[r]
    BY <2>1, <2>2, <2>3
  <2>. QED BY <2>1, <2>4, <2>5, <2>6, <2>7
<1>4. ASSUME NEW r \in Requests,
             \/ IgnoreWebhook(r) \/ SubmitManualScan(r) \/ HandlerStep(r) \/ HandlerDies(r)
             \/ \E p \in Procs : ReceiveWebhook(r, p)
      PROVE  Progress'
  <2>1. /\ UNCHANGED <<comments, pc, job, seenStatus, attempts>> /\ phase[r] # "done"
        /\ \A s \in Requests : s # r => status'[s] = status[s]
    BY <1>4, HandlerFrame DEF githubVars, workerVars
  <2>2. \A w \in Workers : job[w] # NoJob => Execution(w)'
    BY <2>1 DEF Execution, Presence, Jobs
  <2>3. \A m \in queue : Waiting(m)'
    BY <2>1 DEF Waiting, Presence, Jobs
  <2>4. \A m \in queue' : Waiting(m)'
    <3>1. CASE UNCHANGED queue
      BY <2>3, <3>1
    <3>2. ASSUME NEW cs \in SUBSET Copies, phase[r] = "enqueue", UNCHANGED status,
                 queue' = queue \cup {[scan |-> r, copy |-> c, try |-> 0] : c \in cs}
          PROVE  \A m \in queue' : Waiting(m)'
      BY <2>1, <2>3, <3>2 DEF Waiting, Presence
    <3>. QED BY <1>4, <3>1, <3>2, HandlerFrame
  <2>. QED BY <2>1, <2>2, <2>4
<1>. QED BY <1>1, <1>2, <1>3, <1>4 DEF Next, WorkerStep

ExecutionInv == TypeOK /\ Presence /\ OneCarrier /\ Progress

LEMMA ExecutionInvHolds == SinglePublish => (Spec => []ExecutionInv)
<1> SUFFICES ASSUME SinglePublish PROVE Spec => []ExecutionInv
  OBVIOUS
<1>1. TypeOK /\ Presence /\ OneCarrier /\ Progress /\ [Next]_vars => Progress'
  BY ProgressStep
<1>. QED BY <1>1, ProgressInit, PresenceHolds, OneCarrierHolds, PTL DEF Spec, ExecutionInv

LEMMA ContractStep ==
  ASSUME ExecutionInv, [Next]_vars
  PROVE  [Contract!Next]_(Contract!vars)
<1> USE DEF ExecutionInv, TypeOK, Contract!vars
<1>1. CASE UNCHANGED vars
  BY <1>1 DEF vars, dbVars, githubVars, historyVars
<1>2. ASSUME NEW r \in Requests,
             \/ IgnoreWebhook(r) \/ SubmitManualScan(r) \/ HandlerStep(r) \/ HandlerDies(r)
             \/ \E p \in Procs : ReceiveWebhook(r, p)
      PROVE  UNCHANGED <<status, attempts, comments>> \/ Contract!Accept(r)
  BY <1>2, HandlerFrame DEF githubVars, Presence, Contract!Accept
<1>3. ASSUME NEW w \in Workers, Take(w)
      PROVE  \E r \in Requests : Contract!Begin(r)
  <2>1. PICK m \in queue : attempts' = [attempts EXCEPT ![m.scan] = @ + 1]
    BY <1>3 DEF Take
  <2>2. m \in Jobs /\ m.scan \in Requests /\ m.try \in 0..MaxRetries
    BY <2>1 DEF Jobs
  <2>3. UNCHANGED <<status, comments>> /\ Waiting(m)
    BY <1>3, <2>1 DEF Take, dbVars, githubVars, Progress
  <2>4. Contract!Begin(m.scan)
    BY <2>1, <2>2, <2>3, ScanAssumption DEF Contract!Begin, Waiting
  <2>. QED BY <2>2, <2>4
<1>4. ASSUME NEW w \in Workers, RunStep(w) \/ GiveUpStep(w) \/ WorkerDies(w)
      PROVE  UNCHANGED <<status, attempts, comments>> \/ Contract!Next
  <2>0. /\ job[w] \in Jobs /\ job[w].scan \in Requests /\ attempts' = attempts /\ Execution(w)
        /\ job[w].try \in Nat
    BY <1>4, WorkerLocal, ScanAssumption DEF Progress, Jobs
  <2>1. CASE MarkRunning(w)
    <3>1. UNCHANGED comments /\ (UNCHANGED status \/ Contract!Start(job[w].scan))
      BY <2>0, <2>1 DEF MarkRunning, WriteStatus, Row, githubVars, Execution, FreshPcs,
                        Contract!Start
    <3>. QED BY <2>0, <3>1 DEF Contract!Next
  <2>2. CASE PostComment(w)
    <3>1. Contract!Publish(job[w].scan)
      BY <2>0, <2>2 DEF PostComment, Row, dbVars, Execution, TryPcs, Contract!Publish
    <3>. QED BY <2>0, <3>1 DEF Contract!Next
  <2>3. CASE CommitCompleted(w)
    <3>1. Contract!Complete(job[w].scan)
      BY <2>0, <2>3 DEF CommitCompleted, WriteStatus, Row, githubVars, Execution, FreshPcs,
                        Contract!Complete
    <3>. QED BY <2>0, <3>1 DEF Contract!Next
  <2>4. CASE CommitFailed(w)
    <3>1. Contract!Fail(job[w].scan)
      BY <2>0, <2>4 DEF CommitFailed, WriteStatus, Row, githubVars, Execution, FreshPcs,
                        GiveUpPcs, Contract!Fail
    <3>. QED BY <2>0, <3>1 DEF Contract!Next
  <2>5. CASE UNCHANGED <<status, comments>>
    BY <2>0, <2>5
  <2>. QED BY <1>4, <2>1, <2>2, <2>3, <2>4, <2>5
       DEF RunStep, LoadScan, UpdateCheckRun, CreateCheckRun, SaveCheckRun, ScanFiles,
           CompleteCheckRun, StepRaises, GiveUpStep, Retry, GiveUp, FailCheckRun, Bury,
           WorkerDies, dbVars, githubVars
<1>. QED BY <1>1, <1>2, <1>3, <1>4 DEF Next, WorkerStep, Contract!Next

\* The pipeline implements its contract for every number of requests, processes,
\* workers, retries and faults, as long as a message is published once.
THEOREM ImplementsContract == SinglePublish => (Spec => ContractHolds)
<1> SUFFICES ASSUME SinglePublish PROVE Spec => ContractHolds
  OBVIOUS
<1>1. Init => Contract!Init
  BY DEF Init, Contract!Init
<1>2. ExecutionInv /\ [Next]_vars => [Contract!Next]_(Contract!vars)
  BY ContractStep
<1>. QED BY <1>1, <1>2, ExecutionInvHolds, PTL DEF Spec, ContractHolds, Contract!Spec

-----------------------------------------------------------------------------
(* What stands in Redis and on GitHub agrees with the row. *)

\* A row with a dead letter is failed, and nothing is left that could touch it.
Buried ==
  \A m \in dead : /\ m.try = MaxRetries /\ attempts[m.scan] = MaxRetries + 1
                  /\ status[m.scan] = "failed" /\ phase[m.scan] = "done"
                  /\ ~Carried(m.scan)

LEMMA BuriedStep ==
  ASSUME SinglePublish, ExecutionInv, Buried, [Next]_vars
  PROVE  Buried'
<1> USE DEF ExecutionInv, TypeOK, Buried, Carried
<1>1. CASE UNCHANGED vars
  BY <1>1 DEF vars, apiVars, dbVars, brokerVars, workerVars, historyVars
<1>2. ASSUME NEW r \in Requests,
             \/ IgnoreWebhook(r) \/ SubmitManualScan(r) \/ HandlerStep(r) \/ HandlerDies(r)
             \/ \E p \in Procs : ReceiveWebhook(r, p)
      PROVE  Buried'
  <2>1. /\ UNCHANGED <<dead, attempts, job>> /\ phase[r] # "done"
        /\ \A s \in Requests : s # r => status'[s] = status[s] /\ phase'[s] = phase[s]
        /\ \A m \in queue' : m \in queue \/ m.scan = r
    BY <1>2, HandlerFrame DEF workerVars
  <2>2. \A m \in dead : m.scan \in Requests /\ m.scan # r
    BY <2>1 DEF Jobs
  <2>. QED BY <2>1, <2>2
<1>3. ASSUME NEW w \in Workers, Take(w)
      PROVE  Buried'
  <2>1. PICK m \in queue : /\ queue' = queue \ {m} /\ job' = [job EXCEPT ![w] = m]
                           /\ attempts' = [attempts EXCEPT ![m.scan] = @ + 1]
    BY <1>3 DEF Take
  <2>2. UNCHANGED <<phase, status, dead>>
    BY <1>3 DEF Take, apiVars, dbVars
  <2>3. \A n \in dead : n.scan # m.scan
    BY <2>1
  <2>. QED BY <2>1, <2>2, <2>3 DEF Jobs
<1>4. ASSUME NEW w \in Workers, RunStep(w) \/ GiveUpStep(w) \/ WorkerDies(w)
      PROVE  Buried'
  <2>1. /\ job[w] \in Jobs /\ job[w] # NoJob /\ attempts' = attempts /\ Execution(w)
        /\ \A s \in Requests : s # job[w].scan => status'[s] = status[s]
    BY <1>4, WorkerLocal DEF Progress
  <2>2. \A n \in dead : n.scan \in Requests /\ n.scan # job[w].scan
    BY <2>1 DEF Jobs
  <2>3. /\ phase' = phase
        /\ \A m \in queue' : m \in queue \/ m.scan = job[w].scan
        /\ \A v \in Workers : job'[v] # NoJob => job[v] # NoJob /\ job'[v].scan = job[v].scan
    <3>1. phase' = phase
      BY <1>4, WorkerFrame DEF apiVars, WorkerStep
    <3>2. \A m \in queue' : m \in queue \/ m.scan = job[w].scan
      BY <1>4, <2>1, WorkerFrame, RetriedJob DEF WorkerStep
    <3>3. \A v \in Workers : job'[v] # NoJob => job'[v] = job[v]
      BY <1>4, <2>1, WorkerFrame DEF WorkerStep
    <3>. QED BY <3>1, <3>2, <3>3
  <2>4. \A n \in dead : n.try = MaxRetries /\ ~Carried(n.scan)' /\ status'[n.scan] = "failed"
    BY <2>1, <2>2, <2>3
  <2>5. CASE UNCHANGED dead
    BY <2>1, <2>2, <2>3, <2>4, <2>5
  <2>6. CASE Bury(w) /\ ~UNCHANGED dead
    <3>1. /\ dead' = dead \cup {job[w]} /\ pc[w] = "bury" /\ UNCHANGED <<status, queue>>
          /\ job' = [job EXCEPT ![w] = NoJob]
      BY <2>6 DEF Bury, Free, dbVars
    <3>2. /\ job[w].try = MaxRetries /\ attempts[job[w].scan] = MaxRetries + 1
          /\ status[job[w].scan] = "failed"
      BY <2>1, <3>1 DEF Execution, GiveUpPcs
    <3>3. phase[job[w].scan] = "done"
      BY <2>1 DEF Presence
    <3>4. PICK n : n = job[w]
      OBVIOUS
    <3>5. ~Carried(n.scan)'
      BY <2>1, <3>1, <3>4, SoleCarrier
    <3>. QED BY <2>1, <2>2, <2>3, <2>4, <3>1, <3>2, <3>3, <3>4, <3>5
  <2>. QED BY <1>4, <2>5, <2>6
       DEF RunStep, LoadScan, UpdateCheckRun, CreateCheckRun, SaveCheckRun, MarkRunning,
           ScanFiles, CompleteCheckRun, PostComment, CommitCompleted, StepRaises, GiveUpStep,
           Retry, GiveUp, FailCheckRun, CommitFailed, WorkerDies, brokerVars
<1>. QED BY <1>1, <1>2, <1>3, <1>4 DEF Next, WorkerStep

\* Whoever reads a dead letter can rely on it: the row behind it used up its attempts,
\* is failed and stays failed.
THEOREM DeadLetterIsFinalHolds == SinglePublish => (Spec => []DeadLetterIsFinal)
<1> SUFFICES ASSUME SinglePublish PROVE Spec => []DeadLetterIsFinal
  OBVIOUS
<1>1. Init => Buried
  BY DEF Init, Buried
<1>2. ExecutionInv /\ Buried /\ [Next]_vars => Buried'
  BY BuriedStep
<1>3. Buried => DeadLetterIsFinal
  BY DEF Buried, DeadLetterIsFinal
<1>. QED BY <1>1, <1>2, <1>3, ExecutionInvHolds, PTL DEF Spec

\* The check run that an execution reports to is the one in its row, and it is
\* concluded before the comment is posted.
ReportsTo(w) ==
  LET r == job[w].scan IN
  /\ seenCheck[w] # NoCheck => seenCheck[w] = check[r]
  /\ pc[w] \in {"start", "scan", "report", "comment", "commit"} => check[r] # NoCheck
  /\ pc[w] \in {"report", "comment", "commit"} => seenCheck[w] = check[r]
  /\ pc[w] \in {"comment", "commit"} => checkRuns[check[r]] = "completed"

OwnCheckRun == \A r \in Requests : check[r] # NoCheck => check[r].scan = r

Reporting ==
  /\ OwnCheckRun /\ CompletedIsPublished
  /\ \A w \in Workers : IF job[w] = NoJob THEN seenCheck[w] = NoCheck ELSE ReportsTo(w)

\* The moving worker reports to its row's check run.
LEMMA ReportsToStep ==
  ASSUME ExecutionInv, Reporting, NEW w \in Workers, job[w] # NoJob,
         RunStep(w) \/ GiveUpStep(w) \/ WorkerDies(w)
  PROVE  IF job'[w] = NoJob THEN seenCheck'[w] = NoCheck
         ELSE job'[w] = job[w] /\ ReportsTo(w)'
<1> USE DEF ExecutionInv, TypeOK, Reporting, ReportsTo, OwnCheckRun, apiVars, dbVars, githubVars,
            brokerVars, workerVars, historyVars, Row, At, Free, LoadRow, ExpireRow, Answered
<1>0. /\ job[w] \in Jobs /\ job[w].scan \in Requests /\ job[w] # NoCheck
  BY ScanAssumption DEF Jobs
<1>1. CASE LoadScan(w)
  BY <1>0, <1>1 DEF LoadScan
<1>2. CASE UpdateCheckRun(w)
  BY <1>0, <1>2 DEF UpdateCheckRun
<1>3. CASE CreateCheckRun(w)
  BY <1>0, <1>3 DEF CreateCheckRun
<1>4. CASE SaveCheckRun(w)
  BY <1>0, <1>4 DEF SaveCheckRun
<1>5. CASE MarkRunning(w)
  BY <1>0, <1>5 DEF MarkRunning
<1>6. CASE ScanFiles(w)
  BY <1>0, <1>6 DEF ScanFiles
<1>7. CASE CompleteCheckRun(w)
  BY <1>0, <1>7 DEF CompleteCheckRun
<1>8. CASE PostComment(w)
  BY <1>0, <1>8 DEF PostComment
<1>9. CASE CommitCompleted(w) \/ Retry(w) \/ Bury(w) \/ WorkerDies(w)
  BY <1>9 DEF CommitCompleted, Retry, Bury, WorkerDies
<1>10. CASE StepRaises(w)
  BY <1>0, <1>10 DEF StepRaises
<1>11. CASE GiveUp(w)
  BY <1>0, <1>11 DEF GiveUp
<1>12. CASE FailCheckRun(w)
  BY <1>0, <1>12 DEF FailCheckRun
<1>13. CASE CommitFailed(w)
  BY <1>0, <1>13 DEF CommitFailed
<1>. QED BY <1>1, <1>2, <1>3, <1>4, <1>5, <1>6, <1>7, <1>8, <1>9, <1>10, <1>11, <1>12, <1>13
         DEF RunStep, GiveUpStep

\* The check runs of other rows are left alone.
LEMMA CheckRunFrame ==
  ASSUME ExecutionInv, Reporting, NEW w \in Workers, job[w] # NoJob,
         RunStep(w) \/ GiveUpStep(w) \/ WorkerDies(w)
  PROVE  /\ \A c \in Jobs : c.scan # job[w].scan => checkRuns'[c] = checkRuns[c]
         /\ check' = check \/ check' = [check EXCEPT ![job[w].scan] = job[w]]
<1>. USE DEF dbVars, githubVars
<1>0. /\ checkRuns \in [Jobs -> CheckStates] /\ check \in [Requests -> Jobs \cup {NoCheck}]
      /\ job[w] \in Jobs /\ job[w].scan \in Requests /\ NoCheck \notin Jobs
      /\ seenCheck[w] \in Jobs \cup {NoCheck}
      /\ seenCheck[w] # NoCheck => seenCheck[w].scan = job[w].scan
  <2>1. /\ checkRuns \in [Jobs -> CheckStates] /\ check \in [Requests -> Jobs \cup {NoCheck}]
        /\ job[w] \in Jobs /\ seenCheck[w] \in Jobs \cup {NoCheck} /\ NoCheck \notin Jobs
    BY ScanAssumption DEF ExecutionInv, TypeOK
  <2>2. job[w].scan \in Requests
    BY <2>1 DEF Jobs
  <2>3. seenCheck[w] # NoCheck => seenCheck[w] = check[job[w].scan]
    BY DEF Reporting, ReportsTo
  <2>. QED BY <2>1, <2>2, <2>3 DEF Reporting, OwnCheckRun
<1>1. CASE UpdateCheckRun(w)
  BY <1>0, <1>1 DEF UpdateCheckRun
<1>2. CASE CreateCheckRun(w)
  BY <1>0, <1>2 DEF CreateCheckRun
<1>3. CASE SaveCheckRun(w)
  BY <1>0, <1>3 DEF SaveCheckRun, Row
<1>4. CASE CompleteCheckRun(w)
  BY <1>0, <1>4 DEF CompleteCheckRun
<1>5. CASE FailCheckRun(w)
  BY <1>0, <1>5 DEF FailCheckRun
<1>6. CASE \/ LoadScan(w) \/ MarkRunning(w) \/ ScanFiles(w) \/ PostComment(w)
           \/ CommitCompleted(w) \/ StepRaises(w) \/ Retry(w) \/ GiveUp(w)
           \/ CommitFailed(w) \/ Bury(w) \/ WorkerDies(w)
  <2>1. UNCHANGED <<check, checkRuns>>
    BY <1>6 DEF LoadScan, MarkRunning, ScanFiles, PostComment, CommitCompleted, StepRaises,
                Retry, GiveUp, CommitFailed, Bury, WorkerDies
  <2>. QED BY <2>1
<1>. QED BY <1>1, <1>2, <1>3, <1>4, <1>5, <1>6 DEF RunStep, GiveUpStep

LEMMA ReportingStep ==
  ASSUME SinglePublish, ExecutionInv, Reporting, [Next]_vars
  PROVE  Reporting'
<1> USE DEF ExecutionInv, TypeOK, Reporting
<1>1. CASE UNCHANGED vars
  BY <1>1 DEF OwnCheckRun, CompletedIsPublished, ReportsTo, vars, dbVars, githubVars, workerVars
<1>2. ASSUME NEW r \in Requests,
             \/ IgnoreWebhook(r) \/ SubmitManualScan(r) \/ HandlerStep(r) \/ HandlerDies(r)
             \/ \E p \in Procs : ReceiveWebhook(r, p)
      PROVE  Reporting'
  <2>1. /\ UNCHANGED <<check, checkRuns, comments, workerVars>>
        /\ \A s \in Requests : status'[s] = "completed" => status[s] = "completed"
    BY <1>2, HandlerFrame DEF githubVars
  <2>. QED BY <2>1 DEF OwnCheckRun, CompletedIsPublished, ReportsTo, workerVars
<1>3. ASSUME NEW w \in Workers, Take(w)
      PROVE  Reporting'
  <2>1. PICK m \in queue : job' = [job EXCEPT ![w] = m]
    BY <1>3 DEF Take
  <2>2. /\ UNCHANGED <<check, checkRuns, comments, status, seenCheck>> /\ job[w] = NoJob
        /\ pc' = [pc EXCEPT ![w] = "load"] /\ m # NoJob
    BY <1>3, <2>1, ScanAssumption DEF Take, dbVars, githubVars, At
  <2>. QED BY <2>1, <2>2 DEF OwnCheckRun, CompletedIsPublished, ReportsTo
<1>4. ASSUME NEW w \in Workers, RunStep(w) \/ GiveUpStep(w) \/ WorkerDies(w)
      PROVE  Reporting'
  <2>1. /\ job[w] \in Jobs /\ job[w] # NoJob /\ Execution(w) /\ job[w].scan \in Requests
    BY <1>4, WorkerLocal DEF Progress, Jobs
  <2>2. /\ \A c \in Jobs : c.scan # job[w].scan => checkRuns'[c] = checkRuns[c]
        /\ check' = check \/ check' = [check EXCEPT ![job[w].scan] = job[w]]
    BY <1>4, <2>1, CheckRunFrame
  <2>3. OwnCheckRun'
    BY <2>1, <2>2 DEF OwnCheckRun
  <2>4. ASSUME NEW v \in Workers
        PROVE  IF job'[v] = NoJob THEN seenCheck'[v] = NoCheck ELSE ReportsTo(v)'
    <3>1. CASE v = w
      BY <1>4, <2>1, <3>1, ReportsToStep
    <3>2. CASE v # w
      <4>1. /\ job'[v] = job[v] /\ pc'[v] = pc[v] /\ seenCheck'[v] = seenCheck[v]
        BY <1>4, <3>2, WorkerLocal
      <4>2. CASE job[v] = NoJob
        BY <4>1, <4>2
      <4>3. CASE job[v] # NoJob
        <5>1. job[v].scan # job[w].scan /\ job[v].scan \in Requests
          BY <2>1, <3>2, <4>3, SoleCarrier DEF Jobs
        <5>2. check'[job[v].scan] = check[job[v].scan]
          BY <2>2, <5>1
        <5>3. check[job[v].scan] # NoCheck =>
                checkRuns'[check[job[v].scan]] = checkRuns[check[job[v].scan]]
          BY <2>2, <5>1 DEF OwnCheckRun
        <5>. QED BY <4>1, <4>3, <5>1, <5>2, <5>3 DEF ReportsTo
      <4>. QED BY <4>2, <4>3
    <3>. QED BY <3>1, <3>2
  <2>5. CompletedIsPublished'
    <3>1. ASSUME NEW s \in Requests, s # job[w].scan, status'[s] = "completed"
          PROVE  comments'[s] > 0 /\ check'[s] # NoCheck /\ checkRuns'[check'[s]] = "completed"
      <4>1. status[s] = "completed" /\ comments'[s] = comments[s] /\ check'[s] = check[s]
        BY <1>4, <3>1, WorkerLocal
      <4>. QED BY <2>2, <3>1, <4>1 DEF CompletedIsPublished, OwnCheckRun
    <3>2. CASE status'[job[w].scan] = "completed"
      <4>0. status[job[w].scan] # "completed" /\ status \in [Requests -> ScanStatus \cup {"absent"}]
        BY <2>1 DEF Execution
      <4>1. CommitCompleted(w)
        <5>1. ~ \/ LoadScan(w) \/ UpdateCheckRun(w) \/ CreateCheckRun(w) \/ SaveCheckRun(w)
                \/ ScanFiles(w) \/ CompleteCheckRun(w) \/ PostComment(w) \/ StepRaises(w)
                \/ Retry(w) \/ GiveUp(w) \/ FailCheckRun(w) \/ Bury(w) \/ WorkerDies(w)
          BY <3>2, <4>0 DEF LoadScan, UpdateCheckRun, CreateCheckRun, SaveCheckRun, ScanFiles,
             CompleteCheckRun, PostComment, StepRaises, Retry, GiveUp, FailCheckRun, Bury,
             WorkerDies, dbVars
        <5>2. ~MarkRunning(w) /\ ~CommitFailed(w)
          BY <2>1, <3>2, <4>0 DEF MarkRunning, CommitFailed, WriteStatus, Row
        <5>. QED BY <1>4, <5>1, <5>2 DEF RunStep, GiveUpStep
      <4>2. /\ comments[job[w].scan] > 0 /\ check[job[w].scan] # NoCheck
            /\ checkRuns[check[job[w].scan]] = "completed"
        BY <2>1, <4>1 DEF CommitCompleted, Execution, ReportsTo
      <4>. QED BY <3>1, <4>1, <4>2 DEF CommitCompleted, CompletedIsPublished, githubVars
    <3>. QED BY <2>1, <3>1, <3>2 DEF CompletedIsPublished
  <2>. QED BY <2>3, <2>4, <2>5
<1>. QED BY <1>1, <1>2, <1>3, <1>4 DEF Next, WorkerStep

\* A completed scan has its report on the pull request and a concluded check run,
\* whatever failed and was retried on the way.
THEOREM CompletedIsPublishedHolds == SinglePublish => (Spec => []CompletedIsPublished)
<1> SUFFICES ASSUME SinglePublish PROVE Spec => []CompletedIsPublished
  OBVIOUS
<1>1. Init => Reporting
  BY DEF Init, Reporting, OwnCheckRun, CompletedIsPublished
<1>2. ExecutionInv /\ Reporting /\ [Next]_vars => Reporting'
  BY ReportingStep
<1>3. Reporting => CompletedIsPublished
  BY DEF Reporting
<1>. QED BY <1>1, <1>2, <1>3, ExecutionInvHolds, PTL DEF Spec
=============================================================================
