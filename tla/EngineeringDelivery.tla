------------------------- MODULE EngineeringDelivery -------------------------
(***************************************************************************)
(* One engineering request on its way from analysis to a draft pull        *)
(* request: analyze, approve and reject (engineering_request_service.py),  *)
(* the execution plan, the validation run, the prepared draft, and its     *)
(* publication on GitHub.  The endpoints run in the API's thread pool,     *)
(* each call in a session of its own, so that any two of them overlap.     *)
(*                                                                         *)
(* A transaction is one step at its commit.  The call before it, up to     *)
(* where it read the rows that the commit depends on, is another.          *)
(***************************************************************************)
CONSTANTS
    Clients,    \* users of the API, each with at most one call at a time
    Plans,      \* what the analysis may come to
    Unsafe,     \* the plans whose files the safety engine blocks
    NoPlan, NoClient

ASSUME DeliveryAssumption ==
    /\ Unsafe \subseteq Plans /\ NoPlan \notin Plans /\ NoClient \notin Clients

\* "analyzing" is flushed, never committed; the later statuses are never set.
RequestStatus == {"submitted", "plan_ready", "approved", "rejected"}
ANALYZABLE_STATUSES == RequestStatus \ {"approved"}

VARIABLES
    request,      \* the row of the request: its status and its plan
    writer,       \* the client whose transaction has updated that row
    execution,    \* execution_plans: the plan it was made from, or NoPlan
    run,          \* validation_runs: the verdict
    draft,        \* draft_pull_requests
    branch,       \* GitHub: the plans from which commits on the branch were made
    pullRequest,  \* GitHub: the branch has had a pull request
    step,         \* step[c]: what the call of client c does next
    seen,         \* seen[c]: the rows as its session loaded them
    verdict,      \* verdict[c]: what its validation came to
    approved      \* history: plans that an approval was committed on

rowVars == <<request, writer, execution, run, draft>>
githubVars == <<branch, pullRequest>>
clientVars == <<step, seen, verdict>>
vars == <<rowVars, githubVars, clientVars, approved>>

Drafts == [prepared : BOOLEAN, pushed : BOOLEAN, url : BOOLEAN]
NoDraft == [prepared |-> FALSE, pushed |-> FALSE, url |-> FALSE]
Verdicts == {"none", "passed", "failed"}
Steps == {"idle", "flush", "replan", "approve", "reject", "savePlan",
          "findDraft", "saveDraft", "findRun", "saveRun", "build", "push", "open", "record"}

\* What a session holds: the request's plan and the other rows.
Session == [plan : Plans \cup {NoPlan}, execution : Plans \cup {NoPlan},
            run : Verdicts, draft : Drafts]
Nothing == [plan |-> NoPlan, execution |-> NoPlan, run |-> "none", draft |-> NoDraft]

TypeOK ==
    /\ request \in [status : RequestStatus, plan : Plans \cup {NoPlan}]
    /\ writer \in Clients \cup {NoClient}
    /\ execution \in Plans \cup {NoPlan} /\ run \in Verdicts /\ draft \in Drafts
    /\ branch \subseteq Plans /\ pullRequest \in BOOLEAN
    /\ step \in [Clients -> Steps] /\ seen \in [Clients -> Session]
    /\ verdict \in [Clients -> Verdicts]
    /\ approved \subseteq Plans

Init ==
    /\ request = [status |-> "submitted", plan |-> NoPlan] /\ writer = NoClient
    /\ execution = NoPlan /\ run = "none" /\ draft = NoDraft
    /\ branch = {} /\ pullRequest = FALSE
    /\ step = [c \in Clients |-> "idle"] /\ seen = [c \in Clients |-> Nothing]
    /\ verdict = [c \in Clients |-> "none"]
    /\ approved = {}

-----------------------------------------------------------------------------
(* The course of a call. *)

GoTo(c, next) == step' = [step EXCEPT ![c] = next]
Hold(c, session) == seen' = [seen EXCEPT ![c] = session]

\* The call answers, with a result or an error.
Finish(c) == /\ GoTo(c, "idle") /\ Hold(c, Nothing)
             /\ verdict' = [verdict EXCEPT ![c] = "none"]

\* A call that the request's status admits; with another status it is an error.
Begin(c, statuses) == step[c] = "idle" /\ request.status \in statuses

\* What a commit makes of a column: its value as wanted, if that is not the value
\* that was loaded.
Written(stored, loaded, wanted) == IF wanted = loaded THEN stored ELSE wanted

\* Another transaction's UPDATE of the request row makes this one wait.
RowFree == writer = NoClient

-----------------------------------------------------------------------------
(* EngineeringRequestService *)

BeginAnalysis(c) ==
    /\ Begin(c, ANALYZABLE_STATUSES)
    /\ Hold(c, [Nothing EXCEPT !.plan = request.plan])
    /\ GoTo(c, "flush")
    /\ UNCHANGED <<rowVars, githubVars, verdict, approved>>

\* The flush of status "analyzing" locks the row until the plan is committed.
FlushAnalysis(c) ==
    /\ step[c] = "flush" /\ RowFree
    /\ writer' = c /\ GoTo(c, "replan")
    /\ UNCHANGED <<request, execution, run, draft, githubVars, seen, verdict, approved>>

\* Seeded (here and below: faults that no code has): an approval outlives the plan;
\* the status that was flushed is committed.
SeededKeepsApproval(c, plan) ==
    [status |-> IF request.status = "approved" THEN "approved" ELSE "plan_ready", plan |-> plan]
SeededAnalyzing(c, plan) == [status |-> "analyzing", plan |-> plan]
Replanned(c, plan) == [status |-> "plan_ready",
                       plan |-> Written(request.plan, seen[c].plan, plan)]

CommitAnalysis(c) ==
    /\ step[c] = "replan"
    /\ \E plan \in Plans : request' = Replanned(c, plan)
    /\ writer' = NoClient /\ Finish(c)
    /\ UNCHANGED <<execution, run, draft, githubVars, approved>>

\* No AI provider can be chosen, or a query fails: the transaction is rolled back.
\* Seeded: it stays open.
SeededStaysOpen(c) ==
    /\ step[c] = "replan" /\ Finish(c)
    /\ UNCHANGED <<rowVars, githubVars, approved>>
AnalysisFails(c) ==
    /\ step[c] = "replan" /\ Finish(c)
    /\ writer' = NoClient
    /\ UNCHANGED <<request, execution, run, draft, githubVars, approved>>

BeginDecision(c) ==
    /\ Begin(c, {"plan_ready"})
    /\ GoTo(c, "approve") \/ GoTo(c, "reject")
    /\ UNCHANGED <<rowVars, githubVars, seen, verdict, approved>>

\* The UPDATE sets the status, whatever the row has become since it was loaded.
CommitApproval(c) ==
    /\ step[c] = "approve" /\ RowFree
    /\ request' = [request EXCEPT !.status = "approved"]
    /\ approved' = approved \cup {request.plan}
    /\ Finish(c)
    /\ UNCHANGED <<writer, execution, run, draft, githubVars>>

CommitRejection(c) ==
    /\ step[c] = "reject" /\ RowFree
    /\ request' = [request EXCEPT !.status = "rejected"]
    /\ Finish(c)
    /\ UNCHANGED <<writer, execution, run, draft, githubVars, approved>>

-----------------------------------------------------------------------------
(* ExecutionPlanService, ValidationService, DraftPullRequestService *)

BeginPlan(c) ==
    /\ Begin(c, {"approved"})
    /\ Hold(c, [Nothing EXCEPT !.plan = request.plan, !.execution = execution])
    /\ GoTo(c, "savePlan")
    /\ UNCHANGED <<rowVars, githubVars, verdict, approved>>

\* One row per request (a unique index): an insert that comes second is an error.
SavePlan(c) ==
    /\ step[c] = "savePlan"
    /\ execution' = IF seen[c].execution = NoPlan /\ execution # NoPlan THEN execution
                    ELSE Written(execution, seen[c].execution, seen[c].plan)
    /\ Finish(c)
    /\ UNCHANGED <<request, writer, run, draft, githubVars, approved>>

\* The default validator: the checks of a blocked execution plan fail, and without
\* an execution plan nothing does.
BeginValidation(c) ==
    /\ Begin(c, {"approved"})
    /\ \/ /\ execution \in Unsafe
          /\ verdict' = [verdict EXCEPT ![c] = "failed"] /\ GoTo(c, "findRun")
       \/ /\ execution \notin Unsafe
          /\ verdict' = [verdict EXCEPT ![c] = "passed"] /\ GoTo(c, "findDraft")
    /\ UNCHANGED <<rowVars, githubVars, seen, approved>>

BeginPreparation(c) ==
    /\ Begin(c, {"approved"})
    /\ GoTo(c, "findDraft")
    /\ UNCHANGED <<rowVars, githubVars, seen, verdict, approved>>

FindDraft(c) ==
    /\ step[c] = "findDraft"
    /\ Hold(c, [Nothing EXCEPT !.draft = draft])
    /\ GoTo(c, "saveDraft")
    /\ UNCHANGED <<rowVars, githubVars, verdict, approved>>

\* DraftPullRequestService.generate commits by itself, before the validation run
\* that called it is saved; it does not touch the pull request's URL.
\* Seeded: a draft whose commit was forgotten.
SeededUncommitted(c) ==
    /\ step[c] = "saveDraft"
    /\ Hold(c, Nothing)
    /\ IF verdict[c] = "none" THEN GoTo(c, "idle") ELSE GoTo(c, "findRun")
    /\ UNCHANGED <<rowVars, githubVars, verdict, approved>>
SaveDraft(c) ==
    /\ step[c] = "saveDraft"
    /\ \/ /\ draft.prepared /\ ~seen[c].draft.prepared
          /\ Finish(c) /\ UNCHANGED draft
       \/ /\ draft.prepared => seen[c].draft.prepared
          /\ draft' = [draft EXCEPT !.prepared = TRUE,
                                    !.pushed = Written(@, seen[c].draft.pushed, FALSE)]
          /\ Hold(c, Nothing) /\ UNCHANGED verdict
          /\ IF verdict[c] = "none" THEN GoTo(c, "idle") ELSE GoTo(c, "findRun")
    /\ UNCHANGED <<request, writer, execution, run, githubVars, approved>>

FindRun(c) ==
    /\ step[c] = "findRun"
    /\ Hold(c, [Nothing EXCEPT !.run = run])
    /\ GoTo(c, "saveRun")
    /\ UNCHANGED <<rowVars, githubVars, verdict, approved>>

SaveRun(c) ==
    /\ step[c] = "saveRun"
    /\ run' = IF seen[c].run = "none" /\ run # "none" THEN run
              ELSE Written(run, seen[c].run, verdict[c])
    /\ Finish(c)
    /\ UNCHANGED <<request, writer, execution, draft, githubVars, approved>>

-----------------------------------------------------------------------------
(* GitHubDraftPRCreator *)

\* What _validate_preconditions admits.
\* Seeded: the gate asks only for a draft.
SeededAnyDraft == request.status = "approved"
GateOpen == request.status = "approved" /\ run = "passed"

\* A draft that is recorded as published is answered as it is.
BeginPublication(c) ==
    /\ step[c] = "idle" /\ draft.prepared /\ ~(draft.pushed /\ draft.url) /\ GateOpen
    /\ Hold(c, [Nothing EXCEPT !.plan = request.plan, !.draft = draft])
    /\ GoTo(c, "build")
    /\ UNCHANGED <<rowVars, githubVars, verdict, approved>>

\* The code is generated anew, from the execution plan as it is now, or from the
\* plan of the request if there is none.
BuildChanges(c) ==
    /\ step[c] = "build"
    /\ LET basis == IF execution = NoPlan THEN seen[c].plan ELSE execution
       IN  Hold(c, [seen[c] EXCEPT !.execution = basis])
    /\ GoTo(c, "push")
    /\ UNCHANGED <<rowVars, githubVars, verdict, approved>>

\* push_branch: file by file onto the branch, which is created or reused.
PushBranch(c) ==
    /\ step[c] = "push"
    /\ branch' = branch \cup {seen[c].execution}
    /\ \/ GoTo(c, "open") /\ UNCHANGED <<seen, verdict>>
       \/ Finish(c)                     \* an error after some of the files
    /\ UNCHANGED <<rowVars, pullRequest, approved>>

\* A pull request that is open already answers 422 and is found and reused; a
\* reviewer may have closed the last one, and then there is a new one.
OpenPullRequest(c) ==
    /\ step[c] = "open"
    /\ pullRequest' = TRUE
    /\ GoTo(c, "record")
    /\ UNCHANGED <<rowVars, branch, seen, verdict, approved>>

\* Seeded: the draft counts as published without the pull request's URL.
SeededPushedOnly(c) ==
    /\ step[c] = "record"
    /\ draft' = [draft EXCEPT !.pushed = TRUE]
    /\ Finish(c)
    /\ UNCHANGED <<request, writer, execution, run, githubVars, approved>>
RecordPublication(c) ==
    /\ step[c] = "record"
    /\ draft' = [draft EXCEPT !.pushed = Written(@, seen[c].draft.pushed, TRUE),
                              !.url = Written(@, seen[c].draft.url, TRUE)]
    /\ Finish(c)
    /\ UNCHANGED <<request, writer, execution, run, githubVars, approved>>

\* The AI provider, the safety checks or GitHub refuse before anything was done.
PublicationFails(c) ==
    /\ step[c] \in {"build", "push", "open"}
    /\ Finish(c)
    /\ UNCHANGED <<rowVars, githubVars, approved>>

-----------------------------------------------------------------------------
\* The API process dies during the call; PostgreSQL rolls its transaction back.
CallDies(c) ==
    /\ step[c] # "idle" /\ Finish(c)
    /\ writer' = IF writer = c THEN NoClient ELSE writer
    /\ UNCHANGED <<request, execution, run, draft, githubVars, approved>>

BeginCall(c) == \/ BeginAnalysis(c) \/ BeginDecision(c) \/ BeginPlan(c)
                \/ BeginValidation(c) \/ BeginPreparation(c) \/ BeginPublication(c)
RequestStep(c) == \/ FlushAnalysis(c) \/ CommitAnalysis(c) \/ AnalysisFails(c)
                  \/ CommitApproval(c) \/ CommitRejection(c)
ArtefactStep(c) == \/ SavePlan(c) \/ FindDraft(c) \/ SaveDraft(c) \/ FindRun(c) \/ SaveRun(c)
PublishStep(c) == \/ BuildChanges(c) \/ PushBranch(c) \/ OpenPullRequest(c)
                  \/ RecordPublication(c) \/ PublicationFails(c)
CallStep(c) == RequestStep(c) \/ ArtefactStep(c) \/ PublishStep(c)

Next == \E c \in Clients : BeginCall(c) \/ CallStep(c) \/ CallDies(c)

Spec == Init /\ [][Next]_vars

\* A call that was begun runs on.  A client that keeps analyzing can take the row
\* again and again, but PostgreSQL queues those who wait for a row.
FairSpec == Spec /\ \A c \in Clients : SF_vars(CallStep(c))

-----------------------------------------------------------------------------
(* Properties. *)

\* Whatever is on GitHub was made from a plan that a user approved,
\* although plans are replaced while approvals, execution plans and publications of
\* the older one are under way.
OnlyApprovedPlansPushed == branch \subseteq approved

\* A passed validation run has its prepared draft, which an earlier transaction of
\* the same call commits (ValidationService.run, DraftPullRequestService.generate).
PassedHasDraft == run = "passed" => draft.prepared

\* Nothing is pushed before the request was validated at all (the gate of
\* _validate_preconditions, before the long way to the first push).
PushFollowsValidation == branch # {} => run # "none" /\ draft.prepared

\* A draft marked as pushed bears the URL of a pull request that exists, however
\* preparations and publications overlap; the duplicate check relies on it.
RecordIsTrue == /\ draft.pushed => draft.url
                /\ draft.url => pullRequest

\* No call waits forever for the row of the request.
CallsFinish == \A c \in Clients : step[c] # "idle" ~> step[c] = "idle"
=============================================================================
