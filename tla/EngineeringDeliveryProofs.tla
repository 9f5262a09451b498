---------------------- MODULE EngineeringDeliveryProofs ----------------------
(***************************************************************************)
(* Safety of EngineeringDelivery for any number of clients and plans.      *)
(***************************************************************************)
EXTENDS EngineeringDelivery, TLAPS

\* A request that has been analyzed keeps some plan, the same or another.
PlanStays ==
    /\ request.status # "submitted" => request.plan # NoPlan
    /\ \A c \in Clients : seen[c].plan # NoPlan \/ step[c] \in {"approve", "reject"}
                            => request.plan # NoPlan

\* Every plan that a call carries towards the branch has been approved.
PlansApproved ==
    /\ request.status = "approved" => request.plan \in approved
    /\ execution \in approved \cup {NoPlan}
    /\ \A c \in Clients :
          /\ step[c] \in {"savePlan", "build"} => seen[c].plan \in approved
          /\ step[c] = "push" => seen[c].execution \in approved
    /\ OnlyApprovedPlansPushed

\* A validation that is about to be saved has a verdict, with its draft if it passed.
VerdictsDrafted ==
    /\ \A c \in Clients : step[c] \in {"findRun", "saveRun"} =>
          verdict[c] # "none" /\ (verdict[c] = "passed" => draft.prepared)
    /\ PassedHasDraft

\* Calls past the gate found a validation run and a draft, which are never deleted.
GateWasOpen ==
    /\ \A c \in Clients : step[c] \in {"build", "push", "open", "record"} =>
          run # "none" /\ draft.prepared
    /\ PushFollowsValidation

\* The URL of a pull request is never taken back, so that no session holds one that
\* the row has not.
UrlStays ==
    /\ \A c \in Clients : /\ seen[c].draft.url => draft.url
                          /\ step[c] = "record" => pullRequest
    /\ RecordIsTrue

IInv == TypeOK /\ PlanStays /\ PlansApproved /\ VerdictsDrafted /\ GateWasOpen /\ UrlStays

-----------------------------------------------------------------------------

\* In the first state nothing was loaded, approved or pushed.
LEMMA InitEstablishes == Init => IInv
<1> SUFFICES ASSUME Init PROVE IInv
  OBVIOUS
<1> USE DeliveryAssumption DEF Init, Nothing, NoDraft
<1>1. TypeOK
  BY DEF TypeOK, RequestStatus, Session, Drafts, Verdicts, Steps
<1>2. PlanStays
  BY DEF PlanStays
<1>3. PlansApproved
  BY DEF PlansApproved, OnlyApprovedPlansPushed
<1>4. VerdictsDrafted /\ GateWasOpen
  BY DEF VerdictsDrafted, PassedHasDraft, GateWasOpen, PushFollowsValidation
<1>5. UrlStays
  BY DEF UrlStays, RecordIsTrue
<1> QED
  BY <1>1, <1>2, <1>3, <1>4, <1>5 DEF IInv

\* What a preparation does to the draft, and where its call goes then.
DraftSaved(c) ==
    /\ draft' \in Drafts /\ draft'.prepared /\ draft'.url = draft.url
    /\ draft'.pushed => draft.pushed
    /\ \/ /\ step' = [step EXCEPT ![c] = "idle"]
          /\ verdict' = [verdict EXCEPT ![c] = "none"]
       \/ /\ step' = [step EXCEPT ![c] = "findRun"]
          /\ verdict' = verdict /\ verdict[c] # "none"
    /\ seen' = [seen EXCEPT ![c] = Nothing]
    /\ UNCHANGED <<request, writer, execution, run, branch, pullRequest, approved>>

\* A preparation leaves a draft behind that is not newly published.
LEMMA SaveDraftSaves ==
    ASSUME TypeOK, NEW c \in Clients, SaveDraft(c)
    PROVE  DraftSaved(c)
<1> USE DEF DraftSaved, SaveDraft, TypeOK, Drafts, Written, GoTo, Hold, Finish, githubVars
<1>1. draft' \in Drafts /\ draft'.prepared /\ draft'.url = draft.url
  OBVIOUS
<1>2. draft'.pushed => draft.pushed
  OBVIOUS
<1>3. /\ seen' = [seen EXCEPT ![c] = Nothing]
      /\ UNCHANGED <<request, writer, execution, run, branch, pullRequest, approved>>
  OBVIOUS
<1>4. CASE Finish(c)
  BY <1>1, <1>2, <1>3, <1>4
<1>5. CASE verdict' = verdict /\ verdict[c] = "none" /\ GoTo(c, "idle")
  BY <1>1, <1>2, <1>3, <1>5
<1>6. CASE verdict' = verdict /\ verdict[c] # "none" /\ GoTo(c, "findRun")
  BY <1>1, <1>2, <1>3, <1>6
<1> QED
  BY <1>4, <1>5, <1>6

\* Types are preserved: an approval finds a plan, and only approved plans are pushed.
LEMMA TypeStep ==
    ASSUME TypeOK, PlanStays, PlansApproved, [Next]_vars
    PROVE  TypeOK'
<1> USE DeliveryAssumption
    DEF TypeOK, RequestStatus, ANALYZABLE_STATUSES, Session, Nothing, Drafts, NoDraft,
         Verdicts, Steps,
        PlanStays, PlansApproved, OnlyApprovedPlansPushed,
        GoTo, Hold, Finish, Begin, rowVars, githubVars
<1>1. CASE UNCHANGED vars
  BY <1>1 DEF vars, clientVars
<1>2. ASSUME NEW c \in Clients, BeginCall(c) \/ CallStep(c) \/ CallDies(c)
      PROVE  TypeOK'
  <2>1. CASE BeginAnalysis(c)  BY <2>1 DEF BeginAnalysis
  <2>2. CASE FlushAnalysis(c)  BY <2>2 DEF FlushAnalysis
  <2>3. CASE CommitAnalysis(c)  BY <2>3 DEF CommitAnalysis, Replanned, Written
  <2>4. CASE AnalysisFails(c)  BY <2>4 DEF AnalysisFails
  <2>5. CASE BeginDecision(c)  BY <2>5 DEF BeginDecision
  <2>6. CASE CommitApproval(c)  BY <2>6 DEF CommitApproval
  <2>7. CASE CommitRejection(c)  BY <2>7 DEF CommitRejection
  <2>8. CASE BeginPlan(c)  BY <2>8 DEF BeginPlan
  <2>9. CASE SavePlan(c)  BY <2>9 DEF SavePlan, Written
  <2>10. CASE BeginValidation(c)  BY <2>10 DEF BeginValidation
  <2>11. CASE BeginPreparation(c)  BY <2>11 DEF BeginPreparation
  <2>12. CASE FindDraft(c)  BY <2>12 DEF FindDraft
  <2>13. CASE SaveDraft(c)
    <3>1. DraftSaved(c)
      BY <2>13, SaveDraftSaves
    <3>2. CASE step' = [step EXCEPT ![c] = "idle"]
      BY <3>1, <3>2 DEF DraftSaved
    <3>3. CASE step' = [step EXCEPT ![c] = "findRun"]
      BY <3>1, <3>3 DEF DraftSaved
    <3> QED
      BY <3>1, <3>2, <3>3 DEF DraftSaved
  <2>14. CASE FindRun(c)  BY <2>14 DEF FindRun
  <2>15. CASE SaveRun(c)  BY <2>15 DEF SaveRun, Written
  <2>16. CASE BeginPublication(c)  BY <2>16 DEF BeginPublication, GateOpen
  <2>17. CASE BuildChanges(c)  BY <2>17 DEF BuildChanges
  <2>18. CASE PushBranch(c)
    <3>1. CASE GoTo(c, "open") /\ UNCHANGED <<seen, verdict>>
      BY <2>18, <3>1 DEF PushBranch
    <3>2. CASE Finish(c)
      BY <2>18, <3>2 DEF PushBranch
    <3> QED
      BY <2>18, <3>1, <3>2 DEF PushBranch
  <2>19. CASE OpenPullRequest(c)  BY <2>19 DEF OpenPullRequest
  <2>20. CASE RecordPublication(c)  BY <2>20 DEF RecordPublication, Written
  <2>21. CASE PublicationFails(c)  BY <2>21 DEF PublicationFails
  <2>22. CASE CallDies(c)  BY <2>22 DEF CallDies
  <2> QED
    BY <1>2, <2>1, <2>2, <2>3, <2>4, <2>5, <2>6, <2>7, <2>8, <2>9, <2>10, <2>11,
       <2>12, <2>13, <2>14, <2>15, <2>16, <2>17, <2>18, <2>19, <2>20, <2>21, <2>22
    DEF BeginCall, CallStep, RequestStep, ArtefactStep, PublishStep
<1> QED BY <1>1, <1>2 DEF Next

\* No transaction takes the plan of a request away.
LEMMA PlanStaysStep ==
    ASSUME TypeOK, PlanStays, [Next]_vars
    PROVE  PlanStays'
<1> USE DeliveryAssumption
    DEF TypeOK, RequestStatus, ANALYZABLE_STATUSES, Session, Nothing, Drafts, NoDraft,
         Verdicts, Steps,
        PlanStays,
        GoTo, Hold, Finish, Begin, rowVars, githubVars
<1>1. CASE UNCHANGED vars
  BY <1>1 DEF vars, clientVars
<1>2. ASSUME NEW c \in Clients, BeginCall(c) \/ CallStep(c) \/ CallDies(c)
      PROVE  PlanStays'
  <2>1. CASE BeginAnalysis(c)  BY <2>1 DEF BeginAnalysis
  <2>2. CASE FlushAnalysis(c)  BY <2>2 DEF FlushAnalysis
  <2>3. CASE CommitAnalysis(c)  BY <2>3 DEF CommitAnalysis, Replanned, Written
  <2>4. CASE AnalysisFails(c)  BY <2>4 DEF AnalysisFails
  <2>5. CASE BeginDecision(c)  BY <2>5 DEF BeginDecision
  <2>6. CASE CommitApproval(c)  BY <2>6 DEF CommitApproval
  <2>7. CASE CommitRejection(c)  BY <2>7 DEF CommitRejection
  <2>8. CASE BeginPlan(c)  BY <2>8 DEF BeginPlan
  <2>9. CASE SavePlan(c)  BY <2>9 DEF SavePlan, Written
  <2>10. CASE BeginValidation(c)  BY <2>10 DEF BeginValidation
  <2>11. CASE BeginPreparation(c)  BY <2>11 DEF BeginPreparation
  <2>12. CASE FindDraft(c)  BY <2>12 DEF FindDraft
  <2>13. CASE SaveDraft(c)
    <3>1. DraftSaved(c)
      BY <2>13, SaveDraftSaves
    <3>2. CASE step' = [step EXCEPT ![c] = "idle"]
      BY <3>1, <3>2 DEF DraftSaved
    <3>3. CASE step' = [step EXCEPT ![c] = "findRun"]
      BY <3>1, <3>3 DEF DraftSaved
    <3> QED
      BY <3>1, <3>2, <3>3 DEF DraftSaved
  <2>14. CASE FindRun(c)  BY <2>14 DEF FindRun
  <2>15. CASE SaveRun(c)  BY <2>15 DEF SaveRun, Written
  <2>16. CASE BeginPublication(c)  BY <2>16 DEF BeginPublication, GateOpen
  <2>17. CASE BuildChanges(c)  BY <2>17 DEF BuildChanges
  <2>18. CASE PushBranch(c)
    <3>1. CASE GoTo(c, "open") /\ UNCHANGED <<seen, verdict>>
      BY <2>18, <3>1 DEF PushBranch
    <3>2. CASE Finish(c)
      BY <2>18, <3>2 DEF PushBranch
    <3> QED
      BY <2>18, <3>1, <3>2 DEF PushBranch
  <2>19. CASE OpenPullRequest(c)  BY <2>19 DEF OpenPullRequest
  <2>20. CASE RecordPublication(c)  BY <2>20 DEF RecordPublication, Written
  <2>21. CASE PublicationFails(c)  BY <2>21 DEF PublicationFails
  <2>22. CASE CallDies(c)  BY <2>22 DEF CallDies
  <2> QED
    BY <1>2, <2>1, <2>2, <2>3, <2>4, <2>5, <2>6, <2>7, <2>8, <2>9, <2>10, <2>11,
       <2>12, <2>13, <2>14, <2>15, <2>16, <2>17, <2>18, <2>19, <2>20, <2>21, <2>22
    DEF BeginCall, CallStep, RequestStep, ArtefactStep, PublishStep
<1> QED BY <1>1, <1>2 DEF Next

\* What an approved request's calls take with them was approved, and remains so.
LEMMA PlansApprovedStep ==
    ASSUME TypeOK, PlansApproved, [Next]_vars
    PROVE  PlansApproved'
<1> USE DeliveryAssumption
    DEF TypeOK, RequestStatus, ANALYZABLE_STATUSES, Session, Nothing, Drafts, NoDraft,
         Verdicts, Steps,
        PlansApproved, OnlyApprovedPlansPushed,
        GoTo, Hold, Finish, Begin, rowVars, githubVars
<1>1. CASE UNCHANGED vars
  BY <1>1 DEF vars, clientVars
<1>2. ASSUME NEW c \in Clients, BeginCall(c) \/ CallStep(c) \/ CallDies(c)
      PROVE  PlansApproved'
  <2>1. CASE BeginAnalysis(c)  BY <2>1 DEF BeginAnalysis
  <2>2. CASE FlushAnalysis(c)  BY <2>2 DEF FlushAnalysis
  <2>3. CASE CommitAnalysis(c)  BY <2>3 DEF CommitAnalysis, Replanned, Written
  <2>4. CASE AnalysisFails(c)  BY <2>4 DEF AnalysisFails
  <2>5. CASE BeginDecision(c)  BY <2>5 DEF BeginDecision
  <2>6. CASE CommitApproval(c)  BY <2>6 DEF CommitApproval
  <2>7. CASE CommitRejection(c)  BY <2>7 DEF CommitRejection
  <2>8. CASE BeginPlan(c)  BY <2>8 DEF BeginPlan
  <2>9. CASE SavePlan(c)  BY <2>9 DEF SavePlan, Written
  <2>10. CASE BeginValidation(c)  BY <2>10 DEF BeginValidation
  <2>11. CASE BeginPreparation(c)  BY <2>11 DEF BeginPreparation
  <2>12. CASE FindDraft(c)  BY <2>12 DEF FindDraft
  <2>13. CASE SaveDraft(c)
    <3>1. DraftSaved(c)
      BY <2>13, SaveDraftSaves
    <3>2. CASE step' = [step EXCEPT ![c] = "idle"]
      BY <3>1, <3>2 DEF DraftSaved
    <3>3. CASE step' = [step EXCEPT ![c] = "findRun"]
      BY <3>1, <3>3 DEF DraftSaved
    <3> QED
      BY <3>1, <3>2, <3>3 DEF DraftSaved
  <2>14. CASE FindRun(c)  BY <2>14 DEF FindRun
  <2>15. CASE SaveRun(c)  BY <2>15 DEF SaveRun, Written
  <2>16. CASE BeginPublication(c)  BY <2>16 DEF BeginPublication, GateOpen
  <2>17. CASE BuildChanges(c)  BY <2>17 DEF BuildChanges
  <2>18. CASE PushBranch(c)
    <3>1. CASE GoTo(c, "open") /\ UNCHANGED <<seen, verdict>>
      BY <2>18, <3>1 DEF PushBranch
    <3>2. CASE Finish(c)
      BY <2>18, <3>2 DEF PushBranch
    <3> QED
      BY <2>18, <3>1, <3>2 DEF PushBranch
  <2>19. CASE OpenPullRequest(c)  BY <2>19 DEF OpenPullRequest
  <2>20. CASE RecordPublication(c)  BY <2>20 DEF RecordPublication, Written
  <2>21. CASE PublicationFails(c)  BY <2>21 DEF PublicationFails
  <2>22. CASE CallDies(c)  BY <2>22 DEF CallDies
  <2> QED
    BY <1>2, <2>1, <2>2, <2>3, <2>4, <2>5, <2>6, <2>7, <2>8, <2>9, <2>10, <2>11,
       <2>12, <2>13, <2>14, <2>15, <2>16, <2>17, <2>18, <2>19, <2>20, <2>21, <2>22
    DEF BeginCall, CallStep, RequestStep, ArtefactStep, PublishStep
<1> QED BY <1>1, <1>2 DEF Next

\* A validation that passes commits the draft first, and no draft is deleted.
LEMMA VerdictsDraftedStep ==
    ASSUME TypeOK, VerdictsDrafted, [Next]_vars
    PROVE  VerdictsDrafted'
<1> USE DeliveryAssumption
    DEF TypeOK, RequestStatus, ANALYZABLE_STATUSES, Session, Nothing, Drafts, NoDraft,
         Verdicts, Steps,
        VerdictsDrafted, PassedHasDraft,
        GoTo, Hold, Finish, Begin, rowVars, githubVars
<1>1. CASE UNCHANGED vars
  BY <1>1 DEF vars, clientVars
<1>2. ASSUME NEW c \in Clients, BeginCall(c) \/ CallStep(c) \/ CallDies(c)
      PROVE  VerdictsDrafted'
  <2>1. CASE BeginAnalysis(c)  BY <2>1 DEF BeginAnalysis
  <2>2. CASE FlushAnalysis(c)  BY <2>2 DEF FlushAnalysis
  <2>3. CASE CommitAnalysis(c)  BY <2>3 DEF CommitAnalysis, Replanned, Written
  <2>4. CASE AnalysisFails(c)  BY <2>4 DEF AnalysisFails
  <2>5. CASE BeginDecision(c)  BY <2>5 DEF BeginDecision
  <2>6. CASE CommitApproval(c)  BY <2>6 DEF CommitApproval
  <2>7. CASE CommitRejection(c)  BY <2>7 DEF CommitRejection
  <2>8. CASE BeginPlan(c)  BY <2>8 DEF BeginPlan
  <2>9. CASE SavePlan(c)  BY <2>9 DEF SavePlan, Written
  <2>10. CASE BeginValidation(c)  BY <2>10 DEF BeginValidation
  <2>11. CASE BeginPreparation(c)  BY <2>11 DEF BeginPreparation
  <2>12. CASE FindDraft(c)  BY <2>12 DEF FindDraft
  <2>13. CASE SaveDraft(c)
    <3>1. DraftSaved(c)
      BY <2>13, SaveDraftSaves
    <3>2. CASE step' = [step EXCEPT ![c] = "idle"]
      BY <3>1, <3>2 DEF DraftSaved
    <3>3. CASE step' = [step EXCEPT ![c] = "findRun"]
      BY <3>1, <3>3 DEF DraftSaved
    <3> QED
      BY <3>1, <3>2, <3>3 DEF DraftSaved
  <2>14. CASE FindRun(c)  BY <2>14 DEF FindRun
  <2>15. CASE SaveRun(c)  BY <2>15 DEF SaveRun, Written
  <2>16. CASE BeginPublication(c)  BY <2>16 DEF BeginPublication, GateOpen
  <2>17. CASE BuildChanges(c)  BY <2>17 DEF BuildChanges
  <2>18. CASE PushBranch(c)
    <3>1. CASE GoTo(c, "open") /\ UNCHANGED <<seen, verdict>>
      BY <2>18, <3>1 DEF PushBranch
    <3>2. CASE Finish(c)
      BY <2>18, <3>2 DEF PushBranch
    <3> QED
      BY <2>18, <3>1, <3>2 DEF PushBranch
  <2>19. CASE OpenPullRequest(c)  BY <2>19 DEF OpenPullRequest
  <2>20. CASE RecordPublication(c)  BY <2>20 DEF RecordPublication, Written
  <2>21. CASE PublicationFails(c)  BY <2>21 DEF PublicationFails
  <2>22. CASE CallDies(c)  BY <2>22 DEF CallDies
  <2> QED
    BY <1>2, <2>1, <2>2, <2>3, <2>4, <2>5, <2>6, <2>7, <2>8, <2>9, <2>10, <2>11,
       <2>12, <2>13, <2>14, <2>15, <2>16, <2>17, <2>18, <2>19, <2>20, <2>21, <2>22
    DEF BeginCall, CallStep, RequestStep, ArtefactStep, PublishStep
<1> QED BY <1>1, <1>2 DEF Next

\* A validation run is replaced, never removed.
LEMMA GateWasOpenStep ==
    ASSUME TypeOK, VerdictsDrafted, GateWasOpen, [Next]_vars
    PROVE  GateWasOpen'
<1> USE DeliveryAssumption
    DEF TypeOK, RequestStatus, ANALYZABLE_STATUSES, Session, Nothing, Drafts, NoDraft,
         Verdicts, Steps,
        VerdictsDrafted, GateWasOpen, PushFollowsValidation,
        GoTo, Hold, Finish, Begin, rowVars, githubVars
<1>1. CASE UNCHANGED vars
  BY <1>1 DEF vars, clientVars
<1>2. ASSUME NEW c \in Clients, BeginCall(c) \/ CallStep(c) \/ CallDies(c)
      PROVE  GateWasOpen'
  <2>1. CASE BeginAnalysis(c)  BY <2>1 DEF BeginAnalysis
  <2>2. CASE FlushAnalysis(c)  BY <2>2 DEF FlushAnalysis
  <2>3. CASE CommitAnalysis(c)  BY <2>3 DEF CommitAnalysis, Replanned, Written
  <2>4. CASE AnalysisFails(c)  BY <2>4 DEF AnalysisFails
  <2>5. CASE BeginDecision(c)  BY <2>5 DEF BeginDecision
  <2>6. CASE CommitApproval(c)  BY <2>6 DEF CommitApproval
  <2>7. CASE CommitRejection(c)  BY <2>7 DEF CommitRejection
  <2>8. CASE BeginPlan(c)  BY <2>8 DEF BeginPlan
  <2>9. CASE SavePlan(c)  BY <2>9 DEF SavePlan, Written
  <2>10. CASE BeginValidation(c)  BY <2>10 DEF BeginValidation
  <2>11. CASE BeginPreparation(c)  BY <2>11 DEF BeginPreparation
  <2>12. CASE FindDraft(c)  BY <2>12 DEF FindDraft
  <2>13. CASE SaveDraft(c)
    <3>1. DraftSaved(c)
      BY <2>13, SaveDraftSaves
    <3>2. CASE step' = [step EXCEPT ![c] = "idle"]
      BY <3>1, <3>2 DEF DraftSaved
    <3>3. CASE step' = [step EXCEPT ![c] = "findRun"]
      BY <3>1, <3>3 DEF DraftSaved
    <3> QED
      BY <3>1, <3>2, <3>3 DEF DraftSaved
  <2>14. CASE FindRun(c)  BY <2>14 DEF FindRun
  <2>15. CASE SaveRun(c)  BY <2>15 DEF SaveRun, Written
  <2>16. CASE BeginPublication(c)  BY <2>16 DEF BeginPublication, GateOpen
  <2>17. CASE BuildChanges(c)  BY <2>17 DEF BuildChanges
  <2>18. CASE PushBranch(c)
    <3>1. CASE GoTo(c, "open") /\ UNCHANGED <<seen, verdict>>
      BY <2>18, <3>1 DEF PushBranch
    <3>2. CASE Finish(c)
      BY <2>18, <3>2 DEF PushBranch
    <3> QED
      BY <2>18, <3>1, <3>2 DEF PushBranch
  <2>19. CASE OpenPullRequest(c)  BY <2>19 DEF OpenPullRequest
  <2>20. CASE RecordPublication(c)  BY <2>20 DEF RecordPublication, Written
  <2>21. CASE PublicationFails(c)  BY <2>21 DEF PublicationFails
  <2>22. CASE CallDies(c)  BY <2>22 DEF CallDies
  <2> QED
    BY <1>2, <2>1, <2>2, <2>3, <2>4, <2>5, <2>6, <2>7, <2>8, <2>9, <2>10, <2>11,
       <2>12, <2>13, <2>14, <2>15, <2>16, <2>17, <2>18, <2>19, <2>20, <2>21, <2>22
    DEF BeginCall, CallStep, RequestStep, ArtefactStep, PublishStep
<1> QED BY <1>1, <1>2 DEF Next

\* A preparation may unmark the draft, only a publication writes its URL.
LEMMA UrlStaysStep ==
    ASSUME TypeOK, UrlStays, [Next]_vars
    PROVE  UrlStays'
<1> USE DeliveryAssumption
    DEF TypeOK, RequestStatus, ANALYZABLE_STATUSES, Session, Nothing, Drafts, NoDraft,
         Verdicts, Steps,
        UrlStays, RecordIsTrue,
        GoTo, Hold, Finish, Begin, rowVars, githubVars
<1>1. CASE UNCHANGED vars
  BY <1>1 DEF vars, clientVars
<1>2. ASSUME NEW c \in Clients, BeginCall(c) \/ CallStep(c) \/ CallDies(c)
      PROVE  UrlStays'
  <2>1. CASE BeginAnalysis(c)  BY <2>1 DEF BeginAnalysis
  <2>2. CASE FlushAnalysis(c)  BY <2>2 DEF FlushAnalysis
  <2>3. CASE CommitAnalysis(c)  BY <2>3 DEF CommitAnalysis, Replanned, Written
  <2>4. CASE AnalysisFails(c)  BY <2>4 DEF AnalysisFails
  <2>5. CASE BeginDecision(c)  BY <2>5 DEF BeginDecision
  <2>6. CASE CommitApproval(c)  BY <2>6 DEF CommitApproval
  <2>7. CASE CommitRejection(c)  BY <2>7 DEF CommitRejection
  <2>8. CASE BeginPlan(c)  BY <2>8 DEF BeginPlan
  <2>9. CASE SavePlan(c)  BY <2>9 DEF SavePlan, Written
  <2>10. CASE BeginValidation(c)  BY <2>10 DEF BeginValidation
  <2>11. CASE BeginPreparation(c)  BY <2>11 DEF BeginPreparation
  <2>12. CASE FindDraft(c)  BY <2>12 DEF FindDraft
  <2>13. CASE SaveDraft(c)
    <3>1. DraftSaved(c)
      BY <2>13, SaveDraftSaves
    <3>2. CASE step' = [step EXCEPT ![c] = "idle"]
      BY <3>1, <3>2 DEF DraftSaved
    <3>3. CASE step' = [step EXCEPT ![c] = "findRun"]
      BY <3>1, <3>3 DEF DraftSaved
    <3> QED
      BY <3>1, <3>2, <3>3 DEF DraftSaved
  <2>14. CASE FindRun(c)  BY <2>14 DEF FindRun
  <2>15. CASE SaveRun(c)  BY <2>15 DEF SaveRun, Written
  <2>16. CASE BeginPublication(c)  BY <2>16 DEF BeginPublication, GateOpen
  <2>17. CASE BuildChanges(c)  BY <2>17 DEF BuildChanges
  <2>18. CASE PushBranch(c)
    <3>1. CASE GoTo(c, "open") /\ UNCHANGED <<seen, verdict>>
      BY <2>18, <3>1 DEF PushBranch
    <3>2. CASE Finish(c)
      BY <2>18, <3>2 DEF PushBranch
    <3> QED
      BY <2>18, <3>1, <3>2 DEF PushBranch
  <2>19. CASE OpenPullRequest(c)  BY <2>19 DEF OpenPullRequest
  <2>20. CASE RecordPublication(c)  BY <2>20 DEF RecordPublication, Written
  <2>21. CASE PublicationFails(c)  BY <2>21 DEF PublicationFails
  <2>22. CASE CallDies(c)  BY <2>22 DEF CallDies
  <2> QED
    BY <1>2, <2>1, <2>2, <2>3, <2>4, <2>5, <2>6, <2>7, <2>8, <2>9, <2>10, <2>11,
       <2>12, <2>13, <2>14, <2>15, <2>16, <2>17, <2>18, <2>19, <2>20, <2>21, <2>22
    DEF BeginCall, CallStep, RequestStep, ArtefactStep, PublishStep
<1> QED BY <1>1, <1>2 DEF Next

\* Every step preserves the parts of the invariant together.
LEMMA NextPreserves == IInv /\ [Next]_vars => IInv'
BY TypeStep, PlanStaysStep, PlansApprovedStep, VerdictsDraftedStep, GateWasOpenStep, UrlStaysStep
DEF IInv

\* The parts together are invariant.
LEMMA Invariance == Spec => []IInv
<1>1. Init => IInv
  BY InitEstablishes
<1>2. IInv /\ [Next]_vars => IInv'
  BY NextPreserves
<1> QED
  BY <1>1, <1>2, PTL DEF Spec

\* The rows and the sessions keep their types; "analyzing" is never committed.
THEOREM TypeCorrect == Spec => []TypeOK
BY Invariance, PTL DEF IInv

\* Nothing reaches GitHub that was not made from an approved plan, though analyses
\* replace the plan while approvals and publications of the older one are under way.
THEOREM OnlyApprovedPlansPushedHolds == Spec => []OnlyApprovedPlansPushed
BY Invariance, PTL DEF IInv, PlansApproved

\* The draft is there before the run that passed is, for two transactions write them.
THEOREM PassedHasDraftHolds == Spec => []PassedHasDraft
BY Invariance, PTL DEF IInv, VerdictsDrafted

\* No push without some validation run and a draft before it.
THEOREM PushFollowsValidationHolds == Spec => []PushFollowsValidation
BY Invariance, PTL DEF IInv, GateWasOpen

\* A draft that counts as published has its URL, and the URL its pull request,
\* whatever preparations and publications overwrite.
THEOREM RecordIsTrueHolds == Spec => []RecordIsTrue
BY Invariance, PTL DEF IInv, UrlStays
=============================================================================
