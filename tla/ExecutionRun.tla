----------------------------- MODULE ExecutionRun -----------------------------
(***************************************************************************)
(* ExecutionOrchestrator (services/agent/execution_orchestrator.py): the   *)
(* run of one engineering request through its five stages, with the        *)
(* services that it calls: the materializer, the code generation engine,   *)
(* the change applier, validation, and SelfHealingEngine.                  *)
(*                                                                         *)
(* A stage acts on the workspace, and the orchestrator then commits to the *)
(* row that it is done: two steps, between which the process can die.      *)
(***************************************************************************)
EXTENDS CodeGeneration

CONSTANTS
    Repository,     \* the files that the source provider copies
    Forbidden,      \* files that the materializer removes from the copy
    Outputs,        \* answers of the model: change lists
    EstimatedFiles, \* the files that the execution plan names
    Fixes,          \* change lists that the healing is offered
    MaxRetries,     \* settings.self_healing_max_retries
    MaxAttempts,    \* bound: calls of execute
    MaxFaults       \* bound: deaths of the process, failing writes and validators

ASSUME RunAssumption ==
    /\ Repository \in Trees /\ Forbidden \subseteq Files
    /\ MaxRetries \in Nat \ {0} /\ MaxAttempts \in Nat /\ MaxFaults \in Nat
    /\ EstimatedFiles \in Seq(Names \cup {Missing})
    /\ \A changes \in Outputs \cup Fixes : IsChanges(changes)

STAGES == <<"materialize", "generate", "apply", "validate", "draft_pr">>

VARIABLES
    approved,   \* the request's status is approved
    row,        \* the execution run
    made,       \* the number of workspaces that were created
    disk,       \* disk[w]: the files of a workspace
    gate,       \* the validation run, and whether a draft was prepared
    step,       \* what execute does next
    ctx,        \* its _Context, and the position in STAGES
    heal,       \* the local variables of SelfHealingEngine.heal
    faults,     \* counts the faults of each kind
    refused,    \* history: the run is failed because a call of execute was refused
    late,       \* history: stages completed after a request to cancel
    passedOn,   \* history: the files that last passed validation
    undone      \* history: the change was rolled back after it was applied

workVars == <<made, disk>>
historyVars == <<late, passedOn, undone>>
vars == <<step, ctx, approved, refused, row, gate, heal, faults, workVars, historyVars>>

Workspaces == 1 .. MaxAttempts
Empty == [file \in Files |-> NoFile]
None == <<>>        \* no plan, no snapshot, no files

NoContext == [stage |-> 0, path |-> 0, plan |-> None, applier |-> FALSE, snapshot |-> None]
NoHealing == [attempt |-> 0, snapshots |-> <<>>, before |-> None]
FaultKinds == {"death", "write", "rollback", "validator"}
Statuses == {"pending", "running", "failed", "cancelled", "completed"}
Steps == {"idle", "check", "save", "fix", "revalidate", "restore", "unhealed", "healed"}
             \cup ToSet(STAGES)

TypeOK ==
    /\ approved \in BOOLEAN /\ refused \in BOOLEAN /\ step \in Steps
    /\ row.status \in Statuses /\ row.completed \in 0 .. Len(STAGES)
    /\ row.attempts \in 0 .. MaxAttempts /\ row.cancel \in BOOLEAN /\ row.path \in 0 .. made
    /\ made \in 0 .. MaxAttempts /\ disk \in [Workspaces -> Trees]
    /\ gate \in [status : {"none", "passed", "failed"}, draft : BOOLEAN]
    /\ ctx.stage \in 0 .. Len(STAGES) /\ ctx.path \in 0 .. made /\ ctx.applier \in BOOLEAN
    /\ heal.attempt \in 0 .. MaxRetries /\ Len(heal.snapshots) <= heal.attempt
    /\ faults \in [FaultKinds -> 0 .. MaxFaults]
    /\ late \in Nat /\ undone \in BOOLEAN

Init ==
    /\ approved = FALSE /\ refused = FALSE
    /\ row = [status |-> "pending", completed |-> 0, attempts |-> 0, cancel |-> FALSE,
              path |-> 0, plan |-> None, snapshot |-> None]
    /\ made = 0 /\ disk = [w \in Workspaces |-> Empty]
    /\ gate = [status |-> "none", draft |-> FALSE]
    /\ step = "idle" /\ ctx = NoContext /\ heal = NoHealing
    /\ faults = [kind \in FaultKinds |-> 0]
    /\ late = 0 /\ passedOn = None /\ undone = FALSE

-----------------------------------------------------------------------------
(* Calls of other users, and of execute. *)

Fault(kind) ==
    /\ faults.death + faults.write + faults.rollback + faults.validator < MaxFaults
    /\ faults' = [faults EXCEPT ![kind] = @ + 1]

Approve ==
    /\ ~approved /\ approved' = TRUE
    /\ UNCHANGED <<refused, row, workVars, gate, step, ctx, heal, faults, historyVars>>

\* An analysis or a rejection that read the request before it was approved writes its
\* own status over the approval, between two calls of execute or during one.
Withdraw ==
    /\ approved /\ approved' = FALSE
    /\ UNCHANGED <<refused, row, workVars, gate, step, ctx, heal, faults, historyVars>>

RequestCancellation ==
    /\ row.status # "pending" /\ ~row.cancel
    /\ row' = [row EXCEPT !.cancel = TRUE]
    /\ UNCHANGED <<approved, refused, workVars, gate, step, ctx, heal, faults, historyVars>>

\* A call for a request that is not approved fails the run as it stands: one that was
\* cancelled, or whose process died, has its change in place, and keeps it.
Refuse ==
    /\ step = "idle" /\ ~approved /\ row.status # "completed"
    /\ row' = [row EXCEPT !.status = "failed"]
    /\ refused' = (refused \/ row.status # "failed")
    /\ UNCHANGED <<approved, workVars, gate, step, ctx, heal, faults, historyVars>>

\* What earlier attempts left behind.  Seeded: not the means to roll it back.
SeededForgetsSnapshot ==
    [NoContext EXCEPT !.path = IF row.completed >= 1 THEN row.path ELSE 0,
                      !.plan = IF row.completed >= 2 THEN row.plan ELSE None]
BuildContext ==
    [stage |-> 0,
     path |-> IF row.completed >= 1 THEN row.path ELSE 0,
     plan |-> IF row.completed >= 2 THEN row.plan ELSE None,
     applier |-> row.completed >= 3 /\ row.snapshot # None,
     snapshot |-> IF row.completed >= 3 THEN row.snapshot ELSE None]

\* A run is started again whatever became of it, unless it completed.
Execute ==
    /\ step = "idle" /\ approved /\ row.status # "completed" /\ row.attempts < MaxAttempts
    /\ row' = [row EXCEPT !.status = "running", !.attempts = @ + 1]
    /\ ctx' = BuildContext /\ step' = "check" /\ refused' = FALSE
    /\ UNCHANGED <<approved, workVars, gate, heal, faults, historyVars>>

-----------------------------------------------------------------------------
(* The loop over the stages. *)

Return(status) ==
    /\ row' = [row EXCEPT !.status = status]
    /\ step' = "idle" /\ ctx' = NoContext /\ heal' = NoHealing

RolledBack(files) ==
    IF ctx.applier THEN [files EXCEPT ![ctx.path] = Rollback(@, ctx.snapshot)] ELSE files

\* A stage has raised, with the workspaces as given, or the time is up.
Fail(files) ==
    /\ Return("failed") /\ disk' = RolledBack(files)
    /\ undone' = (undone \/ (ctx.applier /\ ctx.snapshot # None))
    /\ UNCHANGED <<approved, refused, made, late, passedOn>>

Cancel ==
    /\ step = "check" /\ row.cancel /\ ctx.stage < Len(STAGES)
    /\ Return("cancelled")
    /\ UNCHANGED <<approved, refused, workVars, gate, faults, historyVars>>

TimeOut ==
    /\ step = "check" /\ ~row.cancel /\ ctx.stage < Len(STAGES)
    /\ Fail(disk) /\ UNCHANGED <<gate, faults>>

\* Seeded: the flag is looked at before the first stage only; the last completed stage
\* is run again.
SeededChecksOnce ==
    /\ step = "check" /\ ctx.stage < Len(STAGES) /\ (row.cancel => ctx.stage > 0)
    /\ IF ctx.stage < row.completed
       THEN ctx' = [ctx EXCEPT !.stage = @ + 1] /\ UNCHANGED step
       ELSE step' = STAGES[ctx.stage + 1] /\ UNCHANGED ctx
    /\ UNCHANGED <<approved, refused, row, workVars, gate, heal, faults, historyVars>>
SeededRunsAgain ==
    /\ step = "check" /\ ctx.stage < Len(STAGES) /\ ~row.cancel
    /\ IF ctx.stage + 1 < row.completed
       THEN ctx' = [ctx EXCEPT !.stage = @ + 1] /\ UNCHANGED step
       ELSE step' = STAGES[ctx.stage + 1] /\ UNCHANGED ctx
    /\ UNCHANGED <<approved, refused, row, workVars, gate, heal, faults, historyVars>>
NextStage ==
    /\ step = "check" /\ ctx.stage < Len(STAGES) /\ ~row.cancel
    /\ IF ctx.stage < row.completed
       THEN ctx' = [ctx EXCEPT !.stage = @ + 1] /\ UNCHANGED step
       ELSE step' = STAGES[ctx.stage + 1] /\ UNCHANGED ctx
    /\ UNCHANGED <<approved, refused, row, workVars, gate, heal, faults, historyVars>>

\* What another stage set is in ctx as it is in the row.
SaveStage ==
    /\ step = "save" /\ step' = "check"
    /\ row' = [row EXCEPT !.completed = @ + 1, !.path = ctx.path,
                          !.plan = ctx.plan, !.snapshot = ctx.snapshot]
    /\ ctx' = [ctx EXCEPT !.stage = @ + 1]
    /\ late' = late + IF row.cancel THEN 1 ELSE 0
    /\ undone' = (undone /\ ctx.stage # 2)
    /\ UNCHANGED <<approved, refused, workVars, gate, heal, faults, passedOn>>

Complete ==
    /\ step = "check" /\ ctx.stage = Len(STAGES)
    /\ Return("completed")
    /\ UNCHANGED <<approved, refused, workVars, gate, faults, historyVars>>

-----------------------------------------------------------------------------
(* The stages. *)

Redacted == [file \in Files |-> IF file \in Forbidden THEN NoFile ELSE Repository[file]]

CreateWorkspace(files) == made' = made + 1 /\ disk' = [disk EXCEPT ![made + 1] = files]

\* The branch, the installation or the repository is refused, or the source is not
\* to be had or too large: then the directory stays, empty or full.
MaterializeFails ==
    /\ step = "materialize" /\ UNCHANGED <<gate, faults, approved, refused, late, passedOn>>
    /\ Return("failed") /\ UNCHANGED undone
    /\ \/ UNCHANGED workVars
       \/ \E files \in {Empty, Redacted} : CreateWorkspace(files)

Materialize ==
    /\ step = "materialize" /\ step' = "save"
    /\ CreateWorkspace(Redacted) /\ ctx' = [ctx EXCEPT !.path = made + 1]
    /\ UNCHANGED <<approved, refused, row, gate, heal, faults, historyVars>>

\* A stage that asks for the approval does so as it begins.
Generate ==
    /\ step = "generate" /\ approved /\ step' = "save"
    /\ \E output \in Outputs \cup {NoOutput} :
          LET plan == BuildPlan(output, EstimatedFiles)
          IN  ValidateChangeSet(plan) /\ ctx' = [ctx EXCEPT !.plan = plan]
    /\ UNCHANGED <<approved, refused, row, workVars, gate, heal, faults, historyVars>>

\* No provider answers, the plan is rejected, or the request is not approved.
GenerateFails == step = "generate" /\ Fail(disk) /\ UNCHANGED <<gate, faults>>

\* The workspaces once the files of the first k changes are written.
Applied(changes, k) ==
    [disk EXCEPT ![ctx.path] = Write(@, changes, k)]

Apply ==
    /\ step = "apply" /\ ~Refused(disk[ctx.path], ctx.plan) /\ step' = "save"
    /\ disk' = Applied(ctx.plan, Len(ctx.plan))
    /\ ctx' = [ctx EXCEPT !.applier = TRUE,
                          !.snapshot = Snapshot(disk[ctx.path], ctx.plan)]
    /\ UNCHANGED <<approved, refused, row, made, gate, heal, faults, historyVars>>

\* The workspaces when the writing of a change list stops on the way.
HalfWritten ==
    LET pending == CASE step = "apply" -> {ctx.plan} [] step = "fix" -> Fixes [] OTHER -> {}
    IN  UNION {{Applied(changes, k) : k \in 0 .. Len(changes) - 1} :
                   changes \in {c \in pending : ~Refused(disk[ctx.path], c)}}

\* An error on the way leaves the files that were written: there is no applier yet.
ApplyFails ==
    /\ step = "apply" /\ UNCHANGED gate
    /\ \/ Refused(disk[ctx.path], ctx.plan) /\ Fail(disk) /\ UNCHANGED faults
       \/ Fault("write") /\ \E files \in HalfWritten : Fail(files)

\* ValidationService.run: the row, and the draft when it passes.
Pass == /\ gate' = [status |-> "passed", draft |-> TRUE]
        /\ step' = "save" /\ passedOn' = disk[ctx.path]

ValidatePasses ==
    /\ step = "validate" /\ approved /\ Pass
    /\ UNCHANGED <<approved, refused, row, workVars, ctx, heal, faults, late, undone>>

ValidateFails ==
    /\ step = "validate" /\ approved /\ step' = "fix"
    /\ gate' = [gate EXCEPT !.status = "failed"]
    /\ heal' = [attempt |-> 1, snapshots |-> <<>>, before |-> disk[ctx.path]]
    /\ UNCHANGED <<approved, refused, row, workVars, ctx, faults, historyVars>>

\* The validator raises, in the stage or in the healing; or a validation finds that the
\* request is not approved.
ValidatorRaises ==
    /\ step \in {"validate", "revalidate", "healed"}
    /\ \/ Fault("validator")
       \/ step # "revalidate" /\ ~approved /\ UNCHANGED faults
    /\ Fail(disk) /\ UNCHANGED gate

DraftPr ==
    /\ step = "draft_pr" /\ gate.draft /\ step' = "save"
    /\ UNCHANGED <<approved, refused, row, workVars, gate, ctx, heal, faults, historyVars>>

-----------------------------------------------------------------------------
(* SelfHealingEngine.heal *)

ApplyFixes ==
    /\ step = "fix"
    /\ \E fixes \in Fixes :
          /\ ~Refused(disk[ctx.path], fixes)
          /\ disk' = Applied(fixes, Len(fixes))
          /\ heal' = [heal EXCEPT !.snapshots =
                         Append(@, Snapshot(disk[ctx.path], fixes))]
    /\ step' = "revalidate"
    /\ UNCHANGED <<approved, refused, row, made, gate, ctx, faults, historyVars>>

\* No provider answers, it has no fixes, or they are refused.
NoFixes ==
    /\ step = "fix" /\ step' = "restore"
    /\ UNCHANGED <<approved, refused, row, workVars, gate, ctx, heal, faults, historyVars>>

\* An OSError is no AppError: it leaves heal, and what heal has applied stays.
FixesBreak ==
    /\ step = "fix" /\ Fault("write")
    /\ \E files \in HalfWritten : Fail(files)
    /\ UNCHANGED gate

RevalidatePasses ==
    /\ step = "revalidate" /\ step' = "healed"
    /\ UNCHANGED <<approved, refused, row, workVars, gate, ctx, heal, faults, historyVars>>

\* Seeded: one attempt too many; attempts that are not counted.
SeededOneMore ==
    /\ step = "revalidate"
    /\ IF heal.attempt <= MaxRetries
       THEN step' = "fix" /\ heal' = [heal EXCEPT !.attempt = @ + 1]
       ELSE step' = "restore" /\ UNCHANGED heal
    /\ UNCHANGED <<approved, refused, row, workVars, gate, ctx, faults, historyVars>>
SeededNeverGivesUp ==
    /\ step = "revalidate" /\ step' = "fix"
    /\ heal' = [heal EXCEPT !.snapshots = <<>>]
    /\ UNCHANGED <<approved, refused, row, workVars, gate, ctx, faults, historyVars>>
RevalidateFails ==
    /\ step = "revalidate"
    /\ IF heal.attempt < MaxRetries
       THEN step' = "fix" /\ heal' = [heal EXCEPT !.attempt = @ + 1]
       ELSE step' = "restore" /\ UNCHANGED heal
    /\ UNCHANGED <<approved, refused, row, workVars, gate, ctx, faults, historyVars>>

\* Seeded: the first snapshot first.
SeededOldestFirst == FoldLeft(Rollback, disk[ctx.path], heal.snapshots)
BeforeHealing == FoldLeft(Rollback, disk[ctx.path], Reverse(heal.snapshots))

Restore ==
    /\ step = "restore" /\ step' = "unhealed"
    /\ disk' = [disk EXCEPT ![ctx.path] = BeforeHealing]
    /\ UNCHANGED <<approved, refused, row, made, gate, ctx, heal, faults, historyVars>>

Unhealed == step = "unhealed" /\ Fail(disk) /\ UNCHANGED <<gate, faults>>

\* The second ValidationService.run, for a request as its session loaded it when the
\* healing began.  Seeded: the healing's own verdict is enough.
SeededTrustsHealing ==
    /\ step = "healed" /\ step' = "save"
    /\ gate' = [status |-> "passed", draft |-> TRUE]
    /\ UNCHANGED <<approved, refused, row, workVars, ctx, heal, faults, historyVars>>
HealedPasses ==
    /\ step = "healed" /\ Pass
    /\ UNCHANGED <<approved, refused, row, workVars, ctx, heal, faults, late, undone>>

HealedFails ==
    /\ step = "healed" /\ Fail(disk)
    /\ gate' = [gate EXCEPT !.status = "failed"] /\ UNCHANGED faults

-----------------------------------------------------------------------------
(* Faults. *)

\* A rollback fails half-way and the error is logged; the run is failed as if it
\* had succeeded.
RollbackFails ==
    /\ \/ step = "check" /\ ctx.stage < Len(STAGES) /\ ~row.cancel
       \/ step = "unhealed"
    /\ ctx.applier /\ Fault("rollback")
    /\ \E restored \in SUBSET DOMAIN ctx.snapshot :
          disk' = [disk EXCEPT ![ctx.path] =
                      [file \in Files |-> IF file \in restored THEN ctx.snapshot[file] ELSE @[file]]]
    /\ Return("failed") /\ undone' = TRUE
    /\ UNCHANGED <<approved, refused, made, gate, late, passedOn>>

\* The process dies, between two files of a change perhaps.
Die ==
    /\ step # "idle" /\ Fault("death")
    /\ step' = "idle" /\ ctx' = NoContext /\ heal' = NoHealing
    /\ disk' \in {disk} \cup HalfWritten
    /\ UNCHANGED <<approved, refused, row, made, gate, historyVars>>

-----------------------------------------------------------------------------

Stages ==
    \/ Cancel \/ TimeOut \/ NextStage \/ SaveStage \/ Complete
    \/ MaterializeFails \/ Materialize \/ GenerateFails \/ Generate \/ Apply \/ ApplyFails
    \/ ValidatePasses \/ ValidateFails \/ ValidatorRaises \/ DraftPr
Healing ==
    \/ NoFixes \/ ApplyFixes \/ FixesBreak \/ RevalidatePasses \/ RevalidateFails
    \/ Restore \/ Unhealed \/ HealedPasses \/ HealedFails

Next == \/ Approve \/ Withdraw \/ RequestCancellation \/ Refuse \/ Execute
        \/ Stages \/ Healing \/ RollbackFails \/ Die

Spec == Init /\ [][Next]_vars
\* A process that does not die goes on; nobody need call execute again.
FairSpec == Spec /\ WF_vars(Stages \/ Healing)

-----------------------------------------------------------------------------
(* Properties. *)

\* A run that an attempt failed after the change was applied has the files of the
\* change back as they were (execution_orchestrator.py:321), whichever attempt failed
\* and however, approval withdrawn on the way included, unless the rollback itself met
\* an error.  A call of execute that is refused for want of approval fails the run
\* too, and rolls nothing back (:116-118): such a run is left out until it is resumed.
FailedIsRolledBack ==
    row.status = "failed" /\ ~refused /\ row.completed >= 3 /\ faults.rollback = 0
        => \A file \in DOMAIN row.snapshot : disk[row.path][file] = row.snapshot[file]

\* When heal returns without success, the workspace is as heal found it
\* (self_healing_engine.py:231), also when several fixes changed the same file.
HealingRestores == step = "unhealed" => disk[ctx.path] = heal.before

\* After a request to cancel was committed, the stage that is running is the last one
\* that the run completes, in this attempt and in all later ones.
CancelledInTime == late <= 1

\* What a completed run leaves in its workspace is what passed validation, unless a
\* failure had the change rolled back in between.
CompletedAsValidated ==
    row.status = "completed" /\ ~undone => gate.draft /\ disk[row.path] = passedOn

\* Rolling back restores all that applying overwrites, whatever the plan.
RollbackRestores ==
    step = "apply" /\ ~Refused(disk[ctx.path], ctx.plan)
        => Rollback(Applied(ctx.plan, Len(ctx.plan))[ctx.path],
                    Snapshot(disk[ctx.path], ctx.plan)) = disk[ctx.path]

WholeFiles(changes) ==
    \A change \in ToSet(changes) : \A op \in ToSet(change.operations) :
        NormalizeOperationType(op.type, op.target # "")
            \in {"create_file", "replace_file", "delete_file"}

\* What applying comes to, two spellings of one file apart: the operations worked out
\* in memory (safe_change_applier.py:149) come to what they would one after the other
\* on the files; and a plan of whole files whose writes broke off anywhere comes to
\* the same when a later attempt applies it again.
BatchIsSequence ==
    step = "apply" /\ ~Refused(disk[ctx.path], ctx.plan) /\ Unaliased(ctx.plan)
        => /\ Applied(ctx.plan, Len(ctx.plan))[ctx.path] = InSequence(disk[ctx.path], ctx.plan)
           /\ WholeFiles(ctx.plan) => \A files \in HalfWritten :
                 Write(files[ctx.path], ctx.plan, Len(ctx.plan))
                     = Applied(ctx.plan, Len(ctx.plan))[ctx.path]

\* What an attempt has committed a later one keeps: the workspace, the plan and the
\* snapshot are made once, and a completed stage stays completed.
CommittedStays ==
    [][/\ row'.completed >= row.completed
       /\ row.completed >= 1 => row'.path = row.path
       /\ row.completed >= 2 => row'.plan = row.plan
       /\ row.completed >= 3 => row'.snapshot = row.snapshot]_vars

\* A call of execute that the process survives returns, the healing included.
ExecuteReturns == step # "idle" ~> step = "idle"
=============================================================================
