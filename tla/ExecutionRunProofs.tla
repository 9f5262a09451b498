-------------------------- MODULE ExecutionRunProofs --------------------------
(***************************************************************************)
(* What an execution run keeps from attempt to attempt, when a request to  *)
(* cancel takes effect, and what its rollbacks and repairs leave in the    *)
(* workspace, for any repository, plans, fixes, bounds and faults.         *)
(*                                                                         *)
(* RunInv is about the row and the context of an attempt.  Carried: the    *)
(* context has what the row has of the completed stages, and the stage     *)
(* that runs is the first that is not completed.  Stopped: after the stage *)
(* that was running at the request to cancel no other is begun.            *)
(*                                                                         *)
(* Kept is about the files.  Placed: the workspace of a run exists and     *)
(* stays the one in the row.  Settled: a run that failed has its change    *)
(* taken back, and nothing runs while its status is not "running".         *)
(* Validated: what passed validation is what is in the workspace.          *)
(* Healable: the snapshots of a healing, taken back from the last to the   *)
(* first, come to the files that the healing found.                        *)
(*                                                                         *)
(* Fitting is about types.  Bounded: numbers and words.  Limited: faults.  *)
(* Repairing: the snapshots of a healing are fewer than its tries when it  *)
(* is to apply another.  Written: what is written, and what is kept, are   *)
(* texts; a plan that is applied has no change without operations.         *)
(*                                                                         *)
(* BatchAlwaysSequence follows from Fitting by comparing, change by        *)
(* change, a file of the reference with its entry in memory (Agreed).      *)
(*                                                                         *)
(* A fold is unrolled in LastFirst and FoldFirst.  That the fold of a list *)
(* is what one expects, whatever its length, is shown by looking at the    *)
(* shortest list for which it were not (LeastNumber).                      *)
(***************************************************************************)
EXTENDS ExecutionRun, ListLemmas, SequenceTheorems, TLAPS

RowFields == {"status", "completed", "attempts", "cancel", "path", "plan", "snapshot"}
ContextFields == {"stage", "path", "plan", "applier", "snapshot"}

Shapes ==
    /\ row = [field \in RowFields |-> row[field]]
    /\ ctx = [field \in ContextFields |-> ctx[field]]
    /\ row.completed \in 0 .. 5 /\ ctx.stage \in 0 .. 5 /\ row.cancel \in BOOLEAN

\* The stage that a step belongs to, for the steps that belong to one.
StageOf(s) ==
    CASE s = "materialize" -> 0
      [] s = "generate" -> 1
      [] s = "apply" -> 2
      [] s \in {"validate", "fix", "revalidate", "restore", "unhealed", "healed"} -> 3
      [] s = "draft_pr" -> 4

Carried ==
    /\ step \in Steps
    /\ step # "idle" =>
          /\ ctx.stage <= row.completed
          /\ row.completed >= 1 => ctx.path = row.path
          /\ row.completed >= 2 => ctx.plan = row.plan
          /\ row.completed >= 3 => ctx.snapshot = row.snapshot
    /\ step = "save" => ctx.stage = row.completed /\ ctx.stage < 5
    /\ step \notin {"idle", "check", "save"} =>
          ctx.stage = row.completed /\ ctx.stage = StageOf(step)

Stopped ==
    /\ late \in {0, 1}
    /\ late = 1 => row.cancel /\ step \in {"idle", "check"}

RunInv == Shapes /\ Carried /\ Stopped

-----------------------------------------------------------------------------
LEMMA TheStages == Len(STAGES) = 5 /\ Steps = {"idle", "check", "save", "fix", "revalidate",
                       "restore", "unhealed", "healed", "materialize", "generate", "apply",
                       "validate", "draft_pr"}
<1>1. ToSet(STAGES) = {"materialize", "generate", "apply", "validate", "draft_pr"}
  BY DEF ToSet, STAGES
<1>2. QED
  BY <1>1 DEF STAGES, Steps

LEMMA RunInit == Init => RunInv
BY TheStages DEF Init, RunInv, Shapes, Carried, Stopped, RowFields, ContextFields, NoContext
-----------------------------------------------------------------------------
(* The steps.                                                              *)

\* A commit that keeps what the row has of the completed stages.
RowKeeps ==
    /\ row'.completed >= row.completed
    /\ row.completed >= 1 => row'.path = row.path
    /\ row.completed >= 2 => row'.plan = row.plan
    /\ row.completed >= 3 => row'.snapshot = row.snapshot

\* execute returns, or its process dies.
LEMMA ReturnKeeps ==
    ASSUME RunInv, step' = "idle", ctx' = NoContext, late' = late,
           row' = row \/ \E status : row' = [row EXCEPT !.status = status]
    PROVE  RunInv' /\ RowKeeps
<1>1. /\ DOMAIN row = RowFields
      /\ row' = [field \in RowFields |-> row'[field]]
      /\ \A field \in RowFields \ {"status"} : row'[field] = row[field]
  BY DEF RunInv, Shapes, RowFields
<1>2. Shapes' /\ RowKeeps
  BY <1>1 DEF RunInv, Shapes, RowKeeps, RowFields, ContextFields, NoContext
<1>3. Carried'
  BY TheStages DEF RunInv, Carried
<1>4. Stopped'
  BY <1>1 DEF RunInv, Stopped, RowFields
<1>5. QED
  BY <1>2, <1>3, <1>4 DEF RunInv

LEMMA FailReturns ==
    ASSUME NEW files, Fail(files)
    PROVE  step' = "idle" /\ ctx' = NoContext /\ late' = late /\ row' = [row EXCEPT !.status = "failed"]
BY DEF Fail, Return

LEMMA ReturningSteps ==
    ASSUME RunInv,
           \/ Cancel \/ TimeOut \/ Complete \/ MaterializeFails \/ GenerateFails \/ ApplyFails
           \/ ValidatorRaises \/ FixesBreak \/ Unhealed \/ HealedFails \/ RollbackFails \/ Die
    PROVE  RunInv' /\ RowKeeps
<1>1. /\ step' = "idle" /\ ctx' = NoContext /\ late' = late
      /\ row' = row \/ \E status : row' = [row EXCEPT !.status = status]
  BY FailReturns DEF Cancel, TimeOut, Complete, MaterializeFails, GenerateFails, ApplyFails,
     ValidatorRaises, FixesBreak, Unhealed, HealedFails, RollbackFails, Die, Return, historyVars
<1>2. QED
  BY <1>1, ReturnKeeps

\* The next step of the same stage, or the end of the stage.
LEMMA StageGoesOn ==
    ASSUME RunInv, step \notin {"idle", "check", "save"}, step' \in Steps \ {"idle", "check"},
           step' # "save" => StageOf(step') = StageOf(step),
           UNCHANGED <<row, ctx, late>>
    PROVE  RunInv' /\ RowKeeps
<1>1. Shapes' /\ Stopped' /\ RowKeeps
  BY DEF RunInv, Shapes, Stopped, RowKeeps
<1>2. ctx.stage < 5
  BY TheStages DEF RunInv, Carried, StageOf
<1>3. Carried'
  BY <1>2 DEF RunInv, Carried
<1>4. QED
  BY <1>1, <1>3 DEF RunInv

LEMMA StageSteps ==
    ASSUME RunInv,
           \/ ValidatePasses \/ ValidateFails \/ DraftPr \/ NoFixes \/ ApplyFixes
           \/ RevalidatePasses \/ RevalidateFails \/ Restore \/ HealedPasses
    PROVE  RunInv' /\ RowKeeps
<1>1. /\ step \notin {"idle", "check", "save"} /\ step' \in Steps \ {"idle", "check"}
      /\ UNCHANGED <<row, ctx, late>>
  BY TheStages DEF ValidatePasses, ValidateFails, DraftPr, NoFixes, ApplyFixes, RevalidatePasses,
     RevalidateFails, Restore, HealedPasses, Pass, historyVars
<1>2. step' # "save" => StageOf(step') = StageOf(step)
  BY DEF ValidatePasses, ValidateFails, DraftPr, NoFixes, ApplyFixes, RevalidatePasses,
     RevalidateFails, Restore, HealedPasses, Pass, StageOf
<1>3. QED
  BY <1>1, <1>2, StageGoesOn

\* A stage that sets what it alone sets in the context.
LEMMA SettingSteps ==
    ASSUME RunInv, Materialize \/ Generate \/ Apply
    PROVE  RunInv' /\ RowKeeps
<1>1. step' = "save" /\ late' = late /\ row' = row /\ step \notin {"idle", "check", "save"}
  BY DEF Materialize, Generate, Apply, historyVars
<1>2. /\ ctx' = [field \in ContextFields |-> ctx'[field]]
      /\ ctx'.stage = ctx.stage
      /\ ctx'.path = ctx.path \/ ctx.stage = 0
      /\ ctx'.plan = ctx.plan \/ ctx.stage = 1
      /\ ctx'.snapshot = ctx.snapshot \/ ctx.stage = 2
  <2>1. CASE Materialize
    BY <2>1, TheStages DEF Materialize, RunInv, Shapes, Carried, StageOf, ContextFields
  <2>2. CASE Generate
    BY <2>2, TheStages DEF Generate, RunInv, Shapes, Carried, StageOf, ContextFields
  <2>3. CASE Apply
    BY <2>3, TheStages DEF Apply, RunInv, Shapes, Carried, StageOf, ContextFields
  <2>4. QED
    BY <2>1, <2>2, <2>3
<1>3. ctx.stage = row.completed /\ ctx.stage \in 0 .. 4
  BY <1>1, TheStages DEF RunInv, Shapes, Carried, StageOf
<1>4. Shapes' /\ Stopped' /\ RowKeeps
  BY <1>1, <1>2, <1>3 DEF RunInv, Shapes, Stopped, RowKeeps
<1>5. Carried'
  BY <1>1, <1>2, <1>3, TheStages DEF RunInv, Carried
<1>6. QED
  BY <1>4, <1>5 DEF RunInv

LEMMA NextStageKeeps ==
    ASSUME RunInv, NextStage
    PROVE  RunInv' /\ RowKeeps
<1>1. row' = row /\ late' = late /\ step = "check" /\ ~row.cancel /\ ctx.stage < 5
  BY TheStages DEF NextStage, historyVars
<1>2. late = 0 /\ ctx.stage \in 0 .. 4 /\ row.completed \in 0 .. 5 /\ ctx.stage <= row.completed
  BY <1>1 DEF RunInv, Shapes, Carried, Stopped
<1>3. CASE ctx.stage < row.completed
  <2>1. ctx' = [ctx EXCEPT !.stage = @ + 1] /\ step' = "check"
    BY <1>1, <1>3 DEF NextStage
  <2>2. /\ ctx' = [field \in ContextFields |-> ctx'[field]] /\ ctx'.stage = ctx.stage + 1
        /\ ctx'.path = ctx.path /\ ctx'.plan = ctx.plan /\ ctx'.snapshot = ctx.snapshot
    BY <2>1 DEF RunInv, Shapes, ContextFields
  <2>3. Shapes' /\ Stopped' /\ RowKeeps
    BY <1>1, <1>2, <2>2 DEF RunInv, Shapes, Stopped, RowKeeps
  <2>4. Carried'
    BY <1>1, <1>2, <1>3, <2>1, <2>2, TheStages DEF RunInv, Carried
  <2>5. QED
    BY <2>3, <2>4 DEF RunInv
<1>4. CASE ctx.stage = row.completed
  <2>1. ctx' = ctx /\ step' = STAGES[ctx.stage + 1]
    BY <1>1, <1>2, <1>4 DEF NextStage
  <2>2. /\ step' \in Steps \ {"idle", "check", "save"}
        /\ StageOf(step') = ctx.stage
    BY <1>2, <2>1, TheStages DEF STAGES, StageOf
  <2>3. Shapes' /\ Stopped' /\ RowKeeps
    BY <1>1, <1>2, <2>1 DEF RunInv, Shapes, Stopped, RowKeeps
  <2>4. Carried'
    BY <1>1, <1>2, <1>4, <2>1, <2>2 DEF RunInv, Carried
  <2>5. QED
    BY <2>3, <2>4 DEF RunInv
<1>5. QED
  BY <1>2, <1>3, <1>4

LEMMA SaveKeeps ==
    ASSUME RunInv, SaveStage
    PROVE  RunInv' /\ RowKeeps
<1>1. /\ late = 0 /\ ctx.stage = row.completed /\ ctx.stage \in 0 .. 4
      /\ row.completed >= 1 => ctx.path = row.path
      /\ row.completed >= 2 => ctx.plan = row.plan
      /\ row.completed >= 3 => ctx.snapshot = row.snapshot
  BY DEF SaveStage, RunInv, Shapes, Carried, Stopped
<1>2. /\ row' = [field \in RowFields |-> row'[field]]
      /\ row'.completed = row.completed + 1 /\ row'.cancel = row.cancel
      /\ row'.path = ctx.path /\ row'.plan = ctx.plan /\ row'.snapshot = ctx.snapshot
  BY DEF SaveStage, RunInv, Shapes, RowFields
<1>3. /\ ctx' = [field \in ContextFields |-> ctx'[field]] /\ ctx'.stage = ctx.stage + 1
      /\ ctx'.path = ctx.path /\ ctx'.plan = ctx.plan /\ ctx'.snapshot = ctx.snapshot
  BY DEF SaveStage, RunInv, Shapes, ContextFields
<1>4. Shapes' /\ RowKeeps
  BY <1>1, <1>2, <1>3 DEF RunInv, Shapes, RowKeeps
<1>5. Carried'
  BY <1>1, <1>2, <1>3, TheStages DEF SaveStage, Carried
<1>6. Stopped'
  <2>1. step' = "check" /\ late' = late + IF row.cancel THEN 1 ELSE 0
    BY DEF SaveStage
  <2>2. CASE row.cancel
    BY <1>1, <1>2, <2>1, <2>2 DEF Stopped
  <2>3. CASE ~row.cancel
    BY <1>1, <2>1, <2>3 DEF Stopped
  <2>4. QED
    BY <2>2, <2>3
<1>7. QED
  BY <1>4, <1>5, <1>6 DEF RunInv

LEMMA CallsKeep ==
    ASSUME RunInv, Approve \/ Withdraw \/ RequestCancellation \/ Refuse \/ Execute \/ UNCHANGED vars
    PROVE  RunInv' /\ RowKeeps
<1>1. CASE Approve \/ Withdraw \/ UNCHANGED vars
  <2>1. UNCHANGED <<row, ctx, step, late>>
    BY <1>1 DEF Approve, Withdraw, vars, historyVars
  <2>2. QED
    BY <2>1 DEF RunInv, Shapes, Carried, Stopped, RowKeeps
<1>2. CASE RequestCancellation \/ Refuse
  <2>1. UNCHANGED <<ctx, step, late>>
    BY <1>2 DEF RequestCancellation, Refuse, historyVars
  <2>2. /\ row' = [field \in RowFields |-> row'[field]]
        /\ row'.completed = row.completed /\ row'.path = row.path
        /\ row'.plan = row.plan /\ row'.snapshot = row.snapshot
        /\ row'.cancel \in BOOLEAN /\ (row.cancel => row'.cancel)
    <3>1. CASE RequestCancellation
      BY <3>1 DEF RequestCancellation, RunInv, Shapes, RowFields
    <3>2. CASE Refuse
      BY <3>2 DEF Refuse, RunInv, Shapes, RowFields
    <3>3. QED
      BY <1>2, <3>1, <3>2
  <2>3. Shapes' /\ RowKeeps
    BY <2>1, <2>2 DEF RunInv, Shapes, RowKeeps
  <2>4. Carried'
    BY <2>1, <2>2 DEF RunInv, Carried
  <2>5. Stopped'
    BY <2>1, <2>2 DEF RunInv, Stopped
  <2>6. QED
    BY <2>3, <2>4, <2>5 DEF RunInv
<1>3. CASE Execute
  <2>1. /\ ctx' = BuildContext /\ late' = late /\ step = "idle" /\ step' = "check"
        /\ row' = [row EXCEPT !.status = "running", !.attempts = @ + 1]
    BY <1>3 DEF Execute, historyVars
  <2>2. /\ row' = [field \in RowFields |-> row'[field]]
        /\ row'.completed = row.completed /\ row'.path = row.path
        /\ row'.plan = row.plan /\ row'.snapshot = row.snapshot /\ row'.cancel = row.cancel
    BY <2>1 DEF RunInv, Shapes, RowFields
  <2>3. /\ ctx' = [field \in ContextFields |-> ctx'[field]] /\ ctx'.stage = 0
        /\ row.completed >= 1 => ctx'.path = row.path
        /\ row.completed >= 2 => ctx'.plan = row.plan
        /\ row.completed >= 3 => ctx'.snapshot = row.snapshot
    BY <2>1 DEF BuildContext, ContextFields
  <2>4. Shapes' /\ RowKeeps
    BY <2>2, <2>3 DEF RunInv, Shapes, RowKeeps
  <2>5. Carried'
    <3>1. ctx'.stage <= row'.completed
      BY <2>2, <2>3 DEF RunInv, Shapes
    <3>2. QED
      BY <2>1, <2>2, <2>3, <3>1, TheStages DEF Carried
  <2>6. Stopped'
    BY <2>1, <2>2 DEF RunInv, Stopped
  <2>7. QED
    BY <2>4, <2>5, <2>6 DEF RunInv
<1>4. QED
  BY <1>1, <1>2, <1>3

LEMMA RunNext == RunInv /\ [Next]_vars => RunInv' /\ RowKeeps
BY ReturningSteps, StageSteps, SettingSteps, NextStageKeeps, SaveKeeps, CallsKeep
DEF Next, Stages, Healing

-----------------------------------------------------------------------------
(* Folds. *)

\* What the fold computes of each set of positions, where a list has n entries.
Folding(f, base, seq, n) ==
    f = [s \in SUBSET (1 .. n) |->
            IF s = {} THEN base ELSE Rollback(f[s \ {Max(s)}], seq[Max(s)])]

LEMMA FoldingNext ==
    ASSUME NEW base, NEW seq, NEW n \in Nat \ {0}, NEW g, Folding(g, base, seq, n - 1)
    PROVE  \E f : Folding(f, base, seq, n)
<1> DEFINE f == [s \in SUBSET (1 .. n) |->
                    IF n \in s THEN Rollback(g[s \ {n}], seq[n]) ELSE g[s]]
<1> SUFFICES ASSUME NEW s \in SUBSET (1 .. n)
             PROVE  f[s] = IF s = {} THEN base ELSE Rollback(f[s \ {Max(s)}], seq[Max(s)])
  <2>1. f = [s \in SUBSET (1 .. n) |->
                 IF s = {} THEN base ELSE Rollback(f[s \ {Max(s)}], seq[Max(s)])]
    OBVIOUS
  <2>2. Folding(f, base, seq, n)
    BY <2>1, Zenon DEF Folding
  <2> QED
    BY <2>2
<1>1. CASE n \in s
  <2>1. Max(s) = n /\ s # {}
    BY <1>1, MaxIs
  <2>2. s \ {n} \in SUBSET (1 .. n) /\ n \notin s \ {n}
    OBVIOUS
  <2>3. f[s \ {n}] = g[s \ {n}] /\ f[s] = Rollback(g[s \ {n}], seq[n])
    BY <1>1, <2>2
  <2> QED
    BY <2>1, <2>3
<1>2. CASE n \notin s
  <2>1. s \in SUBSET (1 .. n - 1)
    BY <1>2
  <2>2. g[s] = IF s = {} THEN base ELSE Rollback(g[s \ {Max(s)}], seq[Max(s)])
    BY <2>1 DEF Folding
  <2>3. f[s] = g[s] /\ f[s \ {Max(s)}] = g[s \ {Max(s)}]
    BY <1>2
  <2> QED
    BY <2>2, <2>3
<1> QED
  BY <1>1, <1>2

LEMMA FoldingIs ==
    ASSUME NEW base, NEW seq, NEW n \in Nat
    PROVE  \E f : Folding(f, base, seq, n)
<1> DEFINE Without == {k \in Nat : ~ \E f : Folding(f, base, seq, k)}
<1> SUFFICES ASSUME Without # {} PROVE FALSE
  OBVIOUS
<1>1. PICK k \in Without : \A j \in Without : k <= j
  BY LeastNumber
<1>2. CASE k = 0
  <2> DEFINE f == [s \in SUBSET (1 .. 0) |-> base]
  <2>1. \A s \in SUBSET (1 .. 0) : s = {}
    OBVIOUS
  <2>2. f = [s \in SUBSET (1 .. 0) |->
                IF s = {} THEN base ELSE Rollback(f[s \ {Max(s)}], seq[Max(s)])]
    BY <2>1
  <2>3. Folding(f, base, seq, 0)
    BY <2>2, Zenon DEF Folding
  <2> QED
    BY <1>2, <2>3
<1>3. CASE k # 0
  <2>1. k - 1 \in Nat /\ k - 1 \notin Without
    BY <1>1, <1>3
  <2>2. PICK g : Folding(g, base, seq, k - 1)
    BY <2>1
  <2> QED
    BY <1>1, <1>3, <2>2, FoldingNext
<1> QED
  BY <1>2, <1>3

LEMMA FoldLeftIs ==
    ASSUME NEW base, NEW seq, NEW n \in Nat, DOMAIN seq = 1 .. n
    PROVE  \E f : Folding(f, base, seq, n) /\ FoldLeft(Rollback, base, seq) = f[1 .. n]
<1> DEFINE f == CHOOSE h : h = [s \in SUBSET DOMAIN seq |->
                    IF s = {} THEN base ELSE Rollback(h[s \ {Max(s)}], seq[Max(s)])]
<1>1. FoldLeft(Rollback, base, seq) = f[DOMAIN seq]
  BY Zenon DEF FoldLeft, MapThenFoldSet
<1>2. PICK h : Folding(h, base, seq, n)
  BY FoldingIs
<1>3. h = [s \in SUBSET DOMAIN seq |->
                    IF s = {} THEN base ELSE Rollback(h[s \ {Max(s)}], seq[Max(s)])]
  BY <1>2, Zenon DEF Folding
<1>4. f = [s \in SUBSET DOMAIN seq |->
                    IF s = {} THEN base ELSE Rollback(f[s \ {Max(s)}], seq[Max(s)])]
  BY <1>3, Zenon
<1>5. Folding(f, base, seq, n)
  BY <1>4, Zenon DEF Folding
<1> QED
  BY <1>1, <1>5, Zenon

\* One entry after the other.
Stepwise(f, base, seq, n) ==
    /\ f[1 .. 0] = base
    /\ \A k \in 1 .. n : f[1 .. k] = Rollback(f[1 .. k - 1], seq[k])

LEMMA FoldingSteps ==
    ASSUME NEW base, NEW seq, NEW n \in Nat, NEW f, Folding(f, base, seq, n)
    PROVE  Stepwise(f, base, seq, n)
<1>1. f[1 .. 0] = base
  BY DEF Folding
<1>2. ASSUME NEW k \in 1 .. n PROVE f[1 .. k] = Rollback(f[1 .. k - 1], seq[k])
  <2>1. (1 .. k) \in SUBSET (1 .. n) /\ (1 .. k) # {} /\ (1 .. k) \ {k} = 1 .. k - 1
    OBVIOUS
  <2>2. Max(1 .. k) = k
    BY MaxIs
  <2>3. f[1 .. k] = Rollback(f[(1 .. k) \ {Max(1 .. k)}], seq[Max(1 .. k)])
    BY <2>1 DEF Folding
  <2> QED
    BY <2>1, <2>2, <2>3
<1> QED
  BY <1>1, <1>2 DEF Stepwise

LEMMA FoldLeftSteps ==
    ASSUME NEW base, NEW seq, NEW n \in Nat, DOMAIN seq = 1 .. n
    PROVE  \E f : Stepwise(f, base, seq, n) /\ FoldLeft(Rollback, base, seq) = f[1 .. n]
<1>1. PICK f : Folding(f, base, seq, n) /\ FoldLeft(Rollback, base, seq) = f[1 .. n]
  BY FoldLeftIs
<1> QED
  BY <1>1, FoldingSteps

\* The first entry can be folded by itself.
LEMMA FoldFirst ==
    ASSUME NEW base, NEW S, NEW seq \in Seq(S), NEW first \in S
    PROVE  FoldLeft(Rollback, base, <<first>> \o seq) = FoldLeft(Rollback, Rollback(base, first), seq)
<1> DEFINE n == Len(seq)
           m == Len(seq) + 1
           all == <<first>> \o seq
           start == Rollback(base, first)
<1>1. /\ n \in Nat /\ m \in Nat /\ m = n + 1
      /\ DOMAIN seq = 1 .. n
      /\ DOMAIN all = 1 .. m /\ all[1] = first
      /\ \A k \in 1 .. n : all[k + 1] = seq[k]
  <2>1. <<first>> \in Seq(S) /\ Len(<<first>>) = 1
    OBVIOUS
  <2>2. all \in Seq(S) /\ Len(all) = m
    BY <2>1
  <2> QED
    BY <2>1, <2>2
<1>0. start = Rollback(base, first)
  OBVIOUS
<1> HIDE DEF n, m, all, start
<1>2. DOMAIN seq = 1 .. n /\ DOMAIN all = 1 .. m /\ n \in Nat /\ m \in Nat
  BY <1>1
<1>3. PICK f : Stepwise(f, base, all, m) /\ FoldLeft(Rollback, base, all) = f[1 .. m]
  BY <1>2, FoldLeftSteps
<1>4. PICK g : Stepwise(g, start, seq, n) /\ FoldLeft(Rollback, start, seq) = g[1 .. n]
  BY <1>2, FoldLeftSteps
<1>5. f[1 .. m] = g[1 .. n]
  <2>1. /\ f[1 .. 0] = base
        /\ \A k \in 1 .. m : f[1 .. k] = Rollback(f[1 .. k - 1], all[k])
    BY <1>3, <1>1 DEF Stepwise
  <2>2. /\ g[1 .. 0] = start
        /\ \A k \in 1 .. n : g[1 .. k] = Rollback(g[1 .. k - 1], seq[k])
    BY <1>4, <1>1 DEF Stepwise
  <2> DEFINE Apart == {k \in 0 .. n : f[1 .. k + 1] # g[1 .. k]}
  <2>3. SUFFICES ASSUME Apart # {} PROVE FALSE
    BY <1>1
  <2>4. Apart \in SUBSET Nat
    BY <1>1
  <2>5. PICK k \in Apart : \A j \in Apart : k <= j
    <3> HIDE DEF Apart
    <3> QED
      BY <2>3, <2>4, LeastNumber
  <2>6. k \in 0 .. n /\ f[1 .. k + 1] # g[1 .. k]
    BY <2>5
  <2>7. CASE k = 0
    <3>1. 1 \in 1 .. m /\ 1 - 1 = 0 /\ k + 1 = 1
      BY <1>1, <2>7
    <3>2. f[1 .. 1] = Rollback(f[1 .. 0], all[1])
      BY <2>1, <3>1
    <3> QED
      BY <1>0, <1>1, <2>1, <2>2, <2>6, <2>7, <3>1, <3>2
  <2>8. CASE k # 0
    <3>1. k \in 1 .. n /\ k + 1 \in 1 .. m /\ k - 1 \in 0 .. n /\ ~(k <= k - 1)
      BY <1>1, <2>6, <2>8
    <3>2. k - 1 \notin Apart
      BY <2>5, <3>1
    <3>3. (k - 1) + 1 = k /\ (k + 1) - 1 = k
      BY <3>1
    <3>4. f[1 .. k] = g[1 .. k - 1]
      BY <3>1, <3>2, <3>3
    <3>5. f[1 .. k + 1] = Rollback(f[1 .. k], all[k + 1])
      BY <1>1, <2>1, <3>1, <3>3
    <3>6. g[1 .. k] = Rollback(g[1 .. k - 1], seq[k]) /\ all[k + 1] = seq[k]
      BY <1>1, <2>2, <3>1
    <3> QED
      BY <2>6, <3>4, <3>5, <3>6
  <2> QED
    BY <2>7, <2>8
<1>6. FoldLeft(Rollback, base, all) = FoldLeft(Rollback, start, seq)
  BY <1>3, <1>4, <1>5
<1> QED
  BY <1>6 DEF all, start

LEMMA FoldNothing == ASSUME NEW base PROVE FoldLeft(Rollback, base, <<>>) = base
<1>1. DOMAIN <<>> = 1 .. 0
  OBVIOUS
<1>2. PICK f : Stepwise(f, base, <<>>, 0) /\ FoldLeft(Rollback, base, <<>>) = f[1 .. 0]
  BY <1>1, FoldLeftSteps
<1> QED
  BY <1>2 DEF Stepwise

LEMMA LastFirst ==
    ASSUME NEW S, NEW seq \in Seq(S), NEW last \in S
    PROVE  /\ Reverse(seq) \in Seq(S)
           /\ Reverse(Append(seq, last)) = <<last>> \o Reverse(seq)
<1> DEFINE n == Len(seq)
           one == Reverse(Append(seq, last))
           two == <<last>> \o Reverse(seq)
<1>1. Reverse(seq) \in Seq(S) /\ Len(Reverse(seq)) = n /\ n \in Nat
      /\ \A i \in 1 .. n : Reverse(seq)[i] = seq[n - i + 1]
  BY DEF Reverse
<1>2. Append(seq, last) \in Seq(S) /\ Len(Append(seq, last)) = n + 1
      /\ Append(seq, last)[n + 1] = last /\ \A i \in 1 .. n : Append(seq, last)[i] = seq[i]
  OBVIOUS
<1>3. one \in Seq(S) /\ Len(one) = n + 1
      /\ \A i \in 1 .. n + 1 : one[i] = Append(seq, last)[n + 1 - i + 1]
  BY <1>2 DEF Reverse
<1>4. two \in Seq(S) /\ Len(two) = n + 1 /\ two[1] = last
      /\ \A i \in 2 .. n + 1 : two[i] = Reverse(seq)[i - 1]
  BY <1>1
<1> HIDE DEF one, two, n
<1>5. ASSUME NEW i \in 1 .. n + 1 PROVE one[i] = two[i]
  <2>1. CASE i = 1
    BY <1>1, <1>2, <1>3, <1>4, <2>1
  <2>2. CASE i # 1
    <3>1. i \in 2 .. n + 1 /\ i - 1 \in 1 .. n /\ n + 1 - i + 1 \in 1 .. n
          /\ n - (i - 1) + 1 = n + 1 - i + 1
      BY <1>1, <2>2
    <3>2. one[i] = seq[n + 1 - i + 1]
      BY <1>2, <1>3, <3>1
    <3>3. two[i] = seq[n - (i - 1) + 1]
      BY <1>1, <1>4, <3>1
    <3> QED
      BY <3>1, <3>2, <3>3
  <2> QED
    BY <2>1, <2>2
<1>6. one = two
  BY <1>1, <1>3, <1>4, <1>5, SeqEqual
<1> QED
  BY <1>1, <1>6 DEF one, two

-----------------------------------------------------------------------------

(* The files, and what an attempt does with them. *)

Plain(tree) == tree = [file \in Files |-> tree[file]]
Tidy(d) == d = [w \in Workspaces |-> d[w]] /\ \A w \in Workspaces : Plain(d[w])

\* The workspace of the run exists from its first stage on; there is one for each
\* attempt at most.
Placed ==
    /\ Tidy(disk)
    /\ made \in Nat /\ row.attempts \in Nat /\ made <= row.attempts /\ row.attempts <= MaxAttempts
    /\ step = "materialize" \/ (step = "check" /\ row.completed = 0) => made < row.attempts
    /\ row.completed >= 1 => row.path \in Workspaces
    /\ step = "save" /\ ctx.stage = 0 => ctx.path \in Workspaces
\* Who can roll back has what to roll back to: an attempt that resumes a run whose
\* change was applied has the applier, unless the change wrote no file.
Settled ==
    /\ step # "idle" => row.status = "running" /\ ~refused
    /\ row.status = "completed" => row.completed = 5
    /\ FailedIsRolledBack
    /\ row.completed >= 3 => DOMAIN row.snapshot \subseteq Files
    /\ step # "idle" /\ row.completed >= 3 => ctx.applier \/ row.snapshot = None
    /\ step = "save" /\ ctx.stage = 2 => ctx.applier /\ DOMAIN ctx.snapshot \subseteq Files
Validated ==
    /\ gate = [status |-> gate.status, draft |-> gate.draft]
    /\ row.completed >= 4 /\ ~undone => gate.draft /\ disk[row.path] = passedOn
    /\ step = "save" /\ ctx.stage = 3 => gate.draft /\ disk[ctx.path] = passedOn
Healable ==
    /\ heal = [attempt |-> heal.attempt, snapshots |-> heal.snapshots, before |-> heal.before]
    /\ step \in {"fix", "revalidate", "restore"} =>
          heal.before = BeforeHealing /\ \E S : heal.snapshots \in Seq(S)
    /\ HealingRestores
    /\ step \in {"fix", "revalidate", "restore", "unhealed"} => Plain(heal.before)
Counted == faults \in [FaultKinds -> Nat] /\ undone \in BOOLEAN
Kept == Counted /\ Placed /\ Settled /\ Validated /\ Healable

\* One workspace replaced.
Put(d, w, t) == [d EXCEPT ![w] = t]

LEMMA PutTidy ==
    ASSUME NEW d, Tidy(d), NEW w, NEW t, Plain(t)
    PROVE  /\ Tidy(Put(d, w, t))
           /\ w \in Workspaces => Put(d, w, t)[w] = t
           /\ \A v \in Workspaces \ {w} : Put(d, w, t)[v] = d[v]
<1> DEFINE e == Put(d, w, t)
<1>1. DOMAIN d = Workspaces
  BY DEF Tidy
<1>2. /\ e = [v \in Workspaces |-> e[v]]
      /\ w \in Workspaces => e[w] = t
      /\ \A v \in Workspaces \ {w} : e[v] = d[v]
  BY <1>1 DEF Put
<1> HIDE DEF e
<1>3. \A v \in Workspaces : Plain(e[v])
  BY <1>2 DEF Tidy
<1>4. Tidy(e)
  BY <1>2, <1>3 DEF Tidy
<1> QED
  BY <1>2, <1>4 DEF e

\* Whatever is written can be taken back.
LEMMA WriteUndone ==
    ASSUME NEW tree, Plain(tree), NEW changes, NEW k
    PROVE  /\ Rollback(Write(tree, changes, k), Snapshot(tree, changes)) = tree
           /\ Plain(Write(tree, changes, k))
           /\ DOMAIN Snapshot(tree, changes) \subseteq Files
<1> DEFINE written == Write(tree, changes, k)
           saved == Snapshot(tree, changes)
           changed(file) == Changed(tree, Compute(tree, changes), file)
<1>1. written = [file \in Files |-> written[file]]
  BY DEF Write
<1>2. ASSUME NEW file \in Files, changed(file) = {} PROVE written[file] = tree[file]
  <2>1. {name \in changed(file) : Mention(changes, name) <= k} = {}
    BY <1>2
  <2> QED
    BY <2>1 DEF Write
<1>3. /\ DOMAIN saved = {file \in Files : changed(file) # {}}
      /\ \A file \in DOMAIN saved : saved[file] = tree[file]
  BY DEF Snapshot
<1> HIDE DEF written, saved, changed
<1>4. Rollback(written, saved) = [file \in Files |-> tree[file]]
  BY <1>2, <1>3 DEF Rollback
<1>5. Rollback(written, saved) = tree
  BY <1>4 DEF Plain
<1> QED
  BY <1>1, <1>3, <1>5 DEF written, saved, Plain

LEMMA RolledPlain == \A tree, snapshot : Plain(Rollback(tree, snapshot))
BY DEF Plain, Rollback

\* While a stage runs, the workspace of the run is the one of its context.
LEMMA AtWork ==
    ASSUME RunInv, Kept, step # "idle", row.completed >= 1
    PROVE  ctx.path = row.path /\ ctx.path \in Workspaces /\ Plain(disk[ctx.path])
BY DEF RunInv, Carried, Kept, Placed, Tidy

\* Where the files of a change are written, in part or all.
LEMMA AppliedTidy ==
    ASSUME RunInv, Kept, step \in {"apply", "fix"}, NEW changes, NEW k
    PROVE  /\ Tidy(Applied(changes, k))
           /\ Applied(changes, k)[ctx.path] = Write(disk[ctx.path], changes, k)
<1>1. row.completed >= 1 /\ step # "idle"
  BY TheStages DEF RunInv, Carried, StageOf
<1>2. ctx.path \in Workspaces /\ Plain(disk[ctx.path]) /\ Tidy(disk)
  BY <1>1, AtWork DEF Kept, Placed
<1> DEFINE written == Write(disk[ctx.path], changes, k)
<1>3. Plain(written)
  BY <1>2, WriteUndone
<1>4. Applied(changes, k) = Put(disk, ctx.path, written)
  BY DEF Applied, Put
<1> HIDE DEF written
<1>5. /\ Tidy(Applied(changes, k))
      /\ Applied(changes, k)[ctx.path] = written
  BY <1>2, <1>3, <1>4, PutTidy
<1> QED
  BY <1>5 DEF written
LEMMA HalfTidy ==
    ASSUME RunInv, Kept, NEW files \in HalfWritten
    PROVE  Tidy(files) /\ step \in {"apply", "fix"} /\ row.completed <= 3
<1>1. PICK changes, k : step \in {"apply", "fix"} /\ files = Applied(changes, k)
  BY DEF HalfWritten
<1>2. row.completed <= 3
  BY <1>1, TheStages DEF RunInv, Carried, StageOf
<1> QED
  BY <1>1, <1>2, AppliedTidy

\* A stage that fails, and the time that is up: the row, and the files of the change
\* back as they were.
LEMMA FailDisk ==
    ASSUME RunInv, Kept, step # "idle", NEW files, Fail(files),
           files = disk \/ files \in HalfWritten
    PROVE  /\ Tidy(disk')
           /\ row.completed >= 3 =>
                 \A file \in DOMAIN row.snapshot : disk'[row.path][file] = row.snapshot[file]
           /\ undone' \in BOOLEAN
           /\ \/ row.completed < 4 \/ undone'
              \/ disk'[row.path] = disk[row.path] /\ ~undone
<1>0. row.completed \in 0 .. 5
  BY DEF RunInv, Shapes
<1>1. Tidy(files) /\ (row.completed >= 4 => files = disk)
  <2>1. CASE files = disk
    BY <2>1 DEF Kept, Placed
  <2>2. CASE files \in HalfWritten
    BY <1>0, <2>2, HalfTidy
  <2> QED
    BY <2>1, <2>2
<1>2. disk' = RolledBack(files) /\ undone' = (undone \/ (ctx.applier /\ ctx.snapshot # None))
  BY DEF Fail
<1>3. CASE ~ctx.applier
  <2>1. disk' = files
    BY <1>2, <1>3 DEF RolledBack
  <2>2. row.completed >= 3 => row.snapshot = <<>>
    BY <1>3 DEF Kept, Settled, None
  <2>3. row.completed >= 3 =>
           \A file \in DOMAIN row.snapshot : disk'[row.path][file] = row.snapshot[file]
    BY <2>2
  <2>4. row.completed >= 4 => disk'[row.path] = disk[row.path]
    BY <1>1, <2>1
  <2>5. undone' = undone /\ undone \in BOOLEAN
    BY <1>2, <1>3 DEF Kept, Counted
  <2> QED
    BY <1>0, <1>1, <2>1, <2>3, <2>4, <2>5
<1>4. CASE ctx.applier
  <2> DEFINE back == Rollback(files[ctx.path], ctx.snapshot)
  <2>1. disk' = Put(files, ctx.path, back) /\ Plain(back)
    BY <1>2, <1>4, RolledPlain DEF RolledBack, Put
  <2>2. \A file \in Files \cap DOMAIN ctx.snapshot : back[file] = ctx.snapshot[file]
    BY DEF Rollback
  <2>3. ASSUME ctx.snapshot = None, Plain(files[ctx.path]) PROVE back = files[ctx.path]
    <3>1. \A file : file \notin DOMAIN ctx.snapshot
      BY <2>3 DEF None
    <3>2. back = [file \in Files |-> files[ctx.path][file]]
      BY <3>1 DEF Rollback
    <3> QED
      BY <2>3, <3>2 DEF Plain
  <2> HIDE DEF back
  <2>0. undone' \in BOOLEAN /\ undone \in BOOLEAN /\ (ctx.snapshot = None => undone' = undone)
    BY <1>2 DEF Kept, Counted
  <2>4. /\ Tidy(disk')
        /\ ctx.path \in Workspaces => disk'[ctx.path] = back
    BY <1>1, <2>1, PutTidy
  <2>5. CASE row.completed >= 3
    <3>1. ctx.path = row.path /\ ctx.path \in Workspaces /\ Plain(disk[ctx.path])
      BY <2>5, AtWork DEF RunInv, Shapes
    <3>2. ctx.snapshot = row.snapshot /\ DOMAIN row.snapshot \subseteq Files
      BY <2>5 DEF RunInv, Carried, Kept, Settled
    <3>3. \A file \in DOMAIN row.snapshot : disk'[row.path][file] = row.snapshot[file]
      BY <2>2, <2>4, <3>1, <3>2
    <3>4. CASE ctx.snapshot = None /\ row.completed >= 4
      BY <1>1, <2>0, <2>3, <2>4, <3>1, <3>3, <3>4
    <3>5. CASE ctx.snapshot # None
      BY <1>2, <1>4, <2>0, <2>4, <3>3, <3>5
    <3>6. CASE row.completed < 4
      BY <2>0, <2>4, <3>3, <3>6
    <3> QED
      BY <1>0, <3>4, <3>5, <3>6
  <2>6. CASE row.completed < 3
    BY <1>0, <2>0, <2>4, <2>6
  <2> QED
    BY <1>0, <2>5, <2>6
<1> QED
  BY <1>3, <1>4

\* The steps in which execute gives up with the rollback.
LEMMA FailingSteps ==
    ASSUME RunInv, Kept,
           TimeOut \/ GenerateFails \/ ApplyFails \/ ValidatorRaises \/ FixesBreak \/ Unhealed
              \/ HealedFails
    PROVE  /\ step # "idle"
           /\ \E files : Fail(files) /\ (files = disk \/ files \in HalfWritten)
           /\ gate' = gate \/ gate' = [gate EXCEPT !.status = "failed"]
<1>1. \/ TimeOut /\ step = "check" /\ Fail(disk) /\ gate' = gate
      \/ GenerateFails /\ step = "generate" /\ Fail(disk) /\ gate' = gate
      \/ ApplyFails /\ step = "apply" /\ gate' = gate
           /\ (Fail(disk) \/ \E files \in HalfWritten : Fail(files))
      \/ ValidatorRaises /\ step # "idle" /\ Fail(disk) /\ gate' = gate
      \/ FixesBreak /\ step = "fix" /\ gate' = gate /\ (\E files \in HalfWritten : Fail(files))
      \/ Unhealed /\ step = "unhealed" /\ Fail(disk) /\ gate' = gate
      \/ HealedFails /\ step = "healed" /\ Fail(disk) /\ gate' = [gate EXCEPT !.status = "failed"]
  BY DEF TimeOut, GenerateFails, ApplyFails, ValidatorRaises, FixesBreak, Unhealed, HealedFails
<1> QED
  BY <1>1

-----------------------------------------------------------------------------
(* Steps that write no file. *)

Quietly ==
    \/ Approve \/ Withdraw \/ RequestCancellation \/ Refuse \/ Cancel \/ Complete \/ Generate
    \/ ValidatePasses \/ ValidateFails \/ DraftPr \/ NoFixes \/ RevalidatePasses
    \/ RevalidateFails \/ HealedPasses \/ UNCHANGED vars

LEMMA QuietRow ==
    ASSUME RunInv, Quietly
    PROVE  /\ UNCHANGED <<disk, made>>
           /\ row'.attempts = row.attempts /\ row'.completed = row.completed
           /\ row'.path = row.path /\ row'.snapshot = row.snapshot
<1>1. UNCHANGED <<disk, made>>
  BY DEF Quietly, Approve, Withdraw, RequestCancellation, Refuse, Cancel, Complete, Generate,
     ValidatePasses, ValidateFails, DraftPr, NoFixes, RevalidatePasses, RevalidateFails,
     HealedPasses, vars, workVars
<1>2. \/ row' = row
      \/ row' = [row EXCEPT !.cancel = TRUE]
      \/ \E status : row' = [row EXCEPT !.status = status]
  BY DEF Quietly, Approve, Withdraw, RequestCancellation, Refuse, Cancel, Complete, Generate,
     ValidatePasses, ValidateFails, DraftPr, NoFixes, RevalidatePasses, RevalidateFails,
     HealedPasses, vars, Return
<1>3. DOMAIN row = RowFields
  BY DEF RunInv, Shapes
<1> QED
  BY <1>1, <1>2, <1>3 DEF RowFields

LEMMA QuietStep ==
    ASSUME RunInv, Quietly
    PROVE  \/ step' = step /\ ctx' = ctx
           \/ step' = "idle"
           \/ step' = "save" /\ step \in {"generate", "validate", "draft_pr", "healed"}
              /\ ctx'.stage = ctx.stage /\ ctx.stage \in 1 .. 4 /\ step # "idle"
           \/ step' \in {"fix", "revalidate", "restore", "healed"} /\ ctx' = ctx
              /\ step \in {"validate", "fix", "revalidate"}
<1>1. CASE Approve \/ Withdraw \/ RequestCancellation \/ Refuse \/ UNCHANGED vars
  BY <1>1 DEF Approve, Withdraw, RequestCancellation, Refuse, vars
<1>2. CASE Cancel \/ Complete
  BY <1>2 DEF Cancel, Complete, Return
<1>3. CASE Generate
  BY <1>3, TheStages DEF Generate, RunInv, Shapes, Carried, StageOf, ContextFields
<1>4. CASE ValidatePasses \/ DraftPr \/ HealedPasses
  BY <1>4, TheStages DEF ValidatePasses, DraftPr, HealedPasses, Pass, RunInv, Shapes, Carried, StageOf
<1>5. CASE ValidateFails \/ NoFixes \/ RevalidatePasses \/ RevalidateFails
  BY <1>5 DEF ValidateFails, NoFixes, RevalidatePasses, RevalidateFails
<1> QED
  BY <1>1, <1>2, <1>3, <1>4, <1>5 DEF Quietly

LEMMA PlacedQuiet == ASSUME RunInv, Kept, Quietly PROVE Placed'
<1>1. /\ UNCHANGED <<disk, made>>
      /\ row'.attempts = row.attempts /\ row'.completed = row.completed /\ row'.path = row.path
  BY QuietRow
<1>2. Tidy(disk) /\ Tidy(disk)'
  BY <1>1 DEF Kept, Placed, Tidy, Plain
<1>3. /\ step' = "materialize" \/ (step' = "check" /\ row'.completed = 0) => made' < row'.attempts
      /\ step' = "save" /\ ctx'.stage = 0 => ctx'.path \in Workspaces
  BY <1>1, QuietStep DEF Kept, Placed
<1> QED
  BY <1>1, <1>2, <1>3 DEF Kept, Placed

-----------------------------------------------------------------------------
(* Where the workspaces are. *)

LEMMA PlacedFailing ==
    ASSUME RunInv, Kept,
           TimeOut \/ GenerateFails \/ ApplyFails \/ ValidatorRaises \/ FixesBreak \/ Unhealed
              \/ HealedFails
    PROVE  Placed'
<1>1. PICK files : step # "idle" /\ Fail(files) /\ (files = disk \/ files \in HalfWritten)
  BY FailingSteps
<1>2. Tidy(disk')
  BY <1>1, FailDisk
<1>3. /\ step' = "idle" /\ made' = made /\ row' = [row EXCEPT !.status = "failed"]
  BY <1>1 DEF Fail, Return
<1>4. row'.attempts = row.attempts /\ row'.completed = row.completed /\ row'.path = row.path
  BY <1>3 DEF RunInv, Shapes, RowFields
<1> QED
  BY <1>2, <1>3, <1>4 DEF Kept, Placed, Tidy, Plain

LEMMA PlacedStages == ASSUME RunInv, Kept, NextStage \/ SaveStage PROVE Placed'
<1>1. UNCHANGED <<disk, made>> /\ row'.attempts = row.attempts
  BY DEF NextStage, SaveStage, workVars, RunInv, Shapes, RowFields
<1>2. Tidy(disk) /\ Tidy(disk)'
  BY <1>1 DEF Kept, Placed, Tidy, Plain
<1>3. CASE NextStage
  <2>1. row' = row /\ step = "check" /\ step' # "save"
    BY <1>3, TheStages DEF NextStage, STAGES, RunInv, Shapes
  <2>2. step' = "materialize" => row.completed = 0
    BY <1>3, TheStages DEF NextStage, STAGES, RunInv, Shapes, Carried
  <2>3. step' = "check" => row.completed > 0
    BY <1>3, TheStages DEF NextStage, STAGES, RunInv, Shapes, Carried
  <2> QED
    BY <1>1, <1>2, <2>1, <2>2, <2>3 DEF Kept, Placed
<1>4. CASE SaveStage
  <2>1. /\ step = "save" /\ step' = "check" /\ row'.completed = row.completed + 1
        /\ row'.path = ctx.path /\ ctx.stage = row.completed
        /\ row.completed >= 1 => ctx.path = row.path
    BY <1>4 DEF SaveStage, RunInv, Shapes, RowFields, Carried
  <2>2. row.completed \in 0 .. 5
    BY DEF RunInv, Shapes
  <2>3. row'.path \in Workspaces /\ row'.completed > 0
    BY <2>1, <2>2 DEF Kept, Placed
  <2> QED
    BY <1>1, <1>2, <2>1, <2>3 DEF Kept, Placed
<1> QED
  BY <1>3, <1>4

LEMMA NewWorkspace ==
    ASSUME RunInv, Kept, step = "materialize", NEW files, Plain(files), CreateWorkspace(files)
    PROVE  /\ Tidy(disk') /\ made' \in Nat /\ made' <= row.attempts /\ made' \in Workspaces
           /\ made' = made + 1
<1>1. /\ made \in Nat /\ row.attempts \in Nat /\ made < row.attempts /\ row.attempts <= MaxAttempts
      /\ Tidy(disk)
  BY DEF Kept, Placed
<1>2. made' = made + 1 /\ disk' = Put(disk, made + 1, files)
  BY DEF CreateWorkspace, Put
<1>3. Tidy(disk')
  BY <1>1, <1>2, PutTidy
<1> QED
  BY <1>1, <1>2, <1>3, RunAssumption DEF Workspaces

LEMMA PlacedWriting ==
    ASSUME RunInv, Kept,
           Execute \/ MaterializeFails \/ Materialize \/ Apply \/ ApplyFixes \/ Restore
              \/ RollbackFails \/ Die
    PROVE  Placed'
<1>0. row.completed \in 0 .. 5 /\ DOMAIN row = RowFields /\ DOMAIN ctx = ContextFields
  BY DEF RunInv, Shapes
<1>1. CASE Execute
  <2>1. /\ UNCHANGED <<disk, made>> /\ row' = [row EXCEPT !.status = "running", !.attempts = @ + 1]
        /\ step' = "check" /\ row.attempts < MaxAttempts
    BY <1>1 DEF Execute, workVars
  <2>2. /\ row'.attempts = row.attempts + 1 /\ row'.completed = row.completed
        /\ row'.path = row.path
    BY <1>0, <2>1 DEF RowFields
  <2>3. Tidy(disk) /\ Tidy(disk)'
    BY <2>1 DEF Kept, Placed, Tidy, Plain
  <2> QED
    BY <2>1, <2>2, <2>3, RunAssumption DEF Kept, Placed
<1>2. CASE MaterializeFails
  <2>1. Plain(Empty) /\ Plain(Redacted)
    BY DEF Plain, Empty, Redacted
  <2>2. /\ step = "materialize" /\ step' = "idle" /\ row' = [row EXCEPT !.status = "failed"]
        /\ UNCHANGED <<made, disk>> \/ \E files \in {Empty, Redacted} : CreateWorkspace(files)
    BY <1>2 DEF MaterializeFails, Return, workVars
  <2>3. Tidy(disk') /\ made' \in Nat /\ made' <= row.attempts
    BY <2>1, <2>2, NewWorkspace DEF Kept, Placed
  <2>4. row'.attempts = row.attempts /\ row'.completed = row.completed /\ row'.path = row.path
    BY <1>0, <2>2 DEF RowFields
  <2> QED
    BY <2>2, <2>3, <2>4 DEF Kept, Placed, Tidy, Plain
<1>3. CASE Materialize
  <2>1. Plain(Redacted)
    BY DEF Plain, Redacted
  <2>2. /\ step = "materialize" /\ step' = "save" /\ row' = row
        /\ CreateWorkspace(Redacted) /\ ctx' = [ctx EXCEPT !.path = made + 1]
    BY <1>3 DEF Materialize
  <2>3. Tidy(disk') /\ made' \in Nat /\ made' <= row.attempts /\ made + 1 \in Workspaces
    BY <2>1, <2>2, NewWorkspace DEF Kept, Placed
  <2>4. ctx'.path \in Workspaces
    BY <1>0, <2>2, <2>3 DEF ContextFields
  <2> QED
    BY <2>2, <2>3, <2>4 DEF Kept, Placed, Tidy, Plain
<1>4. CASE Apply \/ ApplyFixes
  <2>1. /\ step \in {"apply", "fix"} /\ row' = row /\ made' = made
        /\ step' = "revalidate" \/ (step = "apply" /\ step' = "save" /\ ctx'.stage = ctx.stage)
        /\ \E changes : disk' = Applied(changes, Len(changes))
    BY <1>0, <1>4 DEF Apply, ApplyFixes, ContextFields
  <2>2. Tidy(disk')
    BY <2>1, AppliedTidy
  <2>3. step = "apply" => ctx.stage = 2
    BY TheStages DEF RunInv, Carried, StageOf
  <2> QED
    BY <2>1, <2>2, <2>3 DEF Kept, Placed, Tidy, Plain
<1>5. CASE Restore
  <2>1. /\ step = "restore" /\ step' = "unhealed" /\ row' = row /\ made' = made
        /\ disk' = Put(disk, ctx.path, BeforeHealing)
    BY <1>5 DEF Restore, Put
  <2>2. Plain(BeforeHealing) /\ Tidy(disk)
    BY <2>1 DEF Kept, Healable, Placed
  <2>3. Tidy(disk')
    BY <2>1, <2>2, PutTidy
  <2> QED
    BY <2>1, <2>3 DEF Kept, Placed, Tidy, Plain
<1>6. CASE RollbackFails
  <2>1. PICK restored \in SUBSET DOMAIN ctx.snapshot :
           disk' = [disk EXCEPT ![ctx.path] =
                      [file \in Files |-> IF file \in restored THEN ctx.snapshot[file] ELSE @[file]]]
    BY <1>6 DEF RollbackFails
  <2> DEFINE t == [file \in Files |-> IF file \in restored THEN ctx.snapshot[file]
                                      ELSE disk[ctx.path][file]]
  <2>2. disk' = Put(disk, ctx.path, t)
    BY <2>1 DEF Put
  <2>3. Plain(t)
    BY DEF Plain
  <2> HIDE DEF t
  <2>4. Tidy(disk')
    BY <2>2, <2>3, PutTidy DEF Kept, Placed
  <2>5. step' = "idle" /\ row' = [row EXCEPT !.status = "failed"] /\ made' = made
    BY <1>6 DEF RollbackFails, Return
  <2>6. row'.attempts = row.attempts /\ row'.completed = row.completed /\ row'.path = row.path
    BY <1>0, <2>5 DEF RowFields
  <2> QED
    BY <2>4, <2>5, <2>6 DEF Kept, Placed, Tidy, Plain
<1>7. CASE Die
  <2>1. step' = "idle" /\ row' = row /\ made' = made /\ disk' \in {disk} \cup HalfWritten
    BY <1>7 DEF Die
  <2>2. Tidy(disk')
    BY <2>1, HalfTidy DEF Kept, Placed
  <2> QED
    BY <2>1, <2>2 DEF Kept, Placed, Tidy, Plain
<1> QED
  BY <1>1, <1>2, <1>3, <1>4, <1>5, <1>6, <1>7

LEMMA PlacedNext == RunInv /\ Kept /\ [Next]_vars => Placed'
BY PlacedQuiet, PlacedFailing, PlacedStages, PlacedWriting DEF Next, Stages, Healing, Quietly

-----------------------------------------------------------------------------
(* What a failure leaves. *)

LEMMA SettledQuiet == ASSUME RunInv, RunInv', Kept, Quietly PROVE Settled'
<1>1. /\ UNCHANGED <<disk, made>>
      /\ row'.completed = row.completed /\ row'.path = row.path /\ row'.snapshot = row.snapshot
  BY QuietRow
<1>2. /\ DOMAIN row = RowFields /\ DOMAIN ctx = ContextFields
      /\ row.completed \in 0 .. 5 /\ ctx.stage \in 0 .. 5
  BY DEF RunInv, Shapes
<1>3. row.completed >= 3 => DOMAIN row.snapshot \subseteq Files
  BY DEF Kept, Settled
<1>4. CASE Approve \/ Withdraw \/ UNCHANGED vars
  BY <1>1, <1>4 DEF Approve, Withdraw, vars, historyVars, Kept, Settled, FailedIsRolledBack
<1>5. CASE RequestCancellation
  <2>1. UNCHANGED <<refused, step, ctx, faults>> /\ row'.status = row.status
    BY <1>2, <1>5 DEF RequestCancellation, RowFields
  <2> QED
    BY <1>1, <2>1 DEF Kept, Settled, FailedIsRolledBack
<1>6. CASE Refuse
  <2>1. UNCHANGED <<step, ctx, faults>> /\ row'.status = "failed" /\ step = "idle"
    BY <1>2, <1>6 DEF Refuse, RowFields
  <2>2. ~refused' => ~refused /\ row.status = "failed"
    BY <1>6 DEF Refuse
  <2> QED
    BY <1>1, <2>1, <2>2 DEF Kept, Settled, FailedIsRolledBack
<1>7. CASE Cancel
  <2>1. refused' = refused /\ step' = "idle" /\ row'.status = "cancelled" /\ step = "check"
    BY <1>2, <1>7 DEF Cancel, Return, RowFields
  <2> QED
    BY <1>1, <2>1 DEF Kept, Settled, FailedIsRolledBack
<1>8. CASE Complete
  <2>1. /\ refused' = refused /\ step' = "idle" /\ row'.status = "completed" /\ step = "check"
        /\ ctx.stage = 5
    BY <1>2, <1>8, TheStages DEF Complete, Return, RowFields
  <2>2. row.completed = 5
    BY <1>2, <2>1 DEF RunInv, Carried
  <2> QED
    BY <1>1, <2>1, <2>2 DEF Kept, Settled, FailedIsRolledBack
<1>9. CASE \/ Generate \/ ValidatePasses \/ ValidateFails \/ DraftPr \/ NoFixes
           \/ RevalidatePasses \/ RevalidateFails \/ HealedPasses
  <2>1. /\ UNCHANGED <<refused, row, faults>> /\ step # "idle" /\ step' # "idle"
        /\ step \notin {"check", "save"}
    BY <1>9 DEF Generate, ValidatePasses, ValidateFails, DraftPr, NoFixes, RevalidatePasses,
       RevalidateFails, HealedPasses, Pass, historyVars
  <2>2. ctx'.applier = ctx.applier /\ ctx'.stage = ctx.stage
    BY <1>2, <1>9 DEF Generate, ValidatePasses, ValidateFails, DraftPr, NoFixes, RevalidatePasses,
       RevalidateFails, HealedPasses, ContextFields
  <2>3. step' = "save" => ctx.stage # 2
    BY <1>9, TheStages DEF Generate, ValidatePasses, ValidateFails, DraftPr, NoFixes,
       RevalidatePasses, RevalidateFails, HealedPasses, Pass, RunInv, Carried, StageOf
  <2> QED
    BY <1>1, <2>1, <2>2, <2>3 DEF Kept, Settled, FailedIsRolledBack
<1> QED
  BY <1>4, <1>5, <1>6, <1>7, <1>8, <1>9 DEF Quietly

LEMMA SettledFailing ==
    ASSUME RunInv, Kept,
           TimeOut \/ GenerateFails \/ ApplyFails \/ ValidatorRaises \/ FixesBreak \/ Unhealed
              \/ HealedFails
    PROVE  Settled'
<1>1. PICK files : step # "idle" /\ Fail(files) /\ (files = disk \/ files \in HalfWritten)
  BY FailingSteps
<1>2. /\ step' = "idle" /\ refused' = refused /\ row' = [row EXCEPT !.status = "failed"]
  BY <1>1 DEF Fail, Return
<1>3. /\ row'.completed = row.completed /\ row'.path = row.path /\ row'.status = "failed"
      /\ row'.snapshot = row.snapshot
  BY <1>2 DEF RunInv, Shapes, RowFields
<1>4. row.completed >= 3 =>
         \A file \in DOMAIN row.snapshot : disk'[row.path][file] = row.snapshot[file]
  BY <1>1, FailDisk
<1>5. FailedIsRolledBack'
  BY <1>3, <1>4 DEF FailedIsRolledBack
<1> QED
  BY <1>1, <1>2, <1>3, <1>5 DEF Kept, Settled

LEMMA SettledStages == ASSUME RunInv, RunInv', Kept, NextStage \/ SaveStage PROVE Settled'
<1>0. /\ DOMAIN row = RowFields /\ DOMAIN ctx = ContextFields
      /\ row.completed \in 0 .. 5 /\ ctx.stage \in 0 .. 5
  BY DEF RunInv, Shapes
<1>1. UNCHANGED <<refused, disk, faults>> /\ ctx'.applier = ctx.applier
      /\ row'.status = row.status /\ step # "idle"
  BY <1>0 DEF NextStage, SaveStage, workVars, RowFields, ContextFields
<1>2. row.status = "running" /\ ~refused
  BY <1>1 DEF Kept, Settled
<1>3. CASE NextStage
  <2>1. row' = row /\ step' # "save"
    BY <1>0, <1>3, TheStages DEF NextStage, STAGES
  <2> QED
    BY <1>1, <1>2, <2>1 DEF Kept, Settled, FailedIsRolledBack
<1>4. CASE SaveStage
  <2>1. /\ step = "save" /\ step' = "check" /\ row'.completed = row.completed + 1
        /\ row'.snapshot = ctx.snapshot /\ ctx.stage = row.completed
        /\ row.completed >= 3 => ctx.snapshot = row.snapshot
    BY <1>0, <1>4 DEF SaveStage, RowFields, RunInv, Carried
  <2>2. row'.completed >= 3 => DOMAIN row'.snapshot \subseteq Files
    BY <1>0, <2>1 DEF Kept, Settled
  <2>3. row'.completed >= 3 => ctx'.applier \/ row'.snapshot = None
    BY <1>0, <1>1, <2>1 DEF Kept, Settled
  <2> QED
    BY <1>1, <1>2, <2>1, <2>2, <2>3 DEF Settled, FailedIsRolledBack
<1> QED
  BY <1>3, <1>4

LEMMA SettledWriting ==
    ASSUME RunInv, RunInv', Kept,
           Execute \/ MaterializeFails \/ Materialize \/ Apply \/ ApplyFixes \/ Restore
              \/ RollbackFails \/ Die
    PROVE  Settled'
<1>0. row.completed \in 0 .. 5 /\ DOMAIN row = RowFields /\ DOMAIN ctx = ContextFields
  BY DEF RunInv, Shapes
<1>1. CASE Execute
  <2>1. /\ ~refused' /\ ctx' = BuildContext
        /\ row' = [row EXCEPT !.status = "running", !.attempts = @ + 1]
        /\ step' = "check"
    BY <1>1 DEF Execute
  <2>2. /\ row'.status = "running" /\ row'.completed = row.completed
        /\ row'.snapshot = row.snapshot
    BY <1>0, <2>1 DEF RowFields
  <2>3. row.completed >= 3 => ctx'.applier \/ row.snapshot = None
    BY <2>1 DEF BuildContext
  <2> QED
    BY <2>1, <2>2, <2>3 DEF Kept, Settled, FailedIsRolledBack
<1>2. CASE MaterializeFails \/ RollbackFails
  <2>1. /\ step' = "idle" /\ row' = [row EXCEPT !.status = "failed"] /\ step # "idle"
        /\ refused' = refused
    BY <1>2 DEF MaterializeFails, RollbackFails, Return
  <2>2. MaterializeFails => row.completed = 0
    BY TheStages DEF MaterializeFails, RunInv, Carried, StageOf
  <2>3. RollbackFails => faults'.rollback # 0
    <3> SUFFICES ASSUME Fault("rollback") PROVE faults'.rollback # 0
      BY DEF RollbackFails
    <3>1. faults.rollback \in Nat /\ "rollback" \in DOMAIN faults
      BY DEF Kept, Counted, FaultKinds
    <3>2. faults'.rollback = faults.rollback + 1
      BY <3>1 DEF Fault
    <3> QED
      BY <3>1, <3>2
  <2>4. /\ row'.status = "failed" /\ row'.completed = row.completed
        /\ row'.snapshot = row.snapshot
    BY <1>0, <2>1 DEF RowFields
  <2>5. FailedIsRolledBack'
    BY <1>2, <2>2, <2>3, <2>4 DEF FailedIsRolledBack
  <2> QED
    BY <2>1, <2>4, <2>5 DEF Kept, Settled
<1>3. CASE Materialize \/ Apply \/ ApplyFixes \/ Restore
  <2>1. /\ UNCHANGED <<row, refused>> /\ step # "idle" /\ step' # "idle"
    BY <1>3 DEF Materialize, Apply, ApplyFixes, Restore
  <2>2. row.status = "running" /\ ~refused
    BY <2>1 DEF Kept, Settled
  <2>3. /\ ctx'.applier = ctx.applier \/ ctx'.applier
        /\ step' = "save" /\ ctx'.stage = 2 => ctx'.applier /\ DOMAIN ctx'.snapshot \subseteq Files
    <3>1. CASE Materialize
      <4>1. ctx.stage = 0
        BY <3>1, TheStages DEF Materialize, RunInv, Carried, StageOf
      <4> QED
        BY <1>0, <3>1, <4>1 DEF Materialize, ContextFields
    <3>2. CASE Apply
      <4>1. row.completed = 2 /\ step = "apply"
        BY <3>2, TheStages DEF Apply, RunInv, Carried, StageOf
      <4>2. Plain(disk[ctx.path])
        BY <4>1, AtWork
      <4>3. DOMAIN Snapshot(disk[ctx.path], ctx.plan) \subseteq Files
        BY <4>2, WriteUndone
      <4> QED
        BY <1>0, <3>2, <4>3 DEF Apply, ContextFields
    <3>3. CASE ApplyFixes \/ Restore
      BY <3>3 DEF ApplyFixes, Restore
    <3> QED
      BY <1>3, <3>1, <3>2, <3>3
  <2> QED
    BY <2>1, <2>2, <2>3 DEF Kept, Settled, FailedIsRolledBack
<1>4. CASE Die
  <2>1. step # "idle" /\ step' = "idle" /\ row' = row /\ refused' = refused
    BY <1>4 DEF Die
  <2> QED
    BY <2>1 DEF Kept, Settled, FailedIsRolledBack
<1> QED
  BY <1>1, <1>2, <1>3, <1>4

LEMMA SettledNext == RunInv /\ RunInv' /\ Kept /\ [Next]_vars => Settled'
BY SettledQuiet, SettledFailing, SettledStages, SettledWriting DEF Next, Stages, Healing, Quietly

LEMMA CountedNext == ASSUME Kept, [Next]_vars PROVE Counted'
<1>1. faults' = faults \/ \E kind \in FaultKinds : faults' = [faults EXCEPT ![kind] = @ + 1]
  BY DEF Next, Stages, Healing, Approve, Withdraw, RequestCancellation, Refuse, Execute, Cancel, TimeOut,
     NextStage, SaveStage, Complete, MaterializeFails, Materialize, GenerateFails, Generate,
     Apply, ApplyFails, ValidatePasses, ValidateFails, ValidatorRaises, DraftPr, NoFixes,
     ApplyFixes, FixesBreak, RevalidatePasses, RevalidateFails, Restore, Unhealed, HealedPasses,
     HealedFails, RollbackFails, Die, Fault, FaultKinds, vars
<1>2. \/ undone' = undone \/ undone' = TRUE
      \/ undone' = (undone \/ (ctx.applier /\ ctx.snapshot # None))
      \/ undone' = (undone /\ ctx.stage # 2)
  BY DEF Next, Stages, Healing, Approve, Withdraw, RequestCancellation, Refuse, Execute, Cancel, TimeOut,
     NextStage, SaveStage, Complete, MaterializeFails, Materialize, GenerateFails, Generate,
     Apply, ApplyFails, ValidatePasses, ValidateFails, ValidatorRaises, DraftPr, NoFixes,
     ApplyFixes, FixesBreak, RevalidatePasses, RevalidateFails, Restore, Unhealed, HealedPasses,
     HealedFails, RollbackFails, Die, Fail, Pass, historyVars, vars
<1>3. undone' \in BOOLEAN
  BY <1>2 DEF Kept, Counted
<1> QED
  BY <1>1, <1>3 DEF Kept, Counted

-----------------------------------------------------------------------------
(* What passed validation. *)

\* In the stages up to validation there is nothing to keep but the verdict.
LEMMA ValidatedEarly ==
    ASSUME Kept, row'.completed < 4, row'.completed \in 0 .. 5,
           gate' = gate \/ gate' = [gate EXCEPT !.status = "failed"],
           ~(step' = "save" /\ ctx'.stage = 3)
    PROVE  Validated'
<1>1. gate' = [status |-> gate'.status, draft |-> gate'.draft]
  BY DEF Kept, Validated
<1> QED
  BY <1>1 DEF Validated

LEMMA ValidatedQuiet == ASSUME RunInv, RunInv', Kept, Quietly PROVE Validated'
<1>1. /\ UNCHANGED disk /\ row'.completed = row.completed /\ row'.path = row.path
      /\ row.completed \in 0 .. 5
  BY QuietRow DEF RunInv, Shapes
<1>2. CASE ValidatePasses \/ HealedPasses
  <2>1. /\ gate' = [status |-> "passed", draft |-> TRUE] /\ passedOn' = disk[ctx.path]
        /\ ctx' = ctx /\ step \in {"validate", "healed"}
    BY <1>2 DEF ValidatePasses, HealedPasses, Pass
  <2>2. row.completed = 3
    BY <2>1, TheStages DEF RunInv, Carried, StageOf
  <2>3. gate'.draft = TRUE /\ gate' = [status |-> gate'.status, draft |-> gate'.draft]
    BY <2>1
  <2> QED
    BY <1>1, <2>1, <2>2, <2>3 DEF Validated
<1>3. CASE ValidateFails
  <2>1. step = "validate" /\ step' = "fix" /\ gate' = [gate EXCEPT !.status = "failed"]
    BY <1>3 DEF ValidateFails
  <2>2. row.completed = 3
    BY <2>1, TheStages DEF RunInv, Carried, StageOf
  <2> QED
    BY <1>1, <2>1, <2>2, ValidatedEarly
<1>4. CASE \/ Approve \/ Withdraw \/ RequestCancellation \/ Refuse \/ Cancel \/ Complete \/ Generate
           \/ DraftPr \/ NoFixes \/ RevalidatePasses \/ RevalidateFails \/ UNCHANGED vars
  <2>1. UNCHANGED <<gate, passedOn, undone>>
    BY <1>4 DEF Approve, Withdraw, RequestCancellation, Refuse, Cancel, Complete, Generate, DraftPr, NoFixes,
       RevalidatePasses, RevalidateFails, vars, historyVars
  <2>2. step' = "save" /\ ctx'.stage = 3 => step = "save" /\ ctx.stage = 3 /\ ctx'.path = ctx.path
    <3>1. CASE Generate
      BY <3>1, TheStages DEF Generate, RunInv, Shapes, Carried, StageOf, ContextFields
    <3>2. CASE DraftPr
      BY <3>2, TheStages DEF DraftPr, RunInv, Shapes, Carried, StageOf
    <3>3. CASE \/ Approve \/ Withdraw \/ RequestCancellation \/ Refuse \/ Cancel \/ Complete
               \/ NoFixes \/ RevalidatePasses \/ RevalidateFails \/ UNCHANGED vars
      BY <3>3 DEF Approve, Withdraw, RequestCancellation, Refuse, Cancel, Complete, NoFixes,
         RevalidatePasses, RevalidateFails, vars, Return
    <3> QED
      BY <1>4, <3>1, <3>2, <3>3
  <2> QED
    BY <1>1, <2>1, <2>2 DEF Kept, Validated
<1> QED
  BY <1>2, <1>3, <1>4 DEF Quietly

LEMMA ValidatedFailing ==
    ASSUME RunInv, Kept,
           TimeOut \/ GenerateFails \/ ApplyFails \/ ValidatorRaises \/ FixesBreak \/ Unhealed
              \/ HealedFails
    PROVE  Validated'
<1>1. /\ step # "idle"
      /\ gate' = gate \/ gate' = [gate EXCEPT !.status = "failed"]
  BY FailingSteps
<1>2. PICK files : Fail(files) /\ (files = disk \/ files \in HalfWritten)
  BY FailingSteps
<1>3. /\ step' = "idle" /\ passedOn' = passedOn /\ row' = [row EXCEPT !.status = "failed"]
  BY <1>2 DEF Fail, Return
<1>4. row'.completed = row.completed /\ row'.path = row.path
  BY <1>3 DEF RunInv, Shapes, RowFields
<1>5. \/ row.completed < 4 \/ undone'
      \/ disk'[row.path] = disk[row.path] /\ ~undone
  BY <1>1, <1>2, FailDisk
<1>6. gate' = [status |-> gate'.status, draft |-> gate'.draft] /\ gate'.draft = gate.draft
  BY <1>1 DEF Kept, Validated
<1> QED
  BY <1>3, <1>4, <1>5, <1>6 DEF Kept, Validated, RunInv, Shapes

LEMMA ValidatedStages == ASSUME RunInv, RunInv', Kept, NextStage \/ SaveStage PROVE Validated'
<1>0. /\ DOMAIN row = RowFields /\ DOMAIN ctx = ContextFields
      /\ row.completed \in 0 .. 5 /\ ctx.stage \in 0 .. 5
  BY DEF RunInv, Shapes
<1>1. CASE NextStage
  <2>1. row' = row /\ step' # "save" /\ UNCHANGED <<disk, gate, passedOn, undone>>
    BY <1>0, <1>1, TheStages DEF NextStage, STAGES, workVars, historyVars
  <2> QED
    BY <2>1 DEF Kept, Validated
<1>2. CASE SaveStage
  <2>1. /\ step = "save" /\ step' = "check" /\ row'.completed = row.completed + 1
        /\ row'.path = ctx.path /\ ctx.stage = row.completed
        /\ row.completed >= 1 => ctx.path = row.path
        /\ UNCHANGED <<disk, gate, passedOn>> /\ undone' = (undone /\ ctx.stage # 2)
    BY <1>0, <1>2 DEF SaveStage, RowFields, RunInv, Carried, workVars
  <2>2. CASE ctx.stage < 3
    <3>1. row'.completed < 4 /\ row'.completed \in 0 .. 5
      BY <1>0, <2>1, <2>2
    <3> QED
      BY <2>1, <3>1, ValidatedEarly
  <2>3. CASE ctx.stage = 3
    BY <2>1, <2>3 DEF Kept, Validated
  <2>4. CASE ctx.stage > 3
    <3>1. row.completed >= 4 /\ row'.path = row.path
      BY <1>0, <2>1, <2>4
    <3>2. undone' = undone
      BY <1>0, <2>1, <2>4 DEF Kept, Counted
    <3>3. ~undone' => gate'.draft /\ disk'[row'.path] = passedOn'
      BY <2>1, <3>1, <3>2 DEF Kept, Validated
    <3> QED
      BY <2>1, <3>3 DEF Kept, Validated
  <2> QED
    BY <1>0, <2>2, <2>3, <2>4
<1> QED
  BY <1>1, <1>2

LEMMA ValidatedWriting ==
    ASSUME RunInv, RunInv', Kept,
           Execute \/ MaterializeFails \/ Materialize \/ Apply \/ ApplyFixes \/ Restore
              \/ RollbackFails \/ Die
    PROVE  Validated'
<1>0. /\ row.completed \in 0 .. 5 /\ DOMAIN row = RowFields /\ DOMAIN ctx = ContextFields
  BY DEF RunInv, Shapes
<1>1. CASE Execute
  <2>1. /\ UNCHANGED <<disk, gate, passedOn, undone>> /\ step' = "check"
        /\ row' = [row EXCEPT !.status = "running", !.attempts = @ + 1]
    BY <1>1 DEF Execute, workVars, historyVars
  <2>2. row'.completed = row.completed /\ row'.path = row.path
    BY <1>0, <2>1 DEF RowFields
  <2> QED
    BY <2>1, <2>2 DEF Kept, Validated
<1>2. CASE MaterializeFails \/ Materialize
  <2>1. /\ step = "materialize" /\ gate' = gate
        /\ row' = row \/ row' = [row EXCEPT !.status = "failed"]
        /\ step' = "idle" \/ ctx'.stage = ctx.stage
    BY <1>0, <1>2 DEF MaterializeFails, Materialize, Return, ContextFields
  <2>2. row.completed = 0 /\ ctx.stage = 0
    BY <2>1, TheStages DEF RunInv, Carried, StageOf
  <2>3. row'.completed = row.completed
    BY <1>0, <2>1 DEF RowFields
  <2> QED
    BY <2>1, <2>2, <2>3, ValidatedEarly
<1>3. CASE Apply \/ ApplyFixes \/ Restore
  <2>1. /\ step \in {"apply", "fix", "restore"} /\ gate' = gate /\ row' = row
        /\ step' = "save" => step = "apply" /\ ctx'.stage = ctx.stage
    BY <1>0, <1>3 DEF Apply, ApplyFixes, Restore, ContextFields
  <2>2. row.completed \in {2, 3} /\ (step = "apply" => ctx.stage = 2)
    BY <2>1, TheStages DEF RunInv, Carried, StageOf
  <2> QED
    BY <2>1, <2>2, ValidatedEarly
<1>4. CASE RollbackFails
  <2>1. step' = "idle" /\ undone' = TRUE /\ gate' = gate
    BY <1>4 DEF RollbackFails, Return
  <2> QED
    BY <2>1 DEF Kept, Validated
<1>5. CASE Die
  <2>1. /\ step' = "idle" /\ row' = row /\ gate' = gate /\ passedOn' = passedOn
        /\ undone' = undone /\ disk' \in {disk} \cup HalfWritten
    BY <1>5 DEF Die, historyVars
  <2>2. row.completed >= 4 => disk' = disk
    BY <1>0, <2>1, HalfTidy
  <2> QED
    BY <2>1, <2>2 DEF Kept, Validated
<1> QED
  BY <1>1, <1>2, <1>3, <1>4, <1>5

LEMMA ValidatedNext == RunInv /\ RunInv' /\ Kept /\ [Next]_vars => Validated'
BY ValidatedQuiet, ValidatedFailing, ValidatedStages, ValidatedWriting
DEF Next, Stages, Healing, Quietly

-----------------------------------------------------------------------------
(* What a healing takes back. *)

Back(base, snapshots) == FoldLeft(Rollback, base, Reverse(snapshots))

LEMMA BackNothing == ASSUME NEW base PROVE Back(base, <<>>) = base
<1>1. Reverse(<<>>) = <<>>
  BY DEF Reverse
<1> QED
  BY <1>1, FoldNothing DEF Back

\* What was written last is taken back first.
LEMMA BackLast ==
    ASSUME NEW base, NEW S, NEW snapshots \in Seq(S), NEW last \in S
    PROVE  Back(base, Append(snapshots, last)) = Back(Rollback(base, last), snapshots)
<1>1. Reverse(snapshots) \in Seq(S) /\ Reverse(Append(snapshots, last)) = <<last>> \o Reverse(snapshots)
  BY LastFirst
<1> DEFINE rest == Reverse(snapshots)
<1> HIDE DEF rest
<1>2. rest \in Seq(S)
  BY <1>1 DEF rest
<1>3. FoldLeft(Rollback, base, <<last>> \o rest) = FoldLeft(Rollback, Rollback(base, last), rest)
  BY <1>2, FoldFirst
<1> QED
  BY <1>1, <1>3 DEF Back, rest

LEMMA BeforeIs ==
    /\ BeforeHealing = Back(disk[ctx.path], heal.snapshots)
    /\ BeforeHealing' = Back(disk'[ctx'.path], heal'.snapshots)
BY Zenon DEF BeforeHealing, Back

LEMMA HealableEnds ==
    ASSUME Kept, step' \notin {"fix", "revalidate", "restore", "unhealed"},
           heal' = heal \/ heal' = NoHealing
    PROVE  Healable'
<1>1. heal' = [attempt |-> heal'.attempt, snapshots |-> heal'.snapshots, before |-> heal'.before]
  BY DEF Kept, Healable, NoHealing
<1> QED
  BY <1>1 DEF Healable, HealingRestores

LEMMA HealableSame ==
    ASSUME Kept, UNCHANGED <<disk, ctx, heal, step>>
    PROVE  Healable'
<1>1. BeforeHealing' = BeforeHealing
  BY BeforeIs
<1> QED
  BY <1>1 DEF Kept, Healable, HealingRestores, Plain

\* The next look at the same files.
LEMMA HealableGoesOn ==
    ASSUME Kept, step \in {"fix", "revalidate"}, step' \in {"fix", "restore"},
           UNCHANGED <<disk, ctx>>,
           heal' = heal \/ heal' = [heal EXCEPT !.attempt = @ + 1]
    PROVE  Healable'
<1>1. /\ heal' = [attempt |-> heal'.attempt, snapshots |-> heal'.snapshots, before |-> heal'.before]
      /\ heal'.snapshots = heal.snapshots /\ heal'.before = heal.before
  BY DEF Kept, Healable
<1>2. BeforeHealing' = BeforeHealing
  BY <1>1, BeforeIs
<1> QED
  BY <1>1, <1>2 DEF Kept, Healable, HealingRestores, Plain

LEMMA HealableBegins == ASSUME RunInv, Kept, ValidateFails PROVE Healable'
<1>1. /\ step = "validate" /\ step' = "fix" /\ disk' = disk /\ ctx' = ctx
      /\ heal' = [attempt |-> 1, snapshots |-> <<>>, before |-> disk[ctx.path]]
  BY DEF ValidateFails, workVars
<1>2. row.completed = 3
  BY <1>1, TheStages DEF RunInv, Carried, StageOf
<1>3. Plain(disk[ctx.path])
  BY <1>1, <1>2, AtWork
<1>4. BeforeHealing' = disk[ctx.path]
  BY <1>1, BeforeIs, BackNothing
<1>5. heal'.snapshots \in Seq({})
  BY <1>1
<1> QED
  BY <1>1, <1>3, <1>4, <1>5 DEF Healable, HealingRestores, Plain

LEMMA HealableApplies == ASSUME RunInv, Kept, ApplyFixes PROVE Healable'
<1>1. PICK fixes :
         /\ disk' = Applied(fixes, Len(fixes))
         /\ heal' = [heal EXCEPT !.snapshots = Append(@, Snapshot(disk[ctx.path], fixes))]
  BY DEF ApplyFixes
<1>2. step = "fix" /\ step' = "revalidate" /\ ctx' = ctx
  BY DEF ApplyFixes
<1>3. row.completed = 3
  BY <1>2, TheStages DEF RunInv, Carried, StageOf
<1>4. Plain(disk[ctx.path])
  BY <1>2, <1>3, AtWork
<1> DEFINE tree == disk[ctx.path]
           last == Snapshot(tree, fixes)
           written == Write(tree, fixes, Len(fixes))
<1>5. disk'[ctx'.path] = written
  BY <1>1, <1>2, AppliedTidy
<1>6. Rollback(written, last) = tree
  BY <1>4, WriteUndone
<1>7. /\ heal' = [attempt |-> heal'.attempt, snapshots |-> heal'.snapshots, before |-> heal'.before]
      /\ heal'.snapshots = Append(heal.snapshots, last) /\ heal'.before = heal.before
  BY <1>1 DEF Kept, Healable
<1>8. PICK S : heal.snapshots \in Seq(S)
  BY <1>2 DEF Kept, Healable
<1> DEFINE T == S \cup {last}
<1> HIDE DEF tree, last, written
<1>9. heal.snapshots \in Seq(T) /\ last \in T
  BY <1>8
<1> HIDE DEF T
<1>10. heal'.snapshots \in Seq(T)
  BY <1>7, <1>9
<1>11. Back(written, Append(heal.snapshots, last)) = Back(Rollback(written, last), heal.snapshots)
  BY <1>9, BackLast
<1>12. BeforeHealing' = Back(tree, heal.snapshots)
  BY <1>5, <1>6, <1>7, <1>11, BeforeIs
<1>13. BeforeHealing = Back(tree, heal.snapshots)
  BY BeforeIs DEF tree
<1>14. heal.before = BeforeHealing /\ Plain(heal.before)
  BY <1>2 DEF Kept, Healable
<1> QED
  BY <1>2, <1>7, <1>10, <1>12, <1>13, <1>14 DEF Healable, HealingRestores, Plain

LEMMA HealableRestores == ASSUME RunInv, Kept, Restore PROVE Healable'
<1>1. /\ step = "restore" /\ step' = "unhealed" /\ heal' = heal /\ ctx' = ctx
      /\ disk' = [disk EXCEPT ![ctx.path] = BeforeHealing]
  BY DEF Restore
<1>2. row.completed = 3
  BY <1>1, TheStages DEF RunInv, Carried, StageOf
<1>3. ctx.path \in Workspaces /\ DOMAIN disk = Workspaces
  BY <1>1, <1>2, AtWork DEF Kept, Placed, Tidy
<1>4. disk'[ctx.path] = BeforeHealing
  BY <1>1, <1>3
<1>5. heal.before = BeforeHealing /\ Plain(heal.before)
  BY <1>1 DEF Kept, Healable
<1> QED
  BY <1>1, <1>4, <1>5 DEF Kept, Healable, HealingRestores, Plain

LEMMA HealableNext == RunInv /\ Kept /\ [Next]_vars => Healable'
<1> SUFFICES ASSUME RunInv, Kept, [Next]_vars PROVE Healable'
  OBVIOUS
<1>1. CASE Approve \/ Withdraw \/ RequestCancellation \/ UNCHANGED vars
  <2>1. UNCHANGED <<disk, ctx, heal, step>>
    BY <1>1 DEF Approve, Withdraw, RequestCancellation, vars, workVars
  <2> QED
    BY <2>1, HealableSame
<1>2. CASE NoFixes \/ RevalidateFails
  <2>1. /\ step \in {"fix", "revalidate"} /\ step' \in {"fix", "restore"}
        /\ UNCHANGED <<disk, ctx>>
        /\ heal' = heal \/ heal' = [heal EXCEPT !.attempt = @ + 1]
    BY <1>2 DEF NoFixes, RevalidateFails, workVars
  <2> QED
    BY <2>1, HealableGoesOn
<1>3. CASE ValidateFails
  BY <1>3, HealableBegins
<1>4. CASE ApplyFixes
  BY <1>4, HealableApplies
<1>5. CASE Restore
  BY <1>5, HealableRestores
<1>6. CASE \/ Refuse \/ Execute \/ Cancel \/ NextStage \/ SaveStage \/ Complete
           \/ MaterializeFails \/ Materialize \/ Generate \/ Apply \/ ValidatePasses
           \/ DraftPr \/ RevalidatePasses \/ HealedPasses \/ RollbackFails \/ Die
  <2>1. step' \notin {"fix", "revalidate", "restore", "unhealed"}
    <3>1. CASE NextStage
      BY <3>1, TheStages DEF NextStage, STAGES, RunInv, Shapes
    <3>2. CASE ~NextStage
      BY <1>6, <3>2 DEF Refuse, Execute, Cancel, SaveStage, Complete, MaterializeFails,
         Materialize, Generate, Apply, ValidatePasses, DraftPr, RevalidatePasses, HealedPasses,
         RollbackFails, Die, Pass, Return
    <3> QED
      BY <3>1, <3>2
  <2>2. heal' = heal \/ heal' = NoHealing
    BY <1>6 DEF Refuse, Execute, Cancel, NextStage, SaveStage, Complete, MaterializeFails,
       Materialize, Generate, Apply, ValidatePasses, DraftPr, RevalidatePasses, HealedPasses,
       RollbackFails, Die, Return
  <2> QED
    BY <2>1, <2>2, HealableEnds
<1>7. CASE TimeOut \/ GenerateFails \/ ApplyFails \/ ValidatorRaises \/ FixesBreak \/ Unhealed
              \/ HealedFails
  <2>1. step' = "idle" /\ heal' = NoHealing
    BY <1>7, FailingSteps DEF Fail, Return
  <2> QED
    BY <2>1, HealableEnds
<1> QED
  BY <1>1, <1>2, <1>3, <1>4, <1>5, <1>6, <1>7 DEF Next, Stages, Healing

-----------------------------------------------------------------------------
LEMMA KeptInit == Init => Kept
<1> SUFFICES ASSUME Init PROVE Kept
  OBVIOUS
<1>1. Counted
  BY DEF Init, Counted
<1>2. Placed
  BY RunAssumption DEF Init, Placed, Tidy, Plain, Empty
<1>3. Settled
  BY DEF Init, Settled, FailedIsRolledBack
<1>4. Validated
  BY DEF Init, Validated
<1>5. Healable
  BY DEF Init, Healable, HealingRestores, NoHealing
<1> QED
  BY <1>1, <1>2, <1>3, <1>4, <1>5 DEF Kept

LEMMA KeptNext == RunInv /\ RunInv' /\ Kept /\ [Next]_vars => Kept'
BY CountedNext, PlacedNext, SettledNext, ValidatedNext, HealableNext DEF Kept

LEMMA KeptAlways == Spec => [](RunInv /\ Kept)
<1>1. Init => RunInv /\ Kept
  BY RunInit, KeptInit
<1>2. RunInv /\ Kept /\ [Next]_vars => (RunInv /\ Kept)'
  BY RunNext, KeptNext
<1> QED
  BY <1>1, <1>2, PTL DEF Spec

-----------------------------------------------------------------------------
(* One operation on one file. *)

\* A change plan: as it is written down, and no change without operations.
Planned(changes) == IsChanges(changes) /\ \A change \in ToSet(changes) : change.operations # <<>>

\* A file while a plan is worked out.
Entries == [deleted : BOOLEAN, content : Seq(Readable) \cup {NoFile}]

LEMMA Reading == NoFile \notin Seq(Readable) /\ Seq(Readable) \subseteq Texts
BY ApplierAssumption DEF Readable, Texts

LEMMA EntryTyped ==
    ASSUME NEW tree \in Trees, NEW name \in Names, Resolve[name] \in Files
    PROVE  Entry(tree, name) \in Entries
<1> DEFINE text == tree[Resolve[name]]
<1>1. text \in Texts \cup {NoFile}
  BY DEF Trees
<1>2. CASE text = NoFile
  <2>1. Entry(tree, name) = [deleted |-> FALSE, content |-> NoFile]
    BY <1>2 DEF Entry
  <2> QED
    BY <2>1 DEF Entries
<1>3. CASE text # NoFile
  <2> DEFINE read == [i \in DOMAIN text |-> Decode[text[i]]]
  <2>1. Entry(tree, name) = [deleted |-> FALSE, content |-> read]
    BY <1>3 DEF Entry
  <2> HIDE DEF text
  <2>2. text \in Seq(Tokens)
    BY <1>1, <1>3 DEF Texts
  <2>3. \A i \in DOMAIN text : Decode[text[i]] \in Readable
    BY <2>2, ApplierAssumption DEF Readable
  <2>4. read \in Seq(Readable)
    BY <2>2, <2>3
  <2> QED
    BY <2>1, <2>4 DEF Entries
<1> QED
  BY <1>2, <1>3

First(body, anchor) == SelectInSeq(body, LAMBDA token : token = anchor)
LEMMA FirstAt ==
    ASSUME NEW S, NEW body \in Seq(S), NEW anchor, anchor \in ToSet(body)
    PROVE  First(body, anchor) \in 1 .. Len(body)
<1> DEFINE I == {i \in 1 .. Len(body) : body[i] = anchor}
<1>1. I # {} /\ I \in SUBSET Nat /\ I \subseteq 1 .. Len(body)
  BY DEF ToSet
<1>2. First(body, anchor) = IF I # {} THEN Min(I) ELSE 0
  BY DEF First, SelectInSeq
<1> HIDE DEF I
<1>3. PICK least \in I : \A j \in I : least <= j
  BY <1>1, LeastNumber
<1>4. Min(I) \in I
  BY <1>3 DEF Min
<1> QED
  BY <1>1, <1>2, <1>4

LEMMA EditTyped ==
    ASSUME NEW S, NEW body \in Seq(S), NEW type, NEW anchor \in ToSet(body), NEW content \in Seq(S)
    PROVE  Edit(body, type, anchor, content) \in Seq(S)
<1> DEFINE at == First(body, anchor)
           end == IF type = "insert_after" THEN at ELSE at - 1
           start == IF type = "insert_before" THEN at ELSE at + 1
<1>1. at \in 1 .. Len(body)
  BY FirstAt
<1>2. Edit(body, type, anchor, content) = SubSeq(body, 1, end) \o content \o SubSeq(body, start, Len(body))
  BY DEF Edit, First
<1> HIDE DEF at
<1>3. end \in 0 .. Len(body) /\ start \in 1 .. Len(body) + 1
  BY <1>1
<1> HIDE DEF end, start
<1>4. SubSeq(body, 1, end) \in Seq(S) /\ SubSeq(body, start, Len(body)) \in Seq(S)
  BY <1>3, SubSeqProperties
<1> QED
  BY <1>2, <1>4

\* The kind of an operation.
Kind(op) == NormalizeOperationType(op.type, op.target # "")

Edits(entry, op) ==
    /\ Kind(op) \in {"insert_after", "insert_before", "replace_block"}
    /\ entry.content # NoFile /\ ~entry.deleted /\ op.target \in ToSet(entry.content)
LEMMA ApplyOpIs ==
    ASSUME NEW entry, NEW op
    PROVE  /\ Kind(op) \in {"create_file", "replace_file"} =>
                 ApplyOp(entry, op) = IF op.content = <<>> THEN entry
                                      ELSE [content |-> op.content, deleted |-> FALSE]
           /\ Kind(op) = "delete_file" => ApplyOp(entry, op) = [entry EXCEPT !.deleted = TRUE]
           /\ Edits(entry, op) =>
                 ApplyOp(entry, op) = [entry EXCEPT !.content = Edit(@, Kind(op), op.target, op.content)]
           /\ Kind(op) \notin {"create_file", "replace_file", "delete_file"} /\ ~Edits(entry, op) =>
                 ApplyOp(entry, op) = entry
<1> DEFINE type == Kind(op)
<1>1. ApplyOp(entry, op) =
         CASE type \in {"create_file", "replace_file"} ->
               IF op.content = <<>> THEN entry
               ELSE [content |-> op.content, deleted |-> FALSE]
          [] type = "delete_file" -> [entry EXCEPT !.deleted = TRUE]
          [] type \in {"insert_after", "insert_before", "replace_block"} ->
               IF \/ entry.content = NoFile \/ entry.deleted
                  \/ op.target \notin ToSet(entry.content)
               THEN entry
               ELSE [entry EXCEPT !.content = Edit(@, type, op.target, op.content)]
          [] OTHER -> entry
  BY Zenon DEF ApplyOp, Kind
<1> HIDE DEF type
<1>2. type = Kind(op)
  BY DEF type
<1> QED
  BY <1>1, <1>2 DEF Edits

LEMMA ApplyOpTyped ==
    ASSUME NEW entry \in Entries, NEW op, op.content \in Seq(Readable)
    PROVE  ApplyOp(entry, op) \in Entries
<1>1. CASE Kind(op) \in {"create_file", "replace_file"}
  <2>1. ApplyOp(entry, op) = IF op.content = <<>> THEN entry
                             ELSE [content |-> op.content, deleted |-> FALSE]
    BY <1>1, ApplyOpIs
  <2> QED
    BY <2>1 DEF Entries
<1>2. CASE Kind(op) = "delete_file"
  <2>1. ApplyOp(entry, op) = [entry EXCEPT !.deleted = TRUE]
    BY <1>2, ApplyOpIs
  <2> QED
    BY <2>1 DEF Entries
<1>3. CASE Edits(entry, op)
  <2> DEFINE edited == Edit(entry.content, Kind(op), op.target, op.content)
  <2>1. ApplyOp(entry, op) = [entry EXCEPT !.content = edited]
    BY <1>3, ApplyOpIs
  <2>2. entry.content \in Seq(Readable) /\ op.target \in ToSet(entry.content)
    BY <1>3 DEF Edits, Entries
  <2>3. edited \in Seq(Readable)
    BY <2>2, EditTyped
  <2> HIDE DEF edited
  <2> QED
    BY <2>1, <2>3 DEF Entries
<1>4. CASE Kind(op) \notin {"create_file", "replace_file", "delete_file"} /\ ~Edits(entry, op)
  BY <1>4, ApplyOpIs
<1> QED
  BY <1>1, <1>2, <1>3, <1>4 DEF Edits

-----------------------------------------------------------------------------
(* A file while a plan is worked out. *)

\* Operations that write text.
Textual(Ops) == \A op \in Ops : op.content \in Seq(Readable)

\* F[k]: what the first k operations make of an entry.
Worked(F, base, ops, n) ==
    /\ F[0] = base
    /\ \A k \in 1 .. n : F[k] = ApplyOp(F[k - 1], ops[k])
    /\ \A k \in 0 .. n : F[k] \in Entries

WorkedOut(base, ops) == FoldLeft(ApplyOp, base, ops)

LEMMA WorkedOutIs ==
    ASSUME NEW Ops, Textual(Ops), NEW base \in Entries, NEW ops \in Seq(Ops), NEW n \in Nat, n = Len(ops)
    PROVE  \E F : Worked(F, base, ops, n) /\ WorkedOut(base, ops) = F[n]
<1> DEFINE G == [x \in Entries \X Ops |-> ApplyOp(x[1], x[2])]
           h == CHOOSE f : f = [s \in SUBSET DOMAIN ops |->
                    IF s = {} THEN base ELSE ApplyOp(f[s \ {Max(s)}], ops[Max(s)])]
<1>1. \A x \in Entries \X Ops : ApplyOp(x[1], x[2]) \in Entries
  <2>1. \A entry \in Entries, op \in Ops : ApplyOp(entry, op) \in Entries
    BY ApplyOpTyped DEF Textual
  <2> QED
    BY <2>1
<1>2. G \in [Entries \X Ops -> Entries]
  BY <1>1
<1>3. \A entry \in Entries, op \in Ops : G[<<entry, op>>] = ApplyOp(entry, op)
  OBVIOUS
<1>4. WorkedOut(base, ops) = h[DOMAIN ops] /\ DOMAIN ops = 1 .. n
  <2>1. WorkedOut(base, ops) = h[DOMAIN ops]
    BY Zenon DEF WorkedOut, FoldLeft, MapThenFoldSet
  <2> QED
    BY <2>1
<1> HIDE DEF G
<1>5. PICK g : Reached(g, G, base, ops, n, Entries)
  BY <1>2, FoldedIs
<1>6. g = [s \in SUBSET (1 .. n) |-> IF s = {} THEN base ELSE ApplyOp(g[s \ {Max(s)}], ops[Max(s)])]
  <2>1. g = [s \in SUBSET (1 .. n) |-> IF s = {} THEN base ELSE G[<<g[s \ {Max(s)}], ops[Max(s)]>>]]
    BY <1>5, Zenon DEF Reached, Folded
  <2>2. ASSUME NEW s \in SUBSET (1 .. n), s # {}
        PROVE  g[s \ {Max(s)}] \in Entries /\ ops[Max(s)] \in Ops
    <3>1. Max(s) \in 1 .. n
      BY <2>2, MaxIn
    <3>2. s \ {Max(s)} \in SUBSET (1 .. n)
      OBVIOUS
    <3> QED
      BY <1>5, <3>1, <3>2, ElementOfSeq DEF Reached
  <2>3. ASSUME NEW s \in SUBSET (1 .. n)
        PROVE  (IF s = {} THEN base ELSE G[<<g[s \ {Max(s)}], ops[Max(s)]>>])
                 = (IF s = {} THEN base ELSE ApplyOp(g[s \ {Max(s)}], ops[Max(s)]))
    BY <1>3, <2>2, Zenon
  <2> QED
    BY <2>1, <2>3, Zenon
<1>7. h = [s \in SUBSET (1 .. n) |-> IF s = {} THEN base ELSE ApplyOp(h[s \ {Max(s)}], ops[Max(s)])]
  <2>1. g = [s \in SUBSET DOMAIN ops |-> IF s = {} THEN base ELSE ApplyOp(g[s \ {Max(s)}], ops[Max(s)])]
    BY <1>4, <1>6, Zenon
  <2>2. h = [s \in SUBSET DOMAIN ops |-> IF s = {} THEN base ELSE ApplyOp(h[s \ {Max(s)}], ops[Max(s)])]
    BY <2>1, Zenon
  <2> QED
    BY <1>4, <2>2, Zenon
<1> HIDE DEF h
<1> DEFINE F == [k \in 0 .. n |-> h[1 .. k]]
<1>8. F[0] = base
  <2>1. (1 .. 0) = {} /\ (1 .. 0) \in SUBSET (1 .. n) /\ 0 \in 0 .. n
    OBVIOUS
  <2>2. h[1 .. 0] = base
    BY <1>7, <2>1, Zenon
  <2> QED
    BY <2>1, <2>2
<1>9. ASSUME NEW k \in 1 .. n PROVE F[k] = ApplyOp(F[k - 1], ops[k])
  <2>1. /\ (1 .. k) \in SUBSET (1 .. n) /\ (1 .. k) # {} /\ (1 .. k) \ {k} = 1 .. k - 1
        /\ k \in 0 .. n /\ k - 1 \in 0 .. n
    OBVIOUS
  <2>2. Max(1 .. k) = k
    BY MaxIs
  <2>3. h[1 .. k] = ApplyOp(h[(1 .. k) \ {Max(1 .. k)}], ops[Max(1 .. k)])
    BY <1>7, <2>1, Zenon
  <2>4. h[1 .. k] = ApplyOp(h[1 .. k - 1], ops[k])
    BY <2>1, <2>2, <2>3, Zenon
  <2>5. F[k] = h[1 .. k] /\ F[k - 1] = h[1 .. k - 1]
    BY <2>1
  <2> QED
    BY <2>4, <2>5, Zenon
<1>10. F[n] = WorkedOut(base, ops)
  BY <1>4
<1> HIDE DEF F
<1> DEFINE Good == {k \in Nat : F[k] \in Entries}
<1>11. 0 \in Good
  BY <1>8
<1>12. ASSUME NEW k \in 1 .. n, k - 1 \in Good PROVE k \in Good
  <2>1. ops[k] \in Ops /\ F[k - 1] \in Entries /\ k \in Nat
    BY <1>12, ElementOfSeq
  <2>2. ApplyOp(F[k - 1], ops[k]) \in Entries
    BY <2>1, ApplyOpTyped DEF Textual
  <2> QED
    BY <1>9, <2>1, <2>2
<1> HIDE DEF Good
<1>13. \A k \in 0 .. n : k \in Good
  <2>1. 0 + 1 = 1
    OBVIOUS
  <2>2. \A k \in 0 + 1 .. n : k - 1 \in Good => k \in Good
    BY <1>12, <2>1, Zenon
  <2> QED
    BY <1>11, <2>2, UpToLength
<1>14. Worked(F, base, ops, n)
  BY <1>8, <1>9, <1>13 DEF Worked, Good
<1> QED
  BY <1>10, <1>14

LEMMA WorkedOutTyped ==
    ASSUME NEW Ops, Textual(Ops), NEW base \in Entries, NEW ops \in Seq(Ops)
    PROVE  WorkedOut(base, ops) \in Entries
<1> DEFINE n == Len(ops)
<1>1. n \in Nat /\ n = Len(ops) /\ n \in 0 .. n
  OBVIOUS
<1> HIDE DEF n
<1>2. PICK F : Worked(F, base, ops, n) /\ WorkedOut(base, ops) = F[n]
  BY <1>1, WorkedOutIs
<1> QED
  BY <1>1, <1>2 DEF Worked

-----------------------------------------------------------------------------
(* What a plan comes to. *)

\* All operations of a plan.
AllOf(changes) == UNION {ToSet(change.operations) : change \in ToSet(changes)}

Paths(changes) == {change.path : change \in ToSet(changes)} \ {Missing}

LEMMA ChangesAre ==
    ASSUME NEW changes, IsChanges(changes)
    PROVE  /\ changes \in Seq(ToSet(changes)) /\ Len(changes) \in Nat
           /\ DOMAIN changes = 1 .. Len(changes)
           /\ Textual(AllOf(changes)) /\ Paths(changes) \subseteq Names
           /\ \A i \in DOMAIN changes :
                 /\ changes[i] \in ToSet(changes)
                 /\ changes[i].path \in Names \cup {Missing}
                 /\ changes[i].operations \in Seq(AllOf(changes))
<1>1. changes \in Seq(ToSet(changes))
  BY DEF IsChanges
<1>2. Len(changes) \in Nat /\ DOMAIN changes = 1 .. Len(changes)
  BY <1>1
<1>3. Textual(AllOf(changes))
  BY DEF IsChanges, Textual, AllOf
<1>4. Paths(changes) \subseteq Names
  BY DEF IsChanges, Paths
<1>5. ASSUME NEW change \in ToSet(changes)
      PROVE  change.path \in Names \cup {Missing} /\ change.operations \in Seq(AllOf(changes))
  <2>1. change.operations \in Seq(ToSet(change.operations))
    BY DEF IsChanges
  <2>2. ToSet(change.operations) \subseteq AllOf(changes)
    BY DEF AllOf
  <2>3. change.operations \in Seq(AllOf(changes))
    BY <2>1, <2>2
  <2> QED
    BY <2>3 DEF IsChanges
<1>6. \A i \in DOMAIN changes : changes[i] \in ToSet(changes)
  BY DEF ToSet
<1> QED
  BY <1>1, <1>2, <1>3, <1>4, <1>5, <1>6

LEMMA OperationsTyped ==
    ASSUME NEW changes, IsChanges(changes), NEW name
    PROVE  OperationsOn(changes, name) \in Seq(AllOf(changes))
<1> DEFINE S == AllOf(changes)
           lists == [i \in DOMAIN changes |->
                        IF changes[i].path = name THEN changes[i].operations ELSE <<>>]
<1>1. OperationsOn(changes, name) = FlattenSeq(lists)
  BY DEF OperationsOn
<1>2. DOMAIN changes = 1 .. Len(changes) /\ Len(changes) \in Nat
      /\ \A i \in DOMAIN changes : changes[i].operations \in Seq(S)
  BY ChangesAre
<1> HIDE DEF S
<1>3. \A i \in 1 .. Len(changes) : lists[i] \in Seq(S)
  <2>1. <<>> \in Seq(S)
    OBVIOUS
  <2> QED
    BY <1>2, <2>1
<1>4. DOMAIN lists = 1 .. Len(changes)
  BY <1>2
<1>6. lists = [i \in 1 .. Len(changes) |-> lists[i]]
  BY <1>2
<1> HIDE DEF lists
<1>5. lists \in Seq(Seq(S))
  BY <1>2, <1>3, <1>6
<1> QED
  BY <1>1, <1>5, FlattenTyped DEF S

LEMMA ComputeIs ==
    ASSUME NEW tree, NEW changes
    PROVE  /\ DOMAIN Compute(tree, changes) = Paths(changes)
           /\ \A name \in Paths(changes) :
                 Compute(tree, changes)[name] = WorkedOut(Entry(tree, name), OperationsOn(changes, name))
<1>1. Compute(tree, changes) =
         [name \in Paths(changes) |-> WorkedOut(Entry(tree, name), OperationsOn(changes, name))]
  BY Zenon DEF Compute, Paths, WorkedOut
<1> QED
  BY <1>1

LEMMA OutcomeTyped ==
    /\ \A entry \in Entries : Outcome(entry) \in Seq(Readable) \cup {NoFile}
    /\ Seq(Readable) \cup {NoFile} \subseteq Texts \cup {NoFile}
BY Reading DEF Entries, Outcome

LEMMA ComputeTyped ==
    ASSUME NEW tree \in Trees, NEW changes, IsChanges(changes), NEW name \in Paths(changes),
           Resolve[name] \in Files
    PROVE  Compute(tree, changes)[name] \in Entries
<1>1. Entry(tree, name) \in Entries
  BY ChangesAre, EntryTyped
<1>2. OperationsOn(changes, name) \in Seq(AllOf(changes)) /\ Textual(AllOf(changes))
  BY ChangesAre, OperationsTyped
<1>3. WorkedOut(Entry(tree, name), OperationsOn(changes, name)) \in Entries
  BY <1>1, <1>2, WorkedOutTyped
<1> QED
  BY <1>3, ComputeIs

\* The spelling under which a file is written last.
Writers(tree, changes, k, file) ==
    {name \in Changed(tree, Compute(tree, changes), file) : Mention(changes, name) <= k}
LastWriter(tree, changes, k, file) ==
    CHOOSE name \in Writers(tree, changes, k, file) :
        \A other \in Writers(tree, changes, k, file) : Mention(changes, other) <= Mention(changes, name)

LEMMA WriteIs ==
    ASSUME NEW tree, NEW changes, NEW k
    PROVE  Write(tree, changes, k) =
              [file \in Files |->
                  IF Writers(tree, changes, k, file) = {} THEN tree[file]
                  ELSE Outcome(Compute(tree, changes)[LastWriter(tree, changes, k, file)])]
BY Zenon DEF Write, Writers, LastWriter

\* Where an entry is first mentioned is a position of the plan: there is a last one.
LEMMA MentionIs ==
    ASSUME NEW changes, IsChanges(changes), NEW name \in Paths(changes)
    PROVE  Mention(changes, name) \in 1 .. Len(changes)
<1> DEFINE I == {i \in 1 .. Len(changes) : changes[i].path = name}
<1>1. I # {} /\ I \in SUBSET Nat
  <2>1. DOMAIN changes = 1 .. Len(changes)
    BY ChangesAre
  <2> QED
    BY <2>1 DEF Paths, ToSet
<1>2. Mention(changes, name) = IF I # {} THEN Min(I) ELSE 0
  BY DEF Mention, SelectInSeq
<1>4. I \subseteq 1 .. Len(changes)
  OBVIOUS
<1> HIDE DEF I
<1>3. PICK least \in I : \A j \in I : least <= j
  BY <1>1, LeastNumber
<1>5. Min(I) \in I
  BY <1>3 DEF Min
<1> QED
  BY <1>1, <1>2, <1>4, <1>5

LEMMA LastWriterIs ==
    ASSUME NEW tree, NEW changes, IsChanges(changes), NEW k, NEW file, Writers(tree, changes, k, file) # {}
    PROVE  LastWriter(tree, changes, k, file) \in Writers(tree, changes, k, file)
<1> DEFINE W == Writers(tree, changes, k, file)
           At(name) == Len(changes) - Mention(changes, name)
           Rests == {At(name) : name \in W}
<1>1. \A name \in W : Mention(changes, name) \in 1 .. Len(changes)
  BY MentionIs, ComputeIs DEF Writers, Changed
<1>2. Rests \in SUBSET Nat /\ Rests # {}
  BY <1>1, ChangesAre
<1>3. PICK r \in Rests : \A s \in Rests : r <= s
  <2> HIDE DEF Rests
  <2> QED
    BY <1>2, LeastNumber
<1>4. PICK name \in W : r = At(name)
  BY <1>3
<1>5. \A other \in W : Mention(changes, other) <= Mention(changes, name)
  <2>1. \A other \in W : At(name) <= At(other)
    BY <1>3, <1>4
  <2> QED
    BY <1>1, <2>1, ChangesAre
<1> HIDE DEF W
<1>6. (CHOOSE n \in W : \A other \in W : Mention(changes, other) <= Mention(changes, n)) \in W
  BY <1>4, <1>5
<1> QED
  BY <1>6 DEF LastWriter, W

LEMMA WriteTyped ==
    ASSUME NEW tree \in Trees, NEW changes, IsChanges(changes), NEW k
    PROVE  Write(tree, changes, k) \in Trees
<1>1. ASSUME NEW file \in Files, Writers(tree, changes, k, file) # {}
      PROVE  Outcome(Compute(tree, changes)[LastWriter(tree, changes, k, file)]) \in Texts \cup {NoFile}
  <2> DEFINE name == LastWriter(tree, changes, k, file)
  <2>1. name \in Writers(tree, changes, k, file)
    BY <1>1, LastWriterIs
  <2> HIDE DEF name
  <2>2. name \in Paths(changes) /\ Resolve[name] = file
    BY <2>1, ComputeIs DEF Writers, Changed
  <2>3. Compute(tree, changes)[name] \in Entries
    BY <2>2, ComputeTyped
  <2> QED
    BY <2>3, OutcomeTyped DEF name
<1>2. \A file \in Files : tree[file] \in Texts \cup {NoFile}
  BY DEF Trees
<1> QED
  BY <1>1, <1>2, WriteIs DEF Trees

\* What was kept of files.
Saved(snapshot) ==
    DOMAIN snapshot \subseteq Files /\ \A file \in DOMAIN snapshot : snapshot[file] \in Texts \cup {NoFile}

LEMMA SnapshotSaved == ASSUME NEW tree \in Trees, NEW changes PROVE Saved(Snapshot(tree, changes))
BY DEF Snapshot, Saved, Trees

LEMMA RollbackTyped ==
    ASSUME NEW tree \in Trees, NEW snapshot, Saved(snapshot)
    PROVE  Rollback(tree, snapshot) \in Trees
BY DEF Rollback, Saved, Trees

-----------------------------------------------------------------------------
(* Plans that are generated. *)

LEMMA OwnElements == ASSUME NEW S, NEW seq \in Seq(S) PROVE seq \in Seq(ToSet(seq)) /\ ToSet(seq) \subseteq S
<1>1. /\ DOMAIN seq = 1 .. Len(seq) /\ Len(seq) \in Nat /\ seq = [i \in 1 .. Len(seq) |-> seq[i]]
      /\ \A i \in 1 .. Len(seq) : seq[i] \in S
  OBVIOUS
<1>2. \A i \in 1 .. Len(seq) : seq[i] \in ToSet(seq)
  BY <1>1 DEF ToSet
<1>3. ToSet(seq) \subseteq S
  BY <1>1 DEF ToSet
<1> DEFINE T == ToSet(seq)
<1> HIDE DEF T
<1>4. seq \in Seq(T)
  BY <1>1, <1>2 DEF T
<1> QED
  BY <1>3, <1>4 DEF T

\* A change that does something to a file.
Doing(change) ==
    /\ change.path \in Names \cup {Missing}
    /\ change.operations \in Seq(ToSet(change.operations)) /\ change.operations # <<>>
    /\ \A op \in ToSet(change.operations) : op.content \in Seq(Readable)

LEMMA PlannedIs ==
    ASSUME NEW S, \A change \in S : Doing(change), NEW changes \in Seq(S)
    PROVE  Planned(changes)
<1>1. changes \in Seq(ToSet(changes)) /\ ToSet(changes) \subseteq S
  BY OwnElements
<1> QED
  BY <1>1 DEF Planned, IsChanges, Doing

LEMMA OneOperation ==
    ASSUME NEW op, op.content = <<>>
    PROVE  /\ <<op>> \in Seq(ToSet(<<op>>)) /\ <<op>> # <<>>
           /\ \A other \in ToSet(<<op>>) : other.content \in Seq(Readable)
<1>1. <<op>> \in Seq({op}) /\ <<op>> # <<>>
  OBVIOUS
<1>2. <<op>> \in Seq(ToSet(<<op>>)) /\ ToSet(<<op>>) \subseteq {op}
  BY <1>1, OwnElements
<1>3. <<>> \in Seq(Readable)
  OBVIOUS
<1> QED
  BY <1>1, <1>2, <1>3

LEMMA NormalizedDoes ==
    ASSUME NEW changes, IsChanges(changes), NEW item \in ToSet(changes)
    PROVE  Doing(Normalized(item))
<1> DEFINE change == Normalized(item)
           kind == IF item.operation \in VALID_OPERATIONS THEN item.operation ELSE "modify"
           op == [type |-> kind, target |-> "", content |-> <<>>]
<1>1. /\ item.path \in Names \cup {Missing}
      /\ item.operations \in Seq(ToSet(item.operations))
      /\ \A o \in ToSet(item.operations) : o.content \in Seq(Readable)
  BY DEF IsChanges
<1>2. /\ change.path = item.path
      /\ change.operations = IF item.operations # <<>> THEN item.operations ELSE <<op>>
  BY DEF Normalized
<1>3. op.content = <<>>
  OBVIOUS
<1> HIDE DEF op, change
<1>4. CASE item.operations # <<>>
  <2>1. change.operations = item.operations
    BY <1>2, <1>4
  <2> QED
    BY <1>1, <1>2, <1>4, <2>1 DEF Doing, change
<1>5. CASE item.operations = <<>>
  <2>1. change.operations = <<op>>
    BY <1>2, <1>5
  <2>2. /\ <<op>> \in Seq(ToSet(<<op>>)) /\ <<op>> # <<>>
        /\ \A other \in ToSet(<<op>>) : other.content \in Seq(Readable)
    BY <1>3, OneOperation
  <2> QED
    BY <1>1, <1>2, <2>1, <2>2 DEF Doing, change
<1> QED
  BY <1>4, <1>5

LEMMA NormalizedPlanned == ASSUME NEW changes, IsChanges(changes) PROVE Planned(NormalizeChanges(changes))
<1> DEFINE S == {Normalized(item) : item \in ToSet(changes)}
           lists == [i \in DOMAIN changes |->
                        IF changes[i].path = Missing THEN <<>> ELSE <<Normalized(changes[i])>>]
<1>1. NormalizeChanges(changes) = FlattenSeq(lists)
  BY DEF NormalizeChanges
<1>2. /\ DOMAIN changes = 1 .. Len(changes) /\ Len(changes) \in Nat
      /\ \A i \in DOMAIN changes : Normalized(changes[i]) \in S
  BY ChangesAre
<1>3. \A change \in S : Doing(change)
  BY NormalizedDoes
<1> HIDE DEF S
<1>4. \A i \in 1 .. Len(changes) : lists[i] \in Seq(S)
  BY <1>2
<1>5. lists = [i \in 1 .. Len(changes) |-> lists[i]]
  BY <1>2
<1> HIDE DEF lists
<1>6. lists \in Seq(Seq(S))
  BY <1>2, <1>4, <1>5
<1>7. FlattenSeq(lists) \in Seq(S)
  BY <1>6, FlattenTyped
<1> QED
  BY <1>1, <1>3, <1>7, PlannedIs

LEMMA FallbackPlanned == Planned(FallbackChanges(EstimatedFiles))
<1> DEFINE op == [type |-> "modify", target |-> "", content |-> <<>>]
           One(path) == [path |-> path, operation |-> "modify", operations |-> <<op>>]
           S == {One(path) : path \in Names \cup {Missing}}
           n == Len(EstimatedFiles)
<1>1. n \in Nat /\ DOMAIN EstimatedFiles = 1 .. n
      /\ \A i \in 1 .. n : EstimatedFiles[i] \in Names \cup {Missing}
  BY RunAssumption
<1>2. FallbackChanges(EstimatedFiles) = [i \in 1 .. n |-> One(EstimatedFiles[i])]
  BY <1>1 DEF FallbackChanges
<1>3. op.content = <<>>
  OBVIOUS
<1> HIDE DEF op, n
<1>4. /\ <<op>> \in Seq(ToSet(<<op>>)) /\ <<op>> # <<>>
      /\ \A other \in ToSet(<<op>>) : other.content \in Seq(Readable)
  BY <1>3, OneOperation
<1>5. \A path \in Names \cup {Missing} : One(path).path = path /\ One(path).operations = <<op>>
  OBVIOUS
<1> HIDE DEF One
<1>9. ASSUME NEW path \in Names \cup {Missing} PROVE Doing(One(path))
  <2> DEFINE change == One(path)
  <2>1. change.path = path /\ change.operations = <<op>>
    BY <1>5
  <2> HIDE DEF change
  <2>2. Doing(change)
    BY <1>4, <2>1 DEF Doing
  <2> QED
    BY <2>2 DEF change
<1>6. \A change \in S : Doing(change)
  BY <1>9
<1>7. \A i \in 1 .. n : One(EstimatedFiles[i]) \in S
  BY <1>1
<1> HIDE DEF S
<1>8. [i \in 1 .. n |-> One(EstimatedFiles[i])] \in Seq(S)
  BY <1>1, <1>7
<1> QED
  BY <1>2, <1>6, <1>8, PlannedIs

LEMMA BuiltPlanned ==
    ASSUME NEW output \in Outputs \cup {NoOutput}
    PROVE  Planned(BuildPlan(output, EstimatedFiles))
<1>1. CASE output = NoOutput
  BY <1>1, FallbackPlanned DEF BuildPlan
<1>2. CASE output # NoOutput
  <2>1. IsChanges(output)
    BY <1>2, RunAssumption
  <2> QED
    BY <1>2, <2>1, NormalizedPlanned DEF BuildPlan
<1> QED
  BY <1>1, <1>2

-----------------------------------------------------------------------------
(* The types. *)

Bounded ==
    /\ approved \in BOOLEAN /\ refused \in BOOLEAN
    /\ gate \in [status : {"none", "passed", "failed"}, draft : BOOLEAN]
    /\ row.status \in Statuses /\ row.path \in 0 .. made
    /\ ctx.path \in 0 .. made /\ ctx.applier \in BOOLEAN
Limited == faults.death + faults.write + faults.rollback + faults.validator <= MaxFaults
\* A healing tries once more only while it has tries left.
Repairing ==
    /\ heal.attempt \in 0 .. MaxRetries /\ Len(heal.snapshots) \in Nat
    /\ Len(heal.snapshots) <= heal.attempt
    /\ step = "fix" => Len(heal.snapshots) < heal.attempt
\* What is written, and what is kept for a rollback, are texts.
Written ==
    /\ disk \in [Workspaces -> Trees]
    /\ row.completed >= 2 => Planned(row.plan)
    /\ step = "save" /\ ctx.stage = 1 => Planned(ctx.plan)
    /\ row.completed >= 3 => Saved(row.snapshot)
    /\ ctx.applier => Saved(ctx.snapshot)
    /\ step \in {"fix", "revalidate", "restore", "unhealed"} => heal.before \in Trees
Fitting == Bounded /\ Limited /\ Repairing /\ Written

LEMMA LimitedNext == ASSUME Kept, Limited, [Next]_vars PROVE Limited'
<1>1. faults' = faults \/ \E kind \in FaultKinds : Fault(kind)
  BY DEF Next, Stages, Healing, Approve, Withdraw, RequestCancellation, Refuse, Execute, Cancel, TimeOut,
     NextStage, SaveStage, Complete, MaterializeFails, Materialize, GenerateFails, Generate,
     Apply, ApplyFails, ValidatePasses, ValidateFails, ValidatorRaises, DraftPr, NoFixes,
     ApplyFixes, FixesBreak, RevalidatePasses, RevalidateFails, Restore, Unhealed, HealedPasses,
     HealedFails, RollbackFails, Die, FaultKinds, vars
<1>2. CASE faults' = faults
  BY <1>2 DEF Limited
<1>3. ASSUME NEW kind \in FaultKinds, Fault(kind) PROVE Limited'
  <2>1. /\ faults \in [FaultKinds -> Nat] /\ faults' = [faults EXCEPT ![kind] = faults[kind] + 1]
        /\ faults.death + faults.write + faults.rollback + faults.validator < MaxFaults
    BY <1>3 DEF Kept, Counted, Fault
  <2>2. /\ faults.death \in Nat /\ faults.write \in Nat /\ faults.rollback \in Nat
        /\ faults.validator \in Nat
    BY <2>1 DEF FaultKinds
  <2>3. \/ /\ faults'.death = faults.death + 1 /\ faults'.write = faults.write
           /\ faults'.rollback = faults.rollback /\ faults'.validator = faults.validator
        \/ /\ faults'.death = faults.death /\ faults'.write = faults.write + 1
           /\ faults'.rollback = faults.rollback /\ faults'.validator = faults.validator
        \/ /\ faults'.death = faults.death /\ faults'.write = faults.write
           /\ faults'.rollback = faults.rollback + 1 /\ faults'.validator = faults.validator
        \/ /\ faults'.death = faults.death /\ faults'.write = faults.write
           /\ faults'.rollback = faults.rollback /\ faults'.validator = faults.validator + 1
    BY <2>1 DEF FaultKinds
  <2>4. MaxFaults \in Nat
    BY RunAssumption
  <2> QED
    BY <2>1, <2>2, <2>3, <2>4 DEF Limited
<1> QED
  BY <1>1, <1>2, <1>3

LEMMA BoundedNext == ASSUME RunInv, Kept, Bounded, [Next]_vars PROVE Bounded'
<1>0. /\ DOMAIN row = RowFields /\ DOMAIN ctx = ContextFields /\ made \in Nat
      /\ gate = [status |-> gate.status, draft |-> gate.draft]
  BY DEF RunInv, Shapes, Kept, Placed, Validated
<1>1. \/ gate' = gate \/ gate' = [gate EXCEPT !.status = "failed"]
      \/ gate' = [status |-> "passed", draft |-> TRUE]
  BY DEF Next, Stages, Healing, Approve, Withdraw, RequestCancellation, Refuse, Execute, Cancel, TimeOut,
     NextStage, SaveStage, Complete, MaterializeFails, Materialize, GenerateFails, Generate,
     Apply, ApplyFails, ValidatePasses, ValidateFails, ValidatorRaises, DraftPr, NoFixes,
     ApplyFixes, FixesBreak, RevalidatePasses, RevalidateFails, Restore, Unhealed, HealedPasses,
     HealedFails, RollbackFails, Die, Pass, vars
<1>2. gate' \in [status : {"none", "passed", "failed"}, draft : BOOLEAN]
  <2>1. gate.status \in {"none", "passed", "failed"} /\ gate.draft \in BOOLEAN
    BY DEF Bounded
  <2>2. CASE gate' = gate
    BY <2>2 DEF Bounded
  <2>3. CASE gate' = [gate EXCEPT !.status = "failed"]
    <3>1. gate' = [status |-> "failed", draft |-> gate.draft]
      BY <1>0, <2>3
    <3> QED
      BY <2>1, <3>1
  <2>4. CASE gate' = [status |-> "passed", draft |-> TRUE]
    BY <2>4
  <2> QED
    BY <1>1, <2>2, <2>3, <2>4
<1>3. /\ approved' \in {approved, TRUE, FALSE}
      /\ \/ refused' = refused \/ refused' = FALSE
         \/ refused' = (refused \/ row.status # "failed")
  BY DEF Next, Stages, Healing, Approve, Withdraw, RequestCancellation, Refuse, Execute, Cancel, TimeOut,
     NextStage, SaveStage, Complete, MaterializeFails, Materialize, GenerateFails, Generate,
     Apply, ApplyFails, ValidatePasses, ValidateFails, ValidatorRaises, DraftPr, NoFixes,
     ApplyFixes, FixesBreak, RevalidatePasses, RevalidateFails, Restore, Unhealed, HealedPasses,
     HealedFails, RollbackFails, Die, Fail, vars
<1>4. \/ row' = row \/ row' = [row EXCEPT !.cancel = TRUE]
      \/ \E status \in Statuses : row' = [row EXCEPT !.status = status]
      \/ row' = [row EXCEPT !.status = "running", !.attempts = @ + 1]
      \/ row' = [row EXCEPT !.completed = @ + 1, !.path = ctx.path,
                            !.plan = ctx.plan, !.snapshot = ctx.snapshot]
  BY DEF Next, Stages, Healing, Approve, Withdraw, RequestCancellation, Refuse, Execute, Cancel, TimeOut,
     NextStage, SaveStage, Complete, MaterializeFails, Materialize, GenerateFails, Generate,
     Apply, ApplyFails, ValidatePasses, ValidateFails, ValidatorRaises, DraftPr, NoFixes,
     ApplyFixes, FixesBreak, RevalidatePasses, RevalidateFails, Restore, Unhealed, HealedPasses,
     HealedFails, RollbackFails, Die, Fail, Return, Statuses, vars
<1>5. row'.status \in Statuses /\ row'.path \in {row.path, ctx.path}
  BY <1>0, <1>4 DEF Bounded, RowFields, Statuses
<1>6. made' = made \/ made' = made + 1
  BY DEF Next, Stages, Healing, Approve, Withdraw, RequestCancellation, Refuse, Execute, Cancel, TimeOut,
     NextStage, SaveStage, Complete, MaterializeFails, Materialize, GenerateFails, Generate,
     Apply, ApplyFails, ValidatePasses, ValidateFails, ValidatorRaises, DraftPr, NoFixes,
     ApplyFixes, FixesBreak, RevalidatePasses, RevalidateFails, Restore, Unhealed, HealedPasses,
     HealedFails, RollbackFails, Die, Fail, CreateWorkspace, workVars, vars
<1>7. \/ ctx' = ctx \/ ctx' = NoContext \/ ctx' = BuildContext
      \/ ctx' = [ctx EXCEPT !.stage = @ + 1]
      \/ ctx' = [ctx EXCEPT !.path = made + 1] /\ made' = made + 1
      \/ \E plan : ctx' = [ctx EXCEPT !.plan = plan]
      \/ \E snapshot : ctx' = [ctx EXCEPT !.applier = TRUE, !.snapshot = snapshot]
  BY DEF Next, Stages, Healing, Approve, Withdraw, RequestCancellation, Refuse, Execute, Cancel, TimeOut,
     NextStage, SaveStage, Complete, MaterializeFails, Materialize, GenerateFails, Generate,
     Apply, ApplyFails, ValidatePasses, ValidateFails, ValidatorRaises, DraftPr, NoFixes,
     ApplyFixes, FixesBreak, RevalidatePasses, RevalidateFails, Restore, Unhealed, HealedPasses,
     HealedFails, RollbackFails, Die, Fail, Return, CreateWorkspace, vars
<1>8. /\ ctx'.applier \in BOOLEAN
      /\ ctx'.path \in {ctx.path, row.path, 0} \/ (ctx'.path = made + 1 /\ made' = made + 1)
  <2>1. CASE ctx' = NoContext
    BY <2>1 DEF NoContext
  <2>2. CASE ctx' = BuildContext
    <3>1. ctx'.applier = (row.completed >= 3 /\ row.snapshot # None) /\ ctx'.path \in {row.path, 0}
      BY <2>2 DEF BuildContext
    <3> QED
      BY <3>1
  <2>3. CASE \E snapshot : ctx' = [ctx EXCEPT !.applier = TRUE, !.snapshot = snapshot]
    BY <1>0, <2>3 DEF ContextFields
  <2>4. CASE \/ ctx' = ctx \/ ctx' = [ctx EXCEPT !.stage = @ + 1]
             \/ ctx' = [ctx EXCEPT !.path = made + 1] /\ made' = made + 1
             \/ \E plan : ctx' = [ctx EXCEPT !.plan = plan]
    <3>1. ctx'.applier = ctx.applier
      BY <1>0, <2>4 DEF ContextFields
    <3>2. ctx'.path = ctx.path \/ (ctx'.path = made + 1 /\ made' = made + 1)
      BY <1>0, <2>4 DEF ContextFields
    <3> QED
      BY <3>1, <3>2 DEF Bounded
  <2> QED
    BY <1>7, <2>1, <2>2, <2>3, <2>4
<1>9. row'.path \in 0 .. made' /\ ctx'.path \in 0 .. made'
  <2>1. row.path \in 0 .. made /\ ctx.path \in 0 .. made
    BY DEF Bounded
  <2> QED
    BY <1>0, <1>5, <1>6, <1>8, <2>1
<1>10. approved' \in BOOLEAN /\ refused' \in BOOLEAN
  BY <1>3 DEF Bounded
<1> QED
  BY <1>2, <1>5, <1>8, <1>9, <1>10 DEF Bounded

LEMMA RepairingNext == ASSUME RunInv, Kept, Repairing, [Next]_vars PROVE Repairing'
<1>0. /\ heal = [attempt |-> heal.attempt, snapshots |-> heal.snapshots, before |-> heal.before]
      /\ MaxRetries \in Nat \ {0}
  BY RunAssumption DEF Kept, Healable
<1>1. CASE ValidateFails
  <2>1. heal'.attempt = 1 /\ heal'.snapshots = <<>>
    BY <1>1 DEF ValidateFails
  <2>2. Len(heal'.snapshots) = 0
    BY <2>1
  <2> QED
    BY <1>0, <2>1, <2>2 DEF Repairing
<1>2. CASE ApplyFixes
  <2>1. PICK last : heal' = [heal EXCEPT !.snapshots = Append(@, last)]
    BY <1>2 DEF ApplyFixes
  <2>2. step = "fix" /\ step' = "revalidate"
    BY <1>2 DEF ApplyFixes
  <2>3. PICK S : heal.snapshots \in Seq(S)
    BY <2>2 DEF Kept, Healable
  <2>4. heal'.snapshots = Append(heal.snapshots, last) /\ heal'.attempt = heal.attempt
    BY <1>0, <2>1
  <2>5. heal.snapshots \in Seq(S \cup {last})
    BY <2>3
  <2>6. Len(heal'.snapshots) = Len(heal.snapshots) + 1
    BY <2>4, <2>5
  <2> QED
    BY <2>2, <2>4, <2>6 DEF Repairing
<1>3. CASE RevalidateFails
  <2>1. CASE heal.attempt < MaxRetries
    <3>1. heal'.attempt = heal.attempt + 1 /\ heal'.snapshots = heal.snapshots
      BY <1>0, <1>3, <2>1 DEF RevalidateFails
    <3> QED
      BY <1>0, <2>1, <3>1 DEF Repairing
  <2>2. CASE ~(heal.attempt < MaxRetries)
    <3>1. heal' = heal /\ step' # "fix"
      BY <1>3, <2>2 DEF RevalidateFails
    <3> QED
      BY <3>1 DEF Repairing
  <2> QED
    BY <2>1, <2>2
<1>4. CASE ~ValidateFails /\ ~ApplyFixes /\ ~RevalidateFails
  <2>1. (heal' = heal /\ (step' = step \/ step' # "fix")) \/ (heal' = NoHealing /\ step' = "idle")
    <3>1. CASE NextStage
      BY <3>1, TheStages DEF NextStage, STAGES, RunInv, Shapes
    <3> QED
      BY <1>4, <3>1 DEF Next, Stages, Healing, Approve, Withdraw, RequestCancellation, Refuse, Execute, Cancel,
         TimeOut, SaveStage, Complete, MaterializeFails, Materialize, GenerateFails, Generate,
         Apply, ApplyFails, ValidatePasses, ValidatorRaises, DraftPr, NoFixes, FixesBreak,
         RevalidatePasses, Restore, Unhealed, HealedPasses, HealedFails, RollbackFails, Die, Pass,
         Fail, Return, vars
  <2>2. NoHealing.attempt = 0 /\ NoHealing.snapshots = <<>> /\ Len(<<>>) = 0
    BY DEF NoHealing
  <2> QED
    BY <1>0, <2>1, <2>2 DEF Repairing
<1> QED
  BY <1>1, <1>2, <1>3, <1>4

-----------------------------------------------------------------------------
(* Every step keeps the types. *)

Disks == [Workspaces -> Trees]

LEMMA PutTyped ==
    ASSUME NEW d \in Disks, NEW w, NEW t, w \in Workspaces => t \in Trees
    PROVE  Put(d, w, t) \in Disks
<1> DEFINE T == Trees
<1> HIDE DEF T
<1>1. d \in [Workspaces -> T] /\ (w \in Workspaces => t \in T)
  BY DEF Disks, T
<1>2. Put(d, w, t) \in [Workspaces -> T]
  BY <1>1 DEF Put
<1> QED
  BY <1>2 DEF Disks, T

\* The plan that is applied.
LEMMA PlanAtWork == ASSUME RunInv, Written, step = "apply" PROVE Planned(ctx.plan)
<1>1. row.completed = 2 /\ ctx.plan = row.plan
  BY TheStages DEF RunInv, Carried, StageOf
<1> QED
  BY <1>1 DEF Written

LEMMA AppliedTyped ==
    ASSUME RunInv, Kept, Written, step \in {"apply", "fix"}, NEW changes, IsChanges(changes), NEW k
    PROVE  Applied(changes, k) \in Disks
<1>1. row.completed >= 1 /\ step # "idle"
  BY TheStages DEF RunInv, Carried, StageOf
<1>2. ctx.path \in Workspaces
  BY <1>1, AtWork
<1>3. disk \in Disks /\ disk[ctx.path] \in Trees
  BY <1>2 DEF Written, Disks
<1>4. Write(disk[ctx.path], changes, k) \in Trees
  BY <1>3, WriteTyped
<1>5. Applied(changes, k) = Put(disk, ctx.path, Write(disk[ctx.path], changes, k))
  BY DEF Applied, Put
<1> QED
  BY <1>3, <1>4, <1>5, PutTyped

LEMMA HalfTyped ==
    ASSUME RunInv, Kept, Written, NEW files \in HalfWritten
    PROVE  files \in Disks
<1>1. PICK changes, k :
         /\ files = Applied(changes, k)
         /\ \/ step = "apply" /\ changes = ctx.plan
            \/ step = "fix" /\ changes \in Fixes
  BY DEF HalfWritten
<1>2. IsChanges(changes)
  <2>1. \A fixes \in Fixes : IsChanges(fixes)
    BY RunAssumption
  <2> QED
    BY <1>1, <2>1, PlanAtWork DEF Planned
<1> QED
  BY <1>1, <1>2, AppliedTyped

LEMMA RolledBackTyped ==
    ASSUME RunInv, Kept, Written, NEW files, files = disk \/ files \in HalfWritten
    PROVE  RolledBack(files) \in Disks
<1>1. files \in Disks
  BY HalfTyped DEF Written, Disks
<1>2. CASE ~ctx.applier
  BY <1>1, <1>2 DEF RolledBack
<1>3. CASE ctx.applier
  <2>1. RolledBack(files) = Put(files, ctx.path, Rollback(files[ctx.path], ctx.snapshot))
    BY <1>3 DEF RolledBack, Put
  <2>2. ctx.path \in Workspaces => files[ctx.path] \in Trees
    BY <1>1 DEF Disks
  <2>3. ctx.path \in Workspaces => Rollback(files[ctx.path], ctx.snapshot) \in Trees
    BY <1>3, <2>2, RollbackTyped DEF Written
  <2> QED
    BY <1>1, <2>1, <2>3, PutTyped
<1> QED
  BY <1>2, <1>3

LEMMA NewTyped ==
    ASSUME disk \in Disks, NEW files \in Trees, CreateWorkspace(files)
    PROVE  disk' \in Disks
<1>1. disk' = Put(disk, made + 1, files)
  BY DEF CreateWorkspace, Put
<1> QED
  BY <1>1, PutTyped

LEMMA CopiesTyped == Empty \in Trees /\ Redacted \in Trees
BY RunAssumption DEF Empty, Redacted, Trees

LEMMA DisksNext == ASSUME RunInv, Kept, Written, [Next]_vars PROVE disk' \in Disks
<1>0. disk \in Disks
  BY DEF Written, Disks
<1>1. CASE Quietly
  BY <1>0, <1>1, QuietRow
<1>2. CASE TimeOut \/ GenerateFails \/ ApplyFails \/ ValidatorRaises \/ FixesBreak \/ Unhealed
              \/ HealedFails
  <2>1. PICK files : Fail(files) /\ (files = disk \/ files \in HalfWritten)
    BY <1>2, FailingSteps
  <2> QED
    BY <2>1, RolledBackTyped DEF Fail
<1>3. CASE NextStage \/ SaveStage \/ Execute
  BY <1>0, <1>3 DEF NextStage, SaveStage, Execute, workVars
<1>4. CASE MaterializeFails \/ Materialize
  <2>1. disk' = disk \/ CreateWorkspace(Empty) \/ CreateWorkspace(Redacted)
    BY <1>4 DEF MaterializeFails, Materialize, workVars
  <2> QED
    BY <1>0, <2>1, CopiesTyped, NewTyped
<1>5. CASE Apply \/ ApplyFixes
  <2>1. PICK changes :
           /\ disk' = Applied(changes, Len(changes))
           /\ \/ step = "apply" /\ changes = ctx.plan
              \/ step = "fix" /\ changes \in Fixes
    BY <1>5 DEF Apply, ApplyFixes
  <2>2. IsChanges(changes)
    <3>1. \A fixes \in Fixes : IsChanges(fixes)
      BY RunAssumption
    <3> QED
      BY <2>1, <3>1, PlanAtWork DEF Planned
  <2> QED
    BY <2>1, <2>2, AppliedTyped
<1>6. CASE Restore
  <2>1. disk' = Put(disk, ctx.path, BeforeHealing) /\ step = "restore"
    BY <1>6 DEF Restore, Put
  <2>2. BeforeHealing \in Trees
    BY <2>1 DEF Kept, Healable, Written
  <2> QED
    BY <1>0, <2>1, <2>2, PutTyped
<1>7. CASE RollbackFails
  <2>1. PICK restored \in SUBSET DOMAIN ctx.snapshot :
           disk' = [disk EXCEPT ![ctx.path] =
                      [file \in Files |-> IF file \in restored THEN ctx.snapshot[file] ELSE @[file]]]
    BY <1>7 DEF RollbackFails
  <2> DEFINE t == [file \in Files |-> IF file \in restored THEN ctx.snapshot[file]
                                      ELSE disk[ctx.path][file]]
  <2>2. disk' = Put(disk, ctx.path, t)
    BY <2>1 DEF Put
  <2>3. Saved(ctx.snapshot)
    BY <1>7 DEF RollbackFails, Written
  <2>4. ctx.path \in Workspaces => t \in Trees
    <3> SUFFICES ASSUME ctx.path \in Workspaces PROVE t \in Trees
      OBVIOUS
    <3>1. disk[ctx.path] \in Trees
      BY <1>0 DEF Disks
    <3> QED
      BY <2>3, <3>1 DEF Trees, Saved
  <2> HIDE DEF t
  <2> QED
    BY <1>0, <2>2, <2>4, PutTyped
<1>8. CASE Die
  BY <1>0, <1>8, HalfTyped DEF Die
<1> QED
  BY <1>1, <1>2, <1>3, <1>4, <1>5, <1>6, <1>7, <1>8 DEF Next, Stages, Healing, Quietly

-----------------------------------------------------------------------------
PlansKept ==
    /\ row.completed >= 2 => Planned(row.plan)
    /\ step = "save" /\ ctx.stage = 1 => Planned(ctx.plan)
SnapshotsKept ==
    /\ row.completed >= 3 => Saved(row.snapshot)
    /\ ctx.applier => Saved(ctx.snapshot)
FoundKept == step \in {"fix", "revalidate", "restore", "unhealed"} => heal.before \in Trees

LEMMA WrittenIs ==
    /\ Written <=> disk \in Disks /\ PlansKept /\ SnapshotsKept /\ FoundKept
    /\ Written' <=> disk' \in Disks /\ PlansKept' /\ SnapshotsKept' /\ FoundKept'
BY DEF Written, PlansKept, SnapshotsKept, FoundKept, Disks, Workspaces

\* What becomes of the row and of what the stage that ends has set.
LEMMA RowSteps ==
    ASSUME RunInv, [Next]_vars
    PROVE  \/ /\ row'.completed = row.completed /\ row'.plan = row.plan /\ row'.snapshot = row.snapshot
              /\ ~SaveStage
           \/ SaveStage /\ row'.completed = row.completed + 1
              /\ row'.plan = ctx.plan /\ row'.snapshot = ctx.snapshot
<1>0. DOMAIN row = RowFields
  BY DEF RunInv, Shapes
<1>1. CASE SaveStage
  BY <1>0, <1>1 DEF SaveStage, RowFields
<1>2. CASE ~SaveStage
  <2>1. \/ row' = row \/ row' = [row EXCEPT !.cancel = TRUE]
        \/ \E status : row' = [row EXCEPT !.status = status]
        \/ row' = [row EXCEPT !.status = "running", !.attempts = @ + 1]
    BY <1>2 DEF Next, Stages, Healing, Approve, Withdraw, RequestCancellation, Refuse, Execute, Cancel, TimeOut,
     NextStage, Complete, MaterializeFails, Materialize, GenerateFails, Generate,
     Apply, ApplyFails, ValidatePasses, ValidateFails, ValidatorRaises, DraftPr, NoFixes,
     ApplyFixes, FixesBreak, RevalidatePasses, RevalidateFails, Restore, Unhealed, HealedPasses,
     HealedFails, RollbackFails, Die, Fail, Return, vars
  <2> QED
    BY <1>0, <1>2, <2>1 DEF RowFields
<1> QED
  BY <1>1, <1>2

LEMMA PlansNext == ASSUME RunInv, Written, [Next]_vars PROVE PlansKept'
<1>0. DOMAIN ctx = ContextFields /\ row.completed \in 0 .. 5 /\ ctx.stage \in 0 .. 5
  BY DEF RunInv, Shapes
<1>1. row'.completed >= 2 => Planned(row'.plan)
  <2>1. CASE SaveStage
    <3>1. /\ row'.completed = row.completed + 1 /\ row'.plan = ctx.plan
          /\ step = "save" /\ ctx.stage = row.completed
          /\ row.completed >= 2 => ctx.plan = row.plan
      BY <2>1, RowSteps DEF SaveStage, RunInv, Carried
    <3> QED
      BY <1>0, <3>1 DEF Written
  <2>2. CASE ~SaveStage
    BY <2>2, RowSteps DEF Written
  <2> QED
    BY <2>1, <2>2
<1>2. step' = "save" /\ ctx'.stage = 1 => Planned(ctx'.plan)
  <2>1. CASE Generate
    <3>1. PICK output \in Outputs \cup {NoOutput} :
             ctx' = [ctx EXCEPT !.plan = BuildPlan(output, EstimatedFiles)]
      BY <2>1 DEF Generate
    <3>2. ctx'.plan = BuildPlan(output, EstimatedFiles)
      BY <1>0, <3>1 DEF ContextFields
    <3> QED
      BY <3>2, BuiltPlanned
  <2>2. CASE Materialize \/ Apply \/ ValidatePasses \/ HealedPasses \/ DraftPr
    <3>1. step \in {"materialize", "apply", "validate", "healed", "draft_pr"} /\ ctx'.stage = ctx.stage
      BY <1>0, <2>2 DEF Materialize, Apply, ValidatePasses, HealedPasses, DraftPr, ContextFields
    <3>2. ctx.stage # 1
      BY <3>1, TheStages DEF RunInv, Carried, StageOf
    <3> QED
      BY <3>1, <3>2
  <2>3. CASE ~Generate /\ ~Materialize /\ ~Apply /\ ~ValidatePasses /\ ~HealedPasses /\ ~DraftPr
    <3>1. step' # "save" \/ (step = "save" /\ ctx' = ctx)
      <4>1. CASE NextStage
        BY <4>1, TheStages DEF NextStage, STAGES, RunInv, Shapes
      <4> QED
        BY <2>3, <4>1 DEF Next, Stages, Healing, Approve, Withdraw, RequestCancellation, Refuse, Execute,
           Cancel, TimeOut, SaveStage, Complete, MaterializeFails, GenerateFails, ApplyFails,
           ValidateFails, ValidatorRaises, NoFixes, ApplyFixes, FixesBreak, RevalidatePasses,
           RevalidateFails, Restore, Unhealed, HealedFails, RollbackFails, Die, Fail, Return, vars
    <3> QED
      BY <3>1 DEF Written
  <2> QED
    BY <2>1, <2>2, <2>3
<1> QED
  BY <1>1, <1>2 DEF PlansKept

LEMMA SnapshotsNext == ASSUME RunInv, Kept, Written, [Next]_vars PROVE SnapshotsKept'
<1>0. DOMAIN ctx = ContextFields /\ row.completed \in 0 .. 5 /\ ctx.stage \in 0 .. 5
  BY DEF RunInv, Shapes
<1>1. row'.completed >= 3 => Saved(row'.snapshot)
  <2>1. CASE SaveStage
    <3>1. /\ row'.completed = row.completed + 1 /\ row'.snapshot = ctx.snapshot
          /\ step = "save" /\ ctx.stage = row.completed
          /\ row.completed >= 3 => ctx.snapshot = row.snapshot
          /\ ctx.stage = 2 => ctx.applier
      BY <2>1, RowSteps DEF SaveStage, RunInv, Carried, Kept, Settled
    <3> QED
      BY <1>0, <3>1 DEF Written
  <2>2. CASE ~SaveStage
    BY <2>2, RowSteps DEF Written
  <2> QED
    BY <2>1, <2>2
<1>2. ctx'.applier => Saved(ctx'.snapshot)
  <2>1. CASE Apply
    <3>1. row.completed = 2 /\ step = "apply"
      BY <2>1, TheStages DEF Apply, RunInv, Carried, StageOf
    <3>2. disk[ctx.path] \in Trees
      BY <3>1, AtWork DEF Written
    <3>3. ctx'.snapshot = Snapshot(disk[ctx.path], ctx.plan)
      BY <1>0, <2>1 DEF Apply, ContextFields
    <3> QED
      BY <3>2, <3>3, SnapshotSaved
  <2>2. CASE ~Apply
    <3>1. \/ ctx' = ctx \/ ctx' = NoContext \/ ctx' = BuildContext
          \/ ctx' = [ctx EXCEPT !.stage = @ + 1]
          \/ ctx' = [ctx EXCEPT !.path = made + 1]
          \/ \E plan : ctx' = [ctx EXCEPT !.plan = plan]
      BY <2>2 DEF Next, Stages, Healing, Approve, Withdraw, RequestCancellation, Refuse, Execute, Cancel, TimeOut,
     NextStage, SaveStage, Complete, MaterializeFails, Materialize, GenerateFails, Generate,
     ApplyFails, ValidatePasses, ValidateFails, ValidatorRaises, DraftPr, NoFixes,
     ApplyFixes, FixesBreak, RevalidatePasses, RevalidateFails, Restore, Unhealed, HealedPasses,
     HealedFails, RollbackFails, Die, Fail, Return, vars
    <3>2. CASE ctx' = NoContext
      BY <3>2 DEF NoContext
    <3>3. CASE ctx' = BuildContext
      <4>1. ctx'.applier => row.completed >= 3 /\ ctx'.snapshot = row.snapshot
        BY <3>3 DEF BuildContext
      <4> QED
        BY <4>1 DEF Written
    <3>4. CASE ctx' # NoContext /\ ctx' # BuildContext
      <4>1. ctx'.applier = ctx.applier /\ ctx'.snapshot = ctx.snapshot
        BY <1>0, <3>1, <3>4 DEF ContextFields
      <4> QED
        BY <4>1 DEF Written
    <3> QED
      BY <3>2, <3>3, <3>4
  <2> QED
    BY <2>1, <2>2
<1> QED
  BY <1>1, <1>2 DEF SnapshotsKept

LEMMA FoundNext == ASSUME RunInv, Kept, Written, [Next]_vars PROVE FoundKept'
<1>0. heal = [attempt |-> heal.attempt, snapshots |-> heal.snapshots, before |-> heal.before]
  BY DEF Kept, Healable
<1>1. CASE ValidateFails
  <2>1. step = "validate" /\ heal'.before = disk[ctx.path]
    BY <1>1 DEF ValidateFails
  <2>2. row.completed = 3
    BY <2>1, TheStages DEF RunInv, Carried, StageOf
  <2>3. disk[ctx.path] \in Trees
    BY <2>1, <2>2, AtWork DEF Written
  <2> QED
    BY <2>1, <2>3 DEF FoundKept
<1>2. CASE ~ValidateFails
  <2>1. \/ step' \notin {"fix", "revalidate", "restore", "unhealed"}
        \/ /\ step \in {"fix", "revalidate", "restore", "unhealed"}
           /\ \/ heal' = heal \/ heal' = [heal EXCEPT !.attempt = @ + 1]
              \/ \E snapshots : heal' = [heal EXCEPT !.snapshots = snapshots]
    <3>1. CASE NextStage
      BY <3>1, TheStages DEF NextStage, STAGES, RunInv, Shapes
    <3> QED
      BY <1>2, <3>1 DEF Next, Stages, Healing, Approve, Withdraw, RequestCancellation, Refuse, Execute, Cancel,
         TimeOut, SaveStage, Complete, MaterializeFails, Materialize, GenerateFails, Generate,
         Apply, ApplyFails, ValidatePasses, ValidatorRaises, DraftPr, NoFixes, ApplyFixes, FixesBreak,
         RevalidatePasses, RevalidateFails, Restore, Unhealed, HealedPasses, HealedFails,
         RollbackFails, Die, Pass, Fail, Return, vars
  <2>2. CASE step' \notin {"fix", "revalidate", "restore", "unhealed"}
    BY <2>2 DEF FoundKept
  <2>3. CASE step' \in {"fix", "revalidate", "restore", "unhealed"}
    <3>1. heal'.before = heal.before /\ step \in {"fix", "revalidate", "restore", "unhealed"}
      BY <1>0, <2>1, <2>3
    <3> QED
      BY <3>1 DEF FoundKept, Written
  <2> QED
    BY <2>2, <2>3
<1> QED
  BY <1>1, <1>2

LEMMA FittingInit == Init => Fitting
<1> SUFFICES ASSUME Init PROVE Fitting
  OBVIOUS
<1>1. Bounded
  <2>1. gate = [status |-> "none", draft |-> FALSE] /\ row.status = "pending" /\ row.path = 0
        /\ made = 0 /\ ctx.path = 0 /\ ctx.applier = FALSE /\ approved = FALSE /\ refused = FALSE
    BY DEF Init, NoContext
  <2>2. gate \in [status : {"none", "passed", "failed"}, draft : BOOLEAN]
    BY <2>1
  <2>3. row.status \in Statuses /\ row.path \in 0 .. made /\ ctx.path \in 0 .. made
    BY <2>1 DEF Statuses
  <2>4. approved \in BOOLEAN /\ refused \in BOOLEAN /\ ctx.applier \in BOOLEAN
    BY <2>1
  <2> QED
    BY <2>2, <2>3, <2>4 DEF Bounded
<1>2. Limited
  <2>1. /\ faults.death = 0 /\ faults.write = 0 /\ faults.rollback = 0 /\ faults.validator = 0
        /\ MaxFaults \in Nat
    BY RunAssumption DEF Init, FaultKinds
  <2> QED
    BY <2>1 DEF Limited
<1>3. Repairing
  BY RunAssumption DEF Init, Repairing, NoHealing
<1>4. Written
  BY CopiesTyped DEF Init, Written, NoContext
<1> QED
  BY <1>1, <1>2, <1>3, <1>4 DEF Fitting

LEMMA FittingNext == ASSUME RunInv, Kept, Fitting, [Next]_vars PROVE Fitting'
<1>1. Bounded' /\ Limited' /\ Repairing'
  BY BoundedNext, LimitedNext, RepairingNext DEF Fitting
<1>2. disk' \in Disks /\ PlansKept' /\ SnapshotsKept' /\ FoundKept'
  BY DisksNext, PlansNext, SnapshotsNext, FoundNext DEF Fitting
<1> QED
  BY <1>1, <1>2, WrittenIs DEF Fitting

LEMMA FittingAlways == Spec => [](RunInv /\ Kept /\ Fitting)
<1>1. Init => RunInv /\ Kept /\ Fitting
  BY RunInit, KeptInit, FittingInit
<1>2. RunInv /\ Kept /\ Fitting /\ [Next]_vars => (RunInv /\ Kept /\ Fitting)'
  BY RunNext, KeptNext, FittingNext
<1> QED
  BY <1>1, <1>2, PTL DEF Spec

-----------------------------------------------------------------------------
(* In memory and on the files. *)

\* What an operation comes to depends on what the file is, not on how it came about.
LEMMA SameOutcome ==
    ASSUME NEW one \in Entries, NEW other \in Entries, Outcome(one) = Outcome(other), NEW op
    PROVE  Outcome(ApplyOp(one, op)) = Outcome(ApplyOp(other, op))
<1>0. /\ \A entry \in Entries : /\ entry = [deleted |-> entry.deleted, content |-> entry.content]
                                /\ entry.deleted \in BOOLEAN
                                /\ entry.content \in Seq(Readable) \cup {NoFile}
      /\ NoFile \notin Seq(Readable)
  BY Reading DEF Entries
<1>1. CASE Kind(op) \in {"create_file", "replace_file"}
  <2>1. CASE op.content = <<>>
    BY <1>1, <2>1, ApplyOpIs
  <2>2. CASE op.content # <<>>
    <3>1. /\ ApplyOp(one, op) = [content |-> op.content, deleted |-> FALSE]
          /\ ApplyOp(other, op) = [content |-> op.content, deleted |-> FALSE]
      BY <1>1, <2>2, ApplyOpIs
    <3> QED
      BY <3>1
  <2> QED
    BY <2>1, <2>2
<1>2. CASE Kind(op) = "delete_file"
  <2>1. ApplyOp(one, op) = [one EXCEPT !.deleted = TRUE] /\ ApplyOp(other, op) = [other EXCEPT !.deleted = TRUE]
    BY <1>2, ApplyOpIs
  <2>2. ApplyOp(one, op).deleted = TRUE /\ ApplyOp(other, op).deleted = TRUE
    BY <1>0, <2>1
  <2> QED
    BY <2>2 DEF Outcome
<1>3. CASE Kind(op) \notin {"create_file", "replace_file", "delete_file"}
  <2>1. \A entry \in Entries : Edits(entry, op) =>
           entry.content = Outcome(entry) /\ Outcome(entry) # NoFile
    BY DEF Edits, Outcome
  <2>2. \A entry \in Entries : Outcome(entry) # NoFile => ~entry.deleted /\ entry.content = Outcome(entry)
    BY DEF Outcome
  <2>3. Edits(one, op) <=> Edits(other, op)
    BY <2>1, <2>2 DEF Edits
  <2>4. CASE ~Edits(one, op)
    BY <1>3, <2>3, <2>4, ApplyOpIs
  <2>5. CASE Edits(one, op)
    <3> DEFINE edited == Edit(one.content, Kind(op), op.target, op.content)
    <3>1. one.content = other.content /\ ~one.deleted /\ ~other.deleted
      BY <2>1, <2>3, <2>5 DEF Edits
    <3>2. ApplyOp(one, op) = [one EXCEPT !.content = edited]
      BY <2>5, ApplyOpIs
    <3>3. ApplyOp(other, op) = [other EXCEPT !.content = edited]
      <4>1. ApplyOp(other, op) = [other EXCEPT !.content = Edit(other.content, Kind(op), op.target, op.content)]
        BY <2>3, <2>5, ApplyOpIs
      <4> QED
        BY <3>1, <4>1
    <3> HIDE DEF edited
    <3>4. /\ ApplyOp(one, op).content = edited /\ ApplyOp(one, op).deleted = one.deleted
          /\ ApplyOp(other, op).content = edited /\ ApplyOp(other, op).deleted = other.deleted
      BY <1>0, <3>2, <3>3
    <3> QED
      BY <3>1, <3>4 DEF Outcome
  <2> QED
    BY <2>4, <2>5
<1> QED
  BY <1>1, <1>2, <1>3

LEMMA SameWorkedOut ==
    ASSUME NEW Ops, Textual(Ops), NEW one \in Entries, NEW other \in Entries,
           Outcome(one) = Outcome(other), NEW ops \in Seq(Ops)
    PROVE  Outcome(WorkedOut(one, ops)) = Outcome(WorkedOut(other, ops))
<1> DEFINE n == Len(ops)
<1>1. n \in Nat /\ n = Len(ops) /\ n \in 0 .. n
  OBVIOUS
<1> HIDE DEF n
<1>2. PICK F : Worked(F, one, ops, n) /\ WorkedOut(one, ops) = F[n]
  BY <1>1, WorkedOutIs
<1>3. PICK G : Worked(G, other, ops, n) /\ WorkedOut(other, ops) = G[n]
  BY <1>1, WorkedOutIs
<1> DEFINE Good == {k \in Nat : Outcome(F[k]) = Outcome(G[k])}
<1>4. 0 \in Good
  BY <1>2, <1>3 DEF Worked
<1>5. ASSUME NEW k \in 1 .. n, k - 1 \in Good PROVE k \in Good
  <2>1. /\ F[k] = ApplyOp(F[k - 1], ops[k]) /\ G[k] = ApplyOp(G[k - 1], ops[k])
        /\ F[k - 1] \in Entries /\ G[k - 1] \in Entries /\ k \in Nat
    BY <1>1, <1>2, <1>3 DEF Worked
  <2>2. Outcome(ApplyOp(F[k - 1], ops[k])) = Outcome(ApplyOp(G[k - 1], ops[k]))
    BY <1>5, <2>1, SameOutcome
  <2> QED
    BY <2>1, <2>2
<1> HIDE DEF Good
<1>6. \A k \in 0 .. n : k \in Good
  <2>1. 0 + 1 = 1
    OBVIOUS
  <2>2. \A k \in 0 + 1 .. n : k - 1 \in Good => k \in Good
    BY <1>5, <2>1, Zenon
  <2> QED
    BY <1>1, <1>4, <2>2, UpToLength
<1> QED
  BY <1>1, <1>2, <1>3, <1>6 DEF Good

LEMMA WorkedOutNothing == ASSUME NEW base \in Entries PROVE WorkedOut(base, <<>>) = base
<1>1. Textual({}) /\ <<>> \in Seq({}) /\ 0 = Len(<<>>)
  BY DEF Textual
<1>2. PICK F : Worked(F, base, <<>>, 0) /\ WorkedOut(base, <<>>) = F[0]
  BY <1>1, WorkedOutIs
<1> QED
  BY <1>2 DEF Worked

\* The operations of one change, then those of the next.
LEMMA WorkedOutJoin ==
    ASSUME NEW Ops, Textual(Ops), NEW base \in Entries, NEW first \in Seq(Ops), NEW then \in Seq(Ops)
    PROVE  WorkedOut(base, first \o then) = WorkedOut(WorkedOut(base, first), then)
<1> DEFINE n == Len(first)
           m == Len(then)
           all == first \o then
           l == n + m
           mid == WorkedOut(base, first)
<1>1. /\ n \in Nat /\ m \in Nat /\ l \in Nat /\ l = n + m /\ n = Len(first) /\ m = Len(then)
      /\ all \in Seq(Ops) /\ l = Len(all)
      /\ \A k \in 1 .. n : all[k] = first[k]
      /\ \A k \in 1 .. m : all[n + k] = then[k]
  OBVIOUS
<1>2. mid \in Entries
  BY WorkedOutTyped
<1>0. mid = WorkedOut(base, first)
  OBVIOUS
<1> HIDE DEF n, m, all, l, mid
<1>3. PICK F : Worked(F, base, all, l) /\ WorkedOut(base, all) = F[l]
  BY <1>1, WorkedOutIs
<1>4. PICK G : Worked(G, base, first, n) /\ mid = G[n]
  BY <1>0, <1>1, WorkedOutIs
<1>5. PICK H : Worked(H, mid, then, m) /\ WorkedOut(mid, then) = H[m]
  BY <1>1, <1>2, WorkedOutIs
<1> DEFINE Good == {k \in Nat : F[k] = G[k]}
<1>6. 0 \in Good
  BY <1>3, <1>4 DEF Worked
<1>7. ASSUME NEW k \in 1 .. n, k - 1 \in Good PROVE k \in Good
  <2>1. k \in 1 .. l /\ k \in Nat
    BY <1>1
  <2>2. F[k] = ApplyOp(F[k - 1], all[k]) /\ G[k] = ApplyOp(G[k - 1], first[k]) /\ all[k] = first[k]
    BY <1>1, <1>3, <1>4, <2>1 DEF Worked
  <2> QED
    BY <1>7, <2>1, <2>2
<1> HIDE DEF Good
<1>8. F[n] = mid
  <2>1. 0 + 1 = 1 /\ n \in 0 .. n
    BY <1>1
  <2>2. \A k \in 0 + 1 .. n : k - 1 \in Good => k \in Good
    BY <1>7, <2>1, Zenon
  <2>3. \A k \in 0 .. n : k \in Good
    BY <1>1, <1>6, <2>2, UpToLength
  <2> QED
    BY <1>4, <2>1, <2>3 DEF Good
<1> DEFINE Fine == {k \in Nat : F[n + k] = H[k]}
<1>9. 0 \in Fine
  <2>1. n + 0 = n
    BY <1>1
  <2> QED
    BY <1>5, <1>8, <2>1 DEF Worked
<1>10. ASSUME NEW k \in 1 .. m, k - 1 \in Fine PROVE k \in Fine
  <2> DEFINE i == n + k
  <2>0. n \in Nat /\ m \in Nat /\ l = n + m /\ k \in Nat /\ 1 <= k /\ k <= m
    BY <1>1
  <2>1. i \in 1 .. l /\ k \in Nat /\ i - 1 = n + (k - 1) /\ all[i] = then[k]
    <3>1. i \in 1 .. l /\ i - 1 = n + (k - 1)
      BY <2>0
    <3>2. all[n + k] = then[k]
      BY <1>1
    <3> QED
      BY <2>0, <3>1, <3>2
  <2>2. F[i] = ApplyOp(F[i - 1], all[i])
    <3> HIDE DEF i
    <3> QED
      BY <1>3, <2>1 DEF Worked
  <2>3. H[k] = ApplyOp(H[k - 1], then[k])
    BY <1>5 DEF Worked
  <2>4. F[n + (k - 1)] = H[k - 1]
    BY <1>10
  <2> HIDE DEF i
  <2>5. F[i] = H[k]
    BY <2>1, <2>2, <2>3, <2>4
  <2> QED
    BY <2>1, <2>5 DEF i
<1> HIDE DEF Fine
<1>11. F[n + m] = H[m]
  <2>1. 0 + 1 = 1 /\ m \in 0 .. m
    BY <1>1
  <2>2. \A k \in 0 + 1 .. m : k - 1 \in Fine => k \in Fine
    BY <1>10, <2>1, Zenon
  <2>3. \A k \in 0 .. m : k \in Fine
    BY <1>1, <1>9, <2>2, UpToLength
  <2> QED
    BY <2>1, <2>3 DEF Fine
<1>12. WorkedOut(base, all) = WorkedOut(mid, then)
  BY <1>1, <1>3, <1>5, <1>11
<1> QED
  BY <1>12 DEF all, mid

\* Text reads back as it was written.
LEMMA ReadBack ==
    ASSUME NEW tree \in Trees, NEW name \in Names, Resolve[name] \in Files,
           tree[Resolve[name]] \in Seq(Readable) \cup {NoFile}
    PROVE  Entry(tree, name) \in Entries /\ Outcome(Entry(tree, name)) = tree[Resolve[name]]
<1> DEFINE text == tree[Resolve[name]]
<1>1. Entry(tree, name) \in Entries
  BY EntryTyped
<1>2. CASE text = NoFile
  <2>1. Entry(tree, name) = [deleted |-> FALSE, content |-> NoFile]
    BY <1>2 DEF Entry
  <2> QED
    BY <1>1, <1>2, <2>1 DEF Outcome
<1>3. CASE text # NoFile
  <2>1. Entry(tree, name) = [deleted |-> FALSE, content |-> [i \in DOMAIN text |-> Decode[text[i]]]]
    BY <1>3 DEF Entry
  <2>0. text \in Seq(Readable)
    BY <1>3
  <2> HIDE DEF text
  <2>2. text = [i \in DOMAIN text |-> text[i]] /\ \A i \in DOMAIN text : text[i] \in Readable
    BY <2>0
  <2>3. [i \in DOMAIN text |-> Decode[text[i]]] = text
    BY <2>2 DEF Readable
  <2>4. Outcome(Entry(tree, name)) = text
    BY <2>1, <2>3 DEF Outcome
  <2> QED
    BY <1>1, <2>4 DEF text
<1> QED
  BY <1>2, <1>3

-----------------------------------------------------------------------------
(* The reference: one operation after the other, on the files. *)

\* Operations on one file.
Through(files, name, ops) == FoldLeft(LAMBDA fs, op : OnFile(fs, name, op), files, ops)

\* F[k]: the files after the first k operations on one of them.
Threaded(F, base, name, ops, n) ==
    /\ F[0] = base
    /\ \A k \in 1 .. n : F[k] = OnFile(F[k - 1], name, ops[k])
    /\ \A k \in 0 .. n : F[k] \in Trees

\* F[k]: the files after the first k changes.
Sequenced(F, base, changes, n) ==
    /\ F[0] = base
    /\ \A k \in 1 .. n : F[k] = OnFiles(F[k - 1], changes[k])
    /\ \A k \in 0 .. n : F[k] \in Trees

LEMMA UpTo ==
    ASSUME NEW n \in Nat, NEW k \in 1 .. n
    PROVE  /\ (1 .. k) \in SUBSET (1 .. n) /\ (1 .. k) # {} /\ (1 .. k) \ {k} = 1 .. k - 1
           /\ k \in 0 .. n /\ k - 1 \in 0 .. n
OBVIOUS

LEMMA OnFileTyped ==
    ASSUME NEW tree \in Trees, NEW name \in Names, Resolve[name] \in Files, NEW op, op.content \in Seq(Readable)
    PROVE  OnFile(tree, name, op) \in Trees
<1>1. ApplyOp(Entry(tree, name), op) \in Entries
  BY EntryTyped, ApplyOpTyped
<1> DEFINE T == Texts \cup {NoFile}
           text == Outcome(ApplyOp(Entry(tree, name), op))
<1>2. text \in T
  BY <1>1, OutcomeTyped
<1> HIDE DEF text, T
<1>3. tree \in [Files -> T]
  BY DEF Trees, T
<1>4. OnFile(tree, name, op) = [tree EXCEPT ![Resolve[name]] = text]
  BY DEF OnFile, text
<1>5. OnFile(tree, name, op) \in [Files -> T]
  BY <1>2, <1>3, <1>4
<1> QED
  BY <1>5 DEF Trees, T

LEMMA ThroughIs ==
    ASSUME NEW Ops, Textual(Ops), NEW name \in Names, Resolve[name] \in Files,
           NEW base \in Trees, NEW ops \in Seq(Ops), NEW n \in Nat, n = Len(ops)
    PROVE  \E F : Threaded(F, base, name, ops, n) /\ Through(base, name, ops) = F[n]
<1> DEFINE G == [x \in Trees \X Ops |-> OnFile(x[1], name, x[2])]
           h == CHOOSE f : f = [s \in SUBSET DOMAIN ops |->
                    IF s = {} THEN base ELSE OnFile(f[s \ {Max(s)}], name, ops[Max(s)])]
<1>1. \A x \in Trees \X Ops : OnFile(x[1], name, x[2]) \in Trees
  <2>1. \A tree \in Trees, op \in Ops : OnFile(tree, name, op) \in Trees
    BY OnFileTyped DEF Textual
  <2> QED
    BY <2>1
<1>2. G \in [Trees \X Ops -> Trees]
  BY <1>1
<1>3. \A entry \in Trees, op \in Ops : G[<<entry, op>>] = OnFile(entry, name, op)
  OBVIOUS
<1>4. Through(base, name, ops) = h[DOMAIN ops] /\ DOMAIN ops = 1 .. n
  <2>1. Through(base, name, ops) = h[DOMAIN ops]
    BY Zenon DEF Through, FoldLeft, MapThenFoldSet
  <2> QED
    BY <2>1
<1> HIDE DEF G
<1>5. PICK g : Reached(g, G, base, ops, n, Trees)
  BY <1>2, FoldedIs
<1>6. g = [s \in SUBSET (1 .. n) |-> IF s = {} THEN base ELSE OnFile(g[s \ {Max(s)}], name, ops[Max(s)])]
  <2>1. g = [s \in SUBSET (1 .. n) |-> IF s = {} THEN base ELSE G[<<g[s \ {Max(s)}], ops[Max(s)]>>]]
    BY <1>5, Zenon DEF Reached, Folded
  <2>2. ASSUME NEW s \in SUBSET (1 .. n), s # {}
        PROVE  g[s \ {Max(s)}] \in Trees /\ ops[Max(s)] \in Ops
    <3>1. Max(s) \in 1 .. n
      BY <2>2, MaxIn
    <3>2. s \ {Max(s)} \in SUBSET (1 .. n)
      OBVIOUS
    <3> QED
      BY <1>5, <3>1, <3>2, ElementOfSeq DEF Reached
  <2>3. ASSUME NEW s \in SUBSET (1 .. n)
        PROVE  (IF s = {} THEN base ELSE G[<<g[s \ {Max(s)}], ops[Max(s)]>>])
                 = (IF s = {} THEN base ELSE OnFile(g[s \ {Max(s)}], name, ops[Max(s)]))
    BY <1>3, <2>2, Zenon
  <2> QED
    BY <2>1, <2>3, Zenon
<1>7. h = [s \in SUBSET (1 .. n) |-> IF s = {} THEN base ELSE OnFile(h[s \ {Max(s)}], name, ops[Max(s)])]
  <2>1. g = [s \in SUBSET DOMAIN ops |-> IF s = {} THEN base ELSE OnFile(g[s \ {Max(s)}], name, ops[Max(s)])]
    BY <1>4, <1>6, Zenon
  <2>2. h = [s \in SUBSET DOMAIN ops |-> IF s = {} THEN base ELSE OnFile(h[s \ {Max(s)}], name, ops[Max(s)])]
    BY <2>1, Zenon
  <2> QED
    BY <1>4, <2>2, Zenon
<1> HIDE DEF h
<1> DEFINE F == [k \in 0 .. n |-> h[1 .. k]]
<1>8. F[0] = base
  <2>1. (1 .. 0) = {} /\ (1 .. 0) \in SUBSET (1 .. n) /\ 0 \in 0 .. n
    OBVIOUS
  <2>2. h[1 .. 0] = base
    BY <1>7, <2>1, Zenon
  <2> QED
    BY <2>1, <2>2
<1>9. ASSUME NEW k \in 1 .. n PROVE F[k] = OnFile(F[k - 1], name, ops[k])
  <2>1. /\ (1 .. k) \in SUBSET (1 .. n) /\ (1 .. k) # {} /\ (1 .. k) \ {k} = 1 .. k - 1
        /\ k \in 0 .. n /\ k - 1 \in 0 .. n
    BY UpTo
  <2>2. Max(1 .. k) = k
    BY MaxIs
  <2>3. h[1 .. k] = OnFile(h[(1 .. k) \ {Max(1 .. k)}], name, ops[Max(1 .. k)])
    BY <1>7, <2>1, Zenon
  <2>4. h[1 .. k] = OnFile(h[1 .. k - 1], name, ops[k])
    BY <2>1, <2>2, <2>3, Zenon
  <2>5. F[k] = h[1 .. k] /\ F[k - 1] = h[1 .. k - 1]
    BY <2>1
  <2> QED
    BY <2>4, <2>5, Zenon
<1>10. F[n] = Through(base, name, ops)
  BY <1>4
<1> HIDE DEF F
<1> DEFINE Good == {k \in Nat : F[k] \in Trees}
<1>11. 0 \in Good
  BY <1>8
<1>12. ASSUME NEW k \in 1 .. n, k - 1 \in Good PROVE k \in Good
  <2>1. ops[k] \in Ops /\ F[k - 1] \in Trees /\ k \in Nat
    BY <1>12, ElementOfSeq
  <2>2. OnFile(F[k - 1], name, ops[k]) \in Trees
    BY <2>1, OnFileTyped DEF Textual
  <2> QED
    BY <1>9, <2>1, <2>2
<1> HIDE DEF Good
<1>13. \A k \in 0 .. n : k \in Good
  <2>1. 0 + 1 = 1
    OBVIOUS
  <2>2. \A k \in 0 + 1 .. n : k - 1 \in Good => k \in Good
    BY <1>12, <2>1, Zenon
  <2> QED
    BY <1>11, <2>2, UpToLength
<1>14. Threaded(F, base, name, ops, n)
  BY <1>8, <1>9, <1>13 DEF Threaded, Good
<1> QED
  BY <1>10, <1>14

LEMMA InSequenceIs ==
    ASSUME NEW Changes, \A files \in Trees, change \in Changes : OnFiles(files, change) \in Trees,
           NEW base \in Trees, NEW changes \in Seq(Changes), NEW n \in Nat, n = Len(changes)
    PROVE  \E F : Sequenced(F, base, changes, n) /\ InSequence(base, changes) = F[n]
<1> DEFINE G == [x \in Trees \X Changes |-> OnFiles(x[1], x[2])]
           h == CHOOSE f : f = [s \in SUBSET DOMAIN changes |->
                    IF s = {} THEN base ELSE OnFiles(f[s \ {Max(s)}], changes[Max(s)])]
<1>1. \A x \in Trees \X Changes : OnFiles(x[1], x[2]) \in Trees
  OBVIOUS
<1>2. G \in [Trees \X Changes -> Trees]
  BY <1>1
<1>3. \A entry \in Trees, op \in Changes : G[<<entry, op>>] = OnFiles(entry, op)
  OBVIOUS
<1>4. InSequence(base, changes) = h[DOMAIN changes] /\ DOMAIN changes = 1 .. n
  <2>1. InSequence(base, changes) = h[DOMAIN changes]
    BY Zenon DEF InSequence, FoldLeft, MapThenFoldSet
  <2> QED
    BY <2>1
<1> HIDE DEF G
<1>5. PICK g : Reached(g, G, base, changes, n, Trees)
  BY <1>2, FoldedIs
<1>6. g = [s \in SUBSET (1 .. n) |-> IF s = {} THEN base ELSE OnFiles(g[s \ {Max(s)}], changes[Max(s)])]
  <2>1. g = [s \in SUBSET (1 .. n) |-> IF s = {} THEN base ELSE G[<<g[s \ {Max(s)}], changes[Max(s)]>>]]
    BY <1>5, Zenon DEF Reached, Folded
  <2>2. ASSUME NEW s \in SUBSET (1 .. n), s # {}
        PROVE  g[s \ {Max(s)}] \in Trees /\ changes[Max(s)] \in Changes
    <3>1. Max(s) \in 1 .. n
      BY <2>2, MaxIn
    <3>2. s \ {Max(s)} \in SUBSET (1 .. n)
      OBVIOUS
    <3> QED
      BY <1>5, <3>1, <3>2, ElementOfSeq DEF Reached
  <2>3. ASSUME NEW s \in SUBSET (1 .. n)
        PROVE  (IF s = {} THEN base ELSE G[<<g[s \ {Max(s)}], changes[Max(s)]>>])
                 = (IF s = {} THEN base ELSE OnFiles(g[s \ {Max(s)}], changes[Max(s)]))
    BY <1>3, <2>2, Zenon
  <2> QED
    BY <2>1, <2>3, Zenon
<1>7. h = [s \in SUBSET (1 .. n) |-> IF s = {} THEN base ELSE OnFiles(h[s \ {Max(s)}], changes[Max(s)])]
  <2>1. g = [s \in SUBSET DOMAIN changes |-> IF s = {} THEN base ELSE OnFiles(g[s \ {Max(s)}], changes[Max(s)])]
    BY <1>4, <1>6, Zenon
  <2>2. h = [s \in SUBSET DOMAIN changes |-> IF s = {} THEN base ELSE OnFiles(h[s \ {Max(s)}], changes[Max(s)])]
    BY <2>1, Zenon
  <2> QED
    BY <1>4, <2>2, Zenon
<1> HIDE DEF h
<1> DEFINE F == [k \in 0 .. n |-> h[1 .. k]]
<1>8. F[0] = base
  <2>1. (1 .. 0) = {} /\ (1 .. 0) \in SUBSET (1 .. n) /\ 0 \in 0 .. n
    OBVIOUS
  <2>2. h[1 .. 0] = base
    BY <1>7, <2>1, Zenon
  <2> QED
    BY <2>1, <2>2
<1>9. ASSUME NEW k \in 1 .. n PROVE F[k] = OnFiles(F[k - 1], changes[k])
  <2>1. /\ (1 .. k) \in SUBSET (1 .. n) /\ (1 .. k) # {} /\ (1 .. k) \ {k} = 1 .. k - 1
        /\ k \in 0 .. n /\ k - 1 \in 0 .. n
    BY UpTo
  <2>2. Max(1 .. k) = k
    BY MaxIs
  <2>3. h[1 .. k] = OnFiles(h[(1 .. k) \ {Max(1 .. k)}], changes[Max(1 .. k)])
    BY <1>7, <2>1, Zenon
  <2>4. h[1 .. k] = OnFiles(h[1 .. k - 1], changes[k])
    BY <2>1, <2>2, <2>3, Zenon
  <2>5. F[k] = h[1 .. k] /\ F[k - 1] = h[1 .. k - 1]
    BY <2>1
  <2> QED
    BY <2>4, <2>5, Zenon
<1>10. F[n] = InSequence(base, changes)
  BY <1>4
<1> HIDE DEF F
<1> DEFINE Good == {k \in Nat : F[k] \in Trees}
<1>11. 0 \in Good
  BY <1>8
<1>12. ASSUME NEW k \in 1 .. n, k - 1 \in Good PROVE k \in Good
  <2>1. changes[k] \in Changes /\ F[k - 1] \in Trees /\ k \in Nat
    BY <1>12, ElementOfSeq
  <2>2. OnFiles(F[k - 1], changes[k]) \in Trees
    BY <2>1
  <2> QED
    BY <1>9, <2>1, <2>2
<1> HIDE DEF Good
<1>13. \A k \in 0 .. n : k \in Good
  <2>1. 0 + 1 = 1
    OBVIOUS
  <2>2. \A k \in 0 + 1 .. n : k - 1 \in Good => k \in Good
    BY <1>12, <2>1, Zenon
  <2> QED
    BY <1>11, <2>2, UpToLength
<1>14. Sequenced(F, base, changes, n)
  BY <1>8, <1>9, <1>13 DEF Sequenced, Good
<1> QED
  BY <1>10, <1>14

LEMMA PutIs ==
    ASSUME NEW tree \in Trees, NEW file \in Files, NEW text \in Seq(Readable) \cup {NoFile}
    PROVE  /\ Put(tree, file, text) \in Trees /\ Put(tree, file, text)[file] = text
           /\ \A other \in Files \ {file} : Put(tree, file, text)[other] = tree[other]
           /\ \A more : Put(Put(tree, file, text), file, more) = Put(tree, file, more)
<1> DEFINE T == Texts \cup {NoFile}
<1>1. text \in T
  BY OutcomeTyped
<1> HIDE DEF T
<1>2. tree \in [Files -> T]
  BY DEF Trees, T
<1>3. Put(tree, file, text) \in [Files -> T]
  BY <1>1, <1>2 DEF Put
<1>4. Put(tree, file, text)[file] = text
  BY <1>2 DEF Put
<1>5. \A other \in Files \ {file} : Put(tree, file, text)[other] = tree[other]
  BY <1>2 DEF Put
<1>6. \A more : Put(Put(tree, file, text), file, more) = Put(tree, file, more)
  BY <1>2 DEF Put
<1> QED
  BY <1>3, <1>4, <1>5, <1>6 DEF Trees, T

\* Operations on one file, one after the other: the file comes to what they work out
\* to in memory.
LEMMA ThroughAt ==
    ASSUME NEW Ops, Textual(Ops), NEW files \in Trees, NEW name \in Names, Resolve[name] \in Files,
           NEW ops \in Seq(Ops)
    PROVE  /\ ops = <<>> => Through(files, name, ops) = files
           /\ ops # <<>> => Through(files, name, ops)
                 = Put(files, Resolve[name], Outcome(WorkedOut(Entry(files, name), ops)))
<1> DEFINE n == Len(ops)
           file == Resolve[name]
           base == Entry(files, name)
<1>1. n \in Nat /\ n = Len(ops) /\ n \in 0 .. n /\ (n = 0 <=> ops = <<>>)
  BY EmptySeq
<1>2. file \in Files /\ file = Resolve[name] /\ base = Entry(files, name) /\ base \in Entries
  BY EntryTyped
<1> HIDE DEF n, file, base
<1>3. PICK F : Worked(F, base, ops, n) /\ WorkedOut(base, ops) = F[n]
  BY <1>1, <1>2, WorkedOutIs
<1>4. PICK G : Threaded(G, files, name, ops, n) /\ Through(files, name, ops) = G[n]
  BY <1>1, ThroughIs
<1> DEFINE Good == {k \in Nat : k = 0 \/ G[k] = Put(files, file, Outcome(F[k]))}
<1>5. 0 \in Good
  OBVIOUS
<1>6. ASSUME NEW k \in 1 .. n, k - 1 \in Good PROVE k \in Good
  <2> DEFINE j == k - 1
             now == Entry(G[j], name)
  <2>1. k \in Nat /\ j \in Nat /\ j \in 0 .. n
    BY <1>1
  <2>2. /\ F[k] = ApplyOp(F[j], ops[k]) /\ F[j] \in Entries /\ F[0] = base
        /\ G[k] = OnFile(G[j], name, ops[k]) /\ G[j] \in Trees /\ G[0] = files
    BY <1>3, <1>4, <2>1 DEF Worked, Threaded
  <2>3. j = 0 \/ G[j] = Put(files, file, Outcome(F[j]))
    BY <1>6
  <2> HIDE DEF j
  <2>4. G[k] = Put(G[j], file, Outcome(ApplyOp(now, ops[k])))
    BY <1>2, <2>2 DEF OnFile, Put
  <2>5. CASE j = 0
    <3>1. now = F[j] /\ G[j] = files
      BY <1>2, <2>2, <2>5
    <3> HIDE DEF now
    <3> QED
      BY <2>1, <2>2, <2>4, <3>1
  <2>6. CASE j # 0
    <3>1. Outcome(F[j]) \in Seq(Readable) \cup {NoFile}
      BY <2>2, OutcomeTyped
    <3>2. G[j] = Put(files, file, Outcome(F[j]))
      BY <2>3, <2>6
    <3>3. G[j][file] = Outcome(F[j])
      BY <1>2, <3>1, <3>2, PutIs
    <3>4. now \in Entries /\ Outcome(now) = Outcome(F[j])
      BY <1>2, <2>2, <3>1, <3>3, ReadBack
    <3>5. Outcome(ApplyOp(now, ops[k])) = Outcome(F[k])
      BY <2>2, <3>4, SameOutcome
    <3> HIDE DEF now
    <3>6. G[k] = Put(Put(files, file, Outcome(F[j])), file, Outcome(F[k]))
      BY <2>4, <3>2, <3>5
    <3>7. G[k] = Put(files, file, Outcome(F[k]))
      BY <1>2, <3>1, <3>6, PutIs
    <3> QED
      BY <2>1, <3>7
  <2> QED
    BY <2>5, <2>6
<1> HIDE DEF Good
<1>7. n \in Good
  <2>1. 0 + 1 = 1
    OBVIOUS
  <2>2. \A k \in 0 + 1 .. n : k - 1 \in Good => k \in Good
    BY <1>6, <2>1, Zenon
  <2>3. \A k \in 0 .. n : k \in Good
    BY <1>1, <1>5, <2>2, UpToLength
  <2> QED
    BY <1>1, <2>3
<1>8. ops = <<>> => Through(files, name, ops) = files
  BY <1>1, <1>4 DEF Threaded
<1>9. ops # <<>> => Through(files, name, ops) = Put(files, file, Outcome(WorkedOut(base, ops)))
  <2>1. ops # <<>> => G[n] = Put(files, file, Outcome(F[n]))
    BY <1>1, <1>7 DEF Good
  <2> QED
    BY <1>3, <1>4, <2>1
<1> QED
  BY <1>2, <1>8, <1>9

\* One change, on the files.
Touches(change, file) == change.path # Missing /\ change.operations # <<>> /\ Resolve[change.path] = file

LEMMA OnFilesAt ==
    ASSUME NEW Ops, Textual(Ops), NEW files \in Trees, NEW change,
           change.path = Missing \/ (change.path \in Names /\ Resolve[change.path] \in Files),
           change.operations \in Seq(Ops)
    PROVE  /\ OnFiles(files, change) \in Trees
           /\ \A file \in Files : OnFiles(files, change)[file] =
                 IF Touches(change, file)
                 THEN Outcome(WorkedOut(Entry(files, change.path), change.operations))
                 ELSE files[file]
<1>1. OnFiles(files, change) =
         IF change.path = Missing THEN files ELSE Through(files, change.path, change.operations)
  BY Zenon DEF OnFiles, Through
<1>2. CASE change.path = Missing
  BY <1>1, <1>2 DEF Touches
<1>3. CASE change.path # Missing /\ change.operations = <<>>
  <2>1. Through(files, change.path, change.operations) = files
    BY <1>3, ThroughAt
  <2> QED
    BY <1>1, <1>3, <2>1 DEF Touches
<1>4. CASE change.path # Missing /\ change.operations # <<>>
  <2> DEFINE text == Outcome(WorkedOut(Entry(files, change.path), change.operations))
  <2>1. OnFiles(files, change) = Put(files, Resolve[change.path], text)
    BY <1>1, <1>4, ThroughAt
  <2>2. text \in Seq(Readable) \cup {NoFile}
    <3>1. Entry(files, change.path) \in Entries
      BY <1>4, EntryTyped
    <3>2. WorkedOut(Entry(files, change.path), change.operations) \in Entries
      BY <3>1, WorkedOutTyped
    <3> QED
      BY <3>2, OutcomeTyped
  <2>0. text = Outcome(WorkedOut(Entry(files, change.path), change.operations))
    OBVIOUS
  <2> HIDE DEF text
  <2>3. /\ OnFiles(files, change) \in Trees /\ OnFiles(files, change)[Resolve[change.path]] = text
        /\ \A other \in Files \ {Resolve[change.path]} : OnFiles(files, change)[other] = files[other]
    BY <1>4, <2>1, <2>2, PutIs
  <2>4. \A file \in Files : OnFiles(files, change)[file] = IF Touches(change, file) THEN text ELSE files[file]
    BY <1>4, <2>3 DEF Touches
  <2> QED
    BY <2>0, <2>3, <2>4
<1> QED
  BY <1>2, <1>3, <1>4

-----------------------------------------------------------------------------
(* Change by change. *)

\* The operations on a path of the first k changes.
Listed(changes, name, i) == IF changes[i].path = name THEN changes[i].operations ELSE <<>>
SoFar(changes, name, k) == FlattenSeq([i \in 1 .. k |-> Listed(changes, name, i)])

LEMMA SoFarIs ==
    ASSUME NEW changes, IsChanges(changes), NEW name
    PROVE  /\ SoFar(changes, name, 0) = <<>>
           /\ SoFar(changes, name, Len(changes)) = OperationsOn(changes, name)
           /\ \A k \in 0 .. Len(changes) : SoFar(changes, name, k) \in Seq(AllOf(changes))
           /\ \A k \in 1 .. Len(changes) :
                 SoFar(changes, name, k) = SoFar(changes, name, k - 1) \o Listed(changes, name, k)
<1> DEFINE S == AllOf(changes)
           n == Len(changes)
           list(i) == Listed(changes, name, i)
<1>1. n \in Nat /\ DOMAIN changes = 1 .. n /\ n = Len(changes)
  BY ChangesAre
<1>2. \A i \in 1 .. n : list(i) \in Seq(S)
  <2>1. <<>> \in Seq(S)
    OBVIOUS
  <2> QED
    BY <1>1, <2>1, ChangesAre DEF Listed
<1>3. SoFar(changes, name, 0) = <<>>
  <2>1. [i \in 1 .. 0 |-> list(i)] = <<>>
    OBVIOUS
  <2> QED
    BY <2>1, FlattenNothing DEF SoFar
<1>4. SoFar(changes, name, n) = OperationsOn(changes, name)
  BY <1>1, Zenon DEF SoFar, OperationsOn, Listed
<1> HIDE DEF S, n, list
<1>5. ASSUME NEW k \in 0 .. n PROVE [i \in 1 .. k |-> list(i)] \in Seq(Seq(S))
  <2>1. k \in Nat /\ \A i \in 1 .. k : list(i) \in Seq(S)
    BY <1>1, <1>2
  <2> QED
    BY <2>1
<1>6. ASSUME NEW k \in 0 .. n PROVE SoFar(changes, name, k) \in Seq(S)
  <2>1. FlattenSeq([i \in 1 .. k |-> list(i)]) \in Seq(S)
    BY <1>5, FlattenTyped
  <2> QED
    BY <2>1 DEF SoFar, list
<1>7. ASSUME NEW k \in 1 .. n
      PROVE  SoFar(changes, name, k) = SoFar(changes, name, k - 1) \o list(k)
  <2> DEFINE j == k - 1
             before == [i \in 1 .. j |-> list(i)]
             all == [i \in 1 .. k |-> list(i)]
  <2>1. j \in 0 .. n /\ k \in 0 .. n /\ j + 1 = k /\ j \in Nat /\ k \in Nat /\ k \in 1 .. n
    BY <1>1
  <2> HIDE DEF j
  <2>2. before \in Seq(Seq(S)) /\ list(k) \in Seq(S)
    BY <1>2, <1>5, <2>1
  <2>3. Len(before) = j /\ \A i \in 1 .. j : before[i] = list(i)
    BY <2>1
  <2>4. all = Append(before, list(k))
    <3>1. /\ all \in Seq(Seq(S)) /\ Len(all) = k
          /\ \A i \in 1 .. j : all[i] = list(i)
          /\ all[k] = list(k)
      <4>1. \A i \in 1 .. j : i \in 1 .. k
        BY <2>1
      <4> QED
        BY <1>5, <2>1, <4>1
    <3> HIDE DEF before, all
    <3>2. /\ Append(before, list(k)) \in Seq(Seq(S)) /\ Len(Append(before, list(k))) = k
          /\ \A i \in 1 .. j : Append(before, list(k))[i] = list(i)
          /\ Append(before, list(k))[k] = list(k)
      BY <2>1, <2>2, <2>3, AppendProperties
    <3>3. \A i \in 1 .. k : all[i] = Append(before, list(k))[i]
      <4>1. \A i \in 1 .. k : i \in 1 .. j \/ i = k
        BY <2>1
      <4> QED
        BY <3>1, <3>2, <4>1
    <3> QED
      BY <3>1, <3>2, <3>3, SeqEqual
  <2>5. FlattenSeq(all) = FlattenSeq(before) \o list(k)
    <3> HIDE DEF before, all
    <3> QED
      BY <2>2, <2>4, FlattenMore
  <2> QED
    BY <2>5 DEF SoFar, j, list
<1> QED
  BY <1>1, <1>3, <1>4, <1>6, <1>7 DEF S, n, list

\* A plan without aliases, none of whose paths is refused.
Apart(changes) ==
    /\ IsChanges(changes) /\ Unaliased(changes)
    /\ \A name \in Paths(changes) : Resolve[name] \in Files

\* The files after k changes, path by path.
Agreed(files, tree, changes, k) ==
    /\ \A name \in Paths(changes) :
          files[Resolve[name]] =
             IF SoFar(changes, name, k) = <<>> THEN tree[Resolve[name]]
             ELSE Outcome(WorkedOut(Entry(tree, name), SoFar(changes, name, k)))
    /\ \A file \in Files :
          (\A name \in Paths(changes) : Resolve[name] # file) => files[file] = tree[file]

LEMMA AgreedNext ==
    ASSUME NEW changes, Apart(changes), NEW tree \in Trees, NEW files \in Trees,
           NEW k \in 1 .. Len(changes), Agreed(files, tree, changes, k - 1)
    PROVE  /\ OnFiles(files, changes[k]) \in Trees
           /\ Agreed(OnFiles(files, changes[k]), tree, changes, k)
<1> DEFINE change == changes[k]
           path == change.path
           ops == change.operations
           after == OnFiles(files, change)
           j == k - 1
<1>0. IsChanges(changes) /\ \A name \in Paths(changes) : name \in Names /\ Resolve[name] \in Files
  BY ChangesAre DEF Apart
<1>1. /\ Textual(AllOf(changes)) /\ ops \in Seq(AllOf(changes))
      /\ path = Missing \/ path \in Paths(changes)
  <2>1. k \in DOMAIN changes
    BY <1>0, ChangesAre
  <2>2. changes[k] \in ToSet(changes)
    BY <1>0, <2>1, ChangesAre
  <2> QED
    BY <1>0, <2>1, <2>2, ChangesAre DEF Paths
<1>2. path = Missing \/ (path \in Names /\ Resolve[path] \in Files)
  BY <1>0, <1>1
<1>3. j \in 0 .. Len(changes) /\ j = k - 1
  BY <1>0, ChangesAre
<1>4. change = changes[k] /\ path = change.path /\ ops = change.operations /\ after = OnFiles(files, change)
  OBVIOUS
<1> HIDE DEF change, path, ops, after, j
<1>5. /\ after \in Trees
      /\ \A file \in Files :
            after[file] = IF Touches(change, file) THEN Outcome(WorkedOut(Entry(files, path), ops)) ELSE files[file]
  BY <1>1, <1>2, <1>4, OnFilesAt
<1>6. ASSUME NEW file \in Files, \A name \in Paths(changes) : Resolve[name] # file
      PROVE  after[file] = tree[file]
  <2>1. ~Touches(change, file)
    BY <1>1, <1>4, <1>6 DEF Touches
  <2> QED
    BY <1>5, <1>6, <2>1 DEF Agreed
<1>7. ASSUME NEW name \in Paths(changes)
      PROVE  after[Resolve[name]] =
                IF SoFar(changes, name, k) = <<>> THEN tree[Resolve[name]]
                ELSE Outcome(WorkedOut(Entry(tree, name), SoFar(changes, name, k)))
  <2> DEFINE before == SoFar(changes, name, j)
             file == Resolve[name]
             base == Entry(tree, name)
  <2>1. /\ before \in Seq(AllOf(changes))
        /\ SoFar(changes, name, k) = before \o Listed(changes, name, k)
    BY <1>0, <1>3, SoFarIs
  <2>2. files[file] = IF before = <<>> THEN tree[file] ELSE Outcome(WorkedOut(base, before))
    BY <1>3 DEF Agreed
  <2>3. name # Missing /\ name \in Names /\ file \in Files /\ base \in Entries /\ file = Resolve[name]
    BY <1>0, EntryTyped DEF Paths
  <2>4. base = Entry(tree, name)
    OBVIOUS
  <2> HIDE DEF before, file, base
  <2>5. CASE ~Touches(change, file)
    <3>1. path # name \/ ops = <<>>
      BY <1>4, <2>3, <2>5 DEF Touches
    <3>2. Listed(changes, name, k) = <<>>
      BY <1>4, <3>1 DEF Listed
    <3>3. SoFar(changes, name, k) = before
      BY <2>1, <3>2
    <3> QED
      BY <1>5, <2>2, <2>3, <2>4, <2>5, <3>3
  <2>6. CASE Touches(change, file)
    <3>1. path = name /\ ops # <<>>
      BY <1>1, <1>4, <2>3, <2>6 DEF Touches, Apart, Unaliased, Paths
    <3>2. Listed(changes, name, k) = ops
      BY <1>4, <3>1 DEF Listed
    <3>3. SoFar(changes, name, k) = before \o ops /\ before \o ops # <<>>
      BY <1>1, <2>1, <3>1, <3>2, ConcatEmptySeq
    <3>4. after[file] = Outcome(WorkedOut(Entry(files, name), ops))
      BY <1>5, <2>3, <2>6, <3>1
    <3>5. CASE before = <<>>
      <4>1. Entry(files, name) = base
        BY <2>2, <2>3, <2>4, <3>5 DEF Entry
      <4>2. before \o ops = ops
        BY <1>1, <3>5
      <4> QED
        BY <2>3, <2>4, <3>3, <3>4, <4>1, <4>2
    <3>6. CASE before # <<>>
      <4> DEFINE mid == WorkedOut(base, before)
      <4>1. mid \in Entries
        BY <1>1, <2>1, <2>3, WorkedOutTyped
      <4>2. Outcome(mid) \in Seq(Readable) \cup {NoFile} /\ files[file] = Outcome(mid)
        BY <2>2, <3>6, <4>1, OutcomeTyped
      <4>3. Entry(files, name) \in Entries /\ Outcome(Entry(files, name)) = Outcome(mid)
        BY <2>3, <4>2, ReadBack
      <4>4. WorkedOut(base, before \o ops) = WorkedOut(mid, ops)
        BY <1>1, <2>1, <2>3, WorkedOutJoin
      <4> HIDE DEF mid
      <4>5. Outcome(WorkedOut(Entry(files, name), ops)) = Outcome(WorkedOut(mid, ops))
        BY <1>1, <4>1, <4>3, SameWorkedOut
      <4> QED
        BY <2>3, <2>4, <3>3, <3>4, <4>4, <4>5
    <3> QED
      BY <3>5, <3>6
  <2> QED
    BY <2>5, <2>6
<1>8. Agreed(after, tree, changes, k)
  BY <1>6, <1>7 DEF Agreed
<1> QED
  BY <1>4, <1>5, <1>8

LEMMA InSequenceAgrees ==
    ASSUME NEW changes, Apart(changes), NEW tree \in Trees
    PROVE  /\ InSequence(tree, changes) \in Trees
           /\ Agreed(InSequence(tree, changes), tree, changes, Len(changes))
<1> DEFINE n == Len(changes)
           Changes == ToSet(changes)
<1>0. IsChanges(changes)
  BY DEF Apart
<1>1. n \in Nat /\ n = Len(changes) /\ n \in 0 .. n /\ changes \in Seq(Changes)
  BY <1>0, ChangesAre
<1>2. ASSUME NEW files \in Trees, NEW change \in Changes PROVE OnFiles(files, change) \in Trees
  <2>1. PICK i \in DOMAIN changes : change = changes[i]
    BY DEF ToSet
  <2>2. /\ change.path \in Names \cup {Missing} /\ change.operations \in Seq(AllOf(changes))
        /\ Textual(AllOf(changes))
    BY <1>0, <2>1, ChangesAre
  <2>3. change.path # Missing => change.path \in Names /\ Resolve[change.path] \in Files
    BY <2>2 DEF Apart, Paths
  <2> QED
    BY <2>2, <2>3, OnFilesAt
<1> HIDE DEF n, Changes
<1>3. PICK F : Sequenced(F, tree, changes, n) /\ InSequence(tree, changes) = F[n]
  BY <1>1, <1>2, InSequenceIs
<1> DEFINE Good == {k \in Nat : Agreed(F[k], tree, changes, k)}
<1>4. 0 \in Good
  <2>1. F[0] = tree
    BY <1>3 DEF Sequenced
  <2>2. \A name \in Paths(changes) : SoFar(changes, name, 0) = <<>>
    BY <1>0, SoFarIs
  <2> QED
    BY <2>1, <2>2 DEF Agreed
<1>5. ASSUME NEW k \in 1 .. n, k - 1 \in Good PROVE k \in Good
  <2>1. k \in Nat /\ k - 1 \in 0 .. n /\ k \in 1 .. Len(changes)
    BY <1>1
  <2>2. F[k] = OnFiles(F[k - 1], changes[k]) /\ F[k - 1] \in Trees
    BY <1>3, <2>1 DEF Sequenced
  <2>3. Agreed(F[k - 1], tree, changes, k - 1)
    BY <1>5
  <2>4. Agreed(OnFiles(F[k - 1], changes[k]), tree, changes, k)
    BY <2>1, <2>2, <2>3, AgreedNext
  <2> QED
    BY <2>1, <2>2, <2>4
<1> HIDE DEF Good
<1>6. n \in Good
  <2>1. 0 + 1 = 1
    OBVIOUS
  <2>2. \A k \in 0 + 1 .. n : k - 1 \in Good => k \in Good
    BY <1>5, <2>1, Zenon
  <2>3. \A k \in 0 .. n : k \in Good
    BY <1>1, <1>4, <2>2, UpToLength
  <2> QED
    BY <1>1, <2>3
<1> QED
  BY <1>1, <1>3, <1>6 DEF Good, Sequenced

-----------------------------------------------------------------------------
(* What is written. *)

LEMMA ApartIs ==
    ASSUME NEW tree, NEW changes, IsChanges(changes), Unaliased(changes), ~Refused(tree, changes)
    PROVE  Apart(changes)
<1>1. ASSUME NEW name \in Paths(changes) PROVE Resolve[name] \in Files
  <2>1. PICK change \in ToSet(changes) : change.path = name /\ name # Missing
    BY DEF Paths
  <2>2. Resolve[name] # Rejected
    BY <2>1 DEF Refused
  <2>3. name \in Names
    BY ChangesAre
  <2> QED
    BY <2>2, <2>3, ApplierAssumption
<1> QED
  BY <1>1 DEF Apart

\* A file once the entries that the first k changes mention have been written.
LEMMA WriteAt ==
    ASSUME NEW tree \in Trees, NEW changes, Apart(changes), NEW k
    PROVE  /\ \A name \in Paths(changes) :
                 Write(tree, changes, k)[Resolve[name]] =
                    IF Mention(changes, name) <= k THEN Outcome(Compute(tree, changes)[name])
                    ELSE tree[Resolve[name]]
           /\ \A file \in Files :
                 (\A name \in Paths(changes) : Resolve[name] # file)
                     => Write(tree, changes, k)[file] = tree[file]
<1>0. IsChanges(changes) /\ \A name \in Paths(changes) : Resolve[name] \in Files
  BY DEF Apart
<1>1. ASSUME NEW file, NEW name \in Writers(tree, changes, k, file)
      PROVE  /\ name \in Paths(changes) /\ Resolve[name] = file /\ Mention(changes, name) <= k
             /\ Outcome(Compute(tree, changes)[name]) # tree[file]
  BY ComputeIs DEF Writers, Changed
<1>2. ASSUME NEW name \in Paths(changes)
      PROVE  Write(tree, changes, k)[Resolve[name]] =
                IF Mention(changes, name) <= k THEN Outcome(Compute(tree, changes)[name])
                ELSE tree[Resolve[name]]
  <2> DEFINE file == Resolve[name]
             text == Outcome(Compute(tree, changes)[name])
  <2>1. \A other \in Writers(tree, changes, k, file) : other = name
    BY <1>1 DEF Apart, Unaliased, Paths
  <2>2. Write(tree, changes, k)[file] =
           IF Writers(tree, changes, k, file) = {} THEN tree[file]
           ELSE Outcome(Compute(tree, changes)[LastWriter(tree, changes, k, file)])
    BY <1>0, WriteIs
  <2>3. name \in Writers(tree, changes, k, file) <=> text # tree[file] /\ Mention(changes, name) <= k
    BY ComputeIs DEF Writers, Changed
  <2>4. CASE Writers(tree, changes, k, file) = {}
    BY <2>2, <2>3, <2>4
  <2>5. CASE Writers(tree, changes, k, file) # {}
    <3>1. LastWriter(tree, changes, k, file) = name
      BY <1>0, <2>1, <2>5, LastWriterIs
    <3>2. Mention(changes, name) <= k
      BY <1>1, <2>1, <2>5
    <3> QED
      BY <2>2, <2>5, <3>1, <3>2
  <2> QED
    BY <2>4, <2>5
<1>3. ASSUME NEW file \in Files, \A name \in Paths(changes) : Resolve[name] # file
      PROVE  Write(tree, changes, k)[file] = tree[file]
  <2>1. Writers(tree, changes, k, file) = {}
    BY <1>1, <1>3
  <2> QED
    BY <2>1, WriteIs
<1> QED
  BY <1>2, <1>3

\* A path that a plan has, it does something to.
LEMMA SomethingOn ==
    ASSUME NEW changes, Planned(changes), NEW name \in Paths(changes)
    PROVE  OperationsOn(changes, name) # <<>>
<1> DEFINE S == AllOf(changes)
           lists == [i \in DOMAIN changes |->
                        IF changes[i].path = name THEN changes[i].operations ELSE <<>>]
<1>0. IsChanges(changes)
  BY DEF Planned
<1>1. PICK i \in DOMAIN changes : changes[i].path = name
  BY DEF Paths, ToSet
<1>2. lists[i] = changes[i].operations /\ changes[i] \in ToSet(changes)
  BY <1>0, <1>1, ChangesAre
<1>3. lists[i] # <<>> /\ lists[i] \in Seq(S)
  BY <1>0, <1>2, ChangesAre DEF Planned
<1>4. OperationsOn(changes, name) = FlattenSeq(lists)
  BY DEF OperationsOn
<1>5. lists \in Seq(Seq(S)) /\ i \in DOMAIN lists
  <2>1. \A j \in DOMAIN changes : lists[j] \in Seq(S)
    <3>1. <<>> \in Seq(S)
      OBVIOUS
    <3> QED
      BY <1>0, <3>1, ChangesAre
  <2>2. DOMAIN changes = 1 .. Len(changes) /\ Len(changes) \in Nat
    BY <1>0, ChangesAre
  <2>3. lists = [j \in 1 .. Len(changes) |-> lists[j]]
    BY <2>2
  <2> HIDE DEF lists, S
  <2> QED
    BY <1>1, <2>1, <2>2, <2>3
<1> HIDE DEF lists, S
<1>6. PICK x : Within(x, lists[i])
  BY <1>3, NothingWithin
<1>7. Within(x, FlattenSeq(lists))
  BY <1>5, <1>6, FlattenWithin
<1>8. FlattenSeq(lists) \in Seq(S)
  BY <1>5, FlattenTyped
<1> QED
  BY <1>4, <1>7, <1>8, NothingWithin

\* Working out in memory and writing comes to the operations one after the other.
LEMMA WriteInSequence ==
    ASSUME NEW tree \in Trees, NEW changes, Planned(changes), Apart(changes)
    PROVE  Write(tree, changes, Len(changes)) = InSequence(tree, changes)
<1> DEFINE one == Write(tree, changes, Len(changes))
           other == InSequence(tree, changes)
<1>0. IsChanges(changes) /\ Len(changes) \in Nat
  BY ChangesAre DEF Apart
<1>1. one \in Trees
  BY <1>0, WriteTyped
<1>2. other \in Trees /\ Agreed(other, tree, changes, Len(changes))
  BY InSequenceAgrees
<1>3. ASSUME NEW name \in Paths(changes) PROVE one[Resolve[name]] = other[Resolve[name]]
  <2> DEFINE text == Outcome(WorkedOut(Entry(tree, name), OperationsOn(changes, name)))
  <2>1. SoFar(changes, name, Len(changes)) = OperationsOn(changes, name)
    BY <1>0, SoFarIs
  <2>2. OperationsOn(changes, name) # <<>>
    BY SomethingOn
  <2>3. other[Resolve[name]] = text
    <3> HIDE DEF other
    <3> QED
      BY <1>2, <2>1, <2>2 DEF Agreed
  <2>4. Mention(changes, name) <= Len(changes)
    BY <1>0, MentionIs
  <2>5. one[Resolve[name]] = Outcome(Compute(tree, changes)[name])
    BY <2>4, WriteAt
  <2>6. Outcome(Compute(tree, changes)[name]) = text
    BY ComputeIs
  <2> HIDE DEF one, other, text
  <2> QED
    BY <2>3, <2>5, <2>6
<1>4. ASSUME NEW file \in Files, \A name \in Paths(changes) : Resolve[name] # file
      PROVE  one[file] = other[file]
  <2>1. one[file] = tree[file]
    BY <1>4, WriteAt
  <2> HIDE DEF one, other
  <2> QED
    BY <1>2, <1>4, <2>1 DEF Agreed
<1> HIDE DEF one, other
<1>5. \A file \in Files : one[file] = other[file]
  BY <1>3, <1>4
<1>6. one = other
  BY <1>1, <1>2, <1>5 DEF Trees
<1> QED
  BY <1>6 DEF one, other

-----------------------------------------------------------------------------
(* What is written again. *)

\* Operations that write or delete whole files.
Whole(Ops) == \A op \in Ops : Kind(op) \in {"create_file", "replace_file", "delete_file"}

LEMMA WholeOperation ==
    ASSUME NEW one \in Entries, NEW other \in Entries, NEW op,
           Kind(op) \in {"create_file", "replace_file", "delete_file"}
    PROVE  \/ ApplyOp(one, op) = one /\ ApplyOp(other, op) = other
           \/ Outcome(ApplyOp(one, op)) = Outcome(ApplyOp(other, op))
<1>1. CASE Kind(op) \in {"create_file", "replace_file"} /\ op.content = <<>>
  BY <1>1, ApplyOpIs
<1>2. CASE Kind(op) \in {"create_file", "replace_file"} /\ op.content # <<>>
  <2>1. /\ ApplyOp(one, op) = [content |-> op.content, deleted |-> FALSE]
        /\ ApplyOp(other, op) = [content |-> op.content, deleted |-> FALSE]
    BY <1>2, ApplyOpIs
  <2> QED
    BY <2>1
<1>3. CASE Kind(op) = "delete_file"
  <2>1. ApplyOp(one, op) = [one EXCEPT !.deleted = TRUE] /\ ApplyOp(other, op) = [other EXCEPT !.deleted = TRUE]
    BY <1>3, ApplyOpIs
  <2>2. /\ one = [deleted |-> one.deleted, content |-> one.content]
        /\ other = [deleted |-> other.deleted, content |-> other.content]
    BY DEF Entries
  <2>3. ApplyOp(one, op).deleted = TRUE /\ ApplyOp(other, op).deleted = TRUE
    BY <2>1, <2>2
  <2> QED
    BY <2>3 DEF Outcome
<1> QED
  BY <1>1, <1>2, <1>3

\* What whole files come to, they come to again.
LEMMA WholeTwice ==
    ASSUME NEW Ops, Textual(Ops), Whole(Ops), NEW base \in Entries, NEW ops \in Seq(Ops)
    PROVE  Outcome(WorkedOut(WorkedOut(base, ops), ops)) = Outcome(WorkedOut(base, ops))
<1> DEFINE n == Len(ops)
           end == WorkedOut(base, ops)
<1>1. n \in Nat /\ n = Len(ops) /\ n \in 0 .. n
  OBVIOUS
<1>2. end = WorkedOut(base, ops) /\ end \in Entries
  BY WorkedOutTyped
<1> HIDE DEF n, end
<1>3. PICK F : Worked(F, base, ops, n) /\ end = F[n]
  BY <1>1, <1>2, WorkedOutIs
<1>4. PICK G : Worked(G, end, ops, n) /\ WorkedOut(end, ops) = G[n]
  BY <1>1, <1>2, WorkedOutIs
<1> DEFINE Good == {k \in Nat : \/ F[k] = base /\ G[k] = end
                                \/ Outcome(F[k]) = Outcome(G[k])}
<1>5. 0 \in Good
  BY <1>3, <1>4 DEF Worked
<1>6. ASSUME NEW k \in 1 .. n, k - 1 \in Good PROVE k \in Good
  <2> DEFINE j == k - 1
  <2>1. k \in Nat /\ j \in 0 .. n /\ ops[k] \in Ops
    BY <1>1, ElementOfSeq
  <2>2. /\ F[k] = ApplyOp(F[j], ops[k]) /\ G[k] = ApplyOp(G[j], ops[k])
        /\ F[j] \in Entries /\ G[j] \in Entries
    BY <1>3, <1>4, <2>1 DEF Worked
  <2>3. \/ F[j] = base /\ G[j] = end
        \/ Outcome(F[j]) = Outcome(G[j])
    BY <1>6
  <2> HIDE DEF j
  <2>4. CASE Outcome(F[j]) = Outcome(G[j])
    BY <2>1, <2>2, <2>4, SameOutcome
  <2>5. CASE F[j] = base /\ G[j] = end
    <3>1. \/ F[k] = F[j] /\ G[k] = G[j]
          \/ Outcome(F[k]) = Outcome(G[k])
      BY <2>1, <2>2, WholeOperation DEF Whole
    <3> QED
      BY <2>1, <2>5, <3>1
  <2> QED
    BY <2>3, <2>4, <2>5
<1> HIDE DEF Good
<1>7. n \in Good
  <2>1. 0 + 1 = 1
    OBVIOUS
  <2>2. \A k \in 0 + 1 .. n : k - 1 \in Good => k \in Good
    BY <1>6, <2>1, Zenon
  <2>3. \A k \in 0 .. n : k \in Good
    BY <1>1, <1>5, <2>2, UpToLength
  <2> QED
    BY <1>1, <2>3
<1>8. Outcome(G[n]) = Outcome(end)
  BY <1>3, <1>7 DEF Good
<1> QED
  BY <1>2, <1>4, <1>8

\* A plan of whole files, applied again where its writing broke off.
LEMMA WriteAgain ==
    ASSUME NEW tree \in Trees, NEW changes, Apart(changes), WholeFiles(changes), NEW k
    PROVE  Write(Write(tree, changes, k), changes, Len(changes)) = Write(tree, changes, Len(changes))
<1> DEFINE half == Write(tree, changes, k)
           n == Len(changes)
           again == Write(half, changes, n)
           once == Write(tree, changes, n)
<1>0. IsChanges(changes) /\ \A name \in Paths(changes) : name \in Names /\ Resolve[name] \in Files
  BY ChangesAre DEF Apart
<1>1. half \in Trees /\ half = Write(tree, changes, k)
  BY <1>0, WriteTyped
<1> HIDE DEF half
<1>2. again \in Trees /\ once \in Trees
  BY <1>0, <1>1, WriteTyped
<1>3. Textual(AllOf(changes)) /\ Whole(AllOf(changes))
  BY <1>0, ChangesAre DEF WholeFiles, Whole, AllOf, Kind
<1>4. ASSUME NEW name \in Paths(changes) PROVE again[Resolve[name]] = once[Resolve[name]]
  <2> DEFINE file == Resolve[name]
             ops == OperationsOn(changes, name)
             base == Entry(tree, name)
             now == Entry(half, name)
  <2>1. /\ Mention(changes, name) <= n /\ file \in Files /\ ops \in Seq(AllOf(changes))
        /\ base \in Entries /\ now \in Entries
    BY <1>0, <1>1, ChangesAre, MentionIs, OperationsTyped, EntryTyped
  <2>2. Compute(tree, changes)[name] = WorkedOut(base, ops) /\ Compute(half, changes)[name] = WorkedOut(now, ops)
    BY ComputeIs
  <2>3. once[file] = Outcome(WorkedOut(base, ops)) /\ again[file] = Outcome(WorkedOut(now, ops))
    BY <1>1, <2>1, <2>2, WriteAt
  <2>4. half[file] = tree[file] \/ half[file] = Outcome(WorkedOut(base, ops))
    BY <1>1, <2>2, WriteAt
  <2>5. file = Resolve[name] /\ base = Entry(tree, name) /\ now = Entry(half, name)
    OBVIOUS
  <2> HIDE DEF file, ops, base, now, again, once
  <2>6. CASE half[file] = tree[file]
    <3>1. now = base
      BY <2>5, <2>6 DEF Entry
    <3> QED
      BY <2>3, <2>5, <3>1
  <2>7. CASE half[file] = Outcome(WorkedOut(base, ops))
    <3> DEFINE end == WorkedOut(base, ops)
    <3>1. end \in Entries /\ end = WorkedOut(base, ops)
      BY <1>3, <2>1, WorkedOutTyped
    <3> HIDE DEF end
    <3>2. Outcome(end) \in Seq(Readable) \cup {NoFile} /\ half[file] = Outcome(end)
      BY <2>7, <3>1, OutcomeTyped
    <3>3. Outcome(now) = Outcome(end)
      BY <1>0, <1>1, <2>1, <2>5, <3>2, ReadBack
    <3>4. Outcome(WorkedOut(now, ops)) = Outcome(WorkedOut(end, ops))
      BY <1>3, <2>1, <3>1, <3>3, SameWorkedOut
    <3>5. Outcome(WorkedOut(end, ops)) = Outcome(end)
      BY <1>3, <2>1, <3>1, WholeTwice
    <3> QED
      BY <2>3, <2>5, <3>1, <3>4, <3>5
  <2> QED
    BY <2>4, <2>6, <2>7
<1>5. ASSUME NEW file \in Files, \A name \in Paths(changes) : Resolve[name] # file
      PROVE  again[file] = once[file]
  <2>1. half[file] = tree[file]
    BY <1>1, <1>5, WriteAt
  <2>2. once[file] = tree[file] /\ again[file] = half[file]
    BY <1>1, <1>5, WriteAt
  <2> QED
    BY <2>1, <2>2
<1> HIDE DEF again, once
<1>6. \A file \in Files : again[file] = once[file]
  BY <1>4, <1>5
<1>7. again = once
  BY <1>2, <1>6 DEF Trees
<1> QED
  BY <1>1, <1>7 DEF again, once, n

-----------------------------------------------------------------------------
(* The theorems.                                                           *)

\* However often a run is resumed and whatever fails or dies on the way, the
\* workspace, the plan and the snapshot that were committed stay those of the run,
\* and a completed stage is not run again (execution_orchestrator.py:135-172).
THEOREM CommittedStaysHolds == Spec => CommittedStays
<1>1. RunInv /\ [Next]_vars =>
          [/\ row'.completed >= row.completed
           /\ row.completed >= 1 => row'.path = row.path
           /\ row.completed >= 2 => row'.plan = row.plan
           /\ row.completed >= 3 => row'.snapshot = row.snapshot]_vars
  BY RunNext DEF RowKeeps
<1>2. QED
  BY <1>1, RunInit, RunNext, PTL DEF Spec, CommittedStays

\* Once a request to cancel is committed, no stage but the one that is running is
\* completed, in this attempt or a later one (execution_orchestrator.py:135-140).
THEOREM CancelledInTimeHolds == Spec => []CancelledInTime
<1>1. RunInv => CancelledInTime
  BY DEF RunInv, Stopped, CancelledInTime
<1>2. QED
  BY <1>1, RunInit, RunNext, PTL DEF Spec

\* A run that an attempt failed after its change was applied has the files of the change
\* back, in whichever attempt and stage it failed, whatever died before and whenever the
\* approval was taken back, unless the rollback itself met an error
\* (_rollback_if_needed, execution_orchestrator.py:321).  A refused call, which fails
\* the run and rolls nothing back (:116-118), is left out until the run is resumed.
THEOREM FailedAlwaysRolledBack == Spec => []FailedIsRolledBack
<1>1. RunInv /\ Kept => FailedIsRolledBack
  BY DEF Kept, Settled
<1> QED
  BY <1>1, KeptAlways, PTL

\* What a completed run leaves in its workspace is what passed validation, however many
\* attempts and repairs it took, unless a failure had the change rolled back in between
\* (execution_orchestrator.py:135-172, _run_validate).
THEOREM CompletedAlwaysValidated == Spec => []CompletedAsValidated
<1>1. RunInv /\ Kept => CompletedAsValidated
  BY DEF Kept, Settled, Validated, CompletedAsValidated
<1> QED
  BY <1>1, KeptAlways, PTL

\* A healing that gives up leaves the workspace as it found it, for any number of fixes
\* that change the same files in any order (self_healing_engine.py:231).
THEOREM HealingAlwaysRestores == Spec => []HealingRestores
<1>1. RunInv /\ Kept => HealingRestores
  BY DEF Kept, Healable
<1> QED
  BY <1>1, KeptAlways, PTL

\* Rolling back restores all that applying overwrites, whatever the files and the plan,
\* also where the plan spells one file in several ways (SafeChangeApplier.rollback).
THEOREM RollbackAlwaysRestores == Spec => []RollbackRestores
<1>1. ASSUME RunInv, Kept, step = "apply"
      PROVE  Rollback(Applied(ctx.plan, Len(ctx.plan))[ctx.path],
                      Snapshot(disk[ctx.path], ctx.plan)) = disk[ctx.path]
  <2>1. row.completed = 2
    BY <1>1, TheStages DEF RunInv, Carried, StageOf
  <2>2. Plain(disk[ctx.path])
    BY <1>1, <2>1, AtWork
  <2>3. Applied(ctx.plan, Len(ctx.plan))[ctx.path] = Write(disk[ctx.path], ctx.plan, Len(ctx.plan))
    BY <1>1, AppliedTidy
  <2> QED
    BY <2>2, <2>3, WriteUndone
<1>2. RunInv /\ Kept => RollbackRestores
  BY <1>1 DEF RollbackRestores
<1> QED
  BY <1>2, KeptAlways, PTL

\* Whatever is generated, applied, repaired, rolled back or broken off, a run keeps to
\* its stages, attempts and tries, and every workspace it made has files of text
\* (execution_orchestrator.py:112-172, SelfHealingEngine.heal).
THEOREM TypeCorrect == Spec => []TypeOK
<1>1. ASSUME RunInv, Kept, Fitting PROVE TypeOK
  <2>1. /\ row.completed \in 0 .. Len(STAGES) /\ ctx.stage \in 0 .. Len(STAGES)
        /\ row.cancel \in BOOLEAN /\ step \in Steps /\ late \in Nat
    BY <1>1, TheStages DEF RunInv, Shapes, Carried, Stopped
  <2>2. row.attempts \in 0 .. MaxAttempts /\ made \in 0 .. MaxAttempts
    <3>1. MaxAttempts \in Nat
      BY RunAssumption
    <3> QED
      BY <1>1, <3>1 DEF Kept, Placed
  <2>3. faults \in [FaultKinds -> 0 .. MaxFaults] /\ undone \in BOOLEAN
    <3>1. faults \in [FaultKinds -> Nat] /\ MaxFaults \in Nat /\ undone \in BOOLEAN
          /\ faults.death + faults.write + faults.rollback + faults.validator <= MaxFaults
      BY <1>1, RunAssumption DEF Kept, Counted, Fitting, Limited
    <3>2. /\ faults.death \in Nat /\ faults.write \in Nat /\ faults.rollback \in Nat
          /\ faults.validator \in Nat
      BY <3>1 DEF FaultKinds
    <3>3. \A kind \in FaultKinds : faults[kind] \in 0 .. MaxFaults
      BY <3>1, <3>2 DEF FaultKinds
    <3> QED
      BY <3>1, <3>3
  <2>4. Bounded /\ Repairing /\ disk \in [Workspaces -> Trees]
    BY <1>1 DEF Fitting, Written
  <2> QED
    BY <2>1, <2>2, <2>3, <2>4 DEF TypeOK, Bounded, Repairing
<1>2. RunInv /\ Kept /\ Fitting => TypeOK
  BY <1>1
<1> QED
  BY <1>2, FittingAlways, PTL

\* Whatever the files and the plan, two spellings of one file apart: the operations
\* worked out in memory come to what they would one after the other on the files, and a
\* plan of whole files whose writes broke off comes to the same when it is applied again
\* (SafeChangeApplier._compute, safe_change_applier.py:149).
THEOREM BatchAlwaysSequence == Spec => []BatchIsSequence
<1>1. ASSUME RunInv, Kept, Fitting PROVE BatchIsSequence
  <2> SUFFICES ASSUME step = "apply", ~Refused(disk[ctx.path], ctx.plan), Unaliased(ctx.plan)
               PROVE  /\ Applied(ctx.plan, Len(ctx.plan))[ctx.path] = InSequence(disk[ctx.path], ctx.plan)
                      /\ WholeFiles(ctx.plan) => \A files \in HalfWritten :
                            Write(files[ctx.path], ctx.plan, Len(ctx.plan))
                                = Applied(ctx.plan, Len(ctx.plan))[ctx.path]
    BY DEF BatchIsSequence
  <2> DEFINE plan == ctx.plan
             tree == disk[ctx.path]
  <2>0. Written
    BY <1>1 DEF Fitting
  <2>1. row.completed >= 1 /\ step # "idle"
    BY <1>1, TheStages DEF RunInv, Carried, StageOf
  <2>2. ctx.path \in Workspaces
    BY <1>1, <2>1, AtWork
  <2>3. tree \in Trees
    BY <2>0, <2>2 DEF Written
  <2>4. Planned(plan) /\ IsChanges(plan)
    BY <1>1, <2>0, PlanAtWork DEF Planned
  <2>5. Apart(plan)
    BY <2>4, ApartIs
  <2>6. \A k : Applied(plan, k)[ctx.path] = Write(tree, plan, k)
    BY <1>1, AppliedTidy
  <2>7. \A files \in HalfWritten : \E k : files = Applied(plan, k)
    BY DEF HalfWritten
  <2> HIDE DEF plan, tree
  <2>8. Applied(plan, Len(plan))[ctx.path] = InSequence(tree, plan)
    BY <2>3, <2>4, <2>5, <2>6, WriteInSequence
  <2>9. ASSUME WholeFiles(plan), NEW files \in HalfWritten
        PROVE  Write(files[ctx.path], plan, Len(plan)) = Applied(plan, Len(plan))[ctx.path]
    <3>1. PICK k : files[ctx.path] = Write(tree, plan, k)
      BY <2>6, <2>7
    <3> QED
      BY <2>3, <2>5, <2>6, <2>9, <3>1, WriteAgain
  <2> QED
    BY <2>8, <2>9 DEF plan, tree
<1> QED
  BY <1>1, FittingAlways, PTL
=============================================================================
