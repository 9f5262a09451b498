------------------------- MODULE WorkspaceLifecycle -------------------------
(***************************************************************************)
(* The sandboxes of one repository (workspace_lifecycle.py): API threads   *)
(* launch, stop, restart, cancel and delete workspace instances            *)
(* (workspaces.py), Celery workers run the launch, and Celery beat has     *)
(* them sweep for dead sandboxes and purge old rows (tasks.py).            *)
(*                                                                         *)
(* A launch inserts at most one row, so a row bears the name of the        *)
(* request that launched it.  Every actor works on the row as its session  *)
(* loaded it and writes back, at its next commit, the columns that differ  *)
(* from what it loaded; the refresh after a commit is part of its step.    *)
(***************************************************************************)
EXTENDS Naturals, FiniteSets

CONSTANTS
    Requests,     \* API requests, each of them one call
    Operations,   \* the calls that the clients make
    Workers,      \* Celery worker processes, on the host where the API runs too
    Redis,        \* the lock has a Redis to be kept in
    AutoRecover,  \* settings.workspace_auto_recover
    MaxFaults,    \* bound on worker crashes and broker outages in a behaviour
    NoRequest, NoPid

ACTIVE_STATUSES == {"pending", "provisioning", "installing", "starting", "running"}
CANCELLABLE_STATUSES == ACTIVE_STATUSES \ {"running"}
TERMINAL_STATUSES == {"failed", "stopped", "cancelled", "crashed"}

\* A process of the instance's runtime command, by how many were started before.
Procs == [of : Requests, nth : Nat]

ASSUME WorkspaceAssumption ==
    /\ Operations \subseteq {"launch", "stop", "restart", "cancel", "delete"}
    /\ Redis \in BOOLEAN /\ AutoRecover \in BOOLEAN /\ MaxFaults \in Nat
    /\ NoRequest \notin Requests /\ NoPid \notin Procs
    /\ Requests \cap Workers = {}

VARIABLES
    row,         \* the table workspace_instances
    lock,        \* the Redis key codedna:workspace-lock of the repository
    tasks,       \* tasks[i]: launch tasks in the Celery queue for instance i
    live,        \* the sandbox processes that are alive
    zombies,     \* those that have exited and that no worker has waited for yet
    started,     \* started[i]: processes started for instance i so far
    phase, op, target,  \* of a request: where it is, its call, its instance
    pc, task,    \* of a worker: where it is, the instance it works on
    proc,        \* proc[w]: the process that run started
    todo,        \* todo[w]: instances that the sweep still has before it
    seen,        \* seen[a]: the row as the session of request or worker a holds it
    recoveries,  \* history: automatic restarts of each instance
    faults       \* history: faults so far

apiVars == <<phase, op, target, lock>>
workerVars == <<pc, task, proc, todo>>
vars == <<row, lock, tasks, live, zombies, started, phase, op, target, pc, task, proc, todo,
          seen, recoveries, faults>>

Rows == [status : ACTIVE_STATUSES \cup TERMINAL_STATUSES \cup {"absent", "deleted"},
         pid : Procs \cup {NoPid}, cancel : BOOLEAN, recovered : 0..1]
NoRow == [status |-> "absent", pid |-> NoPid, cancel |-> FALSE, recovered |-> 0]
Gone == [NoRow EXCEPT !.status = "deleted"]

Exists(i) == row[i].status \notin {"absent", "deleted"}

\* The steps of run between which nothing of the launch is committed.
LaunchPcs == {"provision", "clone", "install", "start", "record", "probe", "ready"}
CheckPcs == {"checkNew", "checkProvisioned", "checkCloned", "checkInstalled"}
Pcs == {"idle", "load", "cancel", "sweep", "judge", "recover", "purge"}
           \cup LaunchPcs \cup CheckPcs

TypeOK ==
    /\ row \in [Requests -> Rows]
    /\ lock \in Requests \cup {NoRequest}
    /\ tasks \in [Requests -> Nat] /\ started \in [Requests -> Nat]
    /\ live \subseteq Procs /\ zombies \subseteq Procs
    /\ phase \in [Requests -> {"new", "guard", "insert", "commit", "enqueue", "done"}]
    /\ op \in [Requests -> Operations \cup {"none"}]
    /\ target \in [Requests -> Requests \cup {NoRequest}]
    /\ pc \in [Workers -> Pcs] /\ task \in [Workers -> Requests \cup {NoRequest}]
    /\ proc \in [Workers -> Procs \cup {NoPid}] /\ todo \in [Workers -> SUBSET Requests]
    /\ seen \in [Requests \cup Workers -> Rows]
    /\ recoveries \in [Requests -> Nat] /\ faults \in 0..MaxFaults

Init ==
    /\ row = [i \in Requests |-> NoRow] /\ lock = NoRequest
    /\ tasks = [i \in Requests |-> 0] /\ started = [i \in Requests |-> 0]
    /\ live = {} /\ zombies = {}
    /\ phase = [r \in Requests |-> "new"] /\ op = [r \in Requests |-> "none"]
    /\ target = [r \in Requests |-> NoRequest]
    /\ pc = [w \in Workers |-> "idle"] /\ task = [w \in Workers |-> NoRequest]
    /\ proc = [w \in Workers |-> NoPid] /\ todo = [w \in Workers |-> {}]
    /\ seen = [a \in Requests \cup Workers |-> NoRow]
    /\ recoveries = [i \in Requests |-> 0] /\ faults = 0

-----------------------------------------------------------------------------
(* Sessions and processes. *)

\* The UPDATE that a commit sends: of the row as loaded and as wanted, the columns
\* that differ.  A fault seeded to show what a property catches writes them all.
SeededWriteAll(stored, loaded, wanted) == wanted
Written(stored, loaded, wanted) ==
    [c \in DOMAIN stored |-> IF wanted[c] = loaded[c] THEN stored[c] ELSE wanted[c]]

Load(a, i) == seen' = [seen EXCEPT ![a] = row[i]]
Forget(a) == seen' = [seen EXCEPT ![a] = NoRow]

\* _terminate; SIGTERM to the process group, on the host they share.  A process that
\* has ended is a zombie until the worker that started it waits for it.
Kill(p) == live' = live \ {p} /\ zombies' = zombies \cup ({p} \cap live)

\* is_running: signal 0 reaches a zombie as it does a live process.
Answering == live \cup zombies

-----------------------------------------------------------------------------
(* The API: each request makes one call. *)

\* WorkspaceLock.acquire; create goes on whether or not it has the lock.
AcquireLock(r) ==
    /\ phase[r] = "new" /\ "launch" \in Operations
    /\ op' = [op EXCEPT ![r] = "launch"]
    /\ phase' = [phase EXCEPT ![r] = "guard"]
    /\ lock' = IF Redis /\ lock = NoRequest THEN r ELSE lock
    /\ UNCHANGED <<row, tasks, live, zombies, started, target, workerVars, seen, recoveries, faults>>

ReleaseLock(r) == lock' = IF lock = r THEN NoRequest ELSE lock

\* The concurrency guard of create: the launch of an active instance is its own.
FindActive(r) ==
    /\ phase[r] = "guard"
    /\ LET active == {i \in Requests : row[i].status \in ACTIVE_STATUSES} IN
       IF active = {}
         THEN /\ phase' = [phase EXCEPT ![r] = "insert"]
              /\ UNCHANGED <<target, lock>>
         ELSE /\ \E i \in active : target' = [target EXCEPT ![r] = i]
              /\ phase' = [phase EXCEPT ![r] = "enqueue"]
              /\ ReleaseLock(r)
    /\ UNCHANGED <<row, tasks, live, zombies, started, op, workerVars, seen, recoveries, faults>>

\* The row is inserted and committed, or the repository has no provision plan.
InsertInstance(r) ==
    /\ phase[r] = "insert"
    /\ \/ /\ row' = [row EXCEPT ![r] = [NoRow EXCEPT !.status = "pending"]]
          /\ target' = [target EXCEPT ![r] = r]
          /\ phase' = [phase EXCEPT ![r] = "enqueue"]
       \/ phase' = [phase EXCEPT ![r] = "done"] /\ UNCHANGED <<row, target>>
    /\ ReleaseLock(r)
    /\ UNCHANGED <<tasks, live, zombies, started, op, workerVars, seen, recoveries, faults>>

\* _enqueue_launch, which swallows what the broker answers.
EnqueueLaunch(r) ==
    /\ phase[r] = "enqueue"
    /\ phase' = [phase EXCEPT ![r] = "done"]
    /\ \/ tasks' = [tasks EXCEPT ![target[r]] = @ + 1] /\ UNCHANGED faults
       \/ faults < MaxFaults /\ faults' = faults + 1 /\ UNCHANGED tasks
    /\ UNCHANGED <<row, lock, live, zombies, started, op, target, workerVars, seen, recoveries>>

LockExpires ==
    /\ lock # NoRequest /\ lock' = NoRequest
    /\ UNCHANGED <<row, tasks, live, zombies, started, phase, op, target, workerVars, seen,
                   recoveries, faults>>

\* The first half of stop, restart, cancel and delete: the row is loaded, cancel
\* looks at its status, and its process is terminated.
LoadForCall(r, call, i) ==
    /\ phase[r] = "new" /\ call \in Operations \ {"launch"} /\ Exists(i)
    /\ call = "cancel" => row[i].status \in CANCELLABLE_STATUSES
    /\ op' = [op EXCEPT ![r] = call] /\ target' = [target EXCEPT ![r] = i]
    /\ phase' = [phase EXCEPT ![r] = "commit"]
    /\ Load(r, i) /\ Kill(row[i].pid)
    /\ UNCHANGED <<row, lock, tasks, started, workerVars, recoveries, faults>>

\* What the call makes of the row it loaded.
Wanted(call, loaded) ==
    CASE call = "stop"    -> [loaded EXCEPT !.status = "stopped", !.pid = NoPid]
      [] call = "restart" -> [loaded EXCEPT !.status = "pending", !.pid = NoPid, !.cancel = FALSE]
      [] call = "cancel"  -> [loaded EXCEPT !.status = "cancelled", !.pid = NoPid, !.cancel = TRUE]

\* The second half.  Seeded: a restart that does not enqueue a launch.
SeededRestartForgets(r) ==
    /\ phase[r] = "commit"
    /\ phase' = [phase EXCEPT ![r] = "done"]
    /\ row' = [row EXCEPT ![target[r]] =
                  IF ~Exists(target[r]) THEN @
                  ELSE IF op[r] = "delete" THEN Gone
                  ELSE Written(@, seen[r], Wanted(op[r], seen[r]))]
    /\ Forget(r)
    /\ UNCHANGED <<lock, tasks, live, zombies, started, op, target, workerVars, recoveries, faults>>
CommitCall(r) ==
    /\ phase[r] = "commit"
    /\ phase' = [phase EXCEPT ![r] = IF op[r] = "restart" /\ Exists(target[r])
                                       THEN "enqueue" ELSE "done"]
    /\ row' = [row EXCEPT ![target[r]] =
                  IF ~Exists(target[r]) THEN @
                  ELSE IF op[r] = "delete" THEN Gone
                  ELSE Written(@, seen[r], Wanted(op[r], seen[r]))]
    /\ Forget(r)
    /\ UNCHANGED <<lock, tasks, live, zombies, started, op, target, workerVars, recoveries, faults>>

-----------------------------------------------------------------------------
(* The workers: launch, sweep and purge. *)

\* The task is over; inside a sweep, recovery is followed by the next instance.
EndTask(w) ==
    /\ pc' = [pc EXCEPT ![w] = IF todo[w] = {} THEN "idle" ELSE "sweep"]
    /\ task' = [task EXCEPT ![w] = NoRequest] /\ proc' = [proc EXCEPT ![w] = NoPid]
    /\ UNCHANGED todo /\ Forget(w)

\* An exception escapes, and the worker drops whatever it was doing.
Abort(w) ==
    /\ pc' = [pc EXCEPT ![w] = "idle"]
    /\ task' = [task EXCEPT ![w] = NoRequest] /\ proc' = [proc EXCEPT ![w] = NoPid]
    /\ todo' = [todo EXCEPT ![w] = {}] /\ Forget(w)

\* Flush, commit and refresh; a row that is gone makes the flush raise.
Stored(w, wanted) == Written(row[task[w]], seen[w], wanted)
Save(w, wanted) == row' = [row EXCEPT ![task[w]] = Stored(w, wanted)]
SaveAndGo(w, wanted, next) ==
    IF Exists(task[w])
      THEN /\ Save(w, wanted)
           /\ seen' = [seen EXCEPT ![w] = Stored(w, wanted)]
           /\ pc' = [pc EXCEPT ![w] = next] /\ UNCHANGED <<task, proc, todo>>
      ELSE UNCHANGED row /\ Abort(w)
SaveAndEnd(w, wanted) ==
    IF Exists(task[w]) THEN Save(w, wanted) /\ EndTask(w)
                       ELSE UNCHANGED row /\ Abort(w)

TakeTask(w, i) ==
    /\ pc[w] = "idle" /\ tasks[i] > 0
    /\ tasks' = [tasks EXCEPT ![i] = @ - 1]
    /\ pc' = [pc EXCEPT ![w] = "load"] /\ task' = [task EXCEPT ![w] = i]
    /\ UNCHANGED <<row, apiVars, live, zombies, started, proc, todo, seen, recoveries, faults>>

\* run: only a pending instance is launched.
LoadInstance(w) ==
    /\ pc[w] = "load"
    /\ IF row[task[w]].status = "pending"
         THEN /\ Load(w, task[w]) /\ pc' = [pc EXCEPT ![w] = "checkNew"]
              /\ UNCHANGED <<task, proc, todo>>
         ELSE IF Exists(task[w]) THEN EndTask(w) ELSE Abort(w)
    /\ UNCHANGED <<row, apiVars, tasks, live, zombies, started, recoveries, faults>>

\* _cancelled reads the flag again, and nothing else.
CheckCancelled(w) ==
    /\ pc[w] \in CheckPcs
    /\ IF Exists(task[w])
         THEN /\ seen' = [seen EXCEPT ![w].cancel = row[task[w]].cancel]
              /\ pc' = [pc EXCEPT ![w] =
                           IF row[task[w]].cancel THEN "cancel"
                           ELSE CASE @ = "checkNew"         -> "provision"
                                  [] @ = "checkProvisioned" -> "clone"
                                  [] @ = "checkCloned"      -> "install"
                                  [] @ = "checkInstalled"   -> "start"]
              /\ UNCHANGED <<task, proc, todo>>
         ELSE Abort(w)
    /\ UNCHANGED <<row, apiVars, tasks, live, zombies, started, recoveries, faults>>

\* _cancel_now
CancelNow(w) ==
    /\ pc[w] = "cancel"
    /\ Kill(seen[w].pid)
    /\ SaveAndEnd(w, [seen[w] EXCEPT !.status = "cancelled", !.pid = NoPid])
    /\ UNCHANGED <<apiVars, tasks, started, recoveries, faults>>

\* The status is committed when the directory was made and when the dependencies
\* were installed, not before; in between, two commits of the clone change nothing.
Prepare(w) ==
    /\ \/ /\ pc[w] = "provision"
          /\ SaveAndGo(w, [seen[w] EXCEPT !.status = "provisioning"], "checkProvisioned")
       \/ /\ pc[w] = "clone"
          /\ SaveAndGo(w, seen[w], "checkCloned")
       \/ /\ pc[w] = "install"
          /\ SaveAndGo(w, [seen[w] EXCEPT !.status = "installing"], "checkInstalled")
    /\ UNCHANGED <<apiVars, tasks, live, zombies, started, recoveries, faults>>

StartProcess(w) ==
    /\ pc[w] = "start"
    /\ LET p == [of |-> task[w], nth |-> started[task[w]]] IN
       live' = live \cup {p} /\ proc' = [proc EXCEPT ![w] = p] /\ UNCHANGED zombies
    /\ started' = [started EXCEPT ![task[w]] = @ + 1]
    /\ pc' = [pc EXCEPT ![w] = "record"]
    /\ UNCHANGED <<row, apiVars, tasks, task, todo, seen, recoveries, faults>>

\* The first commit that shows "starting", with the pid.
RecordProcess(w) ==
    /\ pc[w] = "record"
    /\ SaveAndGo(w, [seen[w] EXCEPT !.status = "starting", !.pid = proc[w]], "probe")
    /\ UNCHANGED <<apiVars, tasks, live, zombies, started, recoveries, faults>>

\* The probe asks a port of the host, which this process or another may answer.
ProbeReady(w) ==
    /\ pc[w] = "probe" /\ pc' = [pc EXCEPT ![w] = "ready"]
    /\ UNCHANGED <<row, apiVars, tasks, live, zombies, started, task, proc, todo, seen, recoveries, faults>>

BecomeRunning(w) ==
    /\ pc[w] = "ready"
    /\ SaveAndEnd(w, [seen[w] EXCEPT !.status = "running"])
    /\ UNCHANGED <<apiVars, tasks, live, zombies, started, recoveries, faults>>

\* A step of the launch raises, the install fails or the probe gives up: _fail.
LaunchFails(w) ==
    /\ pc[w] \in LaunchPcs \ {"record", "ready"}
    /\ Kill(IF pc[w] = "probe" THEN proc[w] ELSE seen[w].pid)
    /\ SaveAndEnd(w, [seen[w] EXCEPT !.status = "failed", !.pid = NoPid])
    /\ UNCHANGED <<apiVars, tasks, started, recoveries, faults>>

\* reconcile: the running instances are queried once and visited one by one.
BeginSweep(w) ==
    /\ pc[w] = "idle" /\ \E i \in Requests : row[i].status = "running"
    /\ todo' = [todo EXCEPT ![w] = {i \in Requests : row[i].status = "running"}]
    /\ pc' = [pc EXCEPT ![w] = "sweep"]
    /\ UNCHANGED <<row, apiVars, tasks, live, zombies, started, task, proc, seen, recoveries, faults>>

\* The commit for the one before has expired this instance, so it is loaded again;
\* its status is not looked at again.  One that is gone ends the sweep.
VisitInstance(w) ==
    /\ pc[w] = "sweep"
    /\ \E i \in todo[w] :
          IF Exists(i)
            THEN /\ Load(w, i) /\ task' = [task EXCEPT ![w] = i]
                 /\ todo' = [todo EXCEPT ![w] = @ \ {i}]
                 /\ pc' = [pc EXCEPT ![w] = "judge"] /\ UNCHANGED proc
            ELSE Abort(w)
    /\ UNCHANGED <<row, apiVars, tasks, live, zombies, started, recoveries, faults>>

\* A process that answers gets its heartbeat, be it only a zombie.  Seeded: so does any.
SeededHeartbeatAlways(w) ==
    /\ pc[w] = "judge"
    /\ SaveAndEnd(w, seen[w])
    /\ UNCHANGED <<apiVars, tasks, live, zombies, started, recoveries, faults>>
Heartbeat(w) ==
    /\ pc[w] = "judge" /\ seen[w].pid \in Answering
    /\ SaveAndEnd(w, seen[w])
    /\ UNCHANGED <<apiVars, tasks, live, zombies, started, recoveries, faults>>

\* One that does not answer or is overdue (_execution_timed_out) has crashed; unless
\* it is overdue, it is recovered if it never was.
Crashed(w) == [seen[w] EXCEPT !.status = "crashed", !.pid = NoPid]
\* Seeded: the attempts are not looked at.
SeededRecoverAgain(r) == AutoRecover
MayRecover(r) == AutoRecover /\ r.recovered < 1
DeclareCrashed(w) ==
    /\ pc[w] = "judge"
    /\ Kill(seen[w].pid)
    /\ \/ /\ seen[w].pid \notin Answering /\ MayRecover(Stored(w, Crashed(w)))
          /\ SaveAndGo(w, Crashed(w), "recover")
       \/ /\ seen[w].pid \notin Answering => ~MayRecover(Stored(w, Crashed(w)))
          /\ SaveAndEnd(w, Crashed(w))
       \/ /\ seen[w].pid \notin Answering  \* silent and overdue
          /\ SaveAndEnd(w, Crashed(w))
    /\ UNCHANGED <<apiVars, tasks, started, recoveries, faults>>

\* restart inside the sweep, whose task then runs the launch itself.
\* Seeded: the attempt is not counted.
SeededRecoverUncounted(w) ==
    /\ pc[w] = "recover"
    /\ Kill(seen[w].pid)
    /\ SaveAndGo(w, Wanted("restart", seen[w]), "load")
    /\ recoveries' = [recoveries EXCEPT ![task[w]] = @ + 1]
    /\ UNCHANGED <<apiVars, tasks, started, faults>>
Recover(w) ==
    /\ pc[w] = "recover"
    /\ Kill(seen[w].pid)
    /\ SaveAndGo(w, [Wanted("restart", seen[w]) EXCEPT !.recovered = @ + 1], "load")
    /\ recoveries' = [recoveries EXCEPT ![task[w]] = @ + 1]
    /\ UNCHANGED <<apiVars, tasks, started, faults>>

\* cleanup_orphans: one of the rows that are terminal for long enough.
FindStale(w) ==
    /\ pc[w] = "idle"
    /\ \E i \in Requests :
          /\ row[i].status \in TERMINAL_STATUSES
          /\ Load(w, i) /\ task' = [task EXCEPT ![w] = i]
    /\ pc' = [pc EXCEPT ![w] = "purge"]
    /\ UNCHANGED <<row, apiVars, tasks, live, zombies, started, proc, todo, recoveries, faults>>

Purge(w) ==
    /\ pc[w] = "purge"
    /\ Kill(seen[w].pid)
    /\ row' = [row EXCEPT ![task[w]] = Gone] /\ EndTask(w)
    /\ UNCHANGED <<apiVars, tasks, started, recoveries, faults>>

\* The worker process dies, or a commit fails: _fail raises too, in a session whose
\* transaction is broken.
WorkerDies(w) ==
    /\ pc[w] # "idle" /\ faults < MaxFaults
    /\ Abort(w) /\ faults' = faults + 1
    /\ UNCHANGED <<row, apiVars, tasks, live, zombies, started, recoveries>>

\* A sandbox exits by itself.
ProcessExits(p) ==
    /\ p \in live /\ Kill(p)
    /\ UNCHANGED <<row, apiVars, tasks, started, workerVars, seen, recoveries, faults>>

\* The worker that started the process, which goes on to other tasks, happens to start
\* another subprocess, or ends: only then is an exited process waited for.
Reap(p) ==
    /\ p \in zombies /\ zombies' = zombies \ {p}
    /\ UNCHANGED <<row, apiVars, tasks, live, started, workerVars, seen, recoveries, faults>>

-----------------------------------------------------------------------------

RequestStep(r) == FindActive(r) \/ InsertInstance(r) \/ EnqueueLaunch(r) \/ CommitCall(r)

LaunchStep(w) ==
    \/ LoadInstance(w) \/ CheckCancelled(w) \/ CancelNow(w) \/ Prepare(w) \/ StartProcess(w)
    \/ RecordProcess(w) \/ ProbeReady(w) \/ BecomeRunning(w) \/ LaunchFails(w)
SweepStep(w) ==
    VisitInstance(w) \/ Heartbeat(w) \/ DeclareCrashed(w) \/ Recover(w) \/ Purge(w)

Next ==
    \/ \E r \in Requests : \/ AcquireLock(r) \/ RequestStep(r)
                           \/ \E call \in Operations, i \in Requests : LoadForCall(r, call, i)
    \/ \E w \in Workers : \/ LaunchStep(w) \/ SweepStep(w) \/ BeginSweep(w) \/ FindStale(w)
                          \/ WorkerDies(w)
                          \/ \E i \in Requests : TakeTask(w, i)
    \/ \E p \in live : ProcessExits(p)
    \/ \E p \in zombies : Reap(p)
    \/ LockExpires

Spec == Init /\ [][Next]_vars

\* A request and a task that were begun run on.  The queue is first in, first out,
\* and beat sends a sweep every 30 seconds: a task or a sweep is taken even though
\* the worker is busy in between.
Fairness ==
    /\ \A r \in Requests : WF_vars(RequestStep(r))
    /\ \A w \in Workers : WF_vars(LaunchStep(w) \/ SweepStep(w))
    /\ \A i \in Requests : SF_vars(\E w \in Workers : TakeTask(w, i))
    /\ SF_vars(\E w \in Workers : BeginSweep(w))

FairSpec == Spec /\ Fairness

-----------------------------------------------------------------------------
(* Properties. *)

\* A live process of an instance that exists is in the instance's row, where stop,
\* delete, the sweep and the purge find it, or in the hands of the worker that is
\* about to write it there.
NoOrphanProcess ==
    \A p \in live : Exists(p.of) =>
        \/ row[p.of].pid = p
        \/ \E w \in Workers : proc[w] = p /\ pc[w] = "record"

\* "restarts it once": an instance is recovered automatically at most once.
RecoveredOnce == \A i \in Requests : recoveries[i] <= 1

\* Every launch comes to an end, though the client may restart it meanwhile.
LaunchSettles ==
    \A i \in Requests :
        row[i].status \in CANCELLABLE_STATUSES ~> row[i].status \notin CANCELLABLE_STATUSES

\* reconcile, "A running instance whose process is no longer alive ... is marked
\* crashed", as far as signal 0 can tell: an instance does not stay running once its
\* process does not answer, or when its row has no process at all.  A zombie answers,
\* so that a sandbox that exits stays running until it is waited for or overdue.
DeadSandboxNoticed ==
    \A i \in Requests :
        row[i].status = "running" /\ row[i].pid \notin Answering
            ~> row[i].status # "running" \/ row[i].pid \in Answering

\* workspace_lock.py, "Ensures only one launch can be created for a repository at a
\* time", and the concurrency guard, "never create a duplicate launch".
OneActiveInstance ==
    \A i, j \in Requests :
        row[i].status \in ACTIVE_STATUSES /\ row[j].status \in ACTIVE_STATUSES => i = j
=============================================================================
