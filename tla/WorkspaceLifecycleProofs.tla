---------------------- MODULE WorkspaceLifecycleProofs ----------------------
(***************************************************************************)
(* Proofs about WorkspaceLifecycle: its types, the bound on automatic      *)
(* restarts, and that no process is left without a row that names it.      *)
(***************************************************************************)
EXTENDS WorkspaceLifecycle, FiniteSetTheorems, TLAPS

-----------------------------------------------------------------------------
(* Types. *)

\* Whoever is about to work on a row has one, and a recovery has not been made before.
Busy ==
    /\ \A w \in Workers : pc[w] \notin {"idle", "sweep"} => task[w] \in Requests
    /\ \A w \in Workers : pc[w] = "recover" => seen[w].recovered = 0
    /\ \A r \in Requests : phase[r] \in {"commit", "enqueue"} => target[r] \in Requests
    /\ \A r \in Requests : phase[r] = "commit" => op[r] \in {"stop", "restart", "cancel", "delete"}

Typed == TypeOK /\ Busy

Columns == {"status", "pid", "cancel", "recovered"}

\* A commit takes each column from the wanted row or leaves it as it is stored.
LEMMA WrittenIsRow ==
    ASSUME NEW s \in Rows, NEW l \in Rows, NEW x \in Rows
    PROVE  /\ Written(s, l, x) \in Rows
           /\ Written(s, l, x).status = IF x.status = l.status THEN s.status ELSE x.status
           /\ Written(s, l, x).pid = IF x.pid = l.pid THEN s.pid ELSE x.pid
           /\ Written(s, l, x).cancel = IF x.cancel = l.cancel THEN s.cancel ELSE x.cancel
           /\ Written(s, l, x).recovered =
                 IF x.recovered = l.recovered THEN s.recovered ELSE x.recovered
<1> DEFINE wr == Written(s, l, x)
<1>1. DOMAIN s = Columns
  BY DEF Rows, Columns
<1>2. wr = [c \in Columns |-> IF x[c] = l[c] THEN s[c] ELSE x[c]]
  BY <1>1 DEF Written
<1>3. /\ wr.status = IF x.status = l.status THEN s.status ELSE x.status
      /\ wr.pid = IF x.pid = l.pid THEN s.pid ELSE x.pid
      /\ wr.cancel = IF x.cancel = l.cancel THEN s.cancel ELSE x.cancel
      /\ wr.recovered = IF x.recovered = l.recovered THEN s.recovered ELSE x.recovered
  BY <1>2 DEF Columns
<1>4. wr = [status |-> wr.status, pid |-> wr.pid, cancel |-> wr.cancel,
            recovered |-> wr.recovered]
  BY <1>2 DEF Columns
<1>5. wr \in Rows
  BY <1>3, <1>4 DEF Rows
<1> QED
  BY <1>3, <1>5

LEMMA NoRowIsRow == NoRow \in Rows /\ Gone \in Rows
<1>1. NoRow \in Rows
  BY DEF Rows, NoRow
<1> QED
  BY <1>1 DEF Rows, Gone

\* What a call or a launch wants of a row is a row.
LEMMA WantedIsRow ==
    ASSUME NEW l \in Rows
    PROVE  /\ \A call \in {"stop", "restart", "cancel"} :
                 Wanted(call, l) \in Rows /\ Wanted(call, l).recovered = l.recovered
           /\ \A s \in ACTIVE_STATUSES \cup TERMINAL_STATUSES :
                 [l EXCEPT !.status = s] \in Rows
           /\ \A s \in ACTIVE_STATUSES \cup TERMINAL_STATUSES, p \in Procs \cup {NoPid} :
                 [l EXCEPT !.status = s, !.pid = p] \in Rows
  BY DEF Rows, Wanted, ACTIVE_STATUSES, TERMINAL_STATUSES

\* A step of one worker leaves the others where they are.
Others(v) ==
    /\ pc'[v] = pc[v] /\ task'[v] = task[v] /\ seen'[v] = seen[v]
    /\ todo'[v] = todo[v] /\ proc'[v] = proc[v]

\* A worker that is done with its task, and one that drops everything, are idle or sweep on.
LEMMA EndTaskTyped ==
    ASSUME Typed, NEW w \in Workers, EndTask(w) \/ Abort(w)
    PROVE  /\ pc' \in [Workers -> Pcs] /\ task' \in [Workers -> Requests \cup {NoRequest}]
           /\ proc' \in [Workers -> Procs \cup {NoPid}]
           /\ todo' \in [Workers -> SUBSET Requests]
           /\ seen' \in [Requests \cup Workers -> Rows]
           /\ pc'[w] \in {"idle", "sweep"} /\ task'[w] = NoRequest /\ proc'[w] = NoPid
           /\ todo'[w] \subseteq todo[w]
           /\ \A v \in Workers \ {w} : Others(v)
<1>1. CASE EndTask(w)
  BY <1>1, NoRowIsRow DEF Typed, TypeOK, EndTask, Forget, Pcs, Others
<1>2. CASE Abort(w)
  <2>1. {} \in SUBSET Requests
    OBVIOUS
  <2> QED
    BY <1>2, <2>1, NoRowIsRow DEF Typed, TypeOK, Abort, Forget, Pcs, Others
<1> QED
  BY <1>1, <1>2

LEMMA SaveTyped ==
    ASSUME Typed, NEW w \in Workers, task[w] \in Requests, NEW x \in Rows, Save(w, x)
    PROVE  row' \in [Requests -> Rows] /\ Stored(w, x) \in Rows
<1>1. row[task[w]] \in Rows /\ seen[w] \in Rows
  BY DEF Typed, TypeOK
<1>2. Stored(w, x) \in Rows
  BY <1>1, WrittenIsRow DEF Stored
<1> QED
  BY <1>2 DEF Save, Typed, TypeOK

LEMMA SaveAndEndTyped ==
    ASSUME Typed, NEW w \in Workers, task[w] \in Requests, NEW x \in Rows, SaveAndEnd(w, x)
    PROVE  /\ row' \in [Requests -> Rows]
           /\ pc' \in [Workers -> Pcs] /\ task' \in [Workers -> Requests \cup {NoRequest}]
           /\ proc' \in [Workers -> Procs \cup {NoPid}]
           /\ todo' \in [Workers -> SUBSET Requests]
           /\ seen' \in [Requests \cup Workers -> Rows]
           /\ pc'[w] \in {"idle", "sweep"} /\ task'[w] = NoRequest /\ proc'[w] = NoPid
           /\ todo'[w] \subseteq todo[w]
           /\ \A v \in Workers \ {w} : Others(v)
<1>1. EndTask(w) \/ Abort(w)
  BY DEF SaveAndEnd
<1>2. row' \in [Requests -> Rows]
  <2>1. CASE Exists(task[w])
    BY <2>1, SaveTyped DEF SaveAndEnd
  <2>2. CASE ~Exists(task[w])
    BY <2>2 DEF SaveAndEnd, Typed, TypeOK
  <2> QED
    BY <2>1, <2>2
<1> QED
  BY <1>1, <1>2, EndTaskTyped

LEMMA SaveAndGoTyped ==
    ASSUME Typed, NEW w \in Workers, task[w] \in Requests, NEW x \in Rows, NEW next \in Pcs,
           SaveAndGo(w, x, next)
    PROVE  /\ row' \in [Requests -> Rows]
           /\ pc' \in [Workers -> Pcs] /\ task' \in [Workers -> Requests \cup {NoRequest}]
           /\ proc' \in [Workers -> Procs \cup {NoPid}]
           /\ todo' \in [Workers -> SUBSET Requests]
           /\ seen' \in [Requests \cup Workers -> Rows]
           /\ \/ /\ pc'[w] \in {"idle", "sweep"} /\ task'[w] = NoRequest /\ proc'[w] = NoPid
                 /\ ~Exists(task[w]) /\ UNCHANGED row
              \/ /\ pc'[w] = next /\ task'[w] = task[w] /\ proc'[w] = proc[w]
                 /\ seen'[w] = Stored(w, x) /\ Exists(task[w]) /\ Save(w, x)
           /\ todo'[w] \subseteq todo[w]
           /\ \A v \in Workers \ {w} : Others(v)
<1>1. CASE Exists(task[w])
  BY <1>1, SaveTyped DEF SaveAndGo, Typed, TypeOK, Others
<1>2. CASE ~Exists(task[w])
  <2>1. Abort(w) /\ UNCHANGED row
    BY <1>2 DEF SaveAndGo
  <2> QED
    BY <1>2, <2>1, EndTaskTyped DEF Typed, TypeOK
<1> QED
  BY <1>1, <1>2

\* The parts of Busy that a step of one worker or of one request can disturb.
LEMMA WorkerBusy ==
    ASSUME Typed, WorkspaceAssumption, NEW w \in Workers, UNCHANGED <<phase, op, target>>,
           \A v \in Workers \ {w} : Others(v),
           pc'[w] \notin {"idle", "sweep"} => task'[w] \in Requests,
           pc'[w] = "recover" => seen'[w].recovered = 0
    PROVE  Busy'
  BY DEF Typed, Busy, Others

\* A step of a request leaves the workers alone.
LEMMA RequestBusy ==
    ASSUME Typed, WorkspaceAssumption, NEW r \in Requests, UNCHANGED <<pc, task>>,
           \A v \in Workers : seen'[v] = seen[v],
           \A q \in Requests \ {r} : phase'[q] = phase[q] /\ target'[q] = target[q] /\ op'[q] = op[q],
           phase'[r] \in {"commit", "enqueue"} => target'[r] \in Requests,
           phase'[r] = "commit" => op'[r] \in {"stop", "restart", "cancel", "delete"}
    PROVE  Busy'
  BY DEF Typed, Busy

-----------------------------------------------------------------------------

LEMMA InitTyped == Init => Typed
  BY WorkspaceAssumption, NoRowIsRow DEF Init, Typed, TypeOK, Busy, Pcs, WorkspaceAssumption

LEMMA RequestTyped ==
    ASSUME Typed, NEW r \in Requests,
           \/ AcquireLock(r) \/ RequestStep(r)
           \/ \E call \in Operations, i \in Requests : LoadForCall(r, call, i)
    PROVE  Typed'
<1> USE WorkspaceAssumption DEF apiVars, workerVars
<1>0. TypeOK
  BY DEF Typed
<1>1. CASE AcquireLock(r)
  <2>1. TypeOK'
    BY <1>0, <1>1 DEF TypeOK, AcquireLock
  <2>2. Busy'
    BY <1>0, <1>1, RequestBusy DEF TypeOK, AcquireLock
  <2> QED
    BY <2>1, <2>2 DEF Typed
<1>2. CASE FindActive(r)
  <2>1. TypeOK'
    BY <1>0, <1>2 DEF TypeOK, FindActive, ReleaseLock
  <2>2. Busy'
    BY <1>0, <1>2, RequestBusy DEF TypeOK, FindActive
  <2> QED
    BY <2>1, <2>2 DEF Typed
<1>3. CASE InsertInstance(r)
  <2>0. [NoRow EXCEPT !.status = "pending"] \in Rows
    BY NoRowIsRow, WantedIsRow DEF ACTIVE_STATUSES
  <2>1. TypeOK'
    BY <1>0, <1>3, <2>0 DEF TypeOK, InsertInstance, ReleaseLock
  <2>2. Busy'
    BY <1>0, <1>3, RequestBusy DEF TypeOK, InsertInstance
  <2> QED
    BY <2>1, <2>2 DEF Typed
<1>4. CASE EnqueueLaunch(r)
  <2>0. target[r] \in Requests
    BY <1>4 DEF Typed, Busy, EnqueueLaunch
  <2>1. TypeOK'
    BY <1>0, <1>4, <2>0 DEF TypeOK, EnqueueLaunch, WorkspaceAssumption
  <2>2. Busy'
    BY <1>0, <1>4, RequestBusy DEF TypeOK, EnqueueLaunch
  <2> QED
    BY <2>1, <2>2 DEF Typed
<1>5. CASE CommitCall(r)
  <2>0. target[r] \in Requests /\ op[r] \in {"stop", "restart", "cancel", "delete"}
    BY <1>5 DEF Typed, Busy, CommitCall
  <2>1. op[r] # "delete" => Written(row[target[r]], seen[r], Wanted(op[r], seen[r])) \in Rows
    BY <1>0, <2>0, WantedIsRow, WrittenIsRow DEF TypeOK
  <2>2. row' \in [Requests -> Rows]
    BY <1>0, <1>5, <2>1, NoRowIsRow DEF TypeOK, CommitCall
  <2>3. TypeOK'
    BY <1>0, <1>5, <2>2, NoRowIsRow DEF TypeOK, CommitCall, Forget
  <2>4. Busy'
    BY <1>0, <1>5, <2>0, RequestBusy DEF TypeOK, CommitCall, Forget, WorkspaceAssumption
  <2> QED
    BY <2>3, <2>4 DEF Typed
<1>6. ASSUME NEW call \in Operations, NEW i \in Requests, LoadForCall(r, call, i)
      PROVE  Typed'
  <2>1. TypeOK'
    BY <1>0, <1>6 DEF TypeOK, LoadForCall, Load, Kill
  <2>2. call \in {"stop", "restart", "cancel", "delete"}
    BY <1>6 DEF LoadForCall, WorkspaceAssumption
  <2>3. Busy'
    BY <1>0, <1>6, <2>2, RequestBusy DEF TypeOK, LoadForCall, Load, WorkspaceAssumption
  <2> QED
    BY <2>1, <2>3 DEF Typed
<1> QED
  BY <1>1, <1>2, <1>3, <1>4, <1>5, <1>6 DEF RequestStep

LEMMA LaunchTyped ==
    ASSUME Typed, NEW w \in Workers, LaunchStep(w)
    PROVE  Typed'
<1> USE WorkspaceAssumption DEF apiVars, workerVars
<1>0. TypeOK /\ (pc[w] \notin {"idle", "sweep"} => task[w] \in Requests)
  BY DEF Typed, Busy
<1>1. CASE LoadInstance(w)
  <2>1. CASE row[task[w]].status = "pending"
    <3>1. TypeOK'
      BY <1>0, <1>1, <2>1 DEF TypeOK, LoadInstance, Load, Pcs, CheckPcs
    <3>2. Busy'
      BY <1>0, <1>1, <2>1, WorkerBusy DEF TypeOK, LoadInstance, Load, Others
    <3> QED
      BY <3>1, <3>2 DEF Typed
  <2>2. CASE EndTask(w) \/ Abort(w)
    <3>1. TypeOK'
      BY <1>0, <1>1, <2>2, EndTaskTyped DEF TypeOK, LoadInstance
    <3>2. Busy'
      BY <1>1, <2>2, EndTaskTyped, WorkerBusy DEF LoadInstance
    <3> QED
      BY <3>1, <3>2 DEF Typed
  <2> QED
    BY <1>1, <2>1, <2>2 DEF LoadInstance
<1>2. CASE CheckCancelled(w)
  <2>0. task[w] \in Requests
    BY <1>0, <1>2 DEF CheckCancelled, CheckPcs
  <2>1. CASE Exists(task[w])
    <3>1. seen' \in [Requests \cup Workers -> Rows]
      <4>1. [seen[w] EXCEPT !.cancel = row[task[w]].cancel] \in Rows
        <5>1. seen[w] \in Rows /\ row[task[w]].cancel \in BOOLEAN
          BY <1>0, <2>0 DEF TypeOK, Rows
        <5>2. CASE row[task[w]].cancel = TRUE
          BY <5>1, <5>2 DEF Rows
        <5>3. CASE row[task[w]].cancel = FALSE
          BY <5>1, <5>3 DEF Rows
        <5> QED
          BY <5>1, <5>2, <5>3
      <4> QED
        BY <1>0, <1>2, <2>1, <4>1 DEF TypeOK, CheckCancelled
    <3>2. pc'[w] \in {"cancel", "provision", "clone", "install", "start"}
      BY <1>0, <1>2, <2>1 DEF TypeOK, CheckCancelled, CheckPcs
    <3>3. pc' \in [Workers -> Pcs] /\ (\A v \in Workers \ {w} : pc'[v] = pc[v])
      BY <1>0, <1>2, <2>1, <3>2 DEF TypeOK, CheckCancelled, Pcs, LaunchPcs
    <3>4. TypeOK'
      BY <1>0, <1>2, <2>1, <3>1, <3>3 DEF TypeOK, CheckCancelled
    <3>5. Busy'
      BY <1>0, <1>2, <2>0, <2>1, <3>2, <3>3, WorkerBusy DEF TypeOK, CheckCancelled, Others
    <3> QED
      BY <3>4, <3>5 DEF Typed
  <2>2. CASE Abort(w)
    <3>1. TypeOK'
      BY <1>0, <1>2, <2>2, EndTaskTyped DEF TypeOK, CheckCancelled
    <3>2. Busy'
      BY <1>2, <2>2, EndTaskTyped, WorkerBusy DEF CheckCancelled
    <3> QED
      BY <3>1, <3>2 DEF Typed
  <2> QED
    BY <1>2, <2>1, <2>2 DEF CheckCancelled
<1>3. CASE CancelNow(w)
  <2> DEFINE x == [seen[w] EXCEPT !.status = "cancelled", !.pid = NoPid]
  <2>1. x \in Rows
    BY <1>0, WantedIsRow DEF TypeOK, TERMINAL_STATUSES
  <2>2. task[w] \in Requests /\ SaveAndEnd(w, x)
    BY <1>0, <1>3 DEF CancelNow
  <2>3. TypeOK'
    BY <1>0, <1>3, <2>1, <2>2, SaveAndEndTyped DEF TypeOK, CancelNow, Kill
  <2>4. Busy'
    BY <1>3, <2>1, <2>2, SaveAndEndTyped, WorkerBusy DEF CancelNow
  <2> QED
    BY <2>3, <2>4 DEF Typed
<1>4. CASE Prepare(w)
  <2>1. task[w] \in Requests
    BY <1>0, <1>4 DEF Prepare
  <2>2. PICK x \in Rows, next \in {"checkProvisioned", "checkCloned", "checkInstalled"} :
           SaveAndGo(w, x, next)
    BY <1>0, <1>4, WantedIsRow DEF TypeOK, Prepare, ACTIVE_STATUSES
  <2>3. next \in Pcs
    BY DEF Pcs, CheckPcs
  <2>4. TypeOK'
    BY <1>0, <1>4, <2>1, <2>2, <2>3, SaveAndGoTyped DEF TypeOK, Prepare
  <2>5. Busy'
    BY <1>0, <1>4, <2>1, <2>2, <2>3, SaveAndGoTyped, WorkerBusy DEF Prepare
  <2> QED
    BY <2>4, <2>5 DEF Typed
<1>5. CASE StartProcess(w)
  <2> DEFINE p == [of |-> task[w], nth |-> started[task[w]]]
  <2>1. task[w] \in Requests
    BY <1>0, <1>5 DEF StartProcess
  <2>2. p \in Procs
    BY <1>0, <2>1 DEF TypeOK, Procs
  <2>3. TypeOK'
    BY <1>0, <1>5, <2>1, <2>2 DEF TypeOK, StartProcess, Pcs, LaunchPcs
  <2>4. Busy'
    BY <1>0, <1>5, <2>1, WorkerBusy DEF TypeOK, StartProcess, Others
  <2> QED
    BY <2>3, <2>4 DEF Typed
<1>6. CASE RecordProcess(w)
  <2> DEFINE x == [seen[w] EXCEPT !.status = "starting", !.pid = proc[w]]
  <2>1. x \in Rows
    BY <1>0, WantedIsRow DEF TypeOK, ACTIVE_STATUSES
  <2>2. task[w] \in Requests /\ SaveAndGo(w, x, "probe") /\ "probe" \in Pcs
    BY <1>0, <1>6 DEF RecordProcess, Pcs, LaunchPcs
  <2>3. TypeOK'
    BY <1>0, <1>6, <2>1, <2>2, SaveAndGoTyped DEF TypeOK, RecordProcess
  <2>4. Busy'
    BY <1>6, <2>1, <2>2, SaveAndGoTyped, WorkerBusy DEF RecordProcess
  <2> QED
    BY <2>3, <2>4 DEF Typed
<1>7. CASE ProbeReady(w)
  <2>1. TypeOK'
    BY <1>0, <1>7 DEF TypeOK, ProbeReady, Pcs, LaunchPcs
  <2>2. Busy'
    BY <1>0, <1>7, WorkerBusy DEF TypeOK, ProbeReady, Others
  <2> QED
    BY <2>1, <2>2 DEF Typed
<1>8. CASE BecomeRunning(w)
  <2> DEFINE x == [seen[w] EXCEPT !.status = "running"]
  <2>1. x \in Rows
    BY <1>0, WantedIsRow DEF TypeOK, ACTIVE_STATUSES
  <2>2. task[w] \in Requests /\ SaveAndEnd(w, x)
    BY <1>0, <1>8 DEF BecomeRunning
  <2>3. TypeOK'
    BY <1>0, <1>8, <2>1, <2>2, SaveAndEndTyped DEF TypeOK, BecomeRunning
  <2>4. Busy'
    BY <1>8, <2>1, <2>2, SaveAndEndTyped, WorkerBusy DEF BecomeRunning
  <2> QED
    BY <2>3, <2>4 DEF Typed
<1>9. CASE LaunchFails(w)
  <2> DEFINE x == [seen[w] EXCEPT !.status = "failed", !.pid = NoPid]
  <2>1. x \in Rows
    BY <1>0, WantedIsRow DEF TypeOK, TERMINAL_STATUSES
  <2>2. task[w] \in Requests /\ SaveAndEnd(w, x)
    BY <1>0, <1>9 DEF LaunchFails, LaunchPcs
  <2>3. live' \subseteq Procs /\ zombies' \subseteq Procs
    BY <1>0, <1>9 DEF TypeOK, LaunchFails, Kill
  <2>4. TypeOK'
    BY <1>0, <1>9, <2>1, <2>2, <2>3, SaveAndEndTyped DEF TypeOK, LaunchFails
  <2>5. Busy'
    BY <1>9, <2>1, <2>2, SaveAndEndTyped, WorkerBusy DEF LaunchFails
  <2> QED
    BY <2>4, <2>5 DEF Typed
<1> QED
  BY <1>1, <1>2, <1>3, <1>4, <1>5, <1>6, <1>7, <1>8, <1>9 DEF LaunchStep

LEMMA SweepTyped ==
    ASSUME Typed, NEW w \in Workers, SweepStep(w)
    PROVE  Typed'
<1> USE WorkspaceAssumption DEF apiVars, workerVars
<1>0. TypeOK /\ (pc[w] \notin {"idle", "sweep"} => task[w] \in Requests)
  BY DEF Typed, Busy
<1>1. CASE VisitInstance(w)
  <2>1. PICK i \in todo[w] :
          IF Exists(i)
            THEN /\ Load(w, i) /\ task' = [task EXCEPT ![w] = i]
                 /\ todo' = [todo EXCEPT ![w] = @ \ {i}]
                 /\ pc' = [pc EXCEPT ![w] = "judge"] /\ UNCHANGED proc
            ELSE Abort(w)
    BY <1>1 DEF VisitInstance
  <2>2. i \in Requests
    BY <1>0 DEF TypeOK
  <2>3. CASE Exists(i)
    <3>1. todo[w] \ {i} \in SUBSET Requests
      BY <1>0 DEF TypeOK
    <3>2. TypeOK'
      BY <1>0, <1>1, <2>1, <2>2, <2>3, <3>1 DEF TypeOK, VisitInstance, Load, Pcs
    <3>3. Busy'
      BY <1>0, <1>1, <2>1, <2>2, <2>3, WorkerBusy DEF TypeOK, VisitInstance, Load, Others
    <3> QED
      BY <3>2, <3>3 DEF Typed
  <2>4. CASE ~Exists(i)
    <3>1. TypeOK'
      BY <1>0, <1>1, <2>1, <2>4, EndTaskTyped DEF TypeOK, VisitInstance
    <3>2. Busy'
      BY <1>1, <2>1, <2>4, EndTaskTyped, WorkerBusy DEF VisitInstance
    <3> QED
      BY <3>1, <3>2 DEF Typed
  <2> QED
    BY <2>3, <2>4
<1>2. CASE Heartbeat(w)
  <2>1. task[w] \in Requests /\ SaveAndEnd(w, seen[w]) /\ seen[w] \in Rows
    BY <1>0, <1>2 DEF Heartbeat, TypeOK
  <2>2. TypeOK'
    BY <1>0, <1>2, <2>1, SaveAndEndTyped DEF TypeOK, Heartbeat
  <2>3. Busy'
    BY <1>2, <2>1, SaveAndEndTyped, WorkerBusy DEF Heartbeat
  <2> QED
    BY <2>2, <2>3 DEF Typed
<1>3. CASE DeclareCrashed(w)
  <2>1. task[w] \in Requests /\ Crashed(w) \in Rows /\ "recover" \in Pcs
    BY <1>0, <1>3, WantedIsRow DEF DeclareCrashed, Crashed, TypeOK, TERMINAL_STATUSES, Pcs
  <2>2. live' \subseteq Procs /\ zombies' \subseteq Procs
    BY <1>0, <1>3 DEF TypeOK, DeclareCrashed, Kill
  <2>3. CASE SaveAndEnd(w, Crashed(w))
    <3>1. TypeOK'
      BY <1>0, <1>3, <2>1, <2>2, <2>3, SaveAndEndTyped DEF TypeOK, DeclareCrashed
    <3>2. Busy'
      BY <1>3, <2>1, <2>3, SaveAndEndTyped, WorkerBusy DEF DeclareCrashed
    <3> QED
      BY <3>1, <3>2 DEF Typed
  <2>4. CASE MayRecover(Stored(w, Crashed(w))) /\ SaveAndGo(w, Crashed(w), "recover")
    <3>1. Stored(w, Crashed(w)) \in Rows
      BY <1>0, <2>1, WrittenIsRow DEF TypeOK, Stored
    <3>2. Stored(w, Crashed(w)).recovered = 0
      BY <2>4, <3>1 DEF MayRecover, Rows
    <3>3. TypeOK'
      BY <1>0, <1>3, <2>1, <2>2, <2>4, SaveAndGoTyped DEF TypeOK, DeclareCrashed
    <3>4. Busy'
      BY <1>3, <2>1, <2>4, <3>2, SaveAndGoTyped, WorkerBusy DEF DeclareCrashed
    <3> QED
      BY <3>3, <3>4 DEF Typed
  <2> QED
    BY <1>3, <2>3, <2>4 DEF DeclareCrashed
<1>4. CASE Recover(w)
  <2> DEFINE x == [Wanted("restart", seen[w]) EXCEPT !.recovered = @ + 1]
  <2>1. x \in Rows
    <3>1. Wanted("restart", seen[w]) \in Rows
      BY <1>0, WantedIsRow DEF TypeOK
    <3>2. Wanted("restart", seen[w]).recovered = 0
      BY <1>4, WantedIsRow DEF Recover, Typed, Busy, TypeOK
    <3> QED
      BY <3>1, <3>2 DEF Rows
  <2>2. task[w] \in Requests /\ SaveAndGo(w, x, "load") /\ "load" \in Pcs
    BY <1>0, <1>4 DEF Recover, Pcs
  <2>3. live' \subseteq Procs /\ zombies' \subseteq Procs
    BY <1>0, <1>4 DEF TypeOK, Recover, Kill
  <2>4. TypeOK'
    <3>1. recoveries' \in [Requests -> Nat]
      BY <1>0, <1>4, <2>2 DEF TypeOK, Recover
    <3> HIDE DEF x
    <3> QED
      BY <1>0, <1>4, <2>1, <2>2, <2>3, <3>1, SaveAndGoTyped DEF TypeOK, Recover
  <2>5. Busy'
    BY <1>4, <2>1, <2>2, SaveAndGoTyped, WorkerBusy DEF Recover
  <2> QED
    BY <2>4, <2>5 DEF Typed
<1>5. CASE Purge(w)
  <2>1. EndTask(w)
    BY <1>5 DEF Purge
  <2>2. TypeOK'
    BY <1>0, <1>5, <2>1, EndTaskTyped, NoRowIsRow DEF TypeOK, Purge, Kill
  <2>3. Busy'
    BY <1>5, <2>1, EndTaskTyped, WorkerBusy DEF Purge
  <2> QED
    BY <2>2, <2>3 DEF Typed
<1> QED
  BY <1>1, <1>2, <1>3, <1>4, <1>5 DEF SweepStep

\* Beginning a task, a sweep or a purge; a crash.
LEMMA WorkerTyped ==
    ASSUME Typed, NEW w \in Workers,
           \/ BeginSweep(w) \/ FindStale(w) \/ WorkerDies(w)
           \/ \E i \in Requests : TakeTask(w, i)
    PROVE  Typed'
<1> USE WorkspaceAssumption DEF apiVars, workerVars
<1>0. TypeOK
  BY DEF Typed
<1>1. CASE BeginSweep(w)
  <2>1. TypeOK'
    BY <1>0, <1>1 DEF TypeOK, BeginSweep, Pcs
  <2>2. Busy'
    BY <1>0, <1>1, WorkerBusy DEF TypeOK, BeginSweep, Others
  <2> QED
    BY <2>1, <2>2 DEF Typed
<1>2. CASE FindStale(w)
  <2>1. PICK i \in Requests : Load(w, i) /\ task' = [task EXCEPT ![w] = i]
    BY <1>2 DEF FindStale
  <2>2. TypeOK'
    BY <1>0, <1>2, <2>1 DEF TypeOK, FindStale, Load, Pcs
  <2>3. Busy'
    BY <1>0, <1>2, <2>1, WorkerBusy DEF TypeOK, FindStale, Load, Others
  <2> QED
    BY <2>2, <2>3 DEF Typed
<1>3. CASE WorkerDies(w)
  <2>1. Abort(w)
    BY <1>3 DEF WorkerDies
  <2>2. TypeOK'
    BY <1>0, <1>3, <2>1, EndTaskTyped DEF TypeOK, WorkerDies, WorkspaceAssumption
  <2>3. Busy'
    BY <1>3, <2>1, EndTaskTyped, WorkerBusy DEF WorkerDies
  <2> QED
    BY <2>2, <2>3 DEF Typed
<1>4. ASSUME NEW i \in Requests, TakeTask(w, i)
      PROVE  Typed'
  <2>1. TypeOK'
    BY <1>0, <1>4 DEF TypeOK, TakeTask, Pcs
  <2>2. Busy'
    BY <1>0, <1>4, WorkerBusy DEF TypeOK, TakeTask, Others
  <2> QED
    BY <2>1, <2>2 DEF Typed
<1> QED
  BY <1>1, <1>2, <1>3, <1>4

LEMMA EnvironmentTyped ==
    ASSUME Typed, (\E p \in live : ProcessExits(p)) \/ (\E p \in zombies : Reap(p)) \/ LockExpires
    PROVE  Typed'
  BY WorkspaceAssumption DEF Typed, TypeOK, Busy, ProcessExits, Reap, LockExpires, Kill, apiVars, workerVars

LEMMA NextTyped == Typed /\ [Next]_vars => Typed'
<1> SUFFICES ASSUME Typed, [Next]_vars PROVE Typed'
  OBVIOUS
<1>1. CASE UNCHANGED vars
  BY <1>1 DEF Typed, TypeOK, Busy, vars
<1> QED
  BY <1>1, RequestTyped, LaunchTyped, SweepTyped, WorkerTyped, EnvironmentTyped DEF Next

LEMMA AlwaysTyped == Spec => []Typed
  BY InitTyped, NextTyped, PTL DEF Spec

\* The tables, the queue, the sessions and the positions of requests and workers keep
\* their types: whoever writes a row has one, and no column leaves its domain.
THEOREM TypeCorrect == Spec => []TypeOK
<1>1. Typed => TypeOK
  BY DEF Typed
<1> QED
  BY <1>1, AlwaysTyped, PTL

-----------------------------------------------------------------------------
(* Rows.  A row is inserted once and may go away once; until it is inserted nobody has it. *)

Inserted(i) == row[i].status # "absent"

Known ==
    /\ \A w \in Workers : /\ task[w] \in Requests => Inserted(task[w])
                          /\ \A i \in todo[w] : Inserted(i)
    /\ \A i \in Requests :
          /\ target[i] \in Requests => Inserted(target[i])
          /\ tasks[i] > 0 => Inserted(i)
          /\ phase[i] \in {"new", "guard", "insert"} => ~Inserted(i)
          /\ ~Inserted(i) => row[i] = NoRow /\ recoveries[i] = 0 /\ started[i] = 0

\* What every step but an insert leaves of the rows.
RowKept(i) ==
    /\ row'[i] = row[i] \/ Inserted(i)
    /\ Inserted(i) => Inserted(i)'
    /\ Exists(i)' => Exists(i)
    /\ Exists(i)' /\ row'[i].recovered = 0 => row[i].recovered = 0
RowsKept == \A i \in Requests : RowKept(i)

LEMMA SaveKeepsRows ==
    ASSUME Typed, NEW w \in Workers, task[w] \in Requests, NEW x \in Rows,
           Save(w, x), Exists(task[w]),
           x.status = seen[w].status \/ x.status \in ACTIVE_STATUSES \cup TERMINAL_STATUSES,
           x.recovered = seen[w].recovered \/ x.recovered = 1
    PROVE  RowsKept
<1>1. row[task[w]] \in Rows /\ seen[w] \in Rows
  BY DEF Typed, TypeOK
<1>2. /\ row'[task[w]] = Stored(w, x)
      /\ \A i \in Requests \ {task[w]} : row'[i] = row[i]
  BY DEF Save, Typed, TypeOK
<1>3. Inserted(task[w])
  BY DEF Exists, Inserted
<1>4. Stored(w, x).status \notin {"absent", "deleted"}
  <2>1. CASE x.status = seen[w].status
    BY <1>1, <2>1, WrittenIsRow DEF Stored, Exists
  <2>2. CASE x.status # seen[w].status
    BY <1>1, <2>2, WrittenIsRow DEF Stored, ACTIVE_STATUSES, TERMINAL_STATUSES
  <2> QED
    BY <2>1, <2>2
<1>5. Stored(w, x).recovered = 0 => row[task[w]].recovered = 0
  BY <1>1, WrittenIsRow DEF Stored
<1>6. ASSUME NEW i \in Requests PROVE RowKept(i)
  BY <1>2, <1>3, <1>4, <1>5 DEF RowKept, Inserted, Exists
<1> QED
  BY <1>6 DEF RowsKept

LEMMA SameRowsKept == UNCHANGED row => RowsKept
  BY DEF RowsKept, RowKept, Inserted, Exists

\* A row that goes away.
LEMMA GoneRowKept ==
    ASSUME Typed, NEW i \in Requests, Inserted(i), row' = [row EXCEPT ![i] = Gone]
    PROVE  RowsKept
<1>1. row'[i] = Gone /\ \A j \in Requests \ {i} : row'[j] = row[j]
  BY DEF Typed, TypeOK
<1>2. Gone.status = "deleted"
  BY DEF Gone, NoRow
<1>3. RowKept(i)
  BY <1>1, <1>2 DEF RowKept, Inserted, Exists
<1>4. \A j \in Requests \ {i} : RowKept(j)
  BY <1>1 DEF RowKept, Inserted, Exists
<1> QED
  BY <1>3, <1>4 DEF RowsKept

\* What a worker's step must leave for Known to hold after it.
LEMMA WorkerKnown ==
    ASSUME Typed, Known, RowsKept, NEW w \in Workers, UNCHANGED <<phase, target>>,
           \A v \in Workers \ {w} : Others(v),
           task'[w] \in Requests => Inserted(task'[w]),
           \A i \in todo'[w] : i \in Requests /\ Inserted(i),
           \A i \in Requests : tasks'[i] > 0 => tasks[i] > 0,
           \A i \in Requests : ~Inserted(i) => recoveries'[i] = recoveries[i] /\ started'[i] = started[i]
    PROVE  Known'
<1> USE DEF Known, RowsKept, RowKept
<1>1. \A v \in Workers : task'[v] \in Requests => row'[task'[v]].status # "absent"
  BY DEF Others, Inserted
<1>2. \A v \in Workers : \A i \in todo'[v] : row'[i].status # "absent"
  BY DEF Others, Inserted, Typed, TypeOK
<1>3. \A i \in Requests :
          /\ target'[i] \in Requests => row'[target'[i]].status # "absent"
          /\ tasks'[i] > 0 => row'[i].status # "absent"
          /\ phase'[i] \in {"new", "guard", "insert"} => row'[i].status = "absent"
          /\ row'[i].status = "absent" => row'[i] = NoRow /\ recoveries'[i] = 0 /\ started'[i] = 0
  BY DEF Inserted
<1> QED
  BY <1>1, <1>2, <1>3 DEF Inserted

\* What a request's step must leave.
LEMMA RequestKnown ==
    ASSUME Typed, Known, RowsKept, NEW r \in Requests,
           UNCHANGED <<task, todo, recoveries, started>>,
           \A q \in Requests \ {r} : phase'[q] = phase[q] /\ target'[q] = target[q],
           target'[r] \in Requests => Inserted(target'[r]),
           phase'[r] \in {"new", "guard", "insert"} => phase[r] \in {"new", "guard", "insert"},
           \A i \in Requests : tasks'[i] > 0 => Inserted(i)
    PROVE  Known'
<1> USE DEF Known, RowsKept, RowKept
<1>1. \A v \in Workers : task'[v] \in Requests => row'[task'[v]].status # "absent"
  BY DEF Inserted
<1>2. \A v \in Workers : \A i \in todo'[v] : row'[i].status # "absent"
  BY DEF Inserted, Typed, TypeOK
<1>3. \A i \in Requests :
          /\ target'[i] \in Requests => row'[target'[i]].status # "absent"
          /\ tasks'[i] > 0 => row'[i].status # "absent"
          /\ phase'[i] \in {"new", "guard", "insert"} => row'[i].status = "absent"
          /\ row'[i].status = "absent" => row'[i] = NoRow /\ recoveries'[i] = 0 /\ started'[i] = 0
  BY DEF Inserted
<1> QED
  BY <1>1, <1>2, <1>3 DEF Inserted

LEMMA RequestRows ==
    ASSUME Typed, Known, NEW r \in Requests,
           \/ AcquireLock(r) \/ FindActive(r) \/ EnqueueLaunch(r) \/ CommitCall(r)
           \/ \E call \in Operations, i \in Requests : LoadForCall(r, call, i)
    PROVE  RowsKept /\ Known'
<1> USE WorkspaceAssumption DEF apiVars, workerVars
<1>0. TypeOK
  BY DEF Typed
<1>1. CASE AcquireLock(r)
  <2>1. RowsKept
    BY <1>1, SameRowsKept DEF AcquireLock
  <2> QED
    BY <1>0, <1>1, <2>1, RequestKnown DEF AcquireLock, TypeOK, Known
<1>2. CASE FindActive(r)
  <2>1. RowsKept
    BY <1>2, SameRowsKept DEF FindActive
  <2>2. target'[r] \in Requests => Inserted(target'[r])
    BY <1>0, <1>2 DEF FindActive, TypeOK, Known, Inserted, ACTIVE_STATUSES
  <2> QED
    BY <1>0, <1>2, <2>1, <2>2, RequestKnown DEF FindActive, TypeOK, Known
<1>3. CASE EnqueueLaunch(r)
  <2>1. RowsKept
    BY <1>3, SameRowsKept DEF EnqueueLaunch
  <2>2. target[r] \in Requests /\ Inserted(target[r])
    BY <1>3 DEF EnqueueLaunch, Typed, Busy, Known
  <2>3. \A i \in Requests : tasks'[i] > 0 => Inserted(i)
    BY <1>0, <1>3, <2>2 DEF EnqueueLaunch, TypeOK, Known
  <2> QED
    BY <1>0, <1>3, <2>1, <2>2, <2>3, RequestKnown DEF EnqueueLaunch, TypeOK, Known
<1>4. CASE CommitCall(r)
  <2>1. /\ target[r] \in Requests /\ Inserted(target[r])
        /\ op[r] \in {"stop", "restart", "cancel", "delete"}
    BY <1>4 DEF CommitCall, Typed, Busy, Known
  <2>2. RowsKept
    <3> DEFINE t == target[r]
               x == Wanted(op[r], seen[r])
    <3>1. row[t] \in Rows /\ seen[r] \in Rows
      BY <1>0, <2>1 DEF TypeOK
    <3>2. CASE ~Exists(t)
      BY <1>0, <1>4, <2>1, <3>2, SameRowsKept DEF CommitCall, TypeOK
    <3>3. CASE Exists(t) /\ op[r] = "delete"
      BY <1>0, <1>4, <2>1, <3>3, GoneRowKept DEF CommitCall
    <3>4. CASE Exists(t) /\ op[r] # "delete"
      <4>1. x \in Rows /\ x.recovered = seen[r].recovered
        BY <2>1, <3>1, <3>4, WantedIsRow
      <4>2. x.status \in {"stopped", "pending", "cancelled"}
        BY <2>1, <3>1, <3>4 DEF Wanted, Rows
      <4>3. /\ row'[t] = Written(row[t], seen[r], x)
            /\ \A j \in Requests \ {t} : row'[j] = row[j]
        BY <1>0, <1>4, <2>1, <3>4 DEF CommitCall, TypeOK
      <4> HIDE DEF x
      <4>4. /\ row'[t].status \notin {"absent", "deleted"}
            /\ row'[t].recovered = row[t].recovered
        BY <3>1, <3>4, <4>1, <4>2, <4>3, WrittenIsRow DEF Exists
      <4>5. ASSUME NEW i \in Requests PROVE RowKept(i)
        BY <2>1, <3>4, <4>3, <4>4 DEF RowKept, Inserted, Exists
      <4> QED
        BY <4>5 DEF RowsKept
    <3> QED
      BY <3>2, <3>3, <3>4
  <2> QED
    BY <1>0, <1>4, <2>1, <2>2, RequestKnown DEF CommitCall, TypeOK, Known
<1>5. ASSUME NEW call \in Operations, NEW i \in Requests, LoadForCall(r, call, i)
      PROVE  RowsKept /\ Known'
  <2>1. RowsKept
    BY <1>5, SameRowsKept DEF LoadForCall
  <2> QED
    BY <1>0, <1>5, <2>1, RequestKnown DEF LoadForCall, TypeOK, Known, Exists, Inserted
<1> QED
  BY <1>1, <1>2, <1>3, <1>4, <1>5

\* The insert: nobody had the row, and nothing was started or recovered for it.
LEMMA InsertKnown ==
    ASSUME Typed, Known, NEW r \in Requests, InsertInstance(r)
    PROVE  Known'
<1> USE WorkspaceAssumption DEF apiVars, workerVars
<1>0. TypeOK
  BY DEF Typed
<1>1. CASE UNCHANGED <<row, target>>
  <2>1. RowsKept
    BY <1>1, SameRowsKept
  <2>2. phase'[r] = "done" \/ row' = [row EXCEPT ![r] = [NoRow EXCEPT !.status = "pending"]]
    BY <1>0 DEF InsertInstance, TypeOK
  <2>3. row'[r].status = "absent"
    BY <1>1 DEF InsertInstance, Known, Inserted
  <2>4. phase'[r] = "done"
    BY <1>0, <2>2, <2>3 DEF TypeOK, NoRow
  <2> QED
    BY <1>0, <1>1, <2>1, <2>4, RequestKnown DEF InsertInstance, TypeOK, Known
<1>2. CASE /\ row' = [row EXCEPT ![r] = [NoRow EXCEPT !.status = "pending"]]
           /\ target' = [target EXCEPT ![r] = r] /\ phase' = [phase EXCEPT ![r] = "enqueue"]
  <2>1. /\ row'[r].status = "pending"
        /\ \A i \in Requests \ {r} : row'[i] = row[i]
    BY <1>0, <1>2 DEF TypeOK, NoRow
  <2>2. \A i \in Requests : Inserted(i) => row'[i].status # "absent"
    BY <2>1 DEF Inserted
  <2>3. \A w \in Workers : task'[w] \in Requests => row'[task'[w]].status # "absent"
    BY <1>0, <2>2 DEF Known, TypeOK, InsertInstance
  <2>5. \A w \in Workers : \A i \in todo'[w] : row'[i].status # "absent"
    BY <1>0, <2>2 DEF Known, TypeOK, InsertInstance
  <2>4. \A i \in Requests :
          /\ target'[i] \in Requests => row'[target'[i]].status # "absent"
          /\ tasks'[i] > 0 => row'[i].status # "absent"
          /\ phase'[i] \in {"new", "guard", "insert"} => row'[i].status = "absent"
          /\ row'[i].status = "absent" => row'[i] = NoRow /\ recoveries'[i] = 0 /\ started'[i] = 0
    BY <1>0, <1>2, <2>1, <2>2 DEF Known, TypeOK, InsertInstance, Inserted
  <2> QED
    BY <2>3, <2>4, <2>5 DEF Known, Inserted
<1> QED
  BY <1>1, <1>2 DEF InsertInstance

LEMMA LaunchRows ==
    ASSUME Typed, Known, NEW w \in Workers, LaunchStep(w)
    PROVE  RowsKept /\ Known'
<1> USE WorkspaceAssumption DEF apiVars, workerVars
<1>0. /\ TypeOK /\ (pc[w] \notin {"idle", "sweep"} => task[w] \in Requests)
      /\ NoRequest \notin Requests /\ seen[w] \in Rows /\ proc[w] \in Procs \cup {NoPid}
  BY DEF Typed, TypeOK, Busy, WorkspaceAssumption
<1>1. CASE LoadInstance(w)
  <2>1. RowsKept
    BY <1>1, SameRowsKept DEF LoadInstance
  <2>2. CASE row[task[w]].status = "pending"
    BY <1>0, <1>1, <2>1, <2>2, WorkerKnown DEF LoadInstance, Load, TypeOK, Known, Others
  <2>3. CASE EndTask(w) \/ Abort(w)
    <3>1. /\ \A v \in Workers \ {w} : Others(v)
          /\ task'[w] \in Requests => Inserted(task'[w])
          /\ \A i \in todo'[w] : i \in Requests /\ Inserted(i)
      BY <1>0, <2>3, EndTaskTyped DEF TypeOK, Known
    <3> QED
      BY <1>1, <2>1, <3>1, WorkerKnown DEF LoadInstance
  <2> QED
    BY <1>1, <2>2, <2>3 DEF LoadInstance
<1>2. CASE CheckCancelled(w)
  <2>1. RowsKept
    BY <1>2, SameRowsKept DEF CheckCancelled
  <2>2. CASE Exists(task[w])
    BY <1>0, <1>2, <2>1, <2>2, WorkerKnown DEF CheckCancelled, TypeOK, Known, Others
  <2>3. CASE Abort(w)
    <3>1. /\ \A v \in Workers \ {w} : Others(v)
          /\ task'[w] \in Requests => Inserted(task'[w])
          /\ \A i \in todo'[w] : i \in Requests /\ Inserted(i)
      BY <1>0, <2>3, EndTaskTyped DEF TypeOK, Known
    <3> QED
      BY <1>2, <2>1, <3>1, WorkerKnown DEF CheckCancelled
  <2> QED
    BY <1>2, <2>2, <2>3 DEF CheckCancelled
<1>3. ASSUME NEW x \in Rows, SaveAndEnd(w, x), task[w] \in Requests,
             x.status \in ACTIVE_STATUSES \cup TERMINAL_STATUSES,
             x.recovered = seen[w].recovered,
             UNCHANGED <<apiVars, tasks, started, recoveries>>
      PROVE  RowsKept /\ Known'
  <2>1. RowsKept
    <3>1. CASE Exists(task[w])
      BY <1>3, <3>1, SaveKeepsRows DEF SaveAndEnd
    <3>2. CASE ~Exists(task[w])
      BY <1>3, <3>2, SameRowsKept DEF SaveAndEnd
    <3> QED
      BY <3>1, <3>2
  <2>2. /\ \A v \in Workers \ {w} : Others(v)
        /\ task'[w] \in Requests => Inserted(task'[w])
        /\ \A i \in todo'[w] : i \in Requests /\ Inserted(i)
    BY <1>0, <1>3, SaveAndEndTyped DEF TypeOK, Known
  <2> QED
    BY <1>3, <2>1, <2>2, WorkerKnown
<1>4. ASSUME NEW x \in Rows, NEW next \in Pcs, SaveAndGo(w, x, next), task[w] \in Requests,
             x.status = seen[w].status \/ x.status \in ACTIVE_STATUSES \cup TERMINAL_STATUSES,
             x.recovered = seen[w].recovered,
             UNCHANGED <<apiVars, tasks, started, recoveries>>
      PROVE  RowsKept /\ Known'
  <2>1. RowsKept
    BY <1>4, SaveAndGoTyped, SaveKeepsRows, SameRowsKept
  <2>2. /\ \A v \in Workers \ {w} : Others(v)
        /\ task'[w] \in Requests => Inserted(task'[w])
        /\ \A i \in todo'[w] : i \in Requests /\ Inserted(i)
    BY <1>0, <1>4, SaveAndGoTyped DEF TypeOK, Known
  <2> QED
    BY <1>4, <2>1, <2>2, WorkerKnown
<1>5. CASE CancelNow(w)
  <2> DEFINE x == [seen[w] EXCEPT !.status = "cancelled", !.pid = NoPid]
  <2>1. x \in Rows /\ x.status = "cancelled" /\ x.recovered = seen[w].recovered
    BY <1>0, WantedIsRow DEF TERMINAL_STATUSES, Rows
  <2>2. SaveAndEnd(w, x) /\ task[w] \in Requests
    BY <1>0, <1>5 DEF CancelNow
  <2> HIDE DEF x
  <2> QED
    BY <1>3, <1>5, <2>1, <2>2 DEF CancelNow, TERMINAL_STATUSES
<1>6. CASE Prepare(w)
  <2>1. CASE pc[w] = "provision" /\ SaveAndGo(w, [seen[w] EXCEPT !.status = "provisioning"], "checkProvisioned")
    <3> DEFINE x == [seen[w] EXCEPT !.status = "provisioning"]
    <3>1. x \in Rows /\ x.status = "provisioning" /\ x.recovered = seen[w].recovered
      BY <1>0, WantedIsRow DEF ACTIVE_STATUSES, Rows
    <3>2. SaveAndGo(w, x, "checkProvisioned")
      BY <2>1
    <3> HIDE DEF x
    <3> QED
      BY <1>0, <1>4, <1>6, <2>1, <3>1, <3>2 DEF Prepare, ACTIVE_STATUSES, Pcs, CheckPcs
  <2>2. CASE pc[w] = "clone" /\ SaveAndGo(w, seen[w], "checkCloned")
    BY <1>0, <1>4, <1>6, <2>2 DEF Prepare, Pcs, CheckPcs
  <2>3. CASE pc[w] = "install" /\ SaveAndGo(w, [seen[w] EXCEPT !.status = "installing"], "checkInstalled")
    <3> DEFINE x == [seen[w] EXCEPT !.status = "installing"]
    <3>1. x \in Rows /\ x.status = "installing" /\ x.recovered = seen[w].recovered
      BY <1>0, WantedIsRow DEF ACTIVE_STATUSES, Rows
    <3>2. SaveAndGo(w, x, "checkInstalled")
      BY <2>3
    <3> HIDE DEF x
    <3> QED
      BY <1>0, <1>4, <1>6, <2>3, <3>1, <3>2 DEF Prepare, ACTIVE_STATUSES, Pcs, CheckPcs
  <2> QED
    BY <1>6, <2>1, <2>2, <2>3 DEF Prepare
<1>7. CASE StartProcess(w)
  <2>1. RowsKept
    BY <1>7, SameRowsKept DEF StartProcess
  <2>2. task[w] \in Requests /\ Inserted(task[w])
    BY <1>0, <1>7 DEF StartProcess, Known
  <2>3. \A i \in Requests : ~Inserted(i) => started'[i] = started[i]
    BY <1>0, <1>7, <2>2 DEF StartProcess, TypeOK
  <2> QED
    BY <1>0, <1>7, <2>1, <2>2, <2>3, WorkerKnown DEF StartProcess, TypeOK, Known, Others
<1>8. CASE RecordProcess(w)
  <2> DEFINE x == [seen[w] EXCEPT !.status = "starting", !.pid = proc[w]]
  <2>1. x \in Rows /\ x.status = "starting" /\ x.recovered = seen[w].recovered
    BY <1>0, WantedIsRow DEF ACTIVE_STATUSES, Rows
  <2>2. SaveAndGo(w, x, "probe") /\ task[w] \in Requests
    BY <1>0, <1>8 DEF RecordProcess
  <2> HIDE DEF x
  <2> QED
    BY <1>4, <1>8, <2>1, <2>2 DEF RecordProcess, ACTIVE_STATUSES, Pcs, LaunchPcs
<1>9. CASE ProbeReady(w)
  <2>1. RowsKept
    BY <1>9, SameRowsKept DEF ProbeReady
  <2> QED
    BY <1>0, <1>9, <2>1, WorkerKnown DEF ProbeReady, TypeOK, Known, Others
<1>10. CASE BecomeRunning(w)
  <2> DEFINE x == [seen[w] EXCEPT !.status = "running"]
  <2>1. x \in Rows /\ x.status = "running" /\ x.recovered = seen[w].recovered
    BY <1>0, WantedIsRow DEF ACTIVE_STATUSES, Rows
  <2>2. SaveAndEnd(w, x) /\ task[w] \in Requests
    BY <1>0, <1>10 DEF BecomeRunning
  <2> HIDE DEF x
  <2> QED
    BY <1>3, <1>10, <2>1, <2>2 DEF BecomeRunning, ACTIVE_STATUSES
<1>11. CASE LaunchFails(w)
  <2> DEFINE x == [seen[w] EXCEPT !.status = "failed", !.pid = NoPid]
  <2>1. x \in Rows /\ x.status = "failed" /\ x.recovered = seen[w].recovered
    BY <1>0, WantedIsRow DEF TERMINAL_STATUSES, Rows
  <2>2. SaveAndEnd(w, x) /\ task[w] \in Requests
    BY <1>0, <1>11 DEF LaunchFails, LaunchPcs
  <2> HIDE DEF x
  <2> QED
    BY <1>3, <1>11, <2>1, <2>2 DEF LaunchFails, TERMINAL_STATUSES
<1> QED
  BY <1>1, <1>2, <1>5, <1>6, <1>7, <1>8, <1>9, <1>10, <1>11 DEF LaunchStep

LEMMA SweepRows ==
    ASSUME Typed, Known, NEW w \in Workers, SweepStep(w)
    PROVE  RowsKept /\ Known'
<1> USE WorkspaceAssumption DEF apiVars, workerVars
<1>0. /\ TypeOK /\ (pc[w] \notin {"idle", "sweep"} => task[w] \in Requests)
      /\ NoRequest \notin Requests /\ seen[w] \in Rows
  BY DEF Typed, TypeOK, Busy, WorkspaceAssumption
<1>1. CASE VisitInstance(w)
  <2>1. RowsKept
    BY <1>1, SameRowsKept DEF VisitInstance
  <2>2. /\ \A v \in Workers \ {w} : Others(v)
        /\ task'[w] \in Requests => Inserted(task'[w])
        /\ \A i \in todo'[w] : i \in Requests /\ Inserted(i)
    <3>1. CASE Abort(w)
      BY <1>0, <3>1, EndTaskTyped DEF TypeOK, Known
    <3>2. CASE \E i \in todo[w] :
                 /\ Load(w, i) /\ task' = [task EXCEPT ![w] = i]
                 /\ todo' = [todo EXCEPT ![w] = @ \ {i}]
                 /\ pc' = [pc EXCEPT ![w] = "judge"] /\ UNCHANGED proc
      BY <1>0, <3>2 DEF TypeOK, Known, Others, Load
    <3> QED
      BY <1>1, <3>1, <3>2 DEF VisitInstance
  <2> QED
    BY <1>1, <2>1, <2>2, WorkerKnown DEF VisitInstance
<1>2. ASSUME NEW x \in Rows, SaveAndEnd(w, x), task[w] \in Requests,
             x.status = seen[w].status \/ x.status \in ACTIVE_STATUSES \cup TERMINAL_STATUSES,
             x.recovered = seen[w].recovered,
             UNCHANGED <<apiVars, tasks, started, recoveries>>
      PROVE  RowsKept /\ Known'
  <2>1. RowsKept
    <3>1. CASE Exists(task[w])
      BY <1>2, <3>1, SaveKeepsRows DEF SaveAndEnd
    <3>2. CASE ~Exists(task[w])
      BY <1>2, <3>2, SameRowsKept DEF SaveAndEnd
    <3> QED
      BY <3>1, <3>2
  <2>2. /\ \A v \in Workers \ {w} : Others(v)
        /\ task'[w] \in Requests => Inserted(task'[w])
        /\ \A i \in todo'[w] : i \in Requests /\ Inserted(i)
    BY <1>0, <1>2, SaveAndEndTyped DEF TypeOK, Known
  <2> QED
    BY <1>2, <2>1, <2>2, WorkerKnown
<1>3. CASE Heartbeat(w)
  BY <1>0, <1>2, <1>3 DEF Heartbeat
<1>4. CASE DeclareCrashed(w)
  <2>1. /\ Crashed(w) \in Rows /\ Crashed(w).status = "crashed"
        /\ Crashed(w).recovered = seen[w].recovered
    BY <1>0, WantedIsRow DEF TERMINAL_STATUSES, Rows, Crashed
  <2>2. task[w] \in Requests
    BY <1>0, <1>4 DEF DeclareCrashed
  <2>3. CASE SaveAndEnd(w, Crashed(w))
    BY <1>2, <1>4, <2>1, <2>2, <2>3 DEF DeclareCrashed, TERMINAL_STATUSES
  <2>4. CASE SaveAndGo(w, Crashed(w), "recover")
    <3>1. RowsKept
      BY <2>1, <2>2, <2>4, SaveAndGoTyped, SaveKeepsRows, SameRowsKept DEF Pcs, TERMINAL_STATUSES
    <3>2. /\ \A v \in Workers \ {w} : Others(v)
          /\ task'[w] \in Requests => Inserted(task'[w])
          /\ \A i \in todo'[w] : i \in Requests /\ Inserted(i)
      BY <1>0, <2>1, <2>2, <2>4, SaveAndGoTyped DEF TypeOK, Known, Pcs
    <3> QED
      BY <1>4, <3>1, <3>2, WorkerKnown DEF DeclareCrashed
  <2> QED
    BY <1>4, <2>3, <2>4 DEF DeclareCrashed
<1>5. CASE Recover(w)
  <2> DEFINE x == [Wanted("restart", seen[w]) EXCEPT !.recovered = @ + 1]
  <2>1. x \in Rows /\ x.status = "pending" /\ x.recovered = 1
    <3>1. Wanted("restart", seen[w]) \in Rows
      BY <1>0, WantedIsRow
    <3>2. Wanted("restart", seen[w]).recovered = 0
      BY <1>0, <1>5, WantedIsRow DEF Recover, Typed, Busy
    <3>3. Wanted("restart", seen[w]).status = "pending"
      BY <1>0 DEF Wanted, Rows
    <3> QED
      BY <3>1, <3>2, <3>3 DEF Rows
  <2>2. SaveAndGo(w, x, "load") /\ task[w] \in Requests /\ "load" \in Pcs
    BY <1>0, <1>5 DEF Recover, Pcs
  <2> HIDE DEF x
  <2>3. RowsKept
    BY <2>1, <2>2, SaveAndGoTyped, SaveKeepsRows, SameRowsKept DEF ACTIVE_STATUSES
  <2>4. /\ \A v \in Workers \ {w} : Others(v)
        /\ task'[w] \in Requests => Inserted(task'[w])
        /\ \A i \in todo'[w] : i \in Requests /\ Inserted(i)
    BY <1>0, <2>1, <2>2, SaveAndGoTyped DEF TypeOK, Known
  <2>5. \A i \in Requests : ~Inserted(i) => recoveries'[i] = recoveries[i]
    BY <1>0, <1>5, <2>2 DEF Recover, TypeOK, Known
  <2> QED
    BY <1>5, <2>3, <2>4, <2>5, WorkerKnown DEF Recover
<1>6. CASE Purge(w)
  <2>1. EndTask(w) /\ task[w] \in Requests /\ Inserted(task[w])
    BY <1>0, <1>6 DEF Purge, Known
  <2>2. RowsKept
    BY <1>6, <2>1, GoneRowKept DEF Purge
  <2>3. /\ \A v \in Workers \ {w} : Others(v)
        /\ task'[w] \in Requests => Inserted(task'[w])
        /\ \A i \in todo'[w] : i \in Requests /\ Inserted(i)
    BY <1>0, <2>1, EndTaskTyped DEF TypeOK, Known
  <2> QED
    BY <1>6, <2>2, <2>3, WorkerKnown DEF Purge
<1> QED
  BY <1>1, <1>3, <1>4, <1>5, <1>6 DEF SweepStep

LEMMA WorkerRows ==
    ASSUME Typed, Known, NEW w \in Workers,
           \/ BeginSweep(w) \/ FindStale(w) \/ WorkerDies(w)
           \/ \E i \in Requests : TakeTask(w, i)
    PROVE  RowsKept /\ Known'
<1> USE WorkspaceAssumption DEF apiVars, workerVars
<1>0. TypeOK /\ NoRequest \notin Requests
  BY DEF Typed, WorkspaceAssumption
<1>1. RowsKept
  BY SameRowsKept DEF BeginSweep, FindStale, WorkerDies, TakeTask
<1>2. CASE BeginSweep(w)
  <2>1. /\ \A v \in Workers \ {w} : Others(v)
        /\ task'[w] \in Requests => Inserted(task'[w])
        /\ \A i \in todo'[w] : i \in Requests /\ Inserted(i)
    BY <1>0, <1>2 DEF TypeOK, Known, BeginSweep, Others, Inserted
  <2> QED
    BY <1>1, <1>2, <2>1, WorkerKnown DEF BeginSweep
<1>3. CASE FindStale(w)
  <2>1. PICK i \in Requests : /\ row[i].status \in TERMINAL_STATUSES
                              /\ Load(w, i) /\ task' = [task EXCEPT ![w] = i]
    BY <1>3 DEF FindStale
  <2>2. /\ \A v \in Workers \ {w} : Others(v)
        /\ task'[w] \in Requests => Inserted(task'[w])
        /\ \A j \in todo'[w] : j \in Requests /\ Inserted(j)
    BY <1>0, <1>3, <2>1 DEF TypeOK, Known, FindStale, Others, Inserted, Load, TERMINAL_STATUSES
  <2> QED
    BY <1>1, <1>3, <2>2, WorkerKnown DEF FindStale
<1>4. CASE WorkerDies(w)
  <2>1. /\ \A v \in Workers \ {w} : Others(v)
        /\ task'[w] \in Requests => Inserted(task'[w])
        /\ \A i \in todo'[w] : i \in Requests /\ Inserted(i)
    BY <1>0, <1>4, EndTaskTyped DEF TypeOK, Known, WorkerDies
  <2> QED
    BY <1>1, <1>4, <2>1, WorkerKnown DEF WorkerDies
<1>5. ASSUME NEW i \in Requests, TakeTask(w, i)
      PROVE  Known'
  <2>1. /\ \A v \in Workers \ {w} : Others(v)
        /\ task'[w] \in Requests => Inserted(task'[w])
        /\ \A j \in todo'[w] : j \in Requests /\ Inserted(j)
    BY <1>0, <1>5 DEF TypeOK, Known, TakeTask, Others
  <2>2. \A j \in Requests : tasks'[j] > 0 => tasks[j] > 0
    BY <1>0, <1>5 DEF TypeOK, TakeTask
  <2> QED
    BY <1>1, <1>5, <2>1, <2>2, WorkerKnown DEF TakeTask
<1> QED
  BY <1>1, <1>2, <1>3, <1>4, <1>5

LEMMA EnvironmentRows ==
    ASSUME Typed, Known,
           (\E p \in live : ProcessExits(p)) \/ (\E p \in zombies : Reap(p)) \/ LockExpires \/ UNCHANGED vars
    PROVE  RowsKept /\ Known'
<1>1. /\ UNCHANGED <<row, tasks, started, phase, target, task, todo, recoveries>>
  BY DEF ProcessExits, Reap, LockExpires, vars, apiVars, workerVars
<1> QED
  BY <1>1, SameRowsKept DEF Known, Inserted

LEMMA InitKnown == Init => Known
  BY WorkspaceAssumption DEF Init, Known, Inserted, NoRow, WorkspaceAssumption

LEMMA NextKnown == Typed /\ Known /\ [Next]_vars => Known'
<1> SUFFICES ASSUME Typed, Known, [Next]_vars PROVE Known'
  OBVIOUS
<1> QED
  BY RequestRows, InsertKnown, LaunchRows, SweepRows, WorkerRows, EnvironmentRows
     DEF Next, RequestStep

-----------------------------------------------------------------------------
(* Automatic restarts. *)

Recovering(i) == {w \in Workers : pc[w] = "recover" /\ task[w] = i}

\* A row that says it was never recovered was not; and a worker that is about to
\* recover an instance found its row so, hence as many at a time as there are workers.
Once ==
    \A i \in Requests :
        /\ Exists(i) /\ row[i].recovered = 0 => recoveries[i] = 0
        /\ recoveries[i] + Cardinality(Recovering(i)) <= Cardinality(Workers)

LEMMA RecoveringFinite ==
    ASSUME IsFiniteSet(Workers)
    PROVE  \A i : /\ IsFiniteSet(Recovering(i)) /\ Cardinality(Recovering(i)) \in Nat
                  /\ Cardinality(Recovering(i)) <= Cardinality(Workers)
                  /\ Cardinality(Workers) \in Nat
  BY FS_Subset, FS_CardinalityType DEF Recovering

LEMMA SameOnce ==
    ASSUME Once, RowsKept, UNCHANGED <<pc, task, recoveries>>
    PROVE  Once'
<1>1. ASSUME NEW i \in Requests PROVE Recovering(i)' = Recovering(i)
  BY DEF Recovering
<1> QED
  BY <1>1 DEF Once, RowsKept, RowKept

\* A worker that is about to recover was either about to before, or has just found the
\* row of an instance that was never recovered.
LEMMA WorkerOnce ==
    ASSUME Typed, Once, RowsKept, IsFiniteSet(Workers), NEW w \in Workers,
           \A v \in Workers \ {w} : Others(v), UNCHANGED recoveries,
           pc'[w] = "recover" => task'[w] \in Requests /\ recoveries[task'[w]] = 0
    PROVE  Once'
<1> SUFFICES ASSUME NEW i \in Requests
             PROVE  /\ Exists(i)' /\ row'[i].recovered = 0 => recoveries[i] = 0
                    /\ recoveries[i] + Cardinality(Recovering(i)') <= Cardinality(Workers)
  BY DEF Once
<1>1. Exists(i)' /\ row'[i].recovered = 0 => recoveries[i] = 0
  BY DEF Once, RowsKept, RowKept
<1> DEFINE R == Recovering(i)'
<1>2. R \subseteq Workers
  BY DEF Recovering
<1>3. IsFiniteSet(R) /\ Cardinality(R) \in Nat /\ Cardinality(R) <= Cardinality(Workers)
  BY <1>2, FS_Subset, FS_CardinalityType
<1>4. recoveries[i] \in Nat /\ Cardinality(Workers) \in Nat
  BY FS_CardinalityType DEF Typed, TypeOK
<1>5. CASE w \in R
  <2>1. recoveries[i] = 0
    BY <1>5 DEF Recovering
  <2> HIDE DEF R
  <2> QED
    BY <1>1, <1>3, <1>4, <2>1 DEF R
<1>6. CASE w \notin R
  <2>1. R \subseteq Recovering(i)
    BY <1>6 DEF Recovering, Others
  <2> HIDE DEF R
  <2>2. Cardinality(R) <= Cardinality(Recovering(i)) /\ Cardinality(Recovering(i)) \in Nat
    BY <2>1, RecoveringFinite, FS_Subset
  <2> QED
    BY <1>1, <1>3, <1>4, <2>2 DEF Once, R
<1> QED
  BY <1>5, <1>6

LEMMA RecoverOnce ==
    ASSUME Typed, Known, Once, RowsKept, IsFiniteSet(Workers), NEW w \in Workers, Recover(w)
    PROVE  Once'
<1> DEFINE x == [Wanted("restart", seen[w]) EXCEPT !.recovered = @ + 1]
<1>0. /\ TypeOK /\ seen[w] \in Rows /\ seen[w].recovered = 0
      /\ pc[w] = "recover" /\ task[w] \in Requests /\ SaveAndGo(w, x, "load")
      /\ NoRequest \notin Requests
  BY WorkspaceAssumption DEF Typed, TypeOK, Busy, Recover, WorkspaceAssumption
<1>1. x \in Rows /\ x.recovered = 1
  <2>1. Wanted("restart", seen[w]) \in Rows /\ Wanted("restart", seen[w]).recovered = 0
    BY <1>0, WantedIsRow
  <2> QED
    BY <2>1 DEF Rows
<1> HIDE DEF x
<1>2. /\ \A v \in Workers \ {w} : Others(v)
      /\ pc'[w] # "recover"
      /\ Exists(task[w]) => row'[task[w]] = Stored(w, x)
      /\ ~Exists(task[w]) => UNCHANGED row
  BY <1>0, <1>1, SaveAndGoTyped DEF Pcs, Save, TypeOK
<1>3. Stored(w, x).recovered = 1
  BY <1>0, <1>1, WrittenIsRow DEF Stored, TypeOK
<1>4. /\ recoveries'[task[w]] = recoveries[task[w]] + 1
      /\ \A i \in Requests \ {task[w]} : recoveries'[i] = recoveries[i]
  BY <1>0 DEF TypeOK, Recover
<1> SUFFICES ASSUME NEW i \in Requests
             PROVE  /\ Exists(i)' /\ row'[i].recovered = 0 => recoveries'[i] = 0
                    /\ recoveries'[i] + Cardinality(Recovering(i)') <= Cardinality(Workers)
  BY DEF Once
<1>5. recoveries[i] \in Nat /\ Cardinality(Recovering(i)) \in Nat /\ Cardinality(Workers) \in Nat
  BY <1>0, RecoveringFinite DEF TypeOK
<1>6. CASE i = task[w]
  <2>1. ~(Exists(i)' /\ row'[i].recovered = 0)
    BY <1>2, <1>3, <1>6 DEF Exists
  <2>2. w \in Recovering(i) /\ Recovering(i)' = Recovering(i) \ {w}
    BY <1>0, <1>2, <1>6 DEF Recovering, Others
  <2>3. Cardinality(Recovering(i)') = Cardinality(Recovering(i)) - 1
    BY <2>2, RecoveringFinite, FS_RemoveElement
  <2>4. recoveries[i] + Cardinality(Recovering(i)) <= Cardinality(Workers)
    BY DEF Once
  <2> QED
    BY <1>4, <1>5, <1>6, <2>1, <2>3, <2>4
<1>7. CASE i # task[w]
  <2>1. Recovering(i)' = Recovering(i)
    BY <1>0, <1>2, <1>7 DEF Recovering, Others
  <2> QED
    BY <1>4, <1>7, <2>1 DEF Once, RowsKept, RowKept
<1> QED
  BY <1>6, <1>7

\* Where a worker's step leads: no step of a launch, and no beginning, leads to a recovery.
LEMMA LaunchMoves ==
    ASSUME Typed, NEW w \in Workers, LaunchStep(w)
    PROVE  (\A v \in Workers \ {w} : Others(v)) /\ pc'[w] # "recover"
<1>0. /\ TypeOK /\ (pc[w] \notin {"idle", "sweep"} => task[w] \in Requests)
      /\ seen[w] \in Rows /\ proc[w] \in Procs \cup {NoPid}
  BY DEF Typed, TypeOK, Busy
<1> DEFINE Goal == (\A v \in Workers \ {w} : Others(v)) /\ pc'[w] # "recover"
<1>1. CASE EndTask(w) \/ Abort(w)
  BY <1>1, EndTaskTyped
<1>2. ASSUME NEW x \in Rows, SaveAndEnd(w, x), task[w] \in Requests
      PROVE  Goal
  BY <1>2, SaveAndEndTyped
<1>3. ASSUME NEW x \in Rows, NEW next \in Pcs \ {"recover"}, SaveAndGo(w, x, next),
             task[w] \in Requests
      PROVE  Goal
  BY <1>3, SaveAndGoTyped
<1>4. CASE LoadInstance(w)
  BY <1>0, <1>1, <1>4 DEF LoadInstance, Load, Others, TypeOK
<1>5. CASE CheckCancelled(w)
  <2>1. CASE Exists(task[w])
    BY <1>0, <1>5, <2>1 DEF CheckCancelled, CheckPcs, Others, TypeOK
  <2> QED
    BY <1>1, <1>5, <2>1 DEF CheckCancelled
<1>6. CASE CancelNow(w)
  BY <1>0, <1>2, <1>6, WantedIsRow DEF CancelNow, TERMINAL_STATUSES
<1>7. CASE Prepare(w)
  BY <1>0, <1>3, <1>7, WantedIsRow DEF Prepare, ACTIVE_STATUSES, Pcs, CheckPcs
<1>8. CASE StartProcess(w)
  BY <1>0, <1>8 DEF StartProcess, Others, TypeOK
<1>9. CASE RecordProcess(w)
  <2> DEFINE x == [seen[w] EXCEPT !.status = "starting", !.pid = proc[w]]
  <2>1. x \in Rows /\ SaveAndGo(w, x, "probe") /\ task[w] \in Requests
    BY <1>0, <1>9, WantedIsRow DEF RecordProcess, ACTIVE_STATUSES
  <2> HIDE DEF x
  <2> QED
    BY <1>3, <2>1 DEF Pcs, LaunchPcs
<1>10. CASE ProbeReady(w)
  BY <1>0, <1>10 DEF ProbeReady, Others, TypeOK
<1>11. CASE BecomeRunning(w)
  BY <1>0, <1>2, <1>11, WantedIsRow DEF BecomeRunning, ACTIVE_STATUSES
<1>12. CASE LaunchFails(w)
  BY <1>0, <1>2, <1>12, WantedIsRow DEF LaunchFails, LaunchPcs, TERMINAL_STATUSES
<1> QED
  BY <1>4, <1>5, <1>6, <1>7, <1>8, <1>9, <1>10, <1>11, <1>12 DEF LaunchStep

LEMMA SweepMoves ==
    ASSUME Typed, NEW w \in Workers, VisitInstance(w) \/ Heartbeat(w) \/ Purge(w)
    PROVE  (\A v \in Workers \ {w} : Others(v)) /\ pc'[w] # "recover"
<1>0. /\ TypeOK /\ (pc[w] \notin {"idle", "sweep"} => task[w] \in Requests)
      /\ seen[w] \in Rows
  BY DEF Typed, TypeOK, Busy
<1>1. CASE EndTask(w) \/ Abort(w)
  BY <1>1, EndTaskTyped
<1>2. CASE VisitInstance(w)
  BY <1>0, <1>1, <1>2 DEF VisitInstance, Load, Others, TypeOK
<1>3. CASE Heartbeat(w)
  BY <1>0, <1>3, SaveAndEndTyped DEF Heartbeat
<1>4. CASE Purge(w)
  BY <1>1, <1>4 DEF Purge
<1> QED
  BY <1>2, <1>3, <1>4

LEMMA BeginMoves ==
    ASSUME Typed, NEW w \in Workers,
           \/ BeginSweep(w) \/ FindStale(w) \/ WorkerDies(w)
           \/ \E i \in Requests : TakeTask(w, i)
    PROVE  (\A v \in Workers \ {w} : Others(v)) /\ pc'[w] # "recover"
<1>0. TypeOK
  BY DEF Typed
<1>1. CASE WorkerDies(w)
  BY <1>1, EndTaskTyped DEF WorkerDies
<1>2. CASE BeginSweep(w) \/ FindStale(w) \/ \E i \in Requests : TakeTask(w, i)
  BY <1>0, <1>2 DEF BeginSweep, FindStale, TakeTask, Load, Others, TypeOK
<1> QED
  BY <1>1, <1>2

LEMMA NextOnce ==
    ASSUME IsFiniteSet(Workers), Typed, Known, Once, [Next]_vars
    PROVE  Once'
<1> USE WorkspaceAssumption DEF apiVars, workerVars
<1>0. TypeOK
  BY DEF Typed
<1>1. ASSUME NEW r \in Requests,
             \/ AcquireLock(r) \/ FindActive(r) \/ EnqueueLaunch(r) \/ CommitCall(r)
             \/ \E call \in Operations, i \in Requests : LoadForCall(r, call, i)
      PROVE  Once'
  <2>1. RowsKept
    BY <1>1, RequestRows
  <2>2. UNCHANGED <<pc, task, recoveries>>
    BY <1>1 DEF AcquireLock, FindActive, EnqueueLaunch, CommitCall, LoadForCall
  <2> QED
    BY <2>1, <2>2, SameOnce
<1>2. ASSUME NEW r \in Requests, InsertInstance(r)
      PROVE  Once'
  <2>1. ~Inserted(r) /\ recoveries[r] = 0
    BY <1>2 DEF InsertInstance, Known
  <2>2. UNCHANGED <<pc, task, recoveries>> /\ \A i \in Requests \ {r} : row'[i] = row[i]
    BY <1>0, <1>2 DEF InsertInstance, TypeOK
  <2>3. ASSUME NEW i \in Requests PROVE Recovering(i)' = Recovering(i)
    BY <2>2 DEF Recovering
  <2> QED
    BY <2>1, <2>2, <2>3 DEF Once, Exists
<1>3. ASSUME NEW w \in Workers, LaunchStep(w)
      PROVE  Once'
  <2>1. RowsKept
    BY <1>3, LaunchRows
  <2>2. UNCHANGED recoveries
    BY <1>3 DEF LaunchStep, LoadInstance, CheckCancelled, CancelNow, Prepare, StartProcess,
                RecordProcess, ProbeReady, BecomeRunning, LaunchFails
  <2>3. (\A v \in Workers \ {w} : Others(v)) /\ pc'[w] # "recover"
    BY <1>3, LaunchMoves
  <2> QED
    BY <2>1, <2>2, <2>3, WorkerOnce
<1>4. ASSUME NEW w \in Workers, SweepStep(w)
      PROVE  Once'
  <2>1. RowsKept
    BY <1>4, SweepRows
  <2>2. CASE Recover(w)
    BY <2>1, <2>2, RecoverOnce
  <2>3. CASE DeclareCrashed(w)
    <3>0. row[task[w]] \in Rows /\ seen[w] \in Rows /\ task[w] \in Requests
      BY <1>0, <2>3 DEF TypeOK, Typed, Busy, DeclareCrashed
    <3>1. /\ Crashed(w) \in Rows /\ Crashed(w).recovered = seen[w].recovered
          /\ row[task[w]] \in Rows /\ seen[w] \in Rows /\ task[w] \in Requests
      BY <3>0, WantedIsRow DEF Crashed, TERMINAL_STATUSES, Rows
    <3>2. CASE SaveAndEnd(w, Crashed(w))
      <4>1. (\A v \in Workers \ {w} : Others(v)) /\ pc'[w] # "recover"
        BY <3>1, <3>2, SaveAndEndTyped
      <4> QED
        BY <2>1, <2>3, <4>1, WorkerOnce DEF DeclareCrashed
    <3>3. CASE MayRecover(Stored(w, Crashed(w))) /\ SaveAndGo(w, Crashed(w), "recover")
      <4>1. \A v \in Workers \ {w} : Others(v)
        BY <3>1, <3>3, SaveAndGoTyped DEF Pcs
      <4>2. pc'[w] = "recover" => task'[w] = task[w] /\ Exists(task[w])
        BY <3>1, <3>3, SaveAndGoTyped DEF Pcs
      <4>3. Stored(w, Crashed(w)).recovered = row[task[w]].recovered
        BY <3>1, WrittenIsRow DEF Stored
      <4>4. row[task[w]].recovered = 0
        BY <3>1, <3>3, <4>3 DEF MayRecover, Rows
      <4>5. pc'[w] = "recover" => task'[w] \in Requests /\ recoveries[task'[w]] = 0
        BY <3>1, <4>2, <4>4 DEF Once
      <4> QED
        BY <2>1, <2>3, <4>1, <4>5, WorkerOnce DEF DeclareCrashed
    <3> QED
      BY <2>3, <3>2, <3>3 DEF DeclareCrashed
  <2>4. CASE VisitInstance(w) \/ Heartbeat(w) \/ Purge(w)
    <3>1. (\A v \in Workers \ {w} : Others(v)) /\ pc'[w] # "recover"
      BY <2>4, SweepMoves
    <3>2. UNCHANGED recoveries
      BY <2>4 DEF VisitInstance, Heartbeat, Purge
    <3> QED
      BY <2>1, <3>1, <3>2, WorkerOnce
  <2> QED
    BY <1>4, <2>2, <2>3, <2>4 DEF SweepStep
<1>5. ASSUME NEW w \in Workers,
             \/ BeginSweep(w) \/ FindStale(w) \/ WorkerDies(w)
             \/ \E i \in Requests : TakeTask(w, i)
      PROVE  Once'
  <2>1. RowsKept
    BY <1>5, WorkerRows
  <2>2. UNCHANGED recoveries
    BY <1>5 DEF BeginSweep, FindStale, WorkerDies, TakeTask
  <2>3. (\A v \in Workers \ {w} : Others(v)) /\ pc'[w] # "recover"
    BY <1>5, BeginMoves
  <2> QED
    BY <2>1, <2>2, <2>3, WorkerOnce
<1>6. CASE (\E p \in live : ProcessExits(p)) \/ (\E p \in zombies : Reap(p)) \/ LockExpires \/ UNCHANGED vars
  <2>1. RowsKept
    BY <1>6, EnvironmentRows
  <2>2. UNCHANGED <<pc, task, recoveries>>
    BY <1>6 DEF ProcessExits, Reap, LockExpires, vars
  <2> QED
    BY <2>1, <2>2, SameOnce
<1> QED
  BY <1>1, <1>2, <1>3, <1>4, <1>5, <1>6 DEF Next, RequestStep

\* However many workers sweep at a time, an instance is restarted automatically at most
\* once by each: a sweep reads the count of attempts with the commit that declares the
\* crash, and the restart commits the count, but two commits lie between.
THEOREM RecoveredPerWorker ==
    ASSUME IsFiniteSet(Workers)
    PROVE  Spec => [](\A i \in Requests : recoveries[i] <= Cardinality(Workers))
<1> DEFINE Inv == Typed /\ Known /\ Once
           Bounded == \A i \in Requests : recoveries[i] <= Cardinality(Workers)
<1>1. Init => Inv
  <2> SUFFICES ASSUME Init PROVE Once
    BY InitTyped, InitKnown
  <2>1. \A i \in Requests : recoveries[i] = 0
    BY DEF Init
  <2> QED
    BY <2>1, RecoveringFinite DEF Once
<1>2. Inv /\ [Next]_vars => Inv'
  BY NextTyped, NextKnown, NextOnce
<1>3. Inv => Bounded
  <2> SUFFICES ASSUME Inv, NEW i \in Requests PROVE recoveries[i] <= Cardinality(Workers)
    OBVIOUS
  <2>1. recoveries[i] \in Nat /\ Cardinality(Recovering(i)) \in Nat /\ Cardinality(Workers) \in Nat
    BY RecoveringFinite DEF Typed, TypeOK
  <2> QED
    BY <2>1 DEF Once
<1> QED
  BY <1>1, <1>2, <1>3, PTL DEF Spec

\* reconcile, "restarts it once": true of one worker, whose sweep ends before the next
\* one begins.
THEOREM RecoveredOnceHolds ==
    ASSUME NEW worker, Workers = {worker}
    PROVE  Spec => []RecoveredOnce
<1>1. IsFiniteSet(Workers) /\ Cardinality(Workers) = 1
  BY FS_Singleton
<1> DEFINE Bounded == \A i \in Requests : recoveries[i] <= Cardinality(Workers)
<1>2. Bounded => RecoveredOnce
  BY <1>1 DEF RecoveredOnce
<1>3. Spec => []Bounded
  BY <1>1, RecoveredPerWorker
<1> QED
  BY <1>2, <1>3, PTL

-----------------------------------------------------------------------------
(* Processes.  Without restarts an instance has one process in its life, started when   *)
(* its row was pending and is no longer.                                                *)

Proc(i) == [of |-> i, nth |-> 0]

RowsTracked ==
    \A i \in Requests :
        /\ row[i].pid \in {NoPid, Proc(i)}
        /\ started[i] = 0 => row[i].pid = NoPid
        /\ row[i].status = "pending" => started[i] = 0
        /\ started[i] <= 1
LiveTracked == \A p \in live : p = Proc(p.of) /\ started[p.of] = 1

\* A call that will clear the pid has seen that pid, and its process is dead for good.
CallTracked(r) ==
    phase[r] = "commit" =>
        /\ op[r] # "restart"
        /\ \/ seen[r].pid = NoPid
           \/ /\ seen[r].pid = Proc(target[r]) /\ seen[r].pid \notin live
              /\ started[target[r]] = 1
CallsTracked == \A r \in Requests : CallTracked(r)

BeforeStart == {"cancel", "start", "provision", "clone", "install"} \cup CheckPcs

WorkerTracked(w) ==
    /\ pc[w] # "recover"
    /\ pc[w] \in BeforeStart => started[task[w]] = 0 /\ seen[w].pid = NoPid
    /\ pc[w] \in {"checkNew", "provision"} => seen[w].status = "pending"
    /\ pc[w] \in BeforeStart \ {"checkNew", "provision", "cancel"} => row[task[w]].status # "pending"
    /\ pc[w] = "record" => /\ started[task[w]] = 1
                           /\ seen[w].pid = NoPid /\ proc[w] = Proc(task[w])
    /\ pc[w] \in {"probe", "ready"} => seen[w].pid = Proc(task[w]) /\ proc[w] = Proc(task[w])
    /\ pc[w] \in {"judge", "purge"} => seen[w].pid \in {NoPid, Proc(task[w])}
WorkersTracked == \A w \in Workers : WorkerTracked(w)

Tracked == RowsTracked /\ LiveTracked /\ CallsTracked /\ WorkersTracked /\ NoOrphanProcess

LEMMA ProcFacts == \A i \in Requests : Proc(i) \in Procs /\ Proc(i) # NoPid /\ Proc(i).of = i
  BY WorkspaceAssumption DEF WorkspaceAssumption, Procs, Proc

\* While nothing is started and no call changes, calls and processes stay tracked.
LEMMA KeepTracked ==
    ASSUME Typed, Tracked, live' \subseteq live, UNCHANGED <<started, phase, op, target>>,
           \A r \in Requests : seen'[r] = seen[r]
    PROVE  CallsTracked' /\ LiveTracked'
<1>1. LiveTracked'
  BY DEF Tracked, LiveTracked
<1>2. ASSUME NEW r \in Requests PROVE CallTracked(r)'
  BY <1>2 DEF Tracked, CallsTracked, CallTracked
<1> QED
  BY <1>1, <1>2 DEF CallsTracked

\* The end of a launch or of a visit: the row loses the pid only when the process is dead.
LEMMA EndTracked ==
    ASSUME Typed, Tracked, NEW w \in Workers, Workers = {w}, task[w] \in Requests,
           NEW x \in Rows, SaveAndEnd(w, x), pc[w] # "record",
           x.status = seen[w].status \/ x.status # "pending",
           seen[w].pid \in {NoPid, Proc(task[w])},
           x.pid = seen[w].pid \/ (x.pid = NoPid /\ seen[w].pid \notin live'),
           live' \subseteq live, UNCHANGED <<started, phase, op, target>>
    PROVE  Tracked'
<1>0. /\ TypeOK /\ row[task[w]] \in Rows /\ seen[w] \in Rows
      /\ \A r \in Requests : r # w
  BY WorkspaceAssumption DEF Typed, TypeOK, WorkspaceAssumption
<1>1. EndTask(w) \/ Abort(w)
  BY DEF SaveAndEnd
<1>2. pc'[w] \in {"idle", "sweep"} /\ \A r \in Requests : seen'[r] = seen[r]
  BY <1>0, <1>1, EndTaskTyped DEF EndTask, Abort, Forget, TypeOK
<1>3. CallsTracked' /\ LiveTracked'
  BY <1>2, KeepTracked
<1>4. WorkersTracked'
  <2>1. WorkerTracked(w)'
    BY <1>2 DEF WorkerTracked, BeforeStart, CheckPcs
  <2> QED
    BY <2>1 DEF WorkersTracked
<1>5. \A p \in live : Exists(p.of) => row[p.of].pid = p
  BY DEF Tracked, NoOrphanProcess
<1>6. \A p \in live : p \in Procs /\ p.of \in Requests /\ p = Proc(p.of)
  BY <1>0 DEF Tracked, LiveTracked, TypeOK, Procs
<1>7. CASE ~Exists(task[w])
  <2>1. UNCHANGED row
    BY <1>7 DEF SaveAndEnd
  <2>2. RowsTracked'
    BY <2>1 DEF Tracked, RowsTracked
  <2>3. NoOrphanProcess'
    BY <1>5, <2>1 DEF NoOrphanProcess, Exists
  <2> QED
    BY <1>3, <1>4, <2>2, <2>3 DEF Tracked
<1>8. CASE Exists(task[w])
  <2> DEFINE t == task[w]
  <2>1. /\ row'[t] = Stored(w, x)
        /\ \A i \in Requests \ {t} : row'[i] = row[i]
    BY <1>0, <1>8 DEF SaveAndEnd, Save, TypeOK
  <2>2. /\ row'[t].pid = IF x.pid = seen[w].pid THEN row[t].pid ELSE NoPid
        /\ row'[t].status = "pending" => row[t].status = "pending"
    BY <1>0, <2>1, WrittenIsRow DEF Stored
  <2>3. ASSUME NEW i \in Requests
        PROVE  /\ row'[i].pid \in {NoPid, Proc(i)}
               /\ started[i] = 0 => row'[i].pid = NoPid
               /\ row'[i].status = "pending" => started[i] = 0
               /\ started[i] <= 1
    BY <2>1, <2>2 DEF Tracked, RowsTracked
  <2>4. RowsTracked'
    BY <2>3 DEF RowsTracked
  <2>5. ASSUME NEW p \in live', Exists(p.of)'
        PROVE  row'[p.of].pid = p
    <3>1. p \in live /\ p.of \in Requests /\ p = Proc(p.of) /\ p # NoPid
      BY <1>6, ProcFacts
    <3>2. CASE p.of # t
      BY <1>5, <2>1, <2>5, <3>1, <3>2 DEF Exists
    <3>3. CASE p.of = t
      <4>1. row[t].pid = p
        BY <1>5, <1>8, <3>1, <3>3
      <4>2. x.pid = seen[w].pid
        BY <2>5, <3>1, <3>3
      <4> QED
        BY <2>2, <3>3, <4>1, <4>2
    <3> QED
      BY <3>2, <3>3
  <2>6. NoOrphanProcess'
    BY <2>5 DEF NoOrphanProcess
  <2> QED
    BY <1>3, <1>4, <2>4, <2>6 DEF Tracked
<1> QED
  BY <1>7, <1>8

\* A task that is dropped with nothing written.
LEMMA DropTracked ==
    ASSUME Typed, Tracked, NEW w \in Workers, Workers = {w}, EndTask(w) \/ Abort(w),
           pc[w] = "record" => ~Exists(task[w]),
           UNCHANGED <<row, live, started, phase, op, target>>
    PROVE  Tracked'
<1>0. /\ TypeOK /\ \A r \in Requests : r # w
  BY WorkspaceAssumption DEF Typed, TypeOK, WorkspaceAssumption
<1>2. pc'[w] \in {"idle", "sweep"} /\ \A r \in Requests : seen'[r] = seen[r]
  BY <1>0, EndTaskTyped DEF EndTask, Abort, Forget, TypeOK
<1>3. CallsTracked' /\ LiveTracked'
  BY <1>2, KeepTracked
<1>4. WorkersTracked'
  <2>1. WorkerTracked(w)'
    BY <1>2 DEF WorkerTracked, BeforeStart, CheckPcs
  <2> QED
    BY <2>1 DEF WorkersTracked
<1>5. RowsTracked'
  BY DEF Tracked, RowsTracked
<1>6. \A p \in live : Exists(p.of) => row[p.of].pid = p
  <2> SUFFICES ASSUME NEW p \in live, Exists(p.of), row[p.of].pid # p PROVE FALSE
    OBVIOUS
  <2>1. proc[w] = p /\ pc[w] = "record"
    BY DEF Tracked, NoOrphanProcess
  <2>2. p = Proc(task[w])
    BY <2>1 DEF Tracked, WorkersTracked, WorkerTracked
  <2>3. task[w] \in Requests
    BY <2>1 DEF Typed, Busy
  <2> QED
    BY <2>1, <2>2, <2>3, ProcFacts
<1>7. NoOrphanProcess'
  BY <1>6 DEF NoOrphanProcess, Exists
<1> QED
  BY <1>3, <1>4, <1>5, <1>7 DEF Tracked

\* A step that reads: nothing is written, and the worker knows what it should.
LEMMA MoveTracked ==
    ASSUME Typed, Tracked, NEW w \in Workers, Workers = {w}, pc[w] # "record",
           WorkerTracked(w)', \A r \in Requests : seen'[r] = seen[r],
           UNCHANGED <<row, live, started, phase, op, target>>
    PROVE  Tracked'
<1>1. CallsTracked' /\ LiveTracked'
  BY KeepTracked
<1>2. WorkersTracked' /\ RowsTracked'
  BY DEF WorkersTracked, Tracked, RowsTracked
<1>3. NoOrphanProcess'
  BY DEF Tracked, NoOrphanProcess, Exists
<1> QED
  BY <1>1, <1>2, <1>3 DEF Tracked

LEMMA PrepareTracked ==
    ASSUME Typed, Tracked, NEW w \in Workers, Workers = {w}, Prepare(w)
    PROVE  Tracked'
<1> USE WorkspaceAssumption DEF apiVars
<1> DEFINE t == task[w]
<1>0. /\ TypeOK /\ t \in Requests /\ row[t] \in Rows /\ seen[w] \in Rows
      /\ \A r \in Requests : r # w
  BY DEF Typed, TypeOK, Busy, Prepare, WorkspaceAssumption
<1>1. /\ pc[w] \in BeforeStart /\ started[t] = 0 /\ seen[w].pid = NoPid
      /\ pc[w] = "provision" => seen[w].status = "pending"
      /\ pc[w] # "provision" => row[t].status # "pending"
  BY DEF Prepare, Tracked, WorkersTracked, WorkerTracked, BeforeStart, CheckPcs
<1>2. PICK x \in Rows, next \in {"checkProvisioned", "checkCloned", "checkInstalled"} :
         /\ SaveAndGo(w, x, next) /\ x.pid = seen[w].pid
         /\ \/ x.status \in {"provisioning", "installing"}
            \/ pc[w] # "provision" /\ x.status = seen[w].status
  <2>1. CASE pc[w] = "provision" /\ SaveAndGo(w, [seen[w] EXCEPT !.status = "provisioning"], "checkProvisioned")
    <3>1. /\ [seen[w] EXCEPT !.status = "provisioning"] \in Rows
          /\ [seen[w] EXCEPT !.status = "provisioning"].pid = seen[w].pid
          /\ [seen[w] EXCEPT !.status = "provisioning"].status = "provisioning"
      BY <1>0, WantedIsRow DEF ACTIVE_STATUSES, Rows
    <3> QED
      BY <2>1, <3>1
  <2>2. CASE pc[w] = "clone" /\ SaveAndGo(w, seen[w], "checkCloned")
    BY <1>0, <2>2
  <2>3. CASE pc[w] = "install" /\ SaveAndGo(w, [seen[w] EXCEPT !.status = "installing"], "checkInstalled")
    <3>1. /\ [seen[w] EXCEPT !.status = "installing"] \in Rows
          /\ [seen[w] EXCEPT !.status = "installing"].pid = seen[w].pid
          /\ [seen[w] EXCEPT !.status = "installing"].status = "installing"
      BY <1>0, WantedIsRow DEF ACTIVE_STATUSES, Rows
    <3> QED
      BY <2>3, <3>1
  <2> QED
    BY <2>1, <2>2, <2>3 DEF Prepare
<1>3. CASE ~Exists(t)
  BY <1>1, <1>2, <1>3, DropTracked DEF SaveAndGo, Prepare, BeforeStart, CheckPcs
<1>4. CASE Exists(t)
  <2>1. /\ row'[t] = Stored(w, x) /\ seen'[w] = Stored(w, x) /\ pc'[w] = next /\ task'[w] = t
        /\ \A i \in Requests \ {t} : row'[i] = row[i]
        /\ \A r \in Requests : seen'[r] = seen[r]
    BY <1>0, <1>2, <1>4 DEF SaveAndGo, Save, TypeOK
  <2>2. /\ row'[t].pid = row[t].pid /\ row'[t].pid = NoPid
        /\ row'[t].status # "pending"
    <3>1. row[t].pid = NoPid
      BY <1>0, <1>1 DEF Tracked, RowsTracked
    <3> QED
      BY <1>0, <1>1, <1>2, <2>1, <3>1, WrittenIsRow DEF Stored
  <2>3. CallsTracked' /\ LiveTracked'
    BY <2>1, KeepTracked DEF Prepare
  <2>4. RowsTracked'
    BY <2>1, <2>2 DEF Tracked, RowsTracked, Prepare
  <2>5. WorkersTracked'
    <3>1. WorkerTracked(w)'
      BY <1>1, <2>1, <2>2 DEF WorkerTracked, Prepare, BeforeStart, CheckPcs
    <3> QED
      BY <3>1 DEF WorkersTracked
  <2>6. NoOrphanProcess'
    <3>1. ASSUME NEW p \in live, Exists(p.of)' PROVE row'[p.of].pid = p
      <4>1. p.of \in Requests
        BY <1>0 DEF TypeOK, Procs
      <4>2. p.of # t
        BY <1>1 DEF Tracked, LiveTracked
      <4> QED
        BY <1>1, <2>1, <3>1, <4>1, <4>2 DEF Tracked, NoOrphanProcess, Exists, BeforeStart, CheckPcs
    <3> QED
      BY <3>1 DEF NoOrphanProcess, Prepare
  <2> QED
    BY <2>3, <2>4, <2>5, <2>6 DEF Tracked
<1> QED
  BY <1>3, <1>4

\* The process starts: it is the first of its instance, and the worker holds it.
LEMMA StartTracked ==
    ASSUME Typed, Tracked, NEW w \in Workers, Workers = {w}, StartProcess(w)
    PROVE  Tracked'
<1> USE WorkspaceAssumption DEF apiVars
<1> DEFINE t == task[w]
<1>0. /\ TypeOK /\ t \in Requests
      /\ \A r \in Requests : r # w
  BY DEF Typed, TypeOK, Busy, StartProcess, WorkspaceAssumption
<1>1. /\ pc[w] = "start" /\ started[t] = 0 /\ seen[w].pid = NoPid /\ row[t].status # "pending"
  BY DEF StartProcess, Tracked, WorkersTracked, WorkerTracked, BeforeStart, CheckPcs
<1>2. /\ live' = live \cup {Proc(t)} /\ proc'[w] = Proc(t) /\ pc'[w] = "record"
      /\ started'[t] = 1 /\ \A i \in Requests \ {t} : started'[i] = started[i]
      /\ UNCHANGED <<row, task, seen, phase, op, target>>
  BY <1>0, <1>1 DEF StartProcess, TypeOK, Proc
<1>3. RowsTracked'
  BY <1>1, <1>2 DEF Tracked, RowsTracked
<1>4. LiveTracked'
  <2>1. ASSUME NEW p \in live' PROVE p = Proc(p.of) /\ started'[p.of] = 1
    <3>1. CASE p = Proc(t)
      BY <1>0, <1>2, <3>1, ProcFacts
    <3>2. CASE p \in live
      BY <1>0, <1>1, <1>2, <3>2 DEF Tracked, LiveTracked, TypeOK, Procs
    <3> QED
      BY <1>2, <2>1, <3>1, <3>2
  <2> QED
    BY <2>1 DEF LiveTracked
<1>5. CallsTracked'
  <2>1. ASSUME NEW r \in Requests PROVE CallTracked(r)'
    <3>1. CASE phase[r] # "commit"
      BY <1>2, <3>1 DEF CallTracked
    <3>2. CASE phase[r] = "commit" /\ seen[r].pid = NoPid
      BY <1>2, <3>2 DEF CallTracked, Tracked, CallsTracked
    <3>3. CASE phase[r] = "commit" /\ seen[r].pid # NoPid
      <4>1. /\ op[r] # "restart" /\ seen[r].pid = Proc(target[r]) /\ seen[r].pid \notin live
            /\ started[target[r]] = 1 /\ target[r] \in Requests
        BY <3>3 DEF CallTracked, Tracked, CallsTracked, Typed, Busy
      <4>2. target[r] # t
        BY <1>1, <4>1
      <4>3. Proc(target[r]) # Proc(t)
        BY <1>0, <4>1, <4>2, ProcFacts
      <4> QED
        BY <1>2, <4>1, <4>2, <4>3 DEF CallTracked
    <3> QED
      BY <3>1, <3>2, <3>3
  <2> QED
    BY <2>1 DEF CallsTracked
<1>6. WorkersTracked'
  <2>1. WorkerTracked(w)'
    BY <1>1, <1>2 DEF WorkerTracked, BeforeStart, CheckPcs
  <2> QED
    BY <2>1 DEF WorkersTracked
<1>7. NoOrphanProcess'
  BY <1>1, <1>2 DEF Tracked, NoOrphanProcess, Exists
<1> QED
  BY <1>3, <1>4, <1>5, <1>6, <1>7 DEF Tracked

\* The pid is committed: it differs from what the session loaded, so it is sent.
LEMMA RecordTracked ==
    ASSUME Typed, Tracked, NEW w \in Workers, Workers = {w}, RecordProcess(w)
    PROVE  Tracked'
<1> USE WorkspaceAssumption DEF apiVars
<1> DEFINE t == task[w]
           x == [seen[w] EXCEPT !.status = "starting", !.pid = proc[w]]
<1>0. /\ TypeOK /\ t \in Requests /\ row[t] \in Rows /\ seen[w] \in Rows
      /\ \A r \in Requests : r # w
  BY DEF Typed, TypeOK, Busy, RecordProcess, WorkspaceAssumption
<1>1. /\ pc[w] = "record" /\ started[t] = 1 /\ seen[w].pid = NoPid /\ proc[w] = Proc(t)
  BY DEF RecordProcess, Tracked, WorkersTracked, WorkerTracked
<1>2. proc[w] \in Procs \cup {NoPid}
  BY <1>0 DEF TypeOK
<1>3. /\ x \in Rows /\ x.pid = proc[w] /\ x.status = "starting"
  BY <1>0, <1>2, WantedIsRow DEF ACTIVE_STATUSES, Rows
<1>4. SaveAndGo(w, x, "probe")
  BY DEF RecordProcess
<1> HIDE DEF x
<1>5. CASE ~Exists(t)
  BY <1>4, <1>5, DropTracked DEF SaveAndGo, RecordProcess
<1>6. CASE Exists(t)
  <2>1. /\ row'[t] = Stored(w, x) /\ seen'[w] = Stored(w, x) /\ pc'[w] = "probe"
        /\ task'[w] = t /\ proc'[w] = proc[w]
        /\ \A i \in Requests \ {t} : row'[i] = row[i]
        /\ \A r \in Requests : seen'[r] = seen[r]
    BY <1>0, <1>4, <1>6 DEF SaveAndGo, Save, TypeOK
  <2>2. /\ row'[t].pid = Proc(t)
        /\ row'[t].status = "pending" => row[t].status = "pending"
    BY <1>0, <1>1, <1>3, <2>1, WrittenIsRow, ProcFacts DEF Stored
  <2>3. CallsTracked' /\ LiveTracked'
    BY <2>1, KeepTracked DEF RecordProcess
  <2>4. RowsTracked'
    BY <1>1, <2>1, <2>2 DEF Tracked, RowsTracked, RecordProcess
  <2>5. WorkersTracked'
    <3>1. WorkerTracked(w)'
      BY <1>1, <2>1, <2>2 DEF WorkerTracked, RecordProcess, BeforeStart, CheckPcs
    <3> QED
      BY <3>1 DEF WorkersTracked
  <2>6. NoOrphanProcess'
    <3>1. ASSUME NEW p \in live, Exists(p.of)' PROVE row'[p.of].pid = p
      <4>1. p.of \in Requests /\ p = Proc(p.of)
        BY <1>0 DEF TypeOK, Procs, Tracked, LiveTracked
      <4>2. CASE p.of = t
        BY <2>2, <4>1, <4>2
      <4>3. CASE p.of # t
        <5>1. proc[w] # p
          BY <1>0, <1>1, <4>1, <4>3, ProcFacts
        <5> QED
          BY <2>1, <3>1, <4>1, <4>3, <5>1 DEF Tracked, NoOrphanProcess, Exists
      <4> QED
        BY <4>2, <4>3
    <3> QED
      BY <3>1 DEF NoOrphanProcess, RecordProcess
  <2> QED
    BY <2>3, <2>4, <2>5, <2>6 DEF Tracked
<1> QED
  BY <1>5, <1>6

LEMMA LaunchTracked ==
    ASSUME Typed, Tracked, NEW w \in Workers, Workers = {w}, LaunchStep(w)
    PROVE  Tracked'
<1> USE WorkspaceAssumption DEF apiVars
<1>0. /\ TypeOK /\ seen[w] \in Rows /\ (\A r \in Requests : r # w) /\ WorkerTracked(w)
      /\ pc[w] \notin {"idle", "sweep"} => task[w] \in Requests
  BY DEF Typed, TypeOK, Busy, WorkspaceAssumption, Tracked, WorkersTracked
<1>1. CASE LoadInstance(w)
  <2>1. CASE row[task[w]].status = "pending"
    <3>1. started[task[w]] = 0 /\ row[task[w]].pid = NoPid
      BY <1>0, <1>1, <2>1 DEF LoadInstance, Tracked, RowsTracked
    <3>2. WorkerTracked(w)'
      BY <1>0, <1>1, <2>1, <3>1 DEF LoadInstance, Load, WorkerTracked, TypeOK, BeforeStart, CheckPcs
    <3>3. \A r \in Requests : seen'[r] = seen[r]
      BY <1>0, <1>1, <2>1 DEF LoadInstance, Load, TypeOK
    <3> QED
      BY <1>1, <2>1, <3>2, <3>3, MoveTracked DEF LoadInstance
  <2>2. CASE EndTask(w) \/ Abort(w)
    BY <1>1, <2>2, DropTracked DEF LoadInstance
  <2> QED
    BY <1>1, <2>1, <2>2 DEF LoadInstance
<1>2. CASE CheckCancelled(w)
  <2>1. CASE Exists(task[w])
    <3>1. /\ seen'[w] = [seen[w] EXCEPT !.cancel = row[task[w]].cancel]
          /\ \A r \in Requests : seen'[r] = seen[r]
      BY <1>0, <1>2, <2>1 DEF CheckCancelled, TypeOK
    <3>2. seen'[w].pid = seen[w].pid /\ seen'[w].status = seen[w].status
      BY <1>0, <3>1 DEF Rows
    <3>3. \/ pc'[w] = "cancel"
          \/ pc[w] = "checkNew" /\ pc'[w] = "provision"
          \/ pc[w] \in {"checkProvisioned", "checkCloned", "checkInstalled"}
                /\ pc'[w] \in {"clone", "install", "start"}
      BY <1>0, <1>2, <2>1 DEF CheckCancelled, CheckPcs, TypeOK
    <3>4. pc[w] \in CheckPcs /\ UNCHANGED <<row, task, proc, started>>
      BY <1>2, <2>1 DEF CheckCancelled
    <3>5. WorkerTracked(w)'
      BY <1>0, <3>2, <3>3, <3>4 DEF WorkerTracked, BeforeStart, CheckPcs
    <3> QED
      BY <1>2, <3>1, <3>5, MoveTracked DEF CheckCancelled, CheckPcs
  <2>2. CASE Abort(w)
    BY <1>2, <2>2, DropTracked DEF CheckCancelled, CheckPcs
  <2> QED
    BY <1>2, <2>1, <2>2 DEF CheckCancelled
<1>3. CASE CancelNow(w)
  <2> DEFINE x == [seen[w] EXCEPT !.status = "cancelled", !.pid = NoPid]
  <2>1. x \in Rows /\ x.status = "cancelled" /\ x.pid = NoPid
    BY <1>0, WantedIsRow DEF TERMINAL_STATUSES, Rows
  <2>2. SaveAndEnd(w, x) /\ task[w] \in Requests /\ seen[w].pid = NoPid
    BY <1>0, <1>3 DEF CancelNow, WorkerTracked, BeforeStart
  <2>3. live' \subseteq live
    BY <1>3 DEF CancelNow, Kill
  <2> HIDE DEF x
  <2> QED
    BY <1>3, <2>1, <2>2, <2>3, EndTracked DEF CancelNow
<1>4. CASE ProbeReady(w)
  <2>1. WorkerTracked(w)' /\ \A r \in Requests : seen'[r] = seen[r]
    BY <1>0, <1>4 DEF ProbeReady, WorkerTracked, TypeOK, BeforeStart, CheckPcs
  <2> QED
    BY <1>4, <2>1, MoveTracked DEF ProbeReady
<1>5. CASE BecomeRunning(w)
  <2> DEFINE x == [seen[w] EXCEPT !.status = "running"]
  <2>1. x \in Rows /\ x.status = "running" /\ x.pid = seen[w].pid
    BY <1>0, WantedIsRow DEF ACTIVE_STATUSES, Rows
  <2>2. SaveAndEnd(w, x) /\ task[w] \in Requests /\ seen[w].pid = Proc(task[w])
    BY <1>0, <1>5 DEF BecomeRunning, WorkerTracked
  <2> HIDE DEF x
  <2> QED
    BY <1>5, <2>1, <2>2, EndTracked DEF BecomeRunning
<1>6. CASE LaunchFails(w)
  <2> DEFINE x == [seen[w] EXCEPT !.status = "failed", !.pid = NoPid]
  <2>1. x \in Rows /\ x.status = "failed" /\ x.pid = NoPid
    BY <1>0, WantedIsRow DEF TERMINAL_STATUSES, Rows
  <2>2. SaveAndEnd(w, x) /\ task[w] \in Requests /\ pc[w] # "record"
    BY <1>0, <1>6 DEF LaunchFails, LaunchPcs
  <2>3. /\ live' \subseteq live /\ seen[w].pid \in {NoPid, Proc(task[w])}
        /\ x.pid = seen[w].pid \/ seen[w].pid \notin live'
    <3>1. CASE pc[w] = "probe"
      BY <1>0, <1>6, <3>1 DEF LaunchFails, WorkerTracked, Kill
    <3>2. CASE pc[w] # "probe"
      BY <1>0, <1>6, <2>1, <3>2 DEF LaunchFails, WorkerTracked, Kill, LaunchPcs, BeforeStart
    <3> QED
      BY <3>1, <3>2
  <2> HIDE DEF x
  <2> QED
    BY <1>6, <2>1, <2>2, <2>3, EndTracked DEF LaunchFails
<1> QED
  BY <1>1, <1>2, <1>3, <1>4, <1>5, <1>6, PrepareTracked, StartTracked, RecordTracked DEF LaunchStep

LEMMA SweepTracked ==
    ASSUME Typed, Tracked, NEW w \in Workers, Workers = {w}, ~AutoRecover, SweepStep(w)
    PROVE  Tracked'
<1> USE WorkspaceAssumption DEF apiVars
<1>0. /\ TypeOK /\ seen[w] \in Rows /\ (\A r \in Requests : r # w) /\ WorkerTracked(w)
      /\ pc[w] \notin {"idle", "sweep"} => task[w] \in Requests
  BY DEF Typed, TypeOK, Busy, WorkspaceAssumption, Tracked, WorkersTracked
<1>1. CASE VisitInstance(w)
  <2>1. CASE Abort(w)
    BY <1>1, <2>1, DropTracked DEF VisitInstance
  <2>2. CASE \E i \in todo[w] :
               /\ Load(w, i) /\ task' = [task EXCEPT ![w] = i]
               /\ pc' = [pc EXCEPT ![w] = "judge"] /\ UNCHANGED proc
    <3>1. PICK i \in todo[w] : /\ Load(w, i) /\ task' = [task EXCEPT ![w] = i]
                               /\ pc' = [pc EXCEPT ![w] = "judge"] /\ UNCHANGED proc
      BY <2>2
    <3>2. i \in Requests
      BY <1>0 DEF TypeOK
    <3>3. row[i].pid \in {NoPid, Proc(i)}
      BY <3>2 DEF Tracked, RowsTracked
    <3>4. seen'[w].pid = row[i].pid /\ pc'[w] = "judge" /\ task'[w] = i
      BY <1>0, <3>1 DEF Load, TypeOK
    <3>5. WorkerTracked(w)'
      BY <1>1, <3>3, <3>4 DEF WorkerTracked, BeforeStart, CheckPcs
    <3>6. \A r \in Requests : seen'[r] = seen[r]
      BY <1>0, <3>1 DEF Load, TypeOK
    <3> QED
      BY <1>1, <3>5, <3>6, MoveTracked DEF VisitInstance
  <2> QED
    BY <1>1, <2>1, <2>2 DEF VisitInstance
<1>2. CASE Heartbeat(w)
  BY <1>0, <1>2, EndTracked DEF Heartbeat, WorkerTracked
<1>3. CASE DeclareCrashed(w)
  <2>1. /\ Crashed(w) \in Rows /\ Crashed(w).status = "crashed" /\ Crashed(w).pid = NoPid
    BY <1>0, WantedIsRow DEF TERMINAL_STATUSES, Rows, Crashed
  <2>2. SaveAndEnd(w, Crashed(w))
    BY <1>3 DEF DeclareCrashed, MayRecover
  <2>3. /\ live' \subseteq live /\ seen[w].pid \in {NoPid, Proc(task[w])}
        /\ seen[w].pid \notin live' /\ task[w] \in Requests
    BY <1>0, <1>3 DEF DeclareCrashed, WorkerTracked, Kill
  <2> QED
    BY <1>3, <2>1, <2>2, <2>3, EndTracked DEF DeclareCrashed
<1>4. CASE Purge(w)
  <2> DEFINE t == task[w]
  <2>1. t \in Requests /\ EndTask(w) /\ pc[w] = "purge"
    BY <1>0, <1>4 DEF Purge
  <2>2. /\ row'[t] = Gone /\ \A i \in Requests \ {t} : row'[i] = row[i]
    BY <1>0, <1>4, <2>1 DEF Purge, TypeOK
  <2>3. Gone.pid = NoPid /\ Gone.status = "deleted"
    BY DEF Gone, NoRow
  <2>4. pc'[w] \in {"idle", "sweep"} /\ \A r \in Requests : seen'[r] = seen[r]
    BY <1>0, <2>1, EndTaskTyped DEF EndTask, Forget, TypeOK
  <2>5. live' \subseteq live
    BY <1>4 DEF Purge, Kill
  <2>6. CallsTracked' /\ LiveTracked'
    BY <1>4, <2>4, <2>5, KeepTracked DEF Purge
  <2>7. RowsTracked'
    BY <1>4, <2>2, <2>3 DEF Tracked, RowsTracked, Purge
  <2>8. WorkersTracked'
    <3>1. WorkerTracked(w)'
      BY <2>4 DEF WorkerTracked, BeforeStart, CheckPcs
    <3> QED
      BY <3>1 DEF WorkersTracked
  <2>9. NoOrphanProcess'
    <3>1. ASSUME NEW p \in live', Exists(p.of)' PROVE row'[p.of].pid = p
      <4>1. p \in live /\ p.of \in Requests
        BY <1>0, <2>5 DEF TypeOK, Procs
      <4>2. p.of # t
        BY <2>2, <2>3, <3>1 DEF Exists
      <4> QED
        BY <2>1, <2>2, <3>1, <4>1, <4>2 DEF Tracked, NoOrphanProcess, Exists
    <3> QED
      BY <3>1 DEF NoOrphanProcess
  <2> QED
    BY <2>6, <2>7, <2>8, <2>9 DEF Tracked
<1>5. ~Recover(w)
  BY <1>0 DEF Recover, WorkerTracked
<1> QED
  BY <1>1, <1>2, <1>3, <1>4, <1>5 DEF SweepStep

LEMMA BeginTracked ==
    ASSUME Typed, Tracked, NEW w \in Workers, Workers = {w},
           BeginSweep(w) \/ FindStale(w) \/ \E i \in Requests : TakeTask(w, i)
    PROVE  Tracked'
<1> USE WorkspaceAssumption DEF apiVars
<1>0. /\ TypeOK /\ \A r \in Requests : r # w
  BY DEF Typed, TypeOK, WorkspaceAssumption
<1>1. /\ UNCHANGED <<row, live, started, phase, op, target>> /\ pc[w] # "record"
  BY DEF BeginSweep, FindStale, TakeTask
<1>2. \A r \in Requests : seen'[r] = seen[r]
  BY <1>0 DEF BeginSweep, FindStale, TakeTask, Load, TypeOK
<1>3. CASE BeginSweep(w) \/ \E i \in Requests : TakeTask(w, i)
  <2>1. pc'[w] \in {"sweep", "load"}
    BY <1>0, <1>3 DEF BeginSweep, TakeTask, TypeOK
  <2>2. WorkerTracked(w)'
    BY <2>1 DEF WorkerTracked, BeforeStart, CheckPcs
  <2> QED
    BY <1>1, <1>2, <2>2, MoveTracked
<1>4. CASE FindStale(w)
  <2>1. PICK i \in Requests : Load(w, i) /\ task' = [task EXCEPT ![w] = i]
    BY <1>4 DEF FindStale
  <2>2. /\ seen'[w].pid = row[i].pid /\ task'[w] = i /\ pc'[w] = "purge"
        /\ row[i].pid \in {NoPid, Proc(i)}
    BY <1>0, <1>4, <2>1 DEF FindStale, Load, TypeOK, Tracked, RowsTracked
  <2>3. WorkerTracked(w)'
    BY <2>2 DEF WorkerTracked, BeforeStart, CheckPcs
  <2> QED
    BY <1>1, <1>2, <2>3, MoveTracked
<1> QED
  BY <1>3, <1>4

LEMMA RequestTracked ==
    ASSUME Typed, Known, Tracked, "restart" \notin Operations, NEW r \in Requests,
           \/ AcquireLock(r) \/ RequestStep(r)
           \/ \E call \in Operations, i \in Requests : LoadForCall(r, call, i)
    PROVE  Tracked'
<1> USE WorkspaceAssumption DEF apiVars, workerVars
<1>0. TypeOK /\ r \notin Workers
  BY DEF Typed, WorkspaceAssumption
<1>1. CASE AcquireLock(r) \/ FindActive(r) \/ EnqueueLaunch(r)
  <2>1. UNCHANGED <<row, live, started, pc, task, proc, seen>>
    BY <1>1 DEF AcquireLock, FindActive, EnqueueLaunch
  <2>2. phase'[r] # "commit"
    BY <1>0, <1>1 DEF AcquireLock, FindActive, EnqueueLaunch, TypeOK
  <2>3. \A q \in Requests \ {r} : phase'[q] = phase[q] /\ op'[q] = op[q] /\ target'[q] = target[q]
    BY <1>0, <1>1 DEF AcquireLock, FindActive, EnqueueLaunch, TypeOK
  <2>4. ASSUME NEW q \in Requests PROVE CallTracked(q)'
    BY <2>1, <2>2, <2>3, <2>4 DEF Tracked, CallsTracked, CallTracked
  <2>5. CallsTracked'
    BY <2>4 DEF CallsTracked
  <2>6. RowsTracked' /\ LiveTracked' /\ WorkersTracked' /\ NoOrphanProcess'
    BY <2>1 DEF Tracked, RowsTracked, LiveTracked, WorkersTracked, WorkerTracked, NoOrphanProcess, Exists
  <2> QED
    BY <2>5, <2>6 DEF Tracked
<1>2. CASE InsertInstance(r)
  <2>0. UNCHANGED <<live, started, pc, task, proc, seen, op>>
    BY <1>2 DEF InsertInstance
  <2>1. /\ phase'[r] # "commit"
        /\ \A q \in Requests \ {r} : phase'[q] = phase[q] /\ target'[q] = target[q]
    BY <1>0, <1>2 DEF InsertInstance, TypeOK
  <2>2. /\ \A i \in Requests \ {r} : row'[i] = row[i]
        /\ row'[r] = row[r] \/ (row'[r].pid = NoPid /\ row'[r].status = "pending")
    <3>1. CASE UNCHANGED row
      BY <3>1
    <3>2. CASE row' = [row EXCEPT ![r] = [NoRow EXCEPT !.status = "pending"]]
      <4>1. /\ [NoRow EXCEPT !.status = "pending"].pid = NoPid
            /\ [NoRow EXCEPT !.status = "pending"].status = "pending"
        BY DEF NoRow
      <4> QED
        BY <1>0, <3>2, <4>1 DEF TypeOK
    <3> QED
      BY <1>2, <3>1, <3>2 DEF InsertInstance
  <2>3. ~Inserted(r) /\ started[r] = 0
    BY <1>2 DEF InsertInstance, Known
  <2>4. ASSUME NEW q \in Requests PROVE CallTracked(q)'
    BY <2>0, <2>1, <2>4 DEF Tracked, CallsTracked, CallTracked
  <2>5. CallsTracked'
    BY <2>4 DEF CallsTracked
  <2>6. RowsTracked'
    BY <2>0, <2>2, <2>3 DEF Tracked, RowsTracked
  <2>7. LiveTracked'
    BY <2>0 DEF Tracked, LiveTracked
  <2>8. ASSUME NEW w \in Workers PROVE WorkerTracked(w)'
    <3>1. task[w] \in Requests => task[w] # r
      BY <2>3 DEF Known
    <3>2. pc[w] \notin {"idle", "sweep"} => row'[task[w]] = row[task[w]]
      BY <2>2, <3>1 DEF Typed, Busy
    <3> QED
      BY <2>0, <3>2 DEF Tracked, WorkersTracked, WorkerTracked, BeforeStart, CheckPcs
  <2>9. WorkersTracked'
    BY <2>8 DEF WorkersTracked
  <2>10. NoOrphanProcess'
    <3>1. ASSUME NEW p \in live PROVE p.of \in Requests \ {r}
      BY <1>0, <2>3, <3>1 DEF Tracked, LiveTracked, TypeOK, Procs
    <3> QED
      BY <2>0, <2>2, <3>1 DEF Tracked, NoOrphanProcess, Exists
  <2> QED
    BY <2>5, <2>6, <2>7, <2>9, <2>10 DEF Tracked
<1>3. CASE CommitCall(r)
  <2> DEFINE t == target[r]
             x == Wanted(op[r], seen[r])
  <2>0. /\ UNCHANGED <<live, started, pc, task, proc, op, target>>
        /\ phase[r] = "commit"
    BY <1>3 DEF CommitCall
  <2>1. /\ t \in Requests /\ op[r] \in {"stop", "cancel", "delete"}
        /\ row[t] \in Rows /\ seen[r] \in Rows
        /\ \/ seen[r].pid = NoPid
           \/ seen[r].pid = Proc(t) /\ seen[r].pid \notin live /\ started[t] = 1
    BY <1>0, <2>0 DEF Typed, Busy, TypeOK, Tracked, CallsTracked, CallTracked
  <2>2. /\ phase'[r] # "commit"
        /\ \A q \in Requests \ {r} : phase'[q] = phase[q] /\ seen'[q] = seen[q]
        /\ \A w \in Workers : seen'[w] = seen[w]
    BY <1>0, <1>3 DEF CommitCall, Forget, TypeOK
  <2>3. /\ \A i \in Requests \ {t} : row'[i] = row[i]
        /\ ~Exists(t) => row'[t] = row[t]
        /\ Exists(t) /\ op[r] = "delete" => row'[t] = Gone
        /\ Exists(t) /\ op[r] # "delete" => row'[t] = Written(row[t], seen[r], x)
    BY <1>0, <1>3, <2>1 DEF CommitCall, TypeOK
  <2>4. /\ row'[t].status = "pending" => row[t].status = "pending"
        /\ row'[t].pid = row[t].pid \/ row'[t].pid = NoPid
        /\ Exists(t)' => row'[t].pid = row[t].pid \/ row[t].pid # Proc(t) \/ Proc(t) \notin live
    <3>1. CASE ~Exists(t)
      BY <2>3, <3>1
    <3>2. CASE Exists(t) /\ op[r] = "delete"
      <4>1. Gone.pid = NoPid /\ Gone.status = "deleted"
        BY DEF Gone, NoRow
      <4>2. row'[t].pid = NoPid /\ row'[t].status = "deleted"
        BY <2>3, <3>2, <4>1
      <4>3. ~Exists(t)'
        BY <2>0, <4>2 DEF Exists
      <4> QED
        BY <4>2, <4>3
    <3>3. CASE Exists(t) /\ op[r] # "delete"
      <4>1. x \in Rows /\ x.status \in {"stopped", "cancelled"} /\ x.pid = NoPid
        <5>1. x \in Rows
          BY <2>1, <3>3, WantedIsRow
        <5>2. CASE op[r] = "stop"
          BY <2>1, <5>1, <5>2 DEF Wanted, Rows
        <5>3. CASE op[r] = "cancel"
          BY <2>1, <5>1, <5>3 DEF Wanted, Rows
        <5> QED
          BY <2>1, <3>3, <5>2, <5>3, <5>1
      <4> HIDE DEF x
      <4> QED
        BY <2>1, <2>3, <3>3, <4>1, WrittenIsRow
    <3> QED
      BY <3>1, <3>2, <3>3
  <2>5. ASSUME NEW q \in Requests PROVE CallTracked(q)'
    BY <2>0, <2>2, <2>5 DEF Tracked, CallsTracked, CallTracked
  <2>6. CallsTracked'
    BY <2>5 DEF CallsTracked
  <2>7. RowsTracked'
    <3>1. ASSUME NEW i \in Requests
          PROVE  /\ row'[i].pid \in {NoPid, Proc(i)}
                 /\ started[i] = 0 => row'[i].pid = NoPid
                 /\ row'[i].status = "pending" => started[i] = 0
                 /\ started[i] <= 1
      BY <2>1, <2>3, <2>4 DEF Tracked, RowsTracked
    <3> QED
      BY <2>0, <3>1 DEF RowsTracked
  <2>8. LiveTracked'
    BY <2>0 DEF Tracked, LiveTracked
  <2>9. ASSUME NEW w \in Workers PROVE WorkerTracked(w)'
    <3>1. pc[w] \notin {"idle", "sweep"} /\ row'[task[w]].status = "pending"
            => row[task[w]].status = "pending"
      BY <2>3, <2>4 DEF Typed, Busy
    <3> QED
      BY <2>0, <2>2, <3>1 DEF Tracked, WorkersTracked, WorkerTracked, BeforeStart, CheckPcs
  <2>10. WorkersTracked'
    BY <2>9 DEF WorkersTracked
  <2>11. NoOrphanProcess'
    <3>1. ASSUME NEW p \in live, Exists(p.of)'
          PROVE  \/ row'[p.of].pid = p
                 \/ \E w \in Workers : proc[w] = p /\ pc[w] = "record"
      <4>1. p.of \in Requests /\ p = Proc(p.of)
        BY <1>0 DEF Tracked, LiveTracked, TypeOK, Procs
      <4>2. CASE p.of # t
        BY <2>3, <3>1, <4>1, <4>2 DEF Tracked, NoOrphanProcess, Exists
      <4>3. CASE p.of = t
        <5>1. row'[t].status \notin {"absent", "deleted"}
          BY <3>1, <4>3 DEF Exists
        <5>2. Exists(t)
          BY <2>3, <5>1 DEF Exists
        <5>3. Exists(t)'
          BY <2>0, <5>1 DEF Exists
        <5>4. row'[t].pid = row[t].pid \/ row[t].pid # p
          BY <2>4, <4>1, <4>3, <5>3
        <5> QED
          BY <4>1, <4>3, <5>2, <5>4 DEF Tracked, NoOrphanProcess
      <4> QED
        BY <4>2, <4>3
    <3> QED
      BY <2>0, <3>1 DEF NoOrphanProcess
  <2> QED
    BY <2>6, <2>7, <2>8, <2>10, <2>11 DEF Tracked
<1>4. ASSUME NEW call \in Operations, NEW i \in Requests, LoadForCall(r, call, i)
      PROVE  Tracked'
  <2>0. /\ UNCHANGED <<row, started, pc, task, proc>> /\ live' = live \ {row[i].pid}
    BY <1>4 DEF LoadForCall, Kill
  <2>1. /\ op'[r] = call /\ call # "restart" /\ target'[r] = i /\ seen'[r] = row[i]
        /\ \A q \in Requests \ {r} : /\ phase'[q] = phase[q] /\ op'[q] = op[q]
                                     /\ target'[q] = target[q] /\ seen'[q] = seen[q]
        /\ \A w \in Workers : seen'[w] = seen[w]
    BY <1>0, <1>4 DEF LoadForCall, Load, TypeOK
  <2>2. row[i].pid = NoPid \/ (row[i].pid = Proc(i) /\ started[i] = 1)
    <3>1. CASE row[i].pid = NoPid
      BY <3>1
    <3>2. CASE row[i].pid # NoPid
      <4>1. row[i].pid = Proc(i) /\ started[i] # 0
        BY <3>2 DEF Tracked, RowsTracked
      <4>2. started[i] \in Nat /\ started[i] <= 1
        BY <1>0 DEF Tracked, RowsTracked, TypeOK
      <4>3. started[i] = 1
        BY <4>1, <4>2
      <4> QED
        BY <4>1, <4>3
    <3> QED
      BY <3>1, <3>2
  <2>3. ASSUME NEW q \in Requests PROVE CallTracked(q)'
    <3>1. CASE q = r
      BY <2>0, <2>1, <2>2, <3>1 DEF CallTracked
    <3>2. CASE q # r
      BY <2>0, <2>1, <3>2 DEF CallTracked, Tracked, CallsTracked
    <3> QED
      BY <3>1, <3>2
  <2>4. CallsTracked'
    BY <2>3 DEF CallsTracked
  <2>5. RowsTracked' /\ LiveTracked'
    BY <2>0 DEF Tracked, RowsTracked, LiveTracked
  <2>6. ASSUME NEW w \in Workers PROVE WorkerTracked(w)'
    BY <2>0, <2>1, <2>6 DEF Tracked, WorkersTracked, WorkerTracked, BeforeStart, CheckPcs
  <2>7. WorkersTracked'
    BY <2>6 DEF WorkersTracked
  <2>8. NoOrphanProcess'
    BY <2>0 DEF Tracked, NoOrphanProcess, Exists
  <2> QED
    BY <2>4, <2>5, <2>7, <2>8 DEF Tracked
<1> QED
  BY <1>1, <1>2, <1>3, <1>4 DEF RequestStep

LEMMA EnvironmentTracked ==
    ASSUME Typed, Tracked, (\E p \in live : ProcessExits(p)) \/ (\E p \in zombies : Reap(p)) \/ LockExpires \/ UNCHANGED vars
    PROVE  Tracked'
<1>1. /\ UNCHANGED <<row, started, phase, op, target, pc, task, proc, seen>>
      /\ live' \subseteq live
  BY DEF ProcessExits, Reap, LockExpires, Kill, vars, apiVars, workerVars
<1>2. CallsTracked' /\ LiveTracked'
  BY <1>1, KeepTracked
<1>3. RowsTracked' /\ WorkersTracked' /\ NoOrphanProcess'
  BY <1>1 DEF Tracked, RowsTracked, WorkersTracked, WorkerTracked, NoOrphanProcess, Exists
<1> QED
  BY <1>2, <1>3 DEF Tracked

LEMMA InitTracked == Init => Tracked
<1> SUFFICES ASSUME Init PROVE Tracked
  OBVIOUS
<1>1. CallsTracked /\ LiveTracked /\ NoOrphanProcess
  BY DEF Init, CallsTracked, CallTracked, LiveTracked, NoOrphanProcess
<1>2. RowsTracked /\ WorkersTracked
  BY DEF Init, RowsTracked, WorkersTracked, WorkerTracked, BeforeStart, CheckPcs, NoRow
<1> QED
  BY <1>1, <1>2 DEF Tracked

\* Faults are never undone.
LEMMA NextTracked ==
    ASSUME NEW worker, Workers = {worker}, "restart" \notin Operations, ~AutoRecover,
           Typed, Known, faults = 0 => Tracked, [Next]_vars, faults' = 0
    PROVE  Tracked'
<1> USE WorkspaceAssumption
<1>1. faults = 0
  <2>1. faults' = faults \/ faults' = faults + 1
    BY DEF Next, vars, apiVars, AcquireLock, RequestStep, FindActive, InsertInstance, EnqueueLaunch,
           CommitCall, LoadForCall, LaunchStep, LoadInstance, CheckCancelled, CancelNow, Prepare,
           StartProcess, RecordProcess, ProbeReady, BecomeRunning, LaunchFails, SweepStep,
           VisitInstance, Heartbeat, DeclareCrashed, Recover, Purge, BeginSweep, FindStale,
           WorkerDies, TakeTask, ProcessExits, Reap, LockExpires
  <2> QED
    BY <2>1 DEF Typed, TypeOK
<1>2. \A w \in Workers : ~WorkerDies(w)
  BY <1>1 DEF WorkerDies
<1>3. worker \in Workers
  OBVIOUS
<1> QED
  BY <1>1, <1>2, <1>3, RequestTracked, LaunchTracked, SweepTracked, BeginTracked,
     EnvironmentTracked DEF Next

\* With one worker, and until something fails, no process is left behind: neither by the
\* launch that started it nor by a stop, cancel, delete, sweep or purge that clears the
\* pid, however they overlap.  A restart is excluded because a call that loaded the row of
\* the earlier launch may clear the pid of the later one.
THEOREM NoOrphanBeforeFault ==
    ASSUME NEW worker, Workers = {worker}, "restart" \notin Operations, ~AutoRecover
    PROVE  Spec => [](faults = 0 => NoOrphanProcess)
<1> DEFINE Inv == Typed /\ Known /\ (faults = 0 => Tracked)
<1>1. Init => Inv
  BY InitTyped, InitKnown, InitTracked
<1>2. Inv /\ [Next]_vars => Inv'
  BY NextTyped, NextKnown, NextTracked
<1>3. Inv => (faults = 0 => NoOrphanProcess)
  BY DEF Tracked
<1> QED
  BY <1>1, <1>2, <1>3, PTL DEF Spec

\* The same where nothing fails at all.
THEOREM NoOrphanProcessHolds ==
    ASSUME NEW worker, Workers = {worker}, "restart" \notin Operations, ~AutoRecover, MaxFaults = 0
    PROVE  Spec => []NoOrphanProcess
<1>1. TypeOK /\ (faults = 0 => NoOrphanProcess) => NoOrphanProcess
  BY DEF TypeOK
<1>2. Spec => []TypeOK
  BY TypeCorrect
<1>3. Spec => [](faults = 0 => NoOrphanProcess)
  BY NoOrphanBeforeFault
<1> QED
  BY <1>1, <1>2, <1>3, PTL

=============================================================================
