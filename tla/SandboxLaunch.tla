---------------------------- MODULE SandboxLaunch ----------------------------
(***************************************************************************)
(* The sandbox of one repository (workspace_launcher.py): the row that     *)
(* tracks it, the container that Docker runs for it, and the requests that *)
(* launch, stop and read it.                                               *)
(*                                                                         *)
(* A request loads the row once and works on that copy.  What it changes   *)
(* becomes visible at its commit; a launch holds the row lock from its     *)
(* first flush on, through every call of the runtime.  A request that ends *)
(* in an AppError or dies is rolled back, what it did to the container is  *)
(* not.  Every container of a repository has the same name, so Docker runs *)
(* one at a time; --rm makes an ended one disappear.  A runtime call that  *)
(* takes over 120 seconds is given up, whether it takes effect or not.     *)
(***************************************************************************)
EXTENDS Naturals, FiniteSets

CONSTANTS
    Calls,          \* the requests being served
    SourceInjected, \* whether a source provider is given.  Production gives
                    \* none, and the materializer then refuses the default
                    \* branch that _materialize names as its target
    MaxLaunches,    \* bound: launches
    MaxCalls,       \* bound: requests
    MaxTime         \* bound: periods of one TTL

ASSUME LaunchAssumption ==
    /\ Calls # {}
    /\ SourceInjected \in BOOLEAN
    /\ MaxLaunches \in Nat /\ MaxCalls \in Nat /\ MaxTime \in Nat

NoContainer == 0
Containers == 1..MaxLaunches

RunningStatuses == {"running", "healthy", "unhealthy"}
Statuses == RunningStatuses \cup {"launching", "failed", "stopped", "expired"}

VARIABLES
    row,        \* the set of rows: none, or [status, container, started]
    lock,       \* the call in whose transaction the row is locked, or none: a set
    call,       \* [Calls -> record]: what a request does and what it loaded
    live,       \* the container that Docker runs, or NoContainer
    launches,   \* containers started so far
    now,        \* the clock, in periods of one TTL
    begun,      \* requests so far
    alone       \* auxiliary: no two requests overlapped, none died, no runtime call failed

vars == <<begun, now, row, lock, call, live, launches, alone>>

Idle == [at |-> "idle"]

Init ==
    /\ row = {} /\ lock = {} /\ call = [c \in Calls |-> Idle]
    /\ live = NoContainer /\ launches = 0 /\ now = 0 /\ begun = 0
    /\ alone = TRUE

Row == CHOOSE r \in row : TRUE

Tracked(rows) == \E r \in rows : r.container # NoContainer /\ r.status \in RunningStatuses

\* _is_expired: more than a TTL after its start.
Expired(rows) == \E r \in rows : r.status \in RunningStatuses /\ now > r.started

Container(rows) == (CHOOSE r \in rows : TRUE).container

Begin(c, kind, next) ==
    /\ call[c].at = "idle" /\ begun < MaxCalls
    /\ begun' = begun + 1
    /\ call' = [call EXCEPT ![c] = [at |-> next, kind |-> kind, loaded |-> row]]
    /\ alone' = (alone /\ \A d \in Calls : call[d].at = "idle")
    /\ UNCHANGED <<now, row, lock, live, launches>>

Goto(c, next) == call' = [call EXCEPT ![c].at = next]

\* _safe_stop: a failure is logged and ignored, the container may be left.
SafeStop(container) ==
    \/ /\ live' = IF live = container THEN NoContainer ELSE live
       /\ UNCHANGED alone
    \/ /\ live = container
       /\ UNCHANGED live
       /\ alone' = FALSE

Release(c) == lock' = lock \ {c}

\* Seeded: the session is not closed when the request fails.
SeededRollBack(c) ==
    /\ call' = [call EXCEPT ![c] = Idle]
    /\ UNCHANGED <<lock, row>>

\* The transaction ends without a commit: AppError, or the end of the session.
RollBack(c) ==
    /\ Release(c)
    /\ call' = [call EXCEPT ![c] = Idle]
    /\ UNCHANGED row

\* A commit; a column that the session did not change keeps its value in the row.
Commit(c, fields) ==
    /\ row' = {fields}
    /\ Release(c)
    /\ call' = [call EXCEPT ![c] = Idle]

-----------------------------------------------------------------------------
(* launch                                                                  *)

LoadForLaunch(c) == Begin(c, "launch", "replace")

\* A sandbox that the loaded row tracks as running is stopped first.
StopPrevious(c) ==
    /\ call[c].at = "replace"
    /\ Goto(c, "flush")
    /\ IF Tracked(call[c].loaded) THEN SafeStop(Container(call[c].loaded)) ELSE UNCHANGED <<live, alone>>
    /\ UNCHANGED <<begun, now, row, lock, launches>>

\* Seeded: the new status is committed, so that the page can show it.
SeededFlushLaunching(c) ==
    /\ call[c].at = "flush" /\ lock = {}
    /\ IF call[c].loaded = {} /\ row # {}
       THEN RollBack(c)
       ELSE /\ row' = {[status |-> "launching", container |-> NoContainer, started |-> now]}
            /\ lock' = {c} /\ Goto(c, "run")
    /\ UNCHANGED <<begun, now, live, launches, alone>>

\* The flush of "launching": it waits for the lock, and of two first launches
\* the second insert fails on the unique index.
FlushLaunching(c) ==
    /\ call[c].at = "flush" /\ lock = {}
    /\ IF call[c].loaded = {} /\ row # {}
       THEN RollBack(c)
       ELSE lock' = {c} /\ Goto(c, "run") /\ UNCHANGED row
    /\ UNCHANGED <<begun, now, live, launches, alone>>

\* The row as the session of a launch has it before the container runs.
Held == IF row = {} THEN [status |-> "launching", container |-> NoContainer, started |-> now] ELSE Row

\* _fail.
Fail(c, fields) == Commit(c, [fields EXCEPT !.status = "failed"])

Unavailable(c) ==
    /\ call[c].at = "run"
    /\ Fail(c, Held)
    /\ UNCHANGED <<begun, now, live, launches, alone>>

\* No source, an image that does not exist, a port or the name in use: an
\* AppError, which is raised again.
Refused(c) ==
    /\ call[c].at = "run"
    /\ RollBack(c)
    /\ UNCHANGED <<begun, now, live, launches, alone>>

\* docker run returned the id of the container.
RunContainer(c) ==
    /\ call[c].at = "run"
    /\ SourceInjected
    /\ live = NoContainer /\ launches < MaxLaunches
    /\ launches' = launches + 1 /\ live' = launches'
    /\ call' = [call EXCEPT ![c] = [at |-> "health", kind |-> "launch", loaded |-> @.loaded,
                                    container |-> launches', started |-> now]]
    /\ UNCHANGED <<begun, now, row, lock, alone>>

\* docker run was given up: its container may run nevertheless.
RunTimesOut(c) ==
    /\ call[c].at = "run"
    /\ SourceInjected
    /\ \/ UNCHANGED <<live, launches>>
       \/ /\ live = NoContainer /\ launches < MaxLaunches
          /\ launches' = launches + 1 /\ live' = launches'
    /\ Fail(c, Held)
    /\ alone' = FALSE
    /\ UNCHANGED <<begun, now>>

\* Seeded: the identifier of the container is set once.
SeededLaunched(c, status) ==
    [status |-> status, started |-> call[c].started,
     container |-> IF Tracked(call[c].loaded) THEN Held.container ELSE call[c].container]

\* The columns of a launch whose container runs; both are new values.
Launched(c, status) ==
    [status |-> status, started |-> call[c].started, container |-> call[c].container]

\* The health command answered: commit.
Probe(c) ==
    /\ call[c].at = "health"
    /\ \E status \in {"healthy", "unhealthy"} : Commit(c, Launched(c, status))
    /\ UNCHANGED <<begun, now, live, launches, alone>>

\* It did not answer in time, or its output does not decode: the launch fails with
\* the container running.
ProbeTimesOut(c) ==
    /\ call[c].at = "health"
    /\ Fail(c, Launched(c, "running"))
    /\ alone' = FALSE
    /\ UNCHANGED <<begun, now, live, launches>>

-----------------------------------------------------------------------------
(* get_optional and stop                                                   *)

\* A read that finds nothing overdue returns and changes nothing.
LoadForRead(c) == Expired(row) /\ Begin(c, "read", "expire")

LoadForStop(c) == row # {} /\ Begin(c, "stop", IF Expired(row) THEN "expire" ELSE "stop")

\* _expire: the container of the loaded row is stopped, then the row written.
StopExpired(c) ==
    /\ call[c].at = "expire"
    /\ Goto(c, "write expired")
    /\ SafeStop(Container(call[c].loaded))
    /\ UNCHANGED <<begun, now, row, lock, launches>>

\* The commit of "expired"; a stop reloads the row and goes on.
WriteExpired(c) ==
    /\ call[c].at = "write expired" /\ lock = {}
    /\ row' = {[Row EXCEPT !.status = "expired"]}
    /\ call' = [call EXCEPT ![c] = IF @.kind = "read" THEN Idle
                                   ELSE [at |-> "stop", kind |-> "stop", loaded |-> row']]
    /\ UNCHANGED <<begun, now, lock, live, launches, alone>>

\* Seeded: the status is set to stopped before it is asked for.
SeededStopTracked(c) ==
    /\ call[c].at = "stop"
    /\ Goto(c, "write stopped")
    /\ UNCHANGED <<begun, now, row, lock, live, launches, alone>>

StopTracked(c) ==
    /\ call[c].at = "stop"
    /\ Goto(c, "write stopped")
    /\ IF Tracked(call[c].loaded) THEN SafeStop(Container(call[c].loaded)) ELSE UNCHANGED <<live, alone>>
    /\ UNCHANGED <<begun, now, row, lock, launches>>

\* The commit of "stopped": no column changes when that is what was loaded.
WriteStopped(c) ==
    /\ call[c].at = "write stopped" /\ lock = {}
    /\ Commit(c, IF \E r \in call[c].loaded : r.status = "stopped" THEN Row
                 ELSE [Row EXCEPT !.status = "stopped"])
    /\ UNCHANGED <<begun, now, live, launches, alone>>

-----------------------------------------------------------------------------
(* The process, the container and the clock                                *)

\* The API process dies in the middle of a request.
Die(c) ==
    /\ call[c].at # "idle"
    /\ RollBack(c)
    /\ alone' = FALSE
    /\ UNCHANGED <<begun, now, live, launches>>

\* The program in the container ends.
Exit ==
    /\ live # NoContainer
    /\ live' = NoContainer
    /\ UNCHANGED <<begun, now, row, lock, call, launches, alone>>

Tick ==
    /\ now < MaxTime
    /\ now' = now + 1
    /\ UNCHANGED <<begun, row, lock, call, live, launches, alone>>

Proceed(c) ==
    \/ StopPrevious(c) \/ FlushLaunching(c)
    \/ Unavailable(c) \/ Refused(c) \/ RunContainer(c) \/ RunTimesOut(c)
    \/ Probe(c) \/ ProbeTimesOut(c)
    \/ StopExpired(c) \/ WriteExpired(c) \/ StopTracked(c) \/ WriteStopped(c)

Next ==
    \/ \E c \in Calls :
          \/ LoadForLaunch(c) \/ LoadForRead(c) \/ LoadForStop(c)
          \/ Proceed(c)
          \/ Die(c)
    \/ Exit
    \/ Tick

Sandbox == Init /\ [][Next]_vars

\* The statements of a request follow each other, every runtime call has a
\* timeout, and the database grants a lock that is released.
FairSandbox == Sandbox /\ \A c \in Calls : WF_vars(Proceed(c))

-----------------------------------------------------------------------------
LaunchTypeOK ==
    /\ row \in SUBSET [status : Statuses \ {"launching", "running"},
                       container : {NoContainer} \cup Containers, started : 0..MaxTime]
    /\ Cardinality(row) <= 1
    /\ lock \in SUBSET Calls
    /\ live \in {NoContainer} \cup Containers
    /\ launches \in 0..MaxLaunches /\ now \in 0..MaxTime /\ begun \in 0..MaxCalls
    /\ alone \in BOOLEAN

\* While requests come one at a time and Docker answers, no container is left
\* that nobody will stop: between two requests, what runs is what the row tracks
\* as running ("Stop and clean up the running sandbox", repositories.py:251),
\* whatever launches were refused or found no runtime in between.
NoStraySandbox ==
    (alone /\ live # NoContainer /\ \A c \in Calls : call[c].at = "idle")
        => (Tracked(row) /\ Row.container = live)

\* What the commits say, whatever overlaps: the row is never left launching or
\* running, which only the request that set it would take back; it becomes
\* healthy or unhealthy only by a launch, and then names the container which
\* that launch started and probed (workspace_launcher.py:243, 268-292).
CommitsAreSettled ==
    [][\A r \in row' \ row :
          /\ r.status \notin {"launching", "running"}
          /\ r.status \in RunningStatuses =>
                \E c \in Calls : /\ call[c].at = "health" /\ call'[c].at = "idle"
                                 /\ r.container = call[c].container]_row

\* Every request ends: whoever waits for the row lock gets it, since its holder
\* waits only for runtime calls that time out (workspace_launcher.py:84-85).
RequestsEnd == \A c \in Calls : call[c].at # "idle" ~> call[c].at = "idle"
=============================================================================
