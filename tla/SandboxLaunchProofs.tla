------------------------- MODULE SandboxLaunchProofs -------------------------
(***************************************************************************)
(* The sandbox of a repository, for any number of requests, launches and   *)
(* periods: what a row can be, what a commit may say of it, and that no    *)
(* container is left behind while requests come one at a time.             *)
(*                                                                         *)
(* NoStraySandbox is about the moments between two requests.  Its          *)
(* strengthening (Account) follows the container through a request: it is  *)
(* the tracked one until it is stopped, none until the next one runs, and  *)
(* then the one that the request has started.                              *)
(***************************************************************************)
EXTENDS SandboxLaunch, FiniteSetTheorems, TLAPS

RowType ==
    [status : Statuses \ {"launching", "running"},
     container : {NoContainer} \cup Containers, started : 0..MaxTime]

\* Where a request is before it has changed anything, and after.
Before == {"replace", "expire", "stop"}
Between == {"flush", "run", "write expired", "write stopped"}

CallType ==
    [at : {"idle"}]
    \cup [at : Before \cup Between, kind : {"launch", "read", "stop"}, loaded : SUBSET RowType]
    \cup [at : {"health"}, kind : {"launch"}, loaded : SUBSET RowType,
          container : Containers, started : 0..MaxTime]

Types ==
    /\ row \in SUBSET RowType /\ (row = {} \/ \E r \in row : row = {r})
    /\ lock \in SUBSET Calls
    /\ call \in [Calls -> CallType]
    /\ live \in {NoContainer} \cup Containers
    /\ launches \in 0..MaxLaunches /\ now \in 0..MaxTime /\ begun \in 0..MaxCalls
    /\ alone \in BOOLEAN

\* Reads and stops work on a row that exists, and no request deletes it.
RowStays ==
    \A c \in Calls :
        call[c].at \in {"expire", "write expired", "stop", "write stopped"} => row # {}

\* While requests come one at a time: only c is served, and where its container is.
Served(c) == \A d \in Calls \ {c} : call[d].at = "idle"
Place(c) ==
    /\ call[c].at \in Before => call[c].loaded = row
    /\ call[c].at \in Between => live = NoContainer
    /\ call[c].at = "health" => live \in {NoContainer, call[c].container}
Kept == live # NoContainer => Tracked(row) /\ Row.container = live

Account ==
    alone => \A c \in Calls :
        /\ call[c].at # "idle" => Served(c)
        /\ Place(c)
        /\ Served(c) /\ call[c].at \in Before \cup {"idle"} => Kept

-----------------------------------------------------------------------------
(* Types.                                                                  *)

LEMMA TheRow == ASSUME NEW r, row = {r} PROVE Row = r
BY DEF Row

LEMMA RowOfType == ASSUME Types, row # {} PROVE Row \in RowType /\ row = {Row}
BY DEF Types, Row

LEMMA HeldType == ASSUME Types PROVE [Held EXCEPT !.status = "failed"] \in RowType
<1>1. CASE row = {}
  BY <1>1 DEF Types, Held, RowType, Statuses, RunningStatuses
<1>2. CASE row # {}
  BY <1>2, RowOfType DEF Held, RowType, Statuses, RunningStatuses
<1>3. QED
  BY <1>1, <1>2

\* What a commit of fields does to the types.
LEMMA CommitType ==
    ASSUME Types, RowStays, NEW c \in Calls, NEW fields \in RowType, Commit(c, fields),
           now' = now, begun' = begun, live' \in {NoContainer} \cup Containers,
           launches' \in 0..MaxLaunches, alone' \in BOOLEAN
    PROVE  Types' /\ RowStays'
BY DEF Types, RowStays, Commit, Release, Idle, CallType

LEMMA RollBackType ==
    ASSUME Types, RowStays, NEW c \in Calls, RollBack(c),
           now' = now, begun' = begun, live' = live, launches' = launches, alone' \in BOOLEAN
    PROVE  Types' /\ RowStays'
BY DEF Types, RowStays, RollBack, Release, Idle, CallType

\* A move of a request.
LEMMA GotoType ==
    ASSUME Types, NEW c \in Calls, call[c].at \in Before \cup Between,
           NEW next \in Before \cup Between, Goto(c, next)
    PROVE  /\ call' \in [Calls -> CallType]
           /\ call'[c].at = next /\ call'[c].loaded = call[c].loaded
           /\ \A d \in Calls \ {c} : call'[d] = call[d]
BY DEF Types, Goto, CallType, Before, Between

LEMMA SafeStopType ==
    ASSUME Types, NEW container, SafeStop(container)
    PROVE  live' \in {NoContainer} \cup Containers /\ alone' \in BOOLEAN
BY DEF Types, SafeStop
LEMMA BeginType ==
    ASSUME Types, RowStays, NEW c \in Calls, NEW kind \in {"launch", "read", "stop"},
           NEW next \in Before, next # "replace" => row # {}, Begin(c, kind, next)
    PROVE  Types' /\ RowStays'
<1>1. call' = [call EXCEPT ![c] = [at |-> next, kind |-> kind, loaded |-> row]]
  BY DEF Begin
<1>2. [at |-> next, kind |-> kind, loaded |-> row] \in CallType
  BY DEF Types, CallType
<1>3. call' \in [Calls -> CallType]
  BY <1>1, <1>2 DEF Types
<1>4. begun' \in 0..MaxCalls /\ alone' \in BOOLEAN /\ UNCHANGED <<now, row, lock, live, launches>>
  BY LaunchAssumption DEF Begin, Types
<1>5. Types'
  BY <1>3, <1>4 DEF Types
<1>6. RowStays'
  BY <1>1, <1>4 DEF Types, RowStays, Before
<1>7. QED
  BY <1>5, <1>6

LEMMA TypesInit == Init => Types /\ RowStays
<1> SUFFICES ASSUME Init PROVE Types /\ RowStays
  OBVIOUS
<1>1. call \in [Calls -> CallType] /\ \A c \in Calls : call[c].at = "idle"
  BY DEF Init, Idle, CallType
<1>2. 0 \in 0..MaxLaunches /\ 0 \in 0..MaxTime /\ 0 \in 0..MaxCalls
  BY LaunchAssumption
<1>3. QED
  BY <1>1, <1>2 DEF Init, Types, RowStays, NoContainer

LEMMA LaunchSteps ==
    ASSUME Types, RowStays, NEW c \in Calls,
           \/ LoadForLaunch(c) \/ StopPrevious(c) \/ FlushLaunching(c) \/ Unavailable(c)
           \/ Refused(c) \/ RunContainer(c) \/ RunTimesOut(c) \/ Probe(c) \/ ProbeTimesOut(c)
    PROVE  Types' /\ RowStays'
<1>1. CASE LoadForLaunch(c)
  BY <1>1, BeginType DEF LoadForLaunch, Before
<1>2. CASE StopPrevious(c)
  <2>1. Goto(c, "flush") /\ call[c].at = "replace" /\ UNCHANGED <<begun, now, row, lock, launches>>
    BY <1>2 DEF StopPrevious
  <2>2. live' \in {NoContainer} \cup Containers /\ alone' \in BOOLEAN
    BY <1>2, SafeStopType DEF StopPrevious, Types
  <2>3. /\ call' \in [Calls -> CallType] /\ call'[c].at = "flush"
        /\ \A d \in Calls \ {c} : call'[d] = call[d]
    BY <2>1, GotoType DEF Before, Between
  <2>4. QED
    BY <2>1, <2>2, <2>3 DEF Types, RowStays
<1>3. CASE FlushLaunching(c)
  <2>1. CASE RollBack(c)
    BY <1>3, <2>1, RollBackType DEF FlushLaunching, Types
  <2>2. CASE lock' = {c} /\ Goto(c, "run") /\ UNCHANGED row
    <3>1. /\ call' \in [Calls -> CallType] /\ call'[c].at = "run"
          /\ \A d \in Calls \ {c} : call'[d] = call[d]
      BY <1>3, <2>2, GotoType DEF FlushLaunching, Before, Between
    <3>2. QED
      BY <1>3, <2>2, <3>1 DEF FlushLaunching, Types, RowStays
  <2>3. QED
    BY <1>3, <2>1, <2>2 DEF FlushLaunching
<1>4. CASE Unavailable(c)
  BY <1>4, HeldType, CommitType DEF Unavailable, Fail, Types
<1>5. CASE Refused(c)
  BY <1>5, RollBackType DEF Refused, Types
<1>6. CASE RunContainer(c)
  <2>1. /\ launches' \in 1..MaxLaunches /\ live' = launches'
        /\ UNCHANGED <<begun, now, row, lock, alone>>
    BY <1>6, LaunchAssumption DEF RunContainer, Types
  <2>2. call[c].loaded \in SUBSET RowType
    BY <1>6 DEF RunContainer, Types, CallType
  <2>3. [at |-> "health", kind |-> "launch", loaded |-> call[c].loaded,
         container |-> launches', started |-> now] \in CallType
    BY <2>1, <2>2 DEF Types, CallType, Containers
  <2>4. call' = [call EXCEPT ![c] =
                    [at |-> "health", kind |-> "launch", loaded |-> call[c].loaded,
                     container |-> launches', started |-> now]]
    BY <1>6 DEF RunContainer
  <2>5. call' \in [Calls -> CallType]
    BY <2>3, <2>4 DEF Types
  <2>6. Types'
    BY <2>1, <2>5, LaunchAssumption DEF Types, Containers
  <2>7. RowStays'
    BY <2>1, <2>4 DEF Types, RowStays
  <2>8. QED
    BY <2>6, <2>7
<1>7. CASE RunTimesOut(c)
  <2>1. live' \in {NoContainer} \cup Containers /\ launches' \in 0..MaxLaunches
    BY <1>7, LaunchAssumption DEF RunTimesOut, Types, Containers
  <2>2. Commit(c, [Held EXCEPT !.status = "failed"]) /\ alone' = FALSE /\ UNCHANGED <<begun, now>>
    BY <1>7 DEF RunTimesOut, Fail
  <2>3. QED
    BY <2>1, <2>2, HeldType, CommitType
<1>8. ASSUME call[c].at = "health", NEW status \in {"healthy", "unhealthy", "failed"}
      PROVE  [status |-> status, started |-> call[c].started, container |-> call[c].container]
                \in RowType
  BY <1>8 DEF Types, CallType, RowType, Statuses, RunningStatuses, Before, Between
<1>9. CASE Probe(c)
  <2>1. PICK status \in {"healthy", "unhealthy"} : Commit(c, Launched(c, status))
    BY <1>9 DEF Probe
  <2>2. Launched(c, status) \in RowType
    BY <1>8, <1>9, <2>1 DEF Probe, Launched
  <2>3. QED
    BY <1>9, <2>1, <2>2, CommitType DEF Probe, Types
<1>10. CASE ProbeTimesOut(c)
  <2>1. [Launched(c, "running") EXCEPT !.status = "failed"] \in RowType
    BY <1>8, <1>10 DEF ProbeTimesOut, Launched
  <2>2. QED
    BY <1>10, <2>1, CommitType DEF ProbeTimesOut, Fail, Types
<1>11. QED
  BY <1>1, <1>2, <1>3, <1>4, <1>5, <1>6, <1>7, <1>9, <1>10

LEMMA OtherSteps ==
    ASSUME Types, RowStays,
           \/ \E c \in Calls :
                 \/ LoadForRead(c) \/ LoadForStop(c) \/ StopExpired(c) \/ WriteExpired(c)
                 \/ StopTracked(c) \/ WriteStopped(c) \/ Die(c)
           \/ Exit \/ Tick \/ UNCHANGED vars
    PROVE  Types' /\ RowStays'
<1>1. ASSUME NEW c \in Calls, LoadForRead(c) \/ LoadForStop(c) PROVE Types' /\ RowStays'
  <2>1. row # {} /\ \E kind \in {"launch", "read", "stop"}, next \in Before : Begin(c, kind, next)
    BY <1>1 DEF LoadForRead, LoadForStop, Expired, Before
  <2>2. QED
    BY <2>1, BeginType
<1>2. ASSUME NEW c \in Calls, StopExpired(c) \/ StopTracked(c) PROVE Types' /\ RowStays'
  <2>1. PICK next \in {"write expired", "write stopped"} :
           /\ Goto(c, next) /\ call[c].at \in {"expire", "stop"}
           /\ UNCHANGED <<begun, now, row, lock, launches>>
    BY <1>2 DEF StopExpired, StopTracked
  <2>2. live' \in {NoContainer} \cup Containers /\ alone' \in BOOLEAN
    BY <1>2, SafeStopType DEF StopExpired, StopTracked, Types
  <2>3. /\ call' \in [Calls -> CallType] /\ call'[c].at = next
        /\ \A d \in Calls \ {c} : call'[d] = call[d]
    BY <2>1, GotoType DEF Before, Between
  <2>4. row # {}
    BY <2>1 DEF RowStays
  <2>5. QED
    BY <2>1, <2>2, <2>3, <2>4 DEF Types, RowStays
<1>3. ASSUME NEW c \in Calls, WriteExpired(c) PROVE Types' /\ RowStays'
  <2>1. row # {}
    BY <1>3 DEF WriteExpired, RowStays
  <2>2. [Row EXCEPT !.status = "expired"] \in RowType
    BY <2>1, RowOfType DEF RowType, Statuses
  <2>3. row' \in SUBSET RowType /\ \E r \in row' : row' = {r}
    BY <1>3, <2>2 DEF WriteExpired
  <2>4. call' \in [Calls -> CallType]
    BY <1>3, <2>3 DEF WriteExpired, Types, Idle, CallType, Before
  <2>5. QED
    BY <1>3, <2>3, <2>4 DEF WriteExpired, Types, RowStays
<1>4. ASSUME NEW c \in Calls, WriteStopped(c) PROVE Types' /\ RowStays'
  <2>1. row # {}
    BY <1>4 DEF WriteStopped, RowStays
  <2>2. Row \in RowType /\ [Row EXCEPT !.status = "stopped"] \in RowType
    BY <2>1, RowOfType DEF RowType, Statuses
  <2>3. QED
    BY <1>4, <2>2, CommitType DEF WriteStopped, Types
<1>5. ASSUME NEW c \in Calls, Die(c) PROVE Types' /\ RowStays'
  BY <1>5, RollBackType DEF Die
<1>6. CASE Exit
  BY <1>6 DEF Exit, Types, RowStays
<1>7. CASE Tick
  <2>1. now' \in 0..MaxTime
    BY <1>7, LaunchAssumption DEF Tick, Types
  <2>2. QED
    BY <1>7, <2>1 DEF Tick, Types, RowStays
<1>8. CASE UNCHANGED vars
  BY <1>8 DEF vars, Types, RowStays
<1>9. QED
  BY <1>1, <1>2, <1>3, <1>4, <1>5, <1>6, <1>7, <1>8

LEMMA TypesNext == Types /\ RowStays /\ [Next]_vars => Types' /\ RowStays'
BY LaunchSteps, OtherSteps DEF Next, Proceed

LEMMA TypesAlways == Sandbox => [](Types /\ RowStays)
BY TypesInit, TypesNext, PTL DEF Sandbox

\* A row has a status that a commit can leave, and names a container that was
\* started; at most one row per repository (workspace_launcher.py:243-292).
THEOREM LaunchTypesHold == Sandbox => []LaunchTypeOK
<1>1. Types => LaunchTypeOK
  <2> SUFFICES ASSUME Types PROVE Cardinality(row) <= 1
    BY DEF Types, LaunchTypeOK, RowType
  <2>1. CASE row = {}
    BY <2>1, FS_EmptySet
  <2>2. CASE \E r \in row : row = {r}
    BY <2>2, FS_Singleton
  <2>3. QED
    BY <2>1, <2>2 DEF Types
<1>2. QED
  BY <1>1, TypesAlways, PTL

-----------------------------------------------------------------------------
(* What a commit says.                                                     *)

LEMMA CommitStep ==
    ASSUME Types, RowStays, Next, NEW r \in row' \ row
    PROVE  /\ r.status \notin {"launching", "running"}
           /\ r.status \in RunningStatuses =>
                 \E c \in Calls : /\ call[c].at = "health" /\ call'[c].at = "idle"
                                  /\ r.container = call[c].container
<1>1. r.status \notin {"launching", "running"}
  BY TypesNext DEF Types, RowType
<1>2. ASSUME NEW c \in Calls, NEW fields, Commit(c, fields), fields.status \notin RunningStatuses
      PROVE  r.status \notin RunningStatuses
  BY <1>2 DEF Commit
<1>3. [Held EXCEPT !.status = "failed"].status = "failed"
  <2>1. "status" \in DOMAIN Held
    BY RowOfType DEF Held, RowType
  <2>2. QED
    BY <2>1
<1>4. ASSUME NEW c \in Calls, Unavailable(c) \/ RunTimesOut(c)
      PROVE  r.status \notin RunningStatuses
  BY <1>2, <1>3, <1>4 DEF Unavailable, RunTimesOut, Fail, RunningStatuses
<1>5. ASSUME NEW c \in Calls, ProbeTimesOut(c)
      PROVE  r.status \notin RunningStatuses
  BY <1>2, <1>5 DEF ProbeTimesOut, Fail, Launched, RunningStatuses
<1>6. ASSUME NEW c \in Calls, Probe(c)
      PROVE  /\ call[c].at = "health" /\ call'[c].at = "idle"
             /\ r.container = call[c].container
  BY <1>6 DEF Probe, Commit, Launched, Idle, Types
<1>7. ASSUME NEW c \in Calls, WriteExpired(c)
      PROVE  r.status \notin RunningStatuses
  <2>1. Row \in RowType
    BY <1>7, RowOfType DEF WriteExpired, RowStays
  <2>2. [Row EXCEPT !.status = "expired"].status = "expired"
    BY <2>1 DEF RowType
  <2>3. QED
    BY <1>7, <2>2 DEF WriteExpired, RunningStatuses
<1>8. ASSUME NEW c \in Calls, WriteStopped(c)
      PROVE  r.status \notin RunningStatuses
  <2>1. Row \in RowType /\ row = {Row}
    BY <1>8, RowOfType DEF WriteStopped, RowStays
  <2>2. [Row EXCEPT !.status = "stopped"].status = "stopped"
    BY <2>1 DEF RowType
  <2>3. QED
    BY <1>8, <2>1, <2>2 DEF WriteStopped, Commit, RunningStatuses
<1>9. CASE row' = row
  BY <1>9
<1>10. CASE /\ row' # row
            /\ \E c \in Calls :
                  \/ Unavailable(c) \/ RunTimesOut(c) \/ ProbeTimesOut(c) \/ Probe(c)
                  \/ WriteExpired(c) \/ WriteStopped(c)
  BY <1>1, <1>4, <1>5, <1>6, <1>7, <1>8, <1>10
<1>11. QED
  BY <1>9, <1>10 DEF Next, Proceed, LoadForLaunch, LoadForRead, LoadForStop, Begin, StopPrevious,
         FlushLaunching, Refused, RunContainer, RollBack, StopExpired, StopTracked, Die, Exit, Tick

\* No commit leaves a row launching or running, and a row becomes healthy or
\* unhealthy only by the launch whose container it names, whatever requests
\* overlap and whenever one dies (workspace_launcher.py:243, 268-292).
THEOREM CommitsSettle == Sandbox => CommitsAreSettled
<1>1. Types /\ RowStays /\ [Next]_vars =>
          [\A r \in row' \ row :
              /\ r.status \notin {"launching", "running"}
              /\ r.status \in RunningStatuses =>
                    \E c \in Calls : /\ call[c].at = "health" /\ call'[c].at = "idle"
                                     /\ r.container = call[c].container]_row
  BY CommitStep DEF vars
<1>2. QED
  BY <1>1, TypesAlways, PTL DEF Sandbox, CommitsAreSettled

-----------------------------------------------------------------------------
(* No stray container.                                                     *)

\* A step of the only request that is served.
LEMMA OneMoves ==
    ASSUME NEW c \in Calls, Served(c), \A d \in Calls \ {c} : call'[d] = call[d],
           Place(c)', call'[c].at \in Before \cup {"idle"} => Kept'
    PROVE  Account'
<1>1. Served(c)'
  BY DEF Served
<1>2. ASSUME NEW d \in Calls
      PROVE  /\ call'[d].at # "idle" => Served(d)'
             /\ Place(d)'
             /\ Served(d)' /\ call'[d].at \in Before \cup {"idle"} => Kept'
  <2>1. CASE d = c
    BY <1>1, <2>1
  <2>2. CASE d # c
    <3>1. call'[d].at = "idle" /\ Place(d)'
      <4>1. call'[d].at = "idle"
        BY <2>2 DEF Served
      <4>2. QED
        BY <4>1 DEF Place, Before, Between
    <3>2. Served(d)' => call'[c].at = "idle"
      BY <2>2 DEF Served
    <3>3. Served(d)' => Kept'
      BY <3>2
    <3>4. QED
      BY <3>1, <3>3
  <2>3. QED
    BY <2>1, <2>2
<1>3. QED
  BY <1>2 DEF Account

LEMMA BeginAccount ==
    ASSUME Types, Account, NEW c \in Calls, NEW kind, NEW next \in Before, Begin(c, kind, next),
           alone'
    PROVE  Account'
<1>1. alone /\ Served(c) /\ call[c].at = "idle"
  BY DEF Begin, Served
<1>2. Kept /\ Kept'
  BY <1>1 DEF Account, Begin, Kept, Tracked, Row
<1>3. call'[c].at = next /\ call'[c].loaded = row /\ \A d \in Calls \ {c} : call'[d] = call[d]
  BY DEF Begin, Types
<1>4. Place(c)'
  BY <1>3 DEF Begin, Place, Before, Between
<1>5. QED
  BY <1>1, <1>2, <1>3, <1>4, OneMoves

\* The container that is tracked is stopped, or none is tracked.
LEMMA StopAccount ==
    ASSUME Types, RowStays, Account, NEW c \in Calls, call[c].at \in Before, alone',
           NEW next \in Between, Goto(c, next), row' = row,
           IF Tracked(call[c].loaded) THEN SafeStop(Container(call[c].loaded))
                                      ELSE UNCHANGED <<live, alone>>
    PROVE  Account'
<1>1. alone
  BY DEF SafeStop
<1>2. Served(c) /\ Place(c) /\ Kept
  BY <1>1 DEF Account, Before
<1>3. live' = NoContainer
  <2>1. call[c].loaded = row
    BY <1>2 DEF Place
  <2>2. CASE Tracked(row)
    <3>1. live = NoContainer \/ live = Container(row)
      BY <1>2, <2>2 DEF Kept, Row, Container
    <3>2. QED
      BY <2>1, <2>2, <3>1 DEF SafeStop
  <2>3. CASE ~Tracked(row)
    BY <1>2, <2>1, <2>3 DEF Kept
  <2>4. QED
    BY <2>2, <2>3
<1>4. call'[c].at = next /\ \A d \in Calls \ {c} : call'[d] = call[d]
  BY GotoType
<1>5. Place(c)' /\ Kept'
  BY <1>3, <1>4 DEF Place, Kept, Before, Between
<1>6. QED
  BY <1>2, <1>4, <1>5, OneMoves

\* A request ends, and nothing runs that is not tracked.
LEMMA EndAccount ==
    ASSUME Types, Account, NEW c \in Calls, alone, call[c].at # "idle",
           call' = [call EXCEPT ![c] = Idle], Kept'
    PROVE  Account'
<1>1. Served(c)
  BY DEF Account
<1>2. call'[c].at = "idle" /\ \A d \in Calls \ {c} : call'[d] = call[d]
  BY DEF Types, Idle
<1>3. Place(c)'
  BY <1>2 DEF Place, Before, Between
<1>4. QED
  BY <1>1, <1>2, <1>3, OneMoves

LEMMA AccountLaunch ==
    ASSUME Types, RowStays, Account, alone', NEW c \in Calls,
           \/ LoadForLaunch(c) \/ StopPrevious(c) \/ FlushLaunching(c) \/ Unavailable(c)
           \/ Refused(c) \/ RunContainer(c) \/ RunTimesOut(c) \/ Probe(c) \/ ProbeTimesOut(c)
    PROVE  Account'
<1>1. CASE LoadForLaunch(c)
  BY <1>1, BeginAccount DEF LoadForLaunch, Before
<1>2. CASE StopPrevious(c)
  BY <1>2, StopAccount DEF StopPrevious, Before, Between
<1>3. CASE FlushLaunching(c)
  <2>1. alone /\ live' = live /\ live = NoContainer
    BY <1>3 DEF FlushLaunching, Account, Place, Between
  <2>2. Kept'
    BY <2>1 DEF Kept
  <2>3. CASE RollBack(c)
    BY <1>3, <2>1, <2>2, <2>3, EndAccount DEF FlushLaunching, RollBack
  <2>4. CASE Goto(c, "run")
    <3>1. call'[c].at = "run" /\ \A d \in Calls \ {c} : call'[d] = call[d]
      BY <1>3, <2>4, GotoType DEF FlushLaunching, Before, Between
    <3>2. Place(c)' /\ Served(c)
      BY <1>3, <2>1, <3>1 DEF FlushLaunching, Account, Place, Before, Between
    <3>3. QED
      BY <2>2, <3>1, <3>2, OneMoves
  <2>5. QED
    BY <1>3, <2>3, <2>4 DEF FlushLaunching
<1>4. CASE Unavailable(c) \/ Refused(c)
  <2>1. alone /\ live' = live /\ call[c].at = "run"
    BY <1>4 DEF Unavailable, Refused
  <2>2. Kept'
    BY <2>1 DEF Account, Place, Between, Kept
  <2>3. QED
    BY <1>4, <2>1, <2>2, EndAccount DEF Unavailable, Refused, Fail, Commit, RollBack
<1>5. CASE RunContainer(c)
  <2>1. alone /\ call[c].at = "run" /\ live' = launches'
    BY <1>5 DEF RunContainer
  <2>2. /\ call'[c].at = "health" /\ call'[c].container = launches'
        /\ \A d \in Calls \ {c} : call'[d] = call[d]
    BY <1>5 DEF RunContainer, Types
  <2>3. Served(c) /\ Place(c)'
    BY <2>1, <2>2 DEF Account, Place, Before, Between
  <2>4. QED
    BY <2>2, <2>3, OneMoves DEF Before
<1>6. CASE RunTimesOut(c) \/ ProbeTimesOut(c)
  BY <1>6 DEF RunTimesOut, ProbeTimesOut
<1>7. CASE Probe(c)
  <2>1. alone /\ call[c].at = "health" /\ live' = live
    BY <1>7 DEF Probe
  <2>2. live \in {NoContainer, call[c].container} /\ call[c].container # NoContainer
    <3>1. live \in {NoContainer, call[c].container}
      BY <2>1 DEF Account, Place
    <3>2. call[c].container \in Containers
      BY <2>1 DEF Types, CallType, Before, Between
    <3>3. QED
      BY <3>1, <3>2, LaunchAssumption DEF Containers, NoContainer
  <2>3. PICK status \in {"healthy", "unhealthy"} : Commit(c, Launched(c, status))
    BY <1>7 DEF Probe
  <2>4. row' = {Launched(c, status)} /\ Row' = Launched(c, status)
    BY <2>3 DEF Commit, Row
  <2>5. Tracked(row') /\ Row'.container = call[c].container
    BY <2>2, <2>4 DEF Tracked, Launched, RunningStatuses
  <2>6. Kept'
    BY <2>1, <2>2, <2>5 DEF Kept
  <2>7. QED
    BY <2>1, <2>3, <2>6, EndAccount DEF Commit
<1>8. QED
  BY <1>1, <1>2, <1>3, <1>4, <1>5, <1>6, <1>7

LEMMA AccountOthers ==
    ASSUME Types, RowStays, Account, alone',
           \/ \E c \in Calls :
                 \/ LoadForRead(c) \/ LoadForStop(c) \/ StopExpired(c) \/ WriteExpired(c)
                 \/ StopTracked(c) \/ WriteStopped(c) \/ Die(c)
           \/ Exit \/ Tick \/ UNCHANGED vars
    PROVE  Account'
<1>1. ASSUME NEW c \in Calls, LoadForRead(c) \/ LoadForStop(c) PROVE Account'
  <2>1. PICK next \in Before : Begin(c, "read", next) \/ Begin(c, "stop", next)
    BY <1>1 DEF LoadForRead, LoadForStop, Before
  <2>2. QED
    BY <2>1, BeginAccount
<1>2. ASSUME NEW c \in Calls, StopTracked(c) PROVE Account'
  BY <1>2, StopAccount DEF StopTracked, Before, Between
<1>3. ASSUME NEW c \in Calls, StopExpired(c) PROVE Account'
  <2>1. alone /\ call[c].at = "expire" /\ row' = row
    BY <1>3 DEF StopExpired, SafeStop
  <2>2. Served(c) /\ call[c].loaded = row /\ Kept
    BY <2>1 DEF Account, Place, Before
  <2>3. live' = NoContainer
    BY <1>3, <2>2 DEF StopExpired, SafeStop, Kept, Row, Container
  <2>4. call'[c].at = "write expired" /\ \A d \in Calls \ {c} : call'[d] = call[d]
    BY <1>3, GotoType DEF StopExpired, Before, Between
  <2>5. Place(c)' /\ Kept'
    BY <2>3, <2>4 DEF Place, Kept, Before, Between
  <2>6. QED
    BY <2>2, <2>4, <2>5, OneMoves
<1>4. ASSUME NEW c \in Calls, WriteExpired(c) PROVE Account'
  <2>1. alone /\ call[c].at = "write expired" /\ live' = live
    BY <1>4 DEF WriteExpired
  <2>2. Served(c) /\ live = NoContainer
    BY <2>1 DEF Account, Place, Between
  <2>3. Kept'
    BY <2>1, <2>2 DEF Kept
  <2>4. /\ call'[c].at = "idle" \/ (call'[c].at = "stop" /\ call'[c].loaded = row')
        /\ \A d \in Calls \ {c} : call'[d] = call[d]
    BY <1>4 DEF WriteExpired, Types, Idle
  <2>5. Place(c)'
    BY <2>4 DEF Place, Before, Between
  <2>6. QED
    BY <2>2, <2>3, <2>4, <2>5, OneMoves
<1>5. ASSUME NEW c \in Calls, WriteStopped(c) PROVE Account'
  <2>1. alone /\ call[c].at = "write stopped" /\ live' = live
    BY <1>5 DEF WriteStopped
  <2>2. Kept'
    BY <2>1 DEF Account, Place, Between, Kept
  <2>3. QED
    BY <1>5, <2>1, <2>2, EndAccount DEF WriteStopped, Commit
<1>6. ASSUME NEW c \in Calls, Die(c) PROVE Account'
  BY <1>6 DEF Die
<1>7. CASE Exit
  <2>1. alone /\ live' = NoContainer /\ call' = call /\ row' = row
    BY <1>7 DEF Exit
  <2>2. QED
    BY <2>1 DEF Account, Served, Place, Kept
<1>8. CASE Tick \/ UNCHANGED vars
  <2>1. UNCHANGED <<alone, live, call, row>>
    BY <1>8 DEF Tick, vars
  <2>2. QED
    BY <2>1 DEF Account, Served, Place, Kept, Row
<1>9. QED
  BY <1>1, <1>2, <1>3, <1>4, <1>5, <1>6, <1>7, <1>8

LEMMA AccountNext == Types /\ RowStays /\ Account /\ [Next]_vars => Account'
<1> SUFFICES ASSUME Types, RowStays, Account, [Next]_vars PROVE Account'
  OBVIOUS
<1>1. CASE alone'
  BY <1>1, AccountLaunch, AccountOthers DEF Next, Proceed
<1>2. CASE ~alone'
  BY <1>2 DEF Account
<1>3. QED
  BY <1>1, <1>2

LEMMA AccountInit == Init => Account
BY DEF Init, Account, Served, Place, Kept, Idle, Before, Between

\* While requests come one at a time, none dies and Docker answers, what runs
\* between two requests is what the row tracks (workspace_launcher.py:213-300).
THEOREM NoneIsStray == Sandbox => []NoStraySandbox
<1>1. Account => NoStraySandbox
  <2> SUFFICES ASSUME Account, alone, live # NoContainer, \A c \in Calls : call[c].at = "idle"
               PROVE  Tracked(row) /\ Row.container = live
    BY DEF NoStraySandbox
  <2>1. PICK d \in Calls : Served(d) /\ call[d].at = "idle"
    BY LaunchAssumption DEF Served
  <2>2. QED
    BY <2>1 DEF Account, Kept
<1>2. QED
  BY <1>1, TypesInit, TypesNext, AccountInit, AccountNext, PTL DEF Sandbox

=============================================================================
