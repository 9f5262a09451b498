---------------------------- MODULE ScanAnalysis ----------------------------
(***************************************************************************)
(* The analyses of the scans of one organization (scan_service.py:84-201), *)
(* by several workers at a time: the choice of the AI provider, the budget *)
(* of AI requests that all workers share through Redis, the rules that an  *)
(* administrator edits meanwhile, and the reports that are published.      *)
(* ScanPipeline has what happens around an analysis: messages, statuses,   *)
(* deaths of workers and failures of GitHub before the report.             *)
(*                                                                         *)
(* The budget is checked and then counted: two reads, and an INCR of the   *)
(* counter of the day and of that of the month, each a request of its own  *)
(* to Redis.  The keys are those of the moment of the check.               *)
(***************************************************************************)
EXTENDS ScanReport

CONSTANTS
    Workers,            \* worker processes
    Scans,              \* scans of the organization
    Entries,            \* [Scans -> sets of files as GitHub lists them]
    Lines,              \* [Scans -> Nat]: lines changed
    Configurations,     \* settings: [enabled, provider, keys, maxFiles, maxDiff, daily,
                        \* monthly]; a limit of 0 is none
    MonthOf,            \* [Days -> Months]
    CompanyRules,       \* the rules at first
    ArchitectureRules,
    Patterns,           \* what an administrator enters as a pattern
    SemgrepAnswers,     \* findings of Semgrep, as sequences of severities
    AIAnswers,          \* findings in a usable answer of the provider
    MaxEdits,           \* bound: rules created or updated
    MaxTries,           \* bound: attempts at one scan
    MaxFaults           \* bound: requests to Redis that fail

Days == DOMAIN MonthOf
Keys == ({"day"} \X Days) \cup ({"month"} \X {MonthOf[d] : d \in Days})

\* The table of company rules.
CompanyRule ==
    [kind : RuleKinds, pattern : STRING, severity : Severities \cup {"info"}, active : BOOLEAN]

ASSUME WorkersAssumption == IsFiniteSet(Workers) /\ Workers # {}
ASSUME LimitsAssumption ==
    \A c \in Configurations : c.daily \in Nat /\ c.monthly \in Nat
ASSUME CalendarAssumption == 1 \in Days
ASSUME RulesAssumption ==     \* CompanyRuleCreate let them in
    /\ CompanyRules \subseteq CompanyRule
    /\ \A r \in CompanyRules : r.kind = "regex" => r.pattern # Unclosed
    /\ Patterns \subseteq STRING
ASSUME BoundsAssumption == MaxEdits \in Nat /\ MaxTries \in Nat /\ MaxFaults \in Nat

VARIABLES
    config,     \* the settings of the deployment
    rules,      \* [company, architecture]: the tables
    today,      \* the date
    count,      \* [Keys -> Nat]: the counters in Redis
    asked,      \* auxiliary [Keys -> Nat]: requests to the provider, by the keys
                \* of their check
    faults,     \* requests to Redis that failed
    edits,      \* rules created or updated
    spoilt,     \* auxiliary: some update left a rule that does not compile
    job,        \* [Scans -> [state, tries, raised]]; raised, auxiliary: the attempts
                \* at which Semgrep raised
    work,       \* [Workers -> record]: an analysis under way
    held,       \* [Workers -> SUBSET Keys]: the keys of its check of the budget
    due,        \* [Workers -> SUBSET Keys]: those it has still to increment
    reports     \* what was published: a set of records

budget == <<today, count, asked, faults, held, due>>
admin == <<rules, edits, spoilt>>
vars == <<config, admin, budget, job, work, reports>>

Idle == [at |-> "idle"]
NoReview == [enabled |-> FALSE, findings |-> <<>>]

Init ==
    /\ config \in Configurations
    /\ rules = [company |-> CompanyRules, architecture |-> ArchitectureRules]
    /\ today = 1
    /\ count = [k \in Keys |-> 0] /\ asked = [k \in Keys |-> 0]
    /\ faults = 0 /\ edits = 0 /\ spoilt = FALSE
    /\ job = [s \in Scans |-> [state |-> "waiting", tries |-> 0, raised |-> 0]]
    /\ work = [w \in Workers |-> Idle]
    /\ held = [w \in Workers |-> {}] /\ due = [w \in Workers |-> {}]
    /\ reports = {}

Files(s) == {Fetched(e) : e \in Entries[s]}

Goto(w, next) == work' = [work EXCEPT ![w] = next]
Now(w, at) == [at |-> at, scan |-> work[w].scan, semgrep |-> work[w].semgrep]

-----------------------------------------------------------------------------
(* The provider.                                                           *)

Providers == {"groq", "openai", "anthropic"}
AUTO_ORDER == <<"groq", "openai", "anthropic">>

\* AIProviderRouter.select: in the automatic mode the first that has a key.
Selected ==
    IF config.provider = "auto"
    THEN LET keyed == SelectSeq(AUTO_ORDER, LAMBDA p : p \in config.keys)
         IN IF keyed = <<>> THEN None ELSE Head(keyed)
    ELSE IF config.provider \in Providers THEN config.provider ELSE None

\* Only Groq is implemented: the others raise, and so does Groq without a key.
CanAnswer == Selected = "groq" /\ "groq" \in config.keys

-----------------------------------------------------------------------------
(* One attempt at a scan.                                                  *)

\* AIReviewService selects its provider in its constructor.
Constructed == Selected # None

\* SemgrepService.scan_files: a tool that is missing, or late, or prints what is no
\* JSON, is a finding; one that prints nothing, whatever its exit code, found nothing.
SemgrepFindings(s) ==
    IF Analysable(Files(s)) THEN SemgrepAnswers \cup {ToolFinding, <<>>} ELSE {<<>>}

\* The services are built, the files are fetched, and Semgrep runs on them.
Take(w, s) ==
    /\ job[s].state = "waiting" /\ work[w].at = "idle"
    /\ Constructed
    /\ job' = [job EXCEPT ![s] =
                  [state |-> "running", tries |-> @.tries + 1, raised |-> @.raised]]
    /\ \E findings \in SemgrepFindings(s) :
          Goto(w, [at |-> "budget", scan |-> s, semgrep |-> findings])
    /\ UNCHANGED <<config, admin, budget, reports>>

\* Any other failure of it (an OSError, output that does not decode, JSON that is no
\* object) is raised out of the attempt, which is retried while there are retries.
SemgrepRaises(w, s) ==
    /\ job[s].state = "waiting" /\ work[w].at = "idle"
    /\ Constructed /\ Analysable(Files(s))
    /\ job' = [job EXCEPT ![s] =
                  [state |-> IF @.tries + 1 < MaxTries THEN "waiting" ELSE "dead",
                   tries |-> @.tries + 1, raised |-> @.raised + 1]]
    /\ UNCHANGED <<config, admin, budget, work, reports>>

\* select raises in the constructor, before the task's try: no retry follows.
NeverStarts(s) ==
    /\ job[s].state = "waiting" /\ ~Constructed
    /\ job' = [job EXCEPT ![s].state = "lost"]
    /\ UNCHANGED <<config, admin, budget, work, reports>>

\* The review is over, with its result.
Reviewed(w, review) ==
    [at |-> "company", scan |-> work[w].scan, semgrep |-> work[w].semgrep, ai |-> review]

\* The size of a diff is counted in lines.
TooLarge(s) ==
    \/ config.maxFiles > 0 /\ Cardinality(Files(s)) > config.maxFiles
    \/ config.maxDiff > 0 /\ Lines[s] > config.maxDiff

\* The review is off, or the pull request is too large for it.
SkipReview(w) ==
    /\ work[w].at = "budget"
    /\ ~config.enabled \/ TooLarge(work[w].scan)
    /\ Goto(w, Reviewed(w, NoReview))
    /\ UNCHANGED <<config, admin, budget, job, reports>>

Reviewable(w) == work[w].at = "budget" /\ config.enabled /\ ~TooLarge(work[w].scan)

Limited == config.daily > 0 \/ config.monthly > 0
KeysOf(day) == {<<"day", day>>, <<"month", MonthOf[day]>>}
Limit(key) == IF key[1] = "day" THEN config.daily ELSE config.monthly

\* Seeded: a limit of n lets n + 1 requests through.
SeededExhausted(key) == Limit(key) > 0 /\ count[key] > Limit(key)

Exhausted(key) == Limit(key) > 0 /\ count[key] >= Limit(key)
SpentToday == \E k \in KeysOf(today) : Exhausted(k)

\* No limit: nothing is counted.
Unlimited(w) ==
    /\ Reviewable(w) /\ ~Limited
    /\ Goto(w, Now(w, "ask"))
    /\ UNCHANGED <<config, admin, budget, job, reports>>

\* Seeded: a spent budget is an error of the attempt.
SeededRefuseReview(w) ==
    /\ Reviewable(w) /\ Limited /\ SpentToday
    /\ job' = [job EXCEPT ![work[w].scan].state =
                  IF job[work[w].scan].tries < MaxTries THEN "waiting" ELSE "dead"]
    /\ Goto(w, Idle)
    /\ UNCHANGED <<config, admin, budget, reports>>

\* check_and_record, up to the two reads: a limit is reached.
RefuseReview(w) ==
    /\ Reviewable(w) /\ Limited /\ SpentToday
    /\ Goto(w, Reviewed(w, NoReview))
    /\ UNCHANGED <<config, admin, budget, job, reports>>

\* The reads found no limit reached.
CheckBudget(w) ==
    /\ Reviewable(w) /\ Limited /\ ~SpentToday
    /\ held' = [held EXCEPT ![w] = KeysOf(today)]
    /\ due' = [due EXCEPT ![w] = KeysOf(today)]
    /\ Goto(w, Now(w, "count"))
    /\ UNCHANGED <<config, admin, today, count, asked, faults, job, reports>>

\* The counter that is next: that of the day first.
NextDue(w) ==
    {k \in due[w] : k[1] = "day" \/ \A j \in due[w] : j[1] = "month"}

\* INCR; after the second one the request goes ahead.
Count(w) ==
    /\ work[w].at = "count"
    /\ \E k \in NextDue(w) :
          /\ count' = [count EXCEPT ![k] = @ + 1]
          /\ due' = [due EXCEPT ![w] = @ \ {k}]
          /\ Goto(w, Now(w, IF due[w] = {k} THEN "ask" ELSE "count"))
    /\ UNCHANGED <<config, admin, today, asked, faults, held, job, reports>>

\* A request to Redis fails: the review goes ahead.
RedisFails(w) ==
    /\ faults < MaxFaults /\ faults' = faults + 1
    /\ Goto(w, Now(w, "ask"))
    /\ due' = [due EXCEPT ![w] = {}]
    /\ UNCHANGED <<config, admin, today, asked, job, reports>>

\* A read.
ReadFails(w) ==
    /\ Reviewable(w) /\ Limited
    /\ held' = [held EXCEPT ![w] = KeysOf(today)]
    /\ UNCHANGED count
    /\ RedisFails(w)

\* An INCR that was not made, or that was made and not answered.
CountFails(w) ==
    /\ work[w].at = "count"
    /\ \/ UNCHANGED count
       \/ \E k \in NextDue(w) : count' = [count EXCEPT ![k] = @ + 1]
    /\ UNCHANGED held
    /\ RedisFails(w)

\* The provider is asked; an answer that is no JSON object counts as none.
Ask(w) ==
    /\ work[w].at = "ask"
    /\ asked' = [k \in Keys |-> IF k \in held[w] THEN asked[k] + 1 ELSE asked[k]]
    /\ held' = [held EXCEPT ![w] = {}]
    /\ \/ Goto(w, Reviewed(w, NoReview))
       \/ /\ CanAnswer
          /\ \E items \in AIAnswers :
                Goto(w, Reviewed(w, [enabled |-> TRUE, findings |-> NormalizeFindings(items)]))
    /\ UNCHANGED <<config, admin, today, count, faults, due, job, reports>>

\* The company rules are read and evaluated.
CheckCompanyRules(w) ==
    /\ work[w].at = "company"
    /\ ~CannotCheck(rules.company, Files(work[w].scan))
    /\ Goto(w, [at |-> "architecture", scan |-> work[w].scan, semgrep |-> work[w].semgrep,
                ai |-> work[w].ai, company |-> Active(rules.company)])
    /\ UNCHANGED <<config, admin, budget, job, reports>>

\* An attempt that raised is retried while there are retries.
Again(s) == [job EXCEPT ![s].state = IF job[s].tries < MaxTries THEN "waiting" ELSE "dead"]

\* re.search raises on a pattern that an update left: the attempt fails.
RuleRaises(w) ==
    /\ work[w].at = "company"
    /\ CannotCheck(rules.company, Files(work[w].scan))
    /\ job' = Again(work[w].scan)
    /\ Goto(w, Idle)
    /\ UNCHANGED <<config, admin, budget, reports>>

\* The architecture rules, the score and the conclusion; the check run is
\* completed.  If the comment or the commit after it fails, the next attempt
\* analyses and publishes again.
Publish(w) ==
    LET s == work[w].scan
        files == Files(s)
        company == CompanyViolations(work[w].company, files)
        architecture == ArchitectureViolations(rules.architecture, files)
    IN /\ work[w].at = "architecture"
       /\ reports' = reports \cup
             {[scan |-> s, company |-> work[w].company,
               architecture |-> Active(rules.architecture),
               conclusion |-> Report(files, Lines[s], work[w].semgrep, work[w].ai,
                                     company, architecture).conclusion]}
       /\ job' \in {[job EXCEPT ![s].state = "completed"], Again(s)}
       /\ Goto(w, Idle)
       /\ UNCHANGED <<config, admin, budget>>

-----------------------------------------------------------------------------
(* The administrator and the calendar.                                     *)

Save(table) ==
    /\ edits < MaxEdits /\ edits' = edits + 1
    /\ rules' = table
    /\ UNCHANGED <<config, budget, job, work, reports>>

Compiles(pattern) == pattern # Unclosed

\* CompanyRuleCreate compiles the pattern of a regex.
CreateCompanyRule ==
    /\ \E kind \in RuleKinds, p \in Patterns :
          /\ kind = "regex" => Compiles(p)
          /\ Save([rules EXCEPT !.company =
                      @ \cup {[kind |-> kind, pattern |-> p, severity |-> "medium", active |-> TRUE]}])
    /\ UNCHANGED spoilt

\* CompanyRuleUpdate does not.  (Its other fields, is_active among them, say no
\* more than a pattern that nothing has.)
UpdateCompanyRule ==
    \E r \in rules.company, p \in Patterns :
        /\ Save([rules EXCEPT !.company = (@ \ {r}) \cup {[r EXCEPT !.pattern = p]}])
        /\ spoilt' = (spoilt \/ (r.kind = "regex" /\ ~Compiles(p)))

\* ArchitectureRuleCreate and ArchitectureRuleUpdate compile what is imported.
CreateArchitectureRule ==
    /\ \E source, p \in {q \in Patterns : Compiles(q)} :
          Save([rules EXCEPT !.architecture =
                   @ \cup {[source |-> source, pattern |-> p, severity |-> "high", active |-> TRUE]}])
    /\ UNCHANGED spoilt
UpdateArchitectureRule ==
    /\ \E r \in rules.architecture, p \in {q \in Patterns : Compiles(q)} :
          Save([rules EXCEPT !.architecture = (@ \ {r}) \cup {[r EXCEPT !.pattern = p]}])
    /\ UNCHANGED spoilt

Midnight ==
    /\ today + 1 \in Days
    /\ today' = today + 1
    /\ UNCHANGED <<config, admin, count, asked, faults, held, due, job, work, reports>>

Proceed(w) ==
    \/ SkipReview(w) \/ Unlimited(w) \/ RefuseReview(w) \/ CheckBudget(w)
    \/ ReadFails(w) \/ Count(w) \/ CountFails(w) \/ Ask(w)
    \/ CheckCompanyRules(w) \/ RuleRaises(w) \/ Publish(w)

Next ==
    \/ \E w \in Workers : Proceed(w) \/ \E s \in Scans : Take(w, s) \/ SemgrepRaises(w, s)
    \/ \E s \in Scans : NeverStarts(s)
    \/ CreateCompanyRule \/ UpdateCompanyRule
    \/ CreateArchitectureRule \/ UpdateArchitectureRule
    \/ Midnight

Analysis == Init /\ [][Next]_vars

-----------------------------------------------------------------------------
\* The workers check the shared budget and count afterwards, so they overshoot
\* it, but never by more than the others that can be between the two: a day (or
\* month) sees at most its limit of requests to the provider, one more for each
\* other worker, and one more for each request to Redis that failed, across
\* retries and midnights (limits.py:58-75, which lets a failure of Redis pass).
BudgetHolds ==
    \A k \in Keys :
        Limit(k) > 0 => asked[k] <= Limit(k) + (Cardinality(Workers) - 1) + faults

\* A merge is blocked or not by the rules alone: two reports on one scan made
\* with the same rules agree, whatever Semgrep, the provider and the budget gave
\* to each attempt (production-architecture.md:60, check_run_report.py:20-31).
BlockingIsStable ==
    \A r1, r2 \in reports :
        (r1.scan = r2.scan /\ r1.company = r2.company /\ r1.architecture = r2.architecture)
            => (r1.conclusion = "failure" <=> r2.conclusion = "failure")

\* A scan that is over has a report, unless some rule does not compile or Semgrep
\* raised at each and every attempt ("retryable task failures until the worker
\* exhausts retries", production-architecture.md:46).  Nothing else costs an attempt
\* before the report: not Redis, a spent budget ("the scan still completes", :50), an
\* unusable answer, a provider that is not implemented, nor Semgrep missing, late or
\* printing no JSON, which the code makes findings of (semgrep_service.py:49-89).  A
\* scan whose services cannot be built is not begun at all: it is neither.
ScansReport ==
    ~spoilt => \A s \in Scans :
        \/ job[s].state \notin {"completed", "dead"}
        \/ \E r \in reports : r.scan = s
        \/ /\ job[s].state = "dead"
           /\ job[s].raised = job[s].tries /\ job[s].tries >= MaxTries
=============================================================================
