----------------------------- MODULE SetupChain -----------------------------
(***************************************************************************)
(* The planning rows of one repository and the calls that write them: the  *)
(* four POST endpoints of api/v1/repositories.py and the generate method   *)
(* behind each.  A generate call has three steps that other calls and      *)
(* pushes may come between:                                                *)
(*   Read    it reads what it derives from: the manifests from GitHub, or  *)
(*           the rows of the artefacts before it                           *)
(*   Load    it derives the fields and loads the row they go to, if any    *)
(*   Commit  it writes, and commits                                        *)
(* The session writes only the columns that differ from the row as it was  *)
(* loaded, so what two calls write can end up in one row.  A row is unique *)
(* for its repository: of two first calls the slower one fails.            *)
(*                                                                         *)
(* An analysis reads file after file, and a file that GitHub fails to give *)
(* counts as absent, as does a tree it fails to list.                      *)
(***************************************************************************)
EXTENDS WorkspacePlanning

CONSTANTS
    Calls,          \* the requests being served
    Histories,      \* what the repository may contain, push after push:
                    \* sequences of [files, tree, dna]
    MaxCalls,       \* bound: generate calls
    MaxUnread       \* bound: files, or trees, an analysis fails to read

ASSUME BoundsAssumption == MaxCalls \in Nat /\ MaxUnread \in Nat

\* What the repository contains at one time or another.
Snapshots == UNION {{h[i] : i \in DOMAIN h} : h \in Histories}

ASSUME HistoriesAssumption ==
    /\ Histories \subseteq Seq(Snapshots) \ {<<>>}
    /\ \A s \in Snapshots : s.files = [n \in DOMAIN s.files |-> s.files[n]]

Kinds == {"intent", "spec", "blueprint", "plan"}

\* The rows that a call of a kind reads, and the kinds computed from a kind.
Upstream(kind) ==
    CASE kind = "intent" -> {}
      [] kind = "spec" -> {"intent"}
      [] kind = "blueprint" -> {"intent", "spec"}
      [] kind = "plan" -> {"spec", "blueprint"}
Downstream(kind) ==
    CASE kind = "intent" -> {"spec", "blueprint", "plan"}
      [] kind = "spec" -> {"blueprint", "plan"}
      [] kind = "blueprint" -> {"plan"}
      [] kind = "plan" -> {}

VARIABLES
    repo,       \* the default branch and the DNA, as they are now
    ahead,      \* what later pushes will make of them
    row,        \* [Kinds -> SUBSET of records]: no row, or one
    call,       \* [Calls -> record]: where a call is and what it read
    begun,      \* calls begun so far
    fresh       \* auxiliary: the rows made from the repository as it is now,
                \* by calls that read everything and met no other writer

vars == <<begun, repo, ahead, row, call, fresh>>

Idle == [at |-> "idle"]

Init ==
    /\ \E h \in Histories : repo = Head(h) /\ ahead = Tail(h)
    /\ row = [k \in Kinds |-> {}]
    /\ call = [c \in Calls |-> Idle]
    /\ begun = 0 /\ fresh = {}

\* Another writer came between: the calls under way are not fresh any more.
Disturbed(calls) ==
    [c \in Calls |-> IF calls[c].at = "idle" THEN Idle ELSE [calls[c] EXCEPT !.clean = FALSE]]

\* A push replaces the contents of the default branch.
Push ==
    /\ ahead # <<>>
    /\ repo' = Head(ahead) /\ ahead' = Tail(ahead)
    /\ fresh' = {}
    /\ call' = Disturbed(call)
    /\ UNCHANGED <<row, begun>>

-----------------------------------------------------------------------------
Row(kind) == CHOOSE r \in row[kind] : TRUE

\* GitHubManifestFileProvider: the files it could read, and the tree or none.
Fetched(files, unread) == [n \in DOMAIN files \ unread |-> files[n]]

\* list_repository_tree: a tree that cannot be read is an empty one.
FetchedTrees == {repo.tree, {}}

\* POST setup-intent up to the end of the fetch.
ReadRepository(c) ==
    /\ call[c].at = "idle" /\ begun < MaxCalls
    /\ begun' = begun + 1
    /\ \E unread \in SUBSET DOMAIN repo.files, tree \in FetchedTrees :
          /\ Cardinality(unread) + (IF tree = repo.tree THEN 0 ELSE 1) <= MaxUnread
          /\ call' = [call EXCEPT ![c] =
                     [at |-> "read", kind |-> "intent",
                      fields |-> Intent(Fetched(repo.files, unread), tree, repo.dna),
                      clean |-> unread = {} /\ tree = repo.tree]]
    /\ UNCHANGED <<repo, ahead, row, fresh>>

\* A call that finds no upstream row is refused and changes nothing.
ReadRows(c, kind, fields) ==
    /\ call[c].at = "idle" /\ begun < MaxCalls
    /\ begun' = begun + 1
    /\ call' = [call EXCEPT ![c] = [at |-> "read", kind |-> kind, fields |-> fields,
                                    clean |-> Upstream(kind) \subseteq fresh]]
    /\ UNCHANGED <<repo, ahead, row, fresh>>

\* POST environment-spec.
ReadForSpec(c) ==
    /\ row["intent"] # {}
    /\ ReadRows(c, "spec", Spec(Row("intent")))

\* POST workspace-blueprint.
ReadForBlueprint(c) ==
    /\ row["spec"] # {}
    /\ ReadRows(c, "blueprint", Blueprint(Row("spec"), Row("intent"), repo.dna))

\* POST workspace-provision.
ReadForPlan(c) ==
    /\ row["blueprint"] # {}
    /\ ReadRows(c, "plan", Plan(Row("blueprint"), Row("spec")))

\* The select of the row to write, or of none.
Load(c) ==
    /\ call[c].at = "read"
    /\ call' = [call EXCEPT ![c] = [at |-> "loaded", kind |-> @.kind, fields |-> @.fields,
                                    clean |-> @.clean, loaded |-> row[@.kind]]]
    /\ UNCHANGED <<repo, ahead, row, begun, fresh>>

\* A column is written when it differs from what was loaded.
Column(now, loaded, new) == IF new # loaded THEN new ELSE now

\* Seeded: "if value: setattr(...)", so that nothing found leaves what was there.
SeededWritten(now, loaded, new) ==
    [f \in DOMAIN new |->
        IF f = "commands"
        THEN [s \in Slots |-> IF new[f][s] = NoCommand THEN now[f][s] ELSE new[f][s]]
        ELSE Column(now[f], loaded[f], new[f])]

\* setattr for every field, and the flush; each command has a column of its own.
Written(now, loaded, new) ==
    [f \in DOMAIN new |->
        IF f = "commands"
        THEN [s \in Slots |-> Column(now[f][s], loaded[f][s], new[f][s])]
        ELSE Column(now[f], loaded[f], new[f])]

\* The commit of the row the call loaded, or of a new one.
Save(c) ==
    LET kind == call[c].kind
        One(rows) == CHOOSE r \in rows : TRUE
    IN /\ call[c].at = "loaded"
       /\ call[c].loaded # {} \/ row[kind] = {}
       /\ row' = [row EXCEPT ![kind] =
                    {IF call[c].loaded = {} THEN call[c].fields
                     ELSE Written(One(row[kind]), One(call[c].loaded), call[c].fields)}]
       /\ fresh' = (fresh \ ({kind} \cup Downstream(kind)))
                   \cup (IF call[c].clean THEN {kind} ELSE {})
       /\ call' = Disturbed([call EXCEPT ![c] = Idle])
       /\ UNCHANGED <<repo, ahead, begun>>

\* Two calls found no row: the unique index makes the second insert an error.
Collide(c) ==
    /\ call[c].at = "loaded"
    /\ call[c].loaded = {} /\ row[call[c].kind] # {}
    /\ call' = [call EXCEPT ![c] = Idle]
    /\ UNCHANGED <<repo, ahead, row, begun, fresh>>

Next ==
    \/ Push
    \/ \E c \in Calls :
          \/ ReadRepository(c)
          \/ ReadForSpec(c)
          \/ ReadForBlueprint(c)
          \/ ReadForPlan(c)
          \/ Load(c)
          \/ Save(c)
          \/ Collide(c)

Chain == Init /\ [][Next]_vars

-----------------------------------------------------------------------------
\* The chain computed at once from the repository as it is.
Reference ==
    LET intent == Intent(repo.files, repo.tree, repo.dna)
        spec == Spec(intent)
        blueprint == Blueprint(spec, intent, repo.dna)
    IN [intent |-> {intent}, spec |-> {spec}, blueprint |-> {blueprint},
        plan |-> {Plan(blueprint, spec)}]

\* Regenerating in order after a change leaves nothing of the rows before: a
\* row made by calls that met no other writer is the one computed from the
\* repository alone, whatever half-read or mixed row it replaces (the upsert of
\* every field, setup_intent_reader.py:211-216 and its three siblings).
RegeneratedIsReference == \A k \in fresh : row[k] = Reference[k]

\* Whom a command comes from, the most binding first.
Rank(by) ==
    CASE by = "manifest" -> 1
      [] by = "CI" -> 2
      [] by = "README" -> 3
      [] by = "convention" -> 4
      [] by = None -> 5

\* A manifest that offers a command is never hidden by what is only quoted in a
\* workflow, by the README, or by a convention; and neither is a workflow that is
\* read by the README ("authoritative source", setup_intent_reader.py:519,
\* "lowest-priority textual fallback", :525).
DeclaredWins ==
    "intent" \in fresh =>
        LET offers == AllOffers(repo.files, SeenTree(repo.files, repo.tree, repo.dna))
        IN \A i \in DOMAIN offers :
              Rank(Row("intent").commands[offers[i].slot].by) <= Rank(offers[i].by)

\* A push that only adds files takes no command away that a file offers, nor
\* replaces it by a less binding one, save in the two ways in which the reader
\* lets one file hide another: the first workflow with a run: line makes it leave
\* aside what workflows without one quote (setup_intent_reader.py:617-620), and a
\* build.gradle with a text hides the build.gradle.kts beside it (:450), with its
\* Spring Boot command (:464-466).  Else the push may take away a convention only
\* (the static server, the defaults of a language), which gives way to the
\* manifest that arrives.
AddsFiles ==
    /\ repo # repo'
    /\ repo.dna = repo'.dna /\ repo.tree \subseteq repo'.tree
    /\ DOMAIN repo.files \subseteq DOMAIN repo'.files
    /\ \A n \in DOMAIN repo.files : repo.files[n] = repo'.files[n]
HidesNothing ==
    /\ ReadWorkflows(repo.files) \subseteq ReadWorkflows(repo'.files)
    /\ Gradle(repo.files) \subseteq Gradle(repo'.files)
DeclaredKept ==
    AddsFiles /\ HidesNothing =>
        LET before == Intent(repo.files, repo.tree, repo.dna).commands
            after == Intent(repo'.files, repo'.tree, repo'.dna).commands
        IN \A s \in Slots : before[s].by # "convention" => Rank(after[s].by) <= Rank(before[s].by)
AddingKeepsDeclared == [][DeclaredKept]_repo

\* A repository whose main language has defaults in the reader's table is never
\* planned as unready, even when nothing but a file extension tells the language
\* ("non-zero readiness", setup_intent_reader.py:558-559): across the two services,
\* which have a priority of languages and a score each.
DetectedIsReady ==
    "blueprint" \in fresh =>
        (DefaultManager(PrimaryRuntime(Row("intent").languages)) # None
            => Row("blueprint").readiness > 0)

\* The plan names no step that is not one: in its phases stands, but for the
\* placeholders, only what the specification has; dependencies and application
\* both hold a real step exactly when its start-up check counts; the check of
\* the environment goes by the repository; and no score leaves its scale.  The
\* two services share no code for this: the one writes placeholders that the
\* other finds by their first word (workspace_provisioner.py:224).
PlanIsHonest ==
    "plan" \in fresh =>
        LET plan == Row("plan")
            spec == Row("spec")
            phases == plan.startup
            launch == CommandPlan(spec, Row("blueprint"), plan)
            Real(steps) == \E i \in DOMAIN steps : steps[i].by # "plan" \/ steps[i] \in {ComposeUp, HealthStep}
            Planned(steps, slots) ==
                \A i \in DOMAIN steps : \/ steps[i] \in Refusals \cup {ComposeUp}
                                         \/ \E s \in slots : steps[i] = spec.commands[s]
        IN /\ Planned(phases.dependencies, {"install"})
           /\ Planned(phases.application, {"build", "dev", "prod"})
           /\ plan.validation[2][1] <=> /\ Real(phases.dependencies)
                                        /\ Runs(spec.commands)
           /\ plan.validation[3][1] <=> ".env.example" \in DOMAIN repo.files
           /\ plan.validation[6][1] <=> Real(phases.health)
           /\ Row("blueprint").readiness <= 100 /\ plan.readiness \in 15..100
           /\ launch.runtime \in {NoCommand} \cup {spec.commands[s] : s \in {"dev", "prod", "build"}}
           /\ launch.install \in {NoCommand, ComposeUp, spec.commands["install"]}
           /\ launch.runtime = NoCommand => ~Runs(spec.commands)
=============================================================================
