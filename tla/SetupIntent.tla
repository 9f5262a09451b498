---------------------------- MODULE SetupIntent ----------------------------
(***************************************************************************)
(* What the setup intent reader (setup_intent_reader.py) infers about how  *)
(* a repository is built and run, as pure operators.                       *)
(*                                                                         *)
(* A repository is what the reader can tell apart.  "files" maps the name  *)
(* of each manifest or probed source that is present to the marks found in *)
(* its text: scripts and make targets, frameworks, services, versions.     *)
(* "tree" is the languages whose extension occurs, with "index.html", and  *)
(* "dna" what an earlier Repository DNA said.  A file with the one mark    *)
(* "broken" does not parse as JSON; one with the one mark "empty" has no   *)
(* text (only an empty requirements.txt or build.gradle makes a difference *)
(* here).  A file with the mark "workflow" is one of .github/workflows; it *)
(* has the mark "run" when it has a run: line, and then its other marks    *)
(* are the slots of the commands quoted in those lines.                    *)
(*                                                                         *)
(* A command is [by, text]: by is the authority that offered it, text      *)
(* names the tool or the script.  The CI provider, external services,      *)
(* lists of notes and the wording of the evidence are left out: no later   *)
(* artefact is computed from them.                                         *)
(***************************************************************************)
EXTENDS Naturals, Sequences, FiniteSets

None == "None"
NoCommand == [by |-> None, text |-> None]

Slots == {"install", "dev", "prod", "test", "build", "lint"}

FrameworkNames == {"Next.js", "Nuxt", "Express", "React", "FastAPI", "Django", "Flask", "Gin",
                   "Axum", "Spring Boot", "Laravel", "Ruby on Rails"}
ReadmeFrameworks == FrameworkNames \ {"React", "Gin", "Axum"}
DatabaseNames == {"PostgreSQL", "MySQL", "MongoDB"}
CacheNames == {"Redis", "Memcached"}
QueueNames == {"Celery", "RabbitMQ", "Kafka"}

SourceProbes == {"main.py", "index.ts", "index.js", "main.go"}

-----------------------------------------------------------------------------
(* Reading files.                                                          *)

Has(files, name) == name \in DOMAIN files
Says(files, name, mark) == Has(files, name) /\ mark \in files[name]

Marks(files, name) == IF Has(files, name) THEN files[name] ELSE {}

\* _parse_json: a text that is no JSON object counts as absent.
Parsed(files, name) == Has(files, name) /\ ~Says(files, name, "broken")

\* Marks of "labels" in those of the named files that are present.
Found(files, names, labels) ==
    labels \cap UNION {files[n] : n \in names \cap DOMAIN files}

PythonManifests == {"requirements.txt", "pyproject.toml"}
PythonText(files) ==
    Has(files, "pyproject.toml")
    \/ (Has(files, "requirements.txt") /\ ~Says(files, "requirements.txt", "empty"))
PythonSays(files, mark) == \E n \in PythonManifests : Says(files, n, mark)

PackagedPython == {"Pipfile", "setup.py", "setup.cfg"}
JavaManifests == {"pom.xml", "build.gradle", "build.gradle.kts"}

\* A build.gradle that has a text is read instead of a build.gradle.kts.
Gradle(files) ==
    IF Has(files, "build.gradle") /\ ~Says(files, "build.gradle", "empty")
    THEN {"build.gradle"} ELSE {"build.gradle.kts"} \cap DOMAIN files
JavaTexts(files) == ({"pom.xml"} \cap DOMAIN files) \cup Gradle(files)

BackendManifests ==
    {"package.json", "Pipfile", "setup.py", "go.mod", "Cargo.toml", "composer.json", "Gemfile"}
    \cup PythonManifests \cup JavaManifests

When(condition, sequence) == IF condition THEN sequence ELSE <<>>
FirstOf(sequence) == IF sequence = <<>> THEN None ELSE Head(sequence)

\* The first of a priority list that is there.
Earliest(indices) == CHOOSE i \in indices : \A j \in indices : i <= j
FirstIn(priority, values) ==
    LET listed == {i \in DOMAIN priority : priority[i] \in values}
    IN IF listed = {} THEN None ELSE priority[Earliest(listed)]

-----------------------------------------------------------------------------
(* Offers: each source proposes commands, in the order of the code.        *)

Offer(slot, by, text) == [slot |-> slot, by |-> by, text |-> text]
Offers(slots, by, text) == [i \in DOMAIN slots |-> Offer(slots[i], by, text)]

\* _npm: the first of the names that is a script.
Script(files, slot, names) ==
    LET name == FirstIn(names, Marks(files, "package.json"))
    IN When(name # None, <<Offer(slot, "manifest", name)>>)

ScriptOffers(files) ==
    Script(files, "dev", <<"dev", "develop", "start:dev">>)
    \o Script(files, "prod", <<"start", "serve">>)
    \o Script(files, "build", <<"build">>)
    \o Script(files, "test", <<"test">>)
    \o Script(files, "lint", <<"lint">>)

PythonOffers(files) ==
    When(PythonSays(files, "pytest"), Offers(<<"test">>, "manifest", "pytest"))
    \o When(PythonSays(files, "FastAPI"), Offers(<<"dev", "prod">>, "manifest", "uvicorn"))
    \o When(PythonSays(files, "Django"), Offers(<<"dev">>, "manifest", "manage.py"))
    \o When(PythonText(files), Offers(<<"install">>, "manifest", "pip"))

\* Lockfiles, then the manifest of each language: the first one found stays.
Managers(files) ==
    When(Has(files, "pnpm-lock.yaml"), <<"pnpm">>)
    \o When(Has(files, "yarn.lock"), <<"yarn">>)
    \o When(Has(files, "package-lock.json") \/ Parsed(files, "package.json"), <<"npm">>)
    \o When(Says(files, "pyproject.toml", "poetry"), <<"poetry">>)
    \o When(PythonText(files), <<"pip">>)
    \o When(Has(files, "go.mod"), <<"go modules">>)
    \o When(Has(files, "Cargo.toml"), <<"cargo">>)
    \o When(Has(files, "pom.xml"), <<"maven">>)
    \o When(Gradle(files) # {}, <<"gradle">>)
    \o When(Parsed(files, "composer.json"), <<"composer">>)
    \o When(Has(files, "Gemfile"), <<"bundler">>)
    \o When(Has(files, "Pipfile"), <<"pipenv">>)
    \o When(PackagedPython \cap DOMAIN files # {}, <<"pip">>)

Target(files, name, slot) ==
    When(Says(files, "Makefile", name), Offers(<<slot>>, "manifest", "make"))
MakeOffers(files) ==
    Target(files, "install", "install") \o Target(files, "test", "test")
    \o Target(files, "build", "build") \o Target(files, "lint", "lint")
    \o Target(files, "run", "prod") \o Target(files, "dev", "dev")

ProcfileOffers(files) ==
    When(Says(files, "Procfile", "web"), Offers(<<"prod">>, "manifest", "Procfile"))

CompiledOffers(files) ==
    When(Has(files, "go.mod"), Offers(<<"install", "build", "test", "prod">>, "manifest", "go"))
    \o When(Has(files, "Cargo.toml"), Offers(<<"install", "build", "test", "prod">>, "manifest", "cargo"))
    \o When(Has(files, "pom.xml"), Offers(<<"install", "build", "test">>, "manifest", "mvn"))
    \o When(Gradle(files) # {} /\ ~Has(files, "pom.xml"),
            Offers(<<"install", "build", "test">>, "manifest", "gradle"))
    \o When(Found(files, JavaTexts(files), {"Spring Boot"}) # {}, Offers(<<"prod">>, "manifest", "java"))

ScriptedOffers(files) ==
    When(Parsed(files, "composer.json"), Offers(<<"install">>, "manifest", "composer"))
    \o When(Says(files, "composer.json", "Laravel"), Offers(<<"dev">>, "manifest", "artisan"))
    \o When(Has(files, "Gemfile"), Offers(<<"install">>, "manifest", "bundle"))
    \o When(Says(files, "Gemfile", "Ruby on Rails"), Offers(<<"dev">>, "manifest", "rails"))
    \o When(Says(files, "Gemfile", "rspec"), Offers(<<"test">>, "manifest", "rspec"))
    \o When(PackagedPython \cap DOMAIN files # {},
            Offers(<<"install">>, "manifest", IF Has(files, "Pipfile") THEN "pipenv" ELSE "pip"))

\* Seeded: Python manifests are looked at only when there is no package.json.
SeededManifestOffers(files) ==
    ScriptOffers(files) \o When(~Parsed(files, "package.json"), PythonOffers(files))
    \o When(Parsed(files, "package.json"), Offers(<<"install">>, "manifest", FirstOf(Managers(files))))
    \o MakeOffers(files) \o ProcfileOffers(files) \o CompiledOffers(files) \o ScriptedOffers(files)

ManifestOffers(files) ==
    ScriptOffers(files) \o PythonOffers(files)
    \o When(Parsed(files, "package.json"), Offers(<<"install">>, "manifest", FirstOf(Managers(files))))
    \o MakeOffers(files) \o ProcfileOffers(files) \o CompiledOffers(files) \o ScriptedOffers(files)

\* _commands_from_ci: the run lines of all workflows together, or, when no
\* workflow has one, all that they say.
Workflows(files) == {n \in DOMAIN files : "workflow" \in files[n]}
ReadWorkflows(files) ==
    LET running == {n \in Workflows(files) : "run" \in files[n]}
    IN IF running # {} THEN running ELSE Workflows(files)

\* _fill_commands_from_text: commands quoted in the workflows or in the README.
Quoted(files, names, by, slot) ==
    When(Found(files, names, {slot}) # {}, Offers(<<slot>>, by, "quoted"))
TextOffers(files, names, by) ==
    Quoted(files, names, by, "install") \o Quoted(files, names, by, "test")
    \o Quoted(files, names, by, "build") \o Quoted(files, names, by, "lint")
    \o Quoted(files, names, by, "dev") \o Quoted(files, names, by, "prod")

SourceOffers(files) ==
    When(Says(files, "main.py", "FastAPI"), Offers(<<"dev", "prod">>, "convention", "uvicorn"))

\* HTML present and no manifest of a backend.
StaticSite(files, tree) ==
    /\ Has(files, "index.html") \/ "index.html" \in tree
    /\ BackendManifests \cap DOMAIN files = {}
StaticOffers(files, tree) ==
    When(StaticSite(files, tree), Offers(<<"dev", "prod">>, "convention", "http.server"))

\* Seeded: the README, which is quick to read, is looked at before the manifests.
SeededAllOffers(files, tree) ==
    TextOffers(files, {"README.md"}, "README") \o ManifestOffers(files)
    \o TextOffers(files, ReadWorkflows(files), "CI")
    \o SourceOffers(files) \o StaticOffers(files, tree)

AllOffers(files, tree) ==
    ManifestOffers(files)
    \o TextOffers(files, ReadWorkflows(files), "CI") \o TextOffers(files, {"README.md"}, "README")
    \o SourceOffers(files) \o StaticOffers(files, tree)

\* Every slot takes the first offer made for it: a later source fills blanks.
Taken(offers) ==
    [s \in Slots |->
        LET mine == {i \in DOMAIN offers : offers[i].slot = s}
            first == offers[Earliest(mine)]
        IN IF mine = {} THEN NoCommand ELSE [by |-> first.by, text |-> first.text]]

-----------------------------------------------------------------------------
(* What the repository is made of.                                         *)

\* The language a manifest, a probed source or a framework stands for.
LanguageOf(name) ==
    CASE name \in PythonManifests \cup PackagedPython \cup {"main.py", "FastAPI", "Django", "Flask"} -> "Python"
      [] name \in {"package.json", "index.js", "Next.js", "Nuxt", "Express"} -> "JavaScript"
      [] name = "index.ts" -> "TypeScript"
      [] name \in {"go.mod", "main.go"} -> "Go"
      [] name = "Cargo.toml" -> "Rust"
      [] name \in JavaManifests \cup {"Spring Boot"} -> "Java"
      [] name \in {"composer.json", "Laravel"} -> "PHP"
      [] name \in {"Gemfile", "Ruby on Rails"} -> "Ruby"
      [] name = "index.html" -> "HTML"
      [] OTHER -> None

LanguageSources(files) ==
    (BackendManifests \ ({"package.json", "composer.json"} \cup JavaManifests))
    \cup JavaTexts(files) \cup {"setup.cfg"} \cup SourceProbes

\* The tree that was fetched; without one, the files and what the DNA knew of.
SeenTree(files, tree, dna) ==
    IF tree # {} THEN tree
    ELSE {LanguageOf(n) : n \in DOMAIN files \cap (SourceProbes \cup {"setup.py", "index.html"})}
         \cup (dna.important \ {"readme"})

Languages(files, tree, dna) ==
    dna.languages \cup (tree \ {"index.html"})
    \cup {LanguageOf(n) : n \in LanguageSources(files) \cap DOMAIN files}
    \cup {LanguageOf(n) : n \in {m \in {"package.json", "composer.json"} : Parsed(files, m)}}
    \cup {LanguageOf(m) : m \in Found(files, {"README.md"}, ReadmeFrameworks)}
    \cup {l \in {"TypeScript"} : Says(files, "package.json", "typescript")}
    \cup {l \in {"Python"} : Says(files, "Dockerfile", "python image")}
    \cup {l \in {"JavaScript"} : Says(files, "Dockerfile", "node image")}
    \cup {l \in {"HTML"} : StaticSite(files, tree)}

FrameworkSources(files) ==
    {"package.json", "go.mod", "Cargo.toml", "composer.json", "Gemfile"}
    \cup PythonManifests \cup JavaTexts(files) \cup SourceProbes
Frameworks(files, tree, dna) ==
    dna.frameworks \cup Found(files, FrameworkSources(files), FrameworkNames)
    \cup Found(files, {"README.md"}, ReadmeFrameworks)
    \cup {l \in {"Static Website"} : StaticSite(files, tree)}

\* _classify_text reads these; Cargo.toml and the sources are not among them.
ServiceSources(files) ==
    {"package.json", "docker-compose", "go.mod", "composer.json", "Gemfile"}
    \cup PythonManifests \cup JavaTexts(files)

PortMarks == {"8080", "5432", "6379"}
Ports(files, tree) ==
    Found(files, {"Dockerfile", "docker-compose"}, PortMarks)
    \cup {p \in {"8000"} : StaticSite(files, tree)}

\* The language of the pinned version: the first source that pins one.
Versions(files) ==
    When(Says(files, "package.json", "engines"), <<"Node">>)
    \o When(Says(files, "pyproject.toml", "requires-python"), <<"Python">>)
    \o When(Says(files, "Dockerfile", "python image"), <<"Python">>)
    \o When(Says(files, "Dockerfile", "node image"), <<"Node">>)
    \o When(Says(files, "go.mod", "go version"), <<"Go">>)
    \o When(Says(files, "Cargo.toml", "rust-version"), <<"Rust">>)
    \o When(Has(files, ".nvmrc"), <<"Node">>)
    \o When(Has(files, ".python-version"), <<"Python">>)
    \o When(Says(files, "runtime.txt", "Python"), <<"Python">>)

RuntimePriority == <<"Python", "TypeScript", "JavaScript", "Go", "Rust", "Java", "Kotlin", "Ruby", "PHP">>
PrimaryRuntime(languages) == FirstIn(RuntimePriority, languages)

\* LANGUAGE_DEFAULTS: the manager and the slots that a language has by convention.
DefaultManager(language) ==
    CASE language = "Python" -> "pip"
      [] language \in {"JavaScript", "TypeScript"} -> "npm"
      [] language = "Go" -> "go modules"
      [] language = "Rust" -> "cargo"
      [] language = "Java" -> "maven"
      [] language = "Ruby" -> "bundler"
      [] language = "PHP" -> "composer"
      [] OTHER -> None
DefaultSlots(language) ==
    CASE language \in {"Go", "Rust"} -> {"install", "build", "test", "prod"}
      [] language = "Java" -> {"install", "build", "test"}
      [] language = "Python" -> {"install", "test"}
      [] OTHER -> IF DefaultManager(language) = None THEN {} ELSE {"install"}

\* Seeded: the test of the install command is inverted.
SeededBare(manager, commands) == manager = None /\ commands["install"] # NoCommand

\* Defaults apply when neither a manager nor an install command was found.
Bare(manager, commands) == manager = None /\ commands["install"] = NoCommand

WithDefaults(commands, language) ==
    [s \in Slots |->
        IF commands[s] = NoCommand /\ s \in DefaultSlots(language)
        THEN [by |-> "convention", text |-> language] ELSE commands[s]]

\* _confidence: the share of six signals, in hundredths, rounded.
Confidence(languages, manager, commands, frameworks) ==
    LET Filled(s) == commands[s] # NoCommand
        met == <<languages # {}, manager # None, Filled("install"), Filled("dev") \/ Filled("prod"),
                 Filled("build") \/ Filled("test"), frameworks # {}>>
    IN (200 * Len(SelectSeq(met, LAMBDA b : b)) + 6) \div 12

\* _build_evidence: whether anything is left to explain; a lint command is not.
HasEvidence(languages, manager, version, commands, frameworks) ==
    \/ languages \cup frameworks # {}
    \/ manager # None \/ version # None
    \/ \E s \in Slots \ {"lint"} : commands[s] # NoCommand

-----------------------------------------------------------------------------
\* build_intent, from what a call fetched.
Intent(files, fetchedTree, dna) ==
    LET tree == SeenTree(files, fetchedTree, dna)
        languages == Languages(files, tree, dna)
        found == Taken(AllOffers(files, tree))
        listed == FirstOf(Managers(files))
        language == PrimaryRuntime(languages)
        bare == language # None /\ Bare(listed, found)
        manager == IF bare THEN DefaultManager(language) ELSE listed
        commands == IF bare THEN WithDefaults(found, language) ELSE found
        frameworks == Frameworks(files, tree, dna)
        Services(labels) == Found(files, ServiceSources(files), labels)
        ports == Ports(files, tree)
        databases == dna.databases \cup Services(DatabaseNames)
        queues == dna.queues \cup Services(QueueNames)
    IN [languages |-> languages, frameworks |-> frameworks,
        manager |-> manager, version |-> FirstOf(Versions(files)), commands |-> commands,
        env |-> Says(files, ".env.example", "variables"), ports |-> ports,
        databases |-> databases, caches |-> Services(CacheNames), queues |-> queues,
        docker |-> {"Dockerfile", "docker-compose"} \cap DOMAIN files,
        health |-> \E n \in DOMAIN files : "health" \in files[n],
        sources |-> DOMAIN files,
        confidence |-> Confidence(languages, manager, commands, frameworks),
        evidence |-> \/ HasEvidence(languages, manager, FirstOf(Versions(files)), commands, frameworks)
                     \/ ports \cup databases \cup queues \cup Services(CacheNames) # {}]
=============================================================================
