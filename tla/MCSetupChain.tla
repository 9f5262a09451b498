---------------------------- MODULE MCSetupChain ----------------------------
(***************************************************************************)
(* Instances of SetupChain for TLC: repositories of several languages with *)
(* and without manifests; in some histories the push only adds files.      *)
(***************************************************************************)
EXTENDS SetupChain, TLC

NoDna == [languages |-> {}, frameworks |-> {}, databases |-> {}, queues |-> {}, important |-> {}]
OldDna == [languages |-> {"Java"}, frameworks |-> {"React"}, databases |-> {"MySQL"},
           queues |-> {"Kafka"}, important |-> {"readme", "Go"}]

Contents ==
    "package.json" :> {"develop", "start", "build", "Express", "engines", "PostgreSQL"}
    @@ "pnpm-lock.yaml" :> {} @@ "index.html" :> {}
    @@ "requirements.txt" :> {"FastAPI", "pytest", "Redis", "health"}
    @@ "pyproject.toml" :> {"poetry", "Django", "requires-python"}
    @@ "Makefile" :> {"install", "run", "dev"} @@ "Procfile" :> {"web"}
    @@ "ci.yml" :> {"workflow", "run", "test", "lint", "build", "prod"}
    @@ "docs.yml" :> {"workflow", "install", "lint", "dev"}
    @@ "README.md" :> {"install", "dev", "test", "build", "Flask"}
    @@ "main.py" :> {"FastAPI"} @@ "index.ts" :> {"Next.js"}
    @@ "go.mod" :> {"go version", "Gin"} @@ "Cargo.toml" :> {"Axum"}
    @@ "pom.xml" :> {"Spring Boot", "Kafka"} @@ "build.gradle" :> {}
    @@ "build.gradle.kts" :> {"Spring Boot"}
    @@ "composer.json" :> {"Laravel"} @@ "Gemfile" :> {"Ruby on Rails", "rspec"}
    @@ "setup.py" :> {} @@ ".python-version" :> {} @@ ".env.example" :> {"variables"}
    @@ "docker-compose" :> {"PostgreSQL", "5432"} @@ "Dockerfile" :> {"node image", "8080", "health"}

With(names, tree, dna) ==
    [files |-> [n \in names |-> Contents[n]], tree |-> tree, dna |-> dna]

\* A package.json that is no JSON, an empty requirements.txt and build.gradle.
Damaged ==
    [files |-> "package.json" :> {"broken"} @@ "requirements.txt" :> {"empty"}
               @@ "build.gradle" :> {"empty"},
     tree |-> {"JavaScript"}, dna |-> NoDna]

\* The second workflow has a run: line, and hides what the first one quotes; so
\* does the plain build.gradle with the Spring Boot of the build.gradle.kts.
Hiding ==
    {<<With({"docs.yml"}, {"Go"}, NoDna), With({"docs.yml", "ci.yml"}, {"Go"}, NoDna)>>,
     <<With({"build.gradle.kts"}, {"JavaScript", "CSS", "Kotlin"}, NoDna),
       With({"build.gradle.kts", "build.gradle"}, {"JavaScript", "CSS", "Kotlin"}, NoDna)>>}

MCHistories == Hiding \cup
    {<<With({"README.md", "requirements.txt"}, {"Python"}, NoDna),
       With({"README.md", "requirements.txt", "package.json"}, {"Python"}, NoDna)>>,
     <<With({"index.html"}, {"index.html", "HTML"}, NoDna),
       With({"index.html", "package.json", "pnpm-lock.yaml"}, {"index.html", "HTML"}, NoDna)>>,
     <<With({"main.py", "index.ts"}, {"Python"}, OldDna),
       With({"requirements.txt", "Dockerfile"}, {"Python"}, NoDna)>>,
     <<With({"go.mod", "README.md", "ci.yml"}, {"Go"}, NoDna),
       With({"Cargo.toml", "Gemfile"}, {"Ruby", "Kotlin"}, NoDna)>>,
     <<With({"pyproject.toml", "setup.py", "docker-compose", "Makefile", "Procfile",
             ".env.example", ".python-version"}, {"Python", "CSS"}, OldDna)>>,
     <<Damaged, With({"pom.xml", "composer.json", "build.gradle.kts"}, {"Java"}, NoDna)>>}

Interchangeable == Permutations(Calls)
=============================================================================
