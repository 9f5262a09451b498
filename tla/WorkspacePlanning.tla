------------------------- MODULE WorkspacePlanning -------------------------
(***************************************************************************)
(* The three artefacts computed from a setup intent, as pure operators,    *)
(*   Spec       environment_spec_generator.py   the normalized form        *)
(*   Blueprint  workspace_builder.py            the workspace to build     *)
(*   Plan       workspace_provisioner.py        the steps to prepare it    *)
(* and the commands that WorkspaceLifecycle's launches take from them.     *)
(* Each is computed from rows, not from the one computed just before: the  *)
(* blueprint reads the specification and the intent, the plan reads the    *)
(* blueprint and the specification, whatever analyses they come from.      *)
(*                                                                         *)
(* A step of a plan is a command, or a placeholder: a record like a        *)
(* command's whose text says that there is none.  Directory layouts,       *)
(* editor files, recommendations, safety statements and the wording of     *)
(* warnings and assumptions are left out.                                  *)
(***************************************************************************)
EXTENDS SetupIntent, SequencesExt

LanguagePriority ==
    RuntimePriority \o <<"C#", "Swift", "HTML", "CSS">>

FrameworkPriority ==
    <<"Next.js", "FastAPI", "Django", "Flask", "Express", "Spring Boot", "Gin", "Axum",
      "Laravel", "Ruby on Rails", "React", "Static Website">>

\* _primary: the first in the priority, otherwise the first there is (the list
\* is sorted, so the choice is the same every time).
Primary(values, priority) ==
    LET known == FirstIn(priority, values)
    IN IF known # None THEN known
       ELSE IF values # {} THEN CHOOSE v \in values : TRUE ELSE None

RuntimeOf(language) ==
    CASE language = "Python" -> "CPython"
      [] language \in {"TypeScript", "JavaScript"} -> "Node.js"
      [] language \in {"Java", "Kotlin"} -> "JVM"
      [] language \in {"HTML", "CSS"} -> "Browser"
      [] language = "C#" -> ".NET"
      [] language \in {"Go", "Rust", "Ruby", "PHP", "Swift"} -> language
      [] OTHER -> None

ServicePorts == {"5432", "3306", "6379", "27017", "5672", "9092", "11211"}
DefaultPort(framework) ==
    CASE framework \in {"Next.js", "React", "Express", "Ruby on Rails"} -> "3000"
      [] framework \in {"FastAPI", "Django", "Laravel", "Static Website"} -> "8000"
      [] framework \in {"Spring Boot", "Gin"} -> "8080"
      [] framework = "Flask" -> "5000"
      [] OTHER -> None

AppPorts(ports, framework) ==
    LET found == ports \ ServicePorts
    IN IF found = {} /\ DefaultPort(framework) # None THEN {DefaultPort(framework)} ELSE found

Runs(commands) == commands["dev"] # NoCommand \/ commands["prod"] # NoCommand

Strategy(docker, native, framework) ==
    IF "docker-compose" \in docker THEN IF native THEN "hybrid" ELSE "docker-compose"
    ELSE IF "Dockerfile" \in docker THEN "docker"
    ELSE IF native THEN "native"
    ELSE IF framework = "Static Website" THEN "static"
    ELSE "unknown"

\* _estimate_resources, in megabytes, capped.
Least(a, b) == IF a <= b THEN a ELSE b
Memory(framework, databases, caches, queues) ==
    Least(8192, (IF framework \in {"Next.js", "Nuxt", "Angular"} THEN 2048 ELSE 1024)
                + 512 * Cardinality(databases)
                + (IF caches # {} THEN 256 ELSE 0) + (IF queues # {} THEN 256 ELSE 0))

\* In hundredths: an unknown strategy costs ten, evidence keeps it above zero.
SpecConfidence(confidence, strategy, detected) ==
    LET left == IF strategy # "unknown" THEN confidence
                ELSE IF confidence > 10 THEN confidence - 10 ELSE 0
    IN IF left = 0 /\ detected THEN 10 ELSE left

\* build_spec.
Spec(intent) ==
    LET first == Primary(intent.languages, LanguagePriority)
        framework == Primary(intent.frameworks, FrameworkPriority)
        static == framework = "Static Website"
        language == IF static /\ first = None THEN "HTML" ELSE first
        ports == AppPorts(intent.ports, framework)
        native == intent.commands["install"] # NoCommand /\ Runs(intent.commands)
        strategy == Strategy(intent.docker, native, framework)
    IN [language |-> language, runtime |-> IF static THEN "Browser" ELSE RuntimeOf(first),
        version |-> intent.version, manager |-> intent.manager, framework |-> framework,
        commands |-> intent.commands, health |-> intent.health,
        healthCommand |-> intent.health /\ ports # {},
        databases |-> intent.databases, caches |-> intent.caches, queues |-> intent.queues,
        ports |-> ports, servicePorts |-> intent.ports \cap ServicePorts,
        env |-> intent.env, missingEnv |-> ".env.example" \notin intent.sources,
        strategy |-> strategy,
        memory |-> Memory(framework, intent.databases, intent.caches, intent.queues),
        confidence |-> SpecConfidence(intent.confidence, strategy,
                           language # None \/ framework # None \/ intent.evidence)]

-----------------------------------------------------------------------------
(* The blueprint.                                                          *)

Step(text) == [by |-> "plan", text |-> text]
NoInstall == Step("No install command detected.")
NoBuild == Step("No build step required.")
NoStart == Step("No start command detected.")
NoHealth == Step("No health check detected.")
ComposeUp == Step("docker compose up -d")
HealthStep == Step("curl")

\* The texts that begin with "no ", as _plan_steps looks for them.
Refusals == {NoInstall, NoBuild, NoStart, NoHealth}

ServicesOf(spec) == spec.databases \cup spec.caches \cup spec.queues

OrElse(steps, placeholder) == IF steps = <<>> THEN <<placeholder>> ELSE steps
CommandStep(command) == When(command # NoCommand, <<command>>)

\* A run command: the development one, otherwise the production one.
RunCommand(commands) == IF commands["dev"] # NoCommand THEN commands["dev"] ELSE commands["prod"]

\* Seeded: another wording of the placeholder, which the filter of the plan lets through.
SeededStartup(spec, compose) ==
    [install |-> OrElse(When(compose /\ ServicesOf(spec) # {}, <<ComposeUp>>)
                        \o CommandStep(spec.commands["install"]), NoInstall),
     build |-> OrElse(CommandStep(spec.commands["build"]), NoBuild),
     start |-> OrElse(CommandStep(RunCommand(spec.commands)), Step("Missing start command.")),
     health |-> OrElse(When(spec.healthCommand, <<HealthStep>>), NoHealth)]

\* _startup_plan of the builder.
Startup(spec, compose) ==
    [install |-> OrElse(When(compose /\ ServicesOf(spec) # {}, <<ComposeUp>>)
                        \o CommandStep(spec.commands["install"]), NoInstall),
     build |-> OrElse(CommandStep(spec.commands["build"]), NoBuild),
     start |-> OrElse(CommandStep(RunCommand(spec.commands)), NoStart),
     health |-> OrElse(When(spec.healthCommand, <<HealthStep>>), NoHealth)]

Points(checks) == LET Sum[i \in 0..Len(checks)] ==
                          IF i = 0 THEN 0
                          ELSE Sum[i - 1] + (IF checks[i][1] THEN checks[i][2] ELSE 0)
                  IN Sum[Len(checks)]

\* _readiness of the builder.
Readiness(spec, hasEnv, hasDocker) ==
    Points(<< <<spec.commands["install"] # NoCommand, 20>>, <<Runs(spec.commands), 20>>,
              <<spec.manager # None, 15>>, <<spec.commands["test"] # NoCommand, 15>>,
              <<hasDocker, 10>>, <<spec.health, 10>>, <<hasEnv, 10>> >>)

\* The directory layout and the editor files go by the kind of the runtime.
Kind(runtime) == CASE runtime = "Node.js" -> "js" [] runtime = "CPython" -> "py" [] OTHER -> "other"

\* _environment_files: "pin" is .nvmrc or .python-version.
EnvironmentFiles(spec, hasEnv) ==
    [env |-> hasEnv, variables |-> spec.env,
     pin |-> spec.version # None /\ Kind(spec.runtime) # "other"]

\* _docker_assets: what exists, and whether a compose file and a .dockerignore
\* are proposed.
DockerAssets(spec, docker) ==
    LET needed == ServicesOf(spec) # {}
        compose == "docker-compose" \in docker
    IN [existing |-> docker,
        compose |-> ~compose /\ (needed \/ "Dockerfile" \in docker),
        ignore |-> docker # {} \/ needed]

\* _resources.
Resources(spec) ==
    [memory |-> spec.memory, volumes |-> spec.databases, services |-> ServicesOf(spec)]

\* _warnings.
Warnings(spec, readme, hasEnv, hasDocker) ==
    {w \in {"readme"} : ~readme} \cup {w \in {"env"} : ~hasEnv}
    \cup {w \in {"test"} : spec.commands["test"] = NoCommand}
    \cup {w \in {"docker"} : ~hasDocker} \cup {w \in {"version"} : spec.version = None}
    \cup {w \in {"health"} : ~spec.health}

\* build_blueprint.
Blueprint(spec, intent, dna) ==
    LET hasEnv == ".env.example" \in intent.sources /\ ~spec.missingEnv
        readme == "README.md" \in intent.sources \/ "readme" \in dna.important
    IN [language |-> spec.language, runtime |-> spec.runtime, version |-> spec.version,
        manager |-> spec.manager, framework |-> spec.framework, layout |-> Kind(spec.runtime),
        files |-> EnvironmentFiles(spec, hasEnv), assets |-> DockerAssets(spec, intent.docker),
        startup |-> Startup(spec, "docker-compose" \in intent.docker),
        resources |-> Resources(spec),
        readiness |-> Readiness(spec, hasEnv, intent.docker # {}),
        warnings |-> Warnings(spec, readme, hasEnv, intent.docker # {})]

-----------------------------------------------------------------------------
(* The provision plan.                                                     *)

\* _plan_steps: placeholders are dropped.
PlanSteps(steps) ==
    FlattenSeq([i \in DOMAIN steps |-> When(steps[i] \notin Refusals, <<steps[i]>>)])

\* The image reference: the name of the runtime, and the version that fills its tag.
BaseImage(blueprint) ==
    CASE Kind(blueprint.runtime) = "py" -> [name |-> "python", tag |-> blueprint.version]
      [] Kind(blueprint.runtime) = "js" -> [name |-> "node", tag |-> blueprint.version]
      [] OTHER -> [name |-> None, tag |-> None]

\* _container_preparation.
ContainerPreparation(blueprint, spec) ==
    [image |-> BaseImage(blueprint), existing |-> blueprint.assets.existing,
     services |-> blueprint.resources.services, volumes |-> blueprint.resources.volumes,
     devContainer |-> Kind(blueprint.runtime) # "other", ports |-> spec.ports]

ManagerConfig(manager) ==
    CASE manager \in {"npm", "pnpm", "yarn"} -> ".npmrc"
      [] manager \in {"pip", "poetry"} -> "pip.conf"
      [] OTHER -> None

\* _env_names: the names of the blueprint, otherwise those of the specification.
EnvNames(blueprint, spec) == blueprint.files.variables \/ spec.env

\* _has_env_example: the blueprint says so, or the specification of today does.
HasEnvExample(blueprint, spec) == blueprint.files.env \/ ~spec.missingEnv

\* _environment_preparation.
EnvironmentPreparation(blueprint, spec) ==
    [variables |-> EnvNames(blueprint, spec), env |-> HasEnvExample(blueprint, spec),
     runtime |-> blueprint.runtime, version |-> blueprint.version,
     pin |-> blueprint.files.pin, config |-> ManagerConfig(blueprint.manager)]

\* _startup_plan of the provisioner: the actions of the six phases.
StartupPhases(install, build, start, health, services) ==
    [dependencies |-> OrElse(install, NoInstall), services |-> services,
     application |-> OrElse(build, NoBuild) \o OrElse(start, NoStart),
     health |-> OrElse(health, NoHealth)]

\* _validation: the checks that can pass, with their points; services always do.
Validation(blueprint, install, start, health, env) ==
    << <<blueprint.runtime # None, 20>>, <<install # <<>> /\ start # <<>>, 20>>, <<env, 20>>,
       <<TRUE, 15>>, <<blueprint.assets.existing # {}, 15>>, <<health # <<>>, 10>> >>

\* build_plan.
Plan(blueprint, spec) ==
    LET Steps(sequence) == PlanSteps(blueprint.startup[sequence])
        checks == Validation(blueprint, Steps("install"), Steps("start"), Steps("health"),
                             HasEnvExample(blueprint, spec))
    IN [language |-> blueprint.language, runtime |-> blueprint.runtime,
        version |-> blueprint.version, manager |-> blueprint.manager,
        framework |-> blueprint.framework,
        environment |-> EnvironmentPreparation(blueprint, spec),
        container |-> ContainerPreparation(blueprint, spec),
        dependencies |-> OrElse(Steps("install"), NoInstall),
        startup |-> StartupPhases(Steps("install"), Steps("build"), Steps("start"), Steps("health"),
                                  blueprint.resources.services),
        validation |-> checks, readiness |-> Points(checks),
        warnings |-> blueprint.warnings]

-----------------------------------------------------------------------------
(* What the lifecycle runs.                                                *)

\* _first_real, which knows placeholders as the plan does.
FirstReal(steps) ==
    LET real == PlanSteps(steps) IN IF real = <<>> THEN NoCommand ELSE Head(real)

\* build_command_plan: the specification first.  Where it has nothing to run, the
\* application phase of the plan may still have a build command.
CommandPlan(spec, blueprint, plan) ==
    [install |-> IF spec.commands["install"] # NoCommand THEN spec.commands["install"]
                 ELSE FirstReal(plan.dependencies \o blueprint.startup.install),
     runtime |-> IF Runs(spec.commands) THEN RunCommand(spec.commands)
                 ELSE FirstReal(blueprint.startup.start \o plan.startup.application),
     health |-> spec.healthCommand,
     ports |-> IF spec.ports # {} THEN spec.ports ELSE plan.container.ports]
=============================================================================
