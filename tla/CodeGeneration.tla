---------------------------- MODULE CodeGeneration ----------------------------
(***************************************************************************)
(* CodeGenerationEngine (services/agent/code_generation_engine.py): what   *)
(* it makes of a model's output, or of none, and which plans it rejects.   *)
(***************************************************************************)
EXTENDS ChangeApplier

CONSTANTS
    NoOutput,           \* the AI is switched off, or its answer is no JSON object
    Protected,          \* names that the safety engine finds protected or forbidden
    CompanyRules,       \* [paths, tokens]: FILE_PATH and FORBIDDEN_TEXT or REGEX rules
    ArchitectureRules   \* [paths, tokens]: what the sources may not import

ASSUME RulesAssumption ==
    \A rule \in CompanyRules \cup ArchitectureRules :
        rule.paths \subseteq Names /\ rule.tokens \subseteq Tokens

VALID_OPERATIONS == {"create", "modify", "delete"}

\* A change without operations stands for one operation of its own kind.
Normalized(item) ==
    LET operation == IF item.operation \in VALID_OPERATIONS THEN item.operation ELSE "modify"
    IN  [path |-> item.path, operation |-> operation,
         operations |-> IF item.operations # <<>> THEN item.operations
                        ELSE <<[type |-> operation, target |-> "", content |-> <<>>]>>]

\* A change without a path is left out.
NormalizeChanges(items) ==
    FlattenSeq([i \in DOMAIN items |->
                   IF items[i].path = Missing THEN <<>> ELSE <<Normalized(items[i])>>])

\* One empty modification of each file that the execution plan or the request names.
FallbackChanges(paths) ==
    [i \in DOMAIN paths |->
        [path |-> paths[i], operation |-> "modify",
         operations |-> <<[type |-> "modify", target |-> "", content |-> <<>>]>>]]

BuildPlan(output, paths) ==
    IF output = NoOutput THEN FallbackChanges(paths) ELSE NormalizeChanges(output)

Contents(changes) ==
    UNION {UNION {ToSet(op.content) : op \in ToSet(change.operations)} : change \in ToSet(changes)}

RespectsCompanyRules(changes) ==
    \A rule \in CompanyRules :
        /\ \A i \in DOMAIN changes : changes[i].path \notin rule.paths
        /\ rule.tokens \cap Contents(changes) = {}

\* By the label of a change, whatever its operations do; the text of the whole plan.
RespectsArchitectureRules(changes) ==
    \A rule \in ArchitectureRules :
        \/ \A i \in DOMAIN changes :
               changes[i].path \notin rule.paths \/ changes[i].operation = "delete"
        \/ rule.tokens \cap Contents(changes) = {}

ValidateChangeSet(changes) ==
    /\ \A i \in DOMAIN changes : changes[i].path \notin Protected
    /\ RespectsCompanyRules(changes) /\ RespectsArchitectureRules(changes)
=============================================================================
