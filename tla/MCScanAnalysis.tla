--------------------------- MODULE MCScanAnalysis ---------------------------
(* An instance of ScanAnalysis for TLC: one pull request that a rule blocks *)
(* while it is active, and one that no rule blocks.                         *)
EXTENDS ScanAnalysis, TLC

CONSTANTS w1, w2, blocked, clean

File(path, patch, text) ==
    [path |-> path, patch |-> patch, text |-> text, removed |-> FALSE, decodable |-> TRUE]
Removed(path, patch) == [File(path, patch, {}) EXCEPT !.removed = TRUE]
Binary(path) == [File(path, {}, {}) EXCEPT !.decodable = FALSE]

MCEntries ==
    blocked :> {File({"api"}, {"import db"}, {"text", "import db"}), Removed({"old"}, {"secret"})}
    @@ clean :> {Binary({"api"}), Removed({"web"}, {"secret", "license"})}
MCLines == blocked :> 240 @@ clean :> 3

Settings(enabled, provider, keys, maxDiff, daily, monthly) ==
    [enabled |-> enabled, provider |-> provider, keys |-> keys, maxFiles |-> 2,
     maxDiff |-> maxDiff, daily |-> daily, monthly |-> monthly]
MCConfigurations ==
    {Settings(TRUE, "auto", {"openai", "groq"}, 300, 1, 2), Settings(TRUE, "anthropic", {}, 0, 0, 0),
     Settings(TRUE, "groq", {}, 100, 0, 1), Settings(TRUE, "auto", {}, 0, 1, 2),
     Settings(FALSE, "groq", {}, 0, 1, 2)}

MCMonthOf == <<1, 1>>

Rule(kind, pattern) ==
    [kind |-> kind, pattern |-> pattern, severity |-> "medium", active |-> TRUE]
MCCompanyRules == {Rule("regex", "password")}
MCArchitectureRules ==
    {[source |-> "api", pattern |-> "import db", severity |-> "high", active |-> TRUE]}
MCPatterns == {"license", Unclosed}

\* What Semgrep finds weighs as much as its failure; on "clean", which leaves it
\* nothing to analyse, it does not run.
MCSemgrepAnswers == {ToolFinding}
MCAIAnswers == {<<"critical", "critical", "critical", "critical", "no object">>}

Interchangeable == Permutations(Workers)
=============================================================================
