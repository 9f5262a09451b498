----------------------------- MODULE ScanReport -----------------------------
(***************************************************************************)
(* What one scan makes of the files of a pull request, as pure operators:  *)
(* the company and architecture rules, the findings of Semgrep, the answer *)
(* of the AI provider, the risk score and the conclusion of the check run. *)
(*                                                                         *)
(* A text is the set of the marks that patterns look for; a text that is   *)
(* not empty has the mark "text".  A pattern is one mark.  A changed file  *)
(* is [path, patch, content]: marks of its path, marks of its patch, and   *)
(* the set of its texts, {} when it has none.  Of a finding only the       *)
(* severity is kept; a rule finds at most one thing in a file.  Two rules  *)
(* that say the same are one.                                              *)
(***************************************************************************)
EXTENDS Naturals, Sequences, FiniteSets
LOCAL INSTANCE FiniteSetsExt

None == "None"

Least(a, b) == IF a <= b THEN a ELSE b

-----------------------------------------------------------------------------
(* The files.                                                              *)

\* get_pull_request_files: a removed file has no content, and neither has one
\* that is no UTF-8 text.
Fetched(entry) ==
    [path |-> entry.path, patch |-> entry.patch,
     content |-> IF entry.removed \/ ~entry.decodable THEN {} ELSE {entry.text}]

Haystack(file) == file.path \cup file.patch \cup UNION file.content

\* content or patch: an empty content counts as none.
Text(file) == IF UNION file.content # {} THEN UNION file.content ELSE file.patch

-----------------------------------------------------------------------------
(* Rules.                                                                  *)

\* A pattern that is no regular expression.
Unclosed == "unclosed ["

RuleKinds == {"required_text", "forbidden_text", "regex", "file_path"}

\* _check_rule, for a pattern that it can evaluate.
Violates(rule, file) ==
    CASE rule.kind = "required_text" ->
            file.content # {} /\ rule.pattern \notin UNION file.content
      [] rule.kind \in {"forbidden_text", "regex"} -> rule.pattern \in Haystack(file)
      [] rule.kind = "file_path" -> rule.pattern \in file.path

\* The queries, which leave out what is not active.
Active(rules) == {r \in rules : r.active}

\* re.search raises; a FILE_PATH pattern that does not compile matches nothing.
CannotCheck(rules, files) ==
    files # {} /\ \E r \in Active(rules) : r.kind = "regex" /\ r.pattern = Unclosed

CompanyViolations(rules, files) ==
    {v \in Active(rules) \X files : Violates(v[1], v[2])}

\* IMPORT_PATTERNS, of the marks.
Imports == {"import db"}

ArchitectureViolations(rules, files) ==
    {v \in Active(rules) \X files :
        /\ v[1].source \in v[2].path
        /\ v[1].pattern \in Text(v[2]) \cap Imports}

-----------------------------------------------------------------------------
(* Semgrep and the AI answer, as sequences of severities.                  *)

\* What stands for a run of Semgrep that failed, timed out or wrote no JSON.
ToolFinding == <<"medium">>

Analysable(files) == \E f \in files : UNION f.content # {}

Severities == {"low", "medium", "high", "critical"}

\* _normalize_findings: what is no object is dropped, an unknown severity is medium.
NormalizeFindings(items) ==
    LET objects == SelectSeq(items, LAMBDA i : i # "no object")
    IN [i \in DOMAIN objects |-> IF objects[i] \in Severities THEN objects[i] ELSE "medium"]

-----------------------------------------------------------------------------
(* Risk, in units of 1/120: churn is counted in 1/120 and in halves.  The  *)
(* rounding to hundredths is left out: no sum of such units that is below  *)
(* a whole number rounds up to it, and every threshold is whole.           *)

Unit == 120

SeverityWeight(severity) ==
    CASE severity = "critical" -> 25
      [] severity = "error" -> 20
      [] severity = "high" -> 15
      [] severity = "low" -> 3
      [] severity = "info" -> 1
      [] OTHER -> 8

WeightOf(severities) ==
    MapThenSumSet(LAMBDA i : SeverityWeight(severities[i]), DOMAIN severities)
WeightOfViolations(violations) ==
    MapThenSumSet(LAMBDA v : SeverityWeight(v[1].severity), violations)

Churn(files, lines) == Least(15 * Unit, 180 * files + lines)

Score(weight, files, lines, company, architecture) ==
    Least(100 * Unit, Unit * weight + Churn(files, lines)
                      + Unit * Least(12, 4 * company) + Unit * Least(15, 5 * architecture))

Level(score) ==
    IF score >= 80 * Unit THEN "critical"
    ELSE IF score >= 50 * Unit THEN "high"
    ELSE IF score >= 25 * Unit THEN "medium"
    ELSE "low"

\* Seeded: a high risk blocks the merge as well.
SeededConclusion(company, architecture, findings, reviewed, level) ==
    IF company \cup architecture # {} \/ level = "critical" THEN "failure"
    ELSE IF ~reviewed /\ findings = 0 THEN "neutral"
    ELSE "success"

\* conclusion_for_report.
Conclusion(company, architecture, findings, reviewed, level) ==
    IF company \cup architecture # {} THEN "failure"
    ELSE IF ~reviewed /\ findings = 0 THEN "neutral"
    ELSE "success"

FindingsCount(semgrep, ai, company, architecture) ==
    Len(semgrep) + Len(ai) + Cardinality(company) + Cardinality(architecture)

\* The report: what each analysis found, in the order of run.
Report(files, lines, semgrep, ai, company, architecture) ==
    LET found == FindingsCount(semgrep, ai.findings, company, architecture)
        score == Score(WeightOf(semgrep) + WeightOf(ai.findings)
                           + WeightOfViolations(company) + WeightOfViolations(architecture),
                       Cardinality(files), lines, Cardinality(company), Cardinality(architecture))
    IN [score |-> score, level |-> Level(score),
        conclusion |-> Conclusion(company, architecture, found, ai.enabled, Level(score))]
=============================================================================
