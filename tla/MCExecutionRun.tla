--------------------------- MODULE MCExecutionRun ---------------------------
(***************************************************************************)
(* Instances of ExecutionRun for TLC: two files, one of them also under a  *)
(* second spelling, a path that is refused, and a file with a secret.      *)
(***************************************************************************)
EXTENDS ExecutionRun, TLC

CONSTANTS src, doc, env, x, y, bad, bin, fffd

MCResolve == "a.py" :> src @@ "./a.py" :> src @@ "b.md" :> doc @@ ".env" :> Rejected
MCDecode == [token \in Tokens |-> IF token = bin THEN fffd ELSE token]
MCRepository == src :> <<bin, x, y>> @@ doc :> NoFile @@ env :> <<bad>>
Op(type, target, content) == [type |-> type, target |-> target, content |-> content]
Change(path, operation, operations) ==
    [path |-> path, operation |-> operation, operations |-> operations]

\* In place and as a whole; a file twice, under one name or two; a deletion taken back;
\* rules and paths broken; nothing to do.
MCOutputs ==
    {<<Change("a.py", "modify", <<Op("insert", x, <<y>>)>>),
       Change("b.md", "create", <<Op("create", "", <<x>>), Op("edit", x, <<y>>)>>)>>,
     <<Change("a.py", "replace", <<Op("delete", "", <<>>), Op("create", "", <<y, y>>)>>),
       Change("b.md", "modify", <<Op("add", "", <<y>>)>>)>>,
     <<Change("a.py", "modify", <<Op("replace", "", <<y>>)>>),
       Change("./a.py", "modify", <<Op("append", x, <<x>>)>>), Change(Missing, "create", <<>>)>>,
     <<Change("a.py", "delete", <<>>), Change("b.md", "create", <<Op("format", "", <<x>>)>>)>>,
     <<Change("a.py", "modify", <<Op("replace", "", <<bad>>)>>)>>,
     <<Change("b.md", "create", <<Op("new", "", <<x>>)>>), Change(".env", "modify", <<>>)>>}
MCFixes ==
    {<<Change("a.py", "modify", <<Op("replace", "", <<x>>)>>)>>,
     <<Change("a.py", "modify", <<Op("prepend", x, <<y>>)>>),
       Change("b.md", "create", <<Op("create", "", <<y>>)>>)>>}
MCCompanyRules == {[paths |-> {}, tokens |-> {bad}]}
MCArchitectureRules == {[paths |-> {"b.md"}, tokens |-> {fffd}]}
MCEstimated == <<"a.py">>
=============================================================================
