---------------------------- MODULE ChangeApplier ----------------------------
(***************************************************************************)
(* SafeChangeApplier (services/agent/safe_change_applier.py): a change     *)
(* plan is worked out in memory, against the files as they are, then       *)
(* written file by file; what was overwritten is kept for a rollback.      *)
(*                                                                         *)
(* A text is a sequence of tokens, a byte and an anchor a token each.      *)
(***************************************************************************)
EXTENDS Integers, SequencesExt

CONSTANTS
    Files,          \* files of a workspace
    Names,          \* paths as a plan spells them; two may be one file
    Resolve,        \* Resolve[name]: SecureWorkspaceManager.resolve_path
    Rejected,       \* ... of a path that it refuses
    Missing,        \* the empty path
    Tokens,
    Decode,         \* Decode[token]: itself, or U+FFFD for a byte that is not UTF-8
    NoFile,         \* in place of the text of a file that does not exist
    MaxFiles, MaxBytes

ASSUME ApplierAssumption ==
    /\ Resolve \in [Names -> Files \cup {Rejected}] /\ Rejected \notin Files
    /\ Decode \in [Tokens -> Tokens] /\ NoFile \notin Seq(Tokens)
    /\ \A token \in Tokens : Decode[Decode[token]] = Decode[token]   \* U+FFFD is UTF-8
    /\ MaxFiles \in Nat /\ MaxBytes \in Nat

Texts == Seq(Tokens)
Readable == {token \in Tokens : Decode[token] = token}
Trees == [Files -> Texts \cup {NoFile}]

SUPPORTED_OPERATIONS == {"create_file", "replace_file", "insert_after", "insert_before",
                         "replace_block", "delete_file"}
OPERATION_SYNONYMS ==
    [create_file |-> {"create", "add", "new", "add_file"},
     replace_file |-> {"replace", "rewrite", "overwrite", "modify", "update", "edit", "change"},
     delete_file |-> {"delete", "remove", "remove_file"},
     insert_after |-> {"insert", "after", "append"},
     insert_before |-> {"before", "prepend"},
     replace_block |-> {"replace_text", "replace_section"}]

\* A modification with an anchor edits in place, one without replaces the file.
NormalizeOperationType(raw, hasTarget) ==
    LET mapped == {type \in SUPPORTED_OPERATIONS : raw \in OPERATION_SYNONYMS[type]}
    IN  IF raw \in SUPPORTED_OPERATIONS \/ mapped = {} THEN raw
        ELSE IF mapped = {"replace_file"} /\ hasTarget THEN "replace_block"
        ELSE CHOOSE type \in mapped : TRUE

\* A change list: JSON, so that what it would write is text.
IsChanges(changes) ==
    /\ changes \in Seq(ToSet(changes))
    /\ \A change \in ToSet(changes) :
          /\ change.path \in Names \cup {Missing}
          /\ change.operations \in Seq(ToSet(change.operations))
          /\ \A op \in ToSet(change.operations) : op.content \in Seq(Readable)

-----------------------------------------------------------------------------
(* Computation: an entry for every spelling of a path that the plan has.     *)

Entry(tree, name) ==
    LET text == tree[Resolve[name]]
    IN  [deleted |-> FALSE,
         content |-> IF text = NoFile THEN NoFile ELSE [i \in DOMAIN text |-> Decode[text[i]]]]

Edit(body, type, anchor, content) ==
    LET at == SelectInSeq(body, LAMBDA token : token = anchor)
    IN  SubSeq(body, 1, IF type = "insert_after" THEN at ELSE at - 1) \o content
        \o SubSeq(body, IF type = "insert_before" THEN at ELSE at + 1, Len(body))

\* Seeded (here and below: faults that no code has): a file is written after what
\* it has.
SeededAppends(entry, op) ==
    IF NormalizeOperationType(op.type, op.target # "") = "delete_file"
    THEN [entry EXCEPT !.deleted = TRUE]
    ELSE [deleted |-> FALSE,
          content |-> IF entry.content = NoFile THEN op.content ELSE entry.content \o op.content]
ApplyOp(entry, op) ==
    LET type == NormalizeOperationType(op.type, op.target # "")
    IN  CASE type \in {"create_file", "replace_file"} ->
               IF op.content = <<>> THEN entry    \* never empties a file
               ELSE [content |-> op.content, deleted |-> FALSE]
          [] type = "delete_file" -> [entry EXCEPT !.deleted = TRUE]
          [] type \in {"insert_after", "insert_before", "replace_block"} ->
               IF \/ entry.content = NoFile \/ entry.deleted
                  \/ op.target \notin ToSet(entry.content)
               THEN entry
               ELSE [entry EXCEPT !.content = Edit(@, type, op.target, op.content)]
          [] OTHER -> entry                       \* skipped and reported

\* The operations on a path, of all the changes that spell it so.
OperationsOn(changes, name) ==
    FlattenSeq([i \in DOMAIN changes |->
                   IF changes[i].path = name THEN changes[i].operations ELSE <<>>])

Compute(tree, changes) ==
    [name \in {change.path : change \in ToSet(changes)} \ {Missing} |->
        FoldLeft(ApplyOp, Entry(tree, name), OperationsOn(changes, name))]

Outcome(entry) == IF entry.deleted THEN NoFile ELSE entry.content

\* The spellings under which a file is written: where the outcome is not what it was.
Changed(tree, plan, file) ==
    {name \in DOMAIN plan : Resolve[name] = file /\ Outcome(plan[name]) # tree[file]}

\* The size of every file that the plan names counts, changed or not.
NewBytes(plan) ==
    MapThenSumSet(LAMBDA name : IF Outcome(plan[name]) = NoFile THEN 0 ELSE Len(Outcome(plan[name])),
                  DOMAIN plan)

\* Nothing is written: a path that is refused, or a limit that is exceeded.
Refused(tree, changes) ==
    IF \E change \in ToSet(changes) :
           change.path # Missing /\ Resolve[change.path] = Rejected
    THEN TRUE
    ELSE LET plan == Compute(tree, changes)
         IN  Cardinality(DOMAIN plan) > MaxFiles \/ NewBytes(plan) > MaxBytes

-----------------------------------------------------------------------------
(* Writing, and taking back. *)

\* Where a plan first has a spelling: entries are written in this order.
Mention(changes, name) == SelectInSeq(changes, LAMBDA change : change.path = name)

\* The files once the entries that the first k changes mention have been written.
Write(tree, changes, k) ==
    LET plan == Compute(tree, changes)
        writers(file) == {name \in Changed(tree, plan, file) : Mention(changes, name) <= k}
    IN  [file \in Files |->
            IF writers(file) = {} THEN tree[file]
            ELSE Outcome(plan[CHOOSE name \in writers(file) : \A other \in writers(file) :
                                  Mention(changes, other) <= Mention(changes, name)])]

\* Seeded: a file that is created is not recorded.
SeededOnlyExisting(tree, changes) ==
    [file \in {f \in Files : tree[f] # NoFile /\ Changed(tree, Compute(tree, changes), f) # {}} |->
        tree[file]]
Snapshot(tree, changes) ==
    [file \in {f \in Files : Changed(tree, Compute(tree, changes), f) # {}} |-> tree[file]]

Rollback(tree, snapshot) ==
    [file \in Files |-> IF file \in DOMAIN snapshot THEN snapshot[file] ELSE tree[file]]

-----------------------------------------------------------------------------
(* Reference: the operations one after the other, on the files themselves.   *)

OnFile(files, name, op) ==
    [files EXCEPT ![Resolve[name]] = Outcome(ApplyOp(Entry(files, name), op))]
OnFiles(files, change) ==
    IF change.path = Missing THEN files
    ELSE FoldLeft(LAMBDA fs, op : OnFile(fs, change.path, op), files, change.operations)
InSequence(tree, changes) == FoldLeft(OnFiles, tree, changes)

\* No two spellings of one file.
Unaliased(changes) ==
    \A one, other \in {change.path : change \in ToSet(changes)} \ {Missing} :
        one # other => Resolve[one] # Resolve[other]
=============================================================================
