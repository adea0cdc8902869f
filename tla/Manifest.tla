------------------------------- MODULE Manifest -------------------------------
(***************************************************************************)
(* The pure part of the quality gate (tools/verify-runner.mjs): its        *)
(* command line, what a manifest must say to be run, and the globs that    *)
(* select a check's files.  A JSON object is a function on its keys; paths *)
(* and globs are sequences of characters.  A value of another type than    *)
(* the schema's is refused like a missing key and is left out.             *)
(***************************************************************************)
EXTENDS Integers, Sequences, FiniteSets, SequencesExt

Tiers == {"staged", "fast", "full", "audit"}
RequiredTiers == {"staged", "fast", "full"}

ScopeFlags ==
    [flag \in {"--staged", "--fast", "--full", "--audit", "--doctor", "--fix-staged"} |->
        CASE flag = "--staged" -> "staged"
          [] flag = "--fast" -> "fast"
          [] flag = "--full" -> "full"
          [] flag = "--audit" -> "audit"
          [] flag = "--doctor" -> "doctor"
          [] flag = "--fix-staged" -> "fix-staged"]

\* Reads one argument; "expects" is set after --manifest, whose value may be anything.
ParseArg(parsed, arg) ==
    CASE parsed.error -> parsed
      [] ~parsed.error /\ parsed.expects ->
           [parsed EXCEPT !.expects = FALSE, !.manifestPath = arg]
      [] ~parsed.error /\ ~parsed.expects /\ arg = "--manifest" ->
           [parsed EXCEPT !.expects = TRUE, !.error = parsed.manifestPath # "none"]
      [] ~parsed.error /\ ~parsed.expects /\ arg \in DOMAIN ScopeFlags ->
           [parsed EXCEPT !.scope = ScopeFlags[arg], !.error = parsed.scope # "none"]
      [] OTHER -> [parsed EXCEPT !.error = TRUE]

ParseArgs(argv) ==
    LET parsed == FoldLeft(ParseArg, [error |-> FALSE, expects |-> FALSE,
                                      manifestPath |-> "none", scope |-> "none"], argv)
    IN  [ok |-> /\ ~parsed.error /\ ~parsed.expects
                /\ parsed.manifestPath # "none" /\ parsed.scope # "none",
         manifestPath |-> parsed.manifestPath, scope |-> parsed.scope]

-----------------------------------------------------------------------------
(* validateStructure *)

Keys(object, required, allowed) ==
    required \subseteq DOMAIN object /\ DOMAIN object \subseteq allowed
ExactKeys(object, keys) == DOMAIN object = keys

Stacks == {"node-service", "frontend-web", "n8n-ops", "meta-docs"}
SchedulerClasses ==
    {"github-actions-push-and-schedule", "n8n-webhook-and-schedule", "schedule-only", "local-only"}
PackageManagers == {"npm", "pnpm", "yarn", "none"}

BudgetKey(tier) ==
    CASE tier = "staged" -> "staged_seconds"
      [] tier = "fast" -> "fast_seconds"
      [] tier = "full" -> "full_seconds"
      [] tier = "audit" -> "audit_seconds"

ValidBudgets(budgets) ==
    ExactKeys(budgets, {BudgetKey(tier) : tier \in Tiers}) /\ \A k \in DOMAIN budgets : budgets[k] > 0

PolicyKeys ==
    {"mutates_by_default", "format_fix_staged_allowed", "typed_eslint_in_precommit",
     "block_new_dead_code_only"}
ValidPolicy(policy) == ExactKeys(policy, PolicyKeys)

ValidPaths(paths) == ExactKeys(paths, {"reports", "baselines"}) /\ \A k \in DOMAIN paths : paths[k] # ""

ValidGenerated(generated) ==
    Keys(generated, {"hooks_dir"}, {"hooks_dir", "ci_quality"}) /\ generated.hooks_dir # ""

ValidWorkspace(workspace) ==
    /\ ExactKeys(workspace, {"name", "path", "stack", "package_manager"})
    /\ workspace.name # "" /\ workspace.path # ""
    /\ workspace.stack \in Stacks /\ workspace.package_manager \in PackageManagers

ValidFileset(fileset) ==
    /\ Keys(fileset, {"name", "source", "include"},
            {"name", "source", "include", "exclude", "diff_filter"})
    /\ fileset.name # "" /\ fileset.source \in {"git_staged", "repo_all"} /\ fileset.include # <<>>

ValidCheck(check) ==
    /\ Keys(check, {"name", "argv", "timeout_seconds"},
            {"name", "argv", "timeout_seconds", "skip_if_empty", "mode", "baseline", "bypassable"})
    /\ check.name # "" /\ check.argv # <<>> /\ check.timeout_seconds > 0
    /\ "mode" \in DOMAIN check => check.mode \in {"blocking", "report-only"}

ValidTiers(tiers) ==
    /\ Keys(tiers, RequiredTiers, Tiers)
    /\ \A tier \in DOMAIN tiers : \A check \in ToSet(tiers[tier]) : ValidCheck(check)

ValidWorkflow(workflow) == ExactKeys(workflow, {"enabled"})

TopLevelRequired ==
    {"version", "repo", "stack", "scheduler_class", "budgets", "policy", "paths", "generated",
     "workspaces", "filesets", "tiers"}

ValidStructure(root) ==
    /\ Keys(root, TopLevelRequired, TopLevelRequired \cup {"workflow"})
    /\ root.version = 1 /\ root.repo # ""
    /\ root.stack \in Stacks /\ root.scheduler_class \in SchedulerClasses
    /\ ValidBudgets(root.budgets) /\ ValidPolicy(root.policy) /\ ValidPaths(root.paths)
    /\ ValidGenerated(root.generated)
    /\ root.workspaces # <<>>
    /\ \A workspace \in ToSet(root.workspaces) : ValidWorkspace(workspace)
    /\ \A fileset \in ToSet(root.filesets) : ValidFileset(fileset)
    /\ ValidTiers(root.tiers)
    /\ "workflow" \in DOMAIN root => ValidWorkflow(root.workflow)

\* What the validators let through has the types of the schema.
TypedFileset(fileset, Characters) ==
    /\ fileset.include \in Seq(Seq(Characters))
    /\ "exclude" \in DOMAIN fileset => fileset.exclude \in Seq(Seq(Characters))

Typed(root, Characters) ==
    /\ root.budgets \in [DOMAIN root.budgets -> Nat]
    /\ \A i \in DOMAIN root.filesets : TypedFileset(root.filesets[i], Characters)
    /\ \A tier \in DOMAIN root.tiers :
          /\ root.tiers[tier] \in Seq(ToSet(root.tiers[tier]))
          /\ \A check \in ToSet(root.tiers[tier]) :
                /\ check.timeout_seconds \in Nat
                /\ check.argv \in Seq(ToSet(check.argv))

-----------------------------------------------------------------------------
(* validateSemantics.  An argument is [files |-> name] for {files:name},   *)
(* or [text |-> word].                                                     *)

IsToken(element) == "files" \in DOMAIN element
Names(entries) == {entries[i].name : i \in DOMAIN entries}
UniqueNames(entries) == Cardinality(Names(entries)) = Len(entries)

TimeoutSum(checks) == FoldLeft(LAMBDA sum, check : sum + check.timeout_seconds, 0, checks)

TierBudgets(root) ==
    \A tier \in DOMAIN root.tiers : TimeoutSum(root.tiers[tier]) <= root.budgets[BudgetKey(tier)]

\* Mutated: only the first token is looked up, and what a check is skipped for is not.
CheckSemanticsLoose(check, filesetNames) ==
    LET tokens == {i \in DOMAIN check.argv : IsToken(check.argv[i])}
    IN  Cardinality(tokens) <= 1 /\ 1 \notin tokens

CheckSemantics(check, filesetNames) ==
    LET tokens == {i \in DOMAIN check.argv : IsToken(check.argv[i])}
    IN  /\ Cardinality(tokens) <= 1 /\ 1 \notin tokens
        /\ \A i \in tokens : check.argv[i].files \in filesetNames
        /\ "skip_if_empty" \in DOMAIN check => check.skip_if_empty \in filesetNames

Patterns(fileset) ==
    fileset.include \o (IF "exclude" \in DOMAIN fileset THEN fileset.exclude ELSE <<>>)

FilesetSemantics(fileset) ==
    /\ \A pattern \in ToSet(Patterns(fileset)) : {"?", "[", "{"} \cap ToSet(pattern) = {}
    /\ "diff_filter" \in DOMAIN fileset => fileset.source # "repo_all"

TierCheckSemantics(root) ==
    \A tier \in DOMAIN root.tiers :
        /\ UniqueNames(root.tiers[tier])
        /\ \A check \in ToSet(root.tiers[tier]) : CheckSemantics(check, Names(root.filesets))

WorkflowGate(root) == "workflow" \in DOMAIN root => ~root.workflow.enabled

ValidSemantics(root) ==
    /\ TierBudgets(root) /\ TierCheckSemantics(root)
    /\ UniqueNames(root.filesets) /\ UniqueNames(root.workspaces)
    /\ \A fileset \in ToSet(root.filesets) : FilesetSemantics(fileset)
    /\ WorkflowGate(root)

Valid(root) == ValidStructure(root) /\ ValidSemantics(root)

-----------------------------------------------------------------------------
(* glob.ts *)

CharAt(s, i) == IF i \in DOMAIN s THEN s[i] ELSE "end"

\* What the pattern says from its i-th character on, and how many characters say it.
TokenAt(pattern, i) ==
    CASE pattern[i] # "*" -> [token |-> [kind |-> "lit", ch |-> pattern[i]], width |-> 1]
      [] pattern[i] = "*" /\ CharAt(pattern, i + 1) # "*" ->
           [token |-> [kind |-> "star"], width |-> 1]
      [] pattern[i] = "*" /\ CharAt(pattern, i + 1) = "*" /\ CharAt(pattern, i + 2) # "/" ->
           [token |-> [kind |-> "globstar"], width |-> 2]
      [] OTHER -> [token |-> [kind |-> "globslash"], width |-> 3]

Tokenize(pattern) ==
    LET from[i \in 1..(Len(pattern) + 1)] ==
            IF i > Len(pattern) THEN <<>>
            ELSE <<TokenAt(pattern, i).token>> \o from[i + TokenAt(pattern, i).width]
    IN  from[1]

\* A "**/" may take the path from its i-th place on to behind a "/" where next goes on.
Taken(path, next) ==
    LET taken[i \in 0..Len(path)] ==
            i < Len(path) /\ ((path[i + 1] = "/" /\ next[i + 1]) \/ taken[i + 1])
    IN  taken

\* cur[i]: from this token on, the pattern matches the path after its first i characters.
Row(token, path, next) ==
    LET cur[i \in 0..Len(path)] ==
            \/ token.kind # "lit" /\ next[i]
            \/ token.kind = "globslash" /\ Taken(path, next)[i]
            \/ /\ i < Len(path)
               /\ \/ token.kind = "lit" /\ path[i + 1] = token.ch /\ next[i + 1]
                  \/ token.kind = "star" /\ path[i + 1] # "/" /\ cur[i + 1]
                  \/ token.kind = "globstar" /\ cur[i + 1]
    IN  cur

Matches(path, pattern) ==
    LET last == [i \in 0..Len(path) |-> i = Len(path)]
        row == FoldRight(LAMBDA token, next : Row(token, path, next), Tokenize(pattern), last)
    IN  row[0]

\* expandFileset, of the files git lists.
ExpandFileset(fileset, candidates) ==
    {file \in candidates :
        /\ \E i \in DOMAIN fileset.include : Matches(file, fileset.include[i])
        /\ "exclude" \in DOMAIN fileset =>
              ~\E i \in DOMAIN fileset.exclude : Matches(file, fileset.exclude[i])}

-----------------------------------------------------------------------------
(* What the dialect means: the places of the path a token may lead to from *)
(* the place p, read from the left.                                        *)

Reach(token, path, p) ==
    LET n == Len(path)
    IN  CASE token.kind = "lit" -> {q \in {p + 1} : q <= n /\ path[q] = token.ch}
          [] token.kind = "star" -> {q \in p..n : \A i \in (p + 1)..q : path[i] # "/"}
          [] token.kind = "globstar" -> p..n
          [] token.kind = "globslash" -> {p} \cup {q \in (p + 1)..n : path[q] = "/"}

GlobMeans(path, pattern) ==
    Len(path) \in FoldLeft(LAMBDA places, token : UNION {Reach(token, path, p) : p \in places},
                           {0}, Tokenize(pattern))

Selects(fileset, file) ==
    /\ \E i \in DOMAIN fileset.include : GlobMeans(file, fileset.include[i])
    /\ "exclude" \in DOMAIN fileset =>
          \A i \in DOMAIN fileset.exclude : ~GlobMeans(file, fileset.exclude[i])

=============================================================================
