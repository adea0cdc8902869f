--------------------------- MODULE MCVerifyRunner ---------------------------
(***************************************************************************)
(* Small instances of VerifyRunner for TLC: manifests like quality.json,   *)
(* and some with one thing wrong; two runs at once.                        *)
(***************************************************************************)
EXTENDS VerifyRunner

CONSTANTS hook, developer

BothRunners == {hook, developer}
Symmetric == Permutations(BothRunners)

Command(scopeFlag) == <<"--manifest", "quality.json", scopeFlag>>
CommandLines ==
    {Command("--staged"), Command("--fast"), Command("--full"), Command("--doctor"),
     Command("--fix-staged"), <<"--fast", "--manifest", "nowhere.json">>, <<"--staged", "--manifest">>,
     Command("--staged") \o <<"--full">>, <<"--quiet">>}

Source == <<"d", "/", "e", "/", "t">>
Test == <<"t">>
Option == <<"-", "/", "t">>
Letters == {"d", "e", "t", "/", "-", "*", "?"}
Lists == {{}, {Source}, {Source, Test}, {Test, Option}}

Exe == [text |-> "lint"]
Files(name) == [files |-> name]

Fileset(include, exclude) ==
    [name |-> "staged_ts", source |-> "git_staged", include |-> include, exclude |-> exclude,
     diff_filter |-> "ACMR"]
AnyTs == Fileset(<<<<"*", "*", "/", "t">>>>, <<<<"-", "*">>>>)
NestedTs == Fileset(<<<<"d", "/", "*", "*">>, <<"*">>>>, <<>>)

Lint == [name |-> "lint", argv |-> <<Exe, Files("staged_ts")>>, timeout_seconds |-> 1,
         skip_if_empty |-> "staged_ts"]
DeadCode == [name |-> "dead-code", argv |-> <<Exe>>, timeout_seconds |-> 1, mode |-> "report-only"]

Base ==
    [version |-> 1, repo |-> "agents", stack |-> "node-service", scheduler_class |-> "local-only",
     budgets |-> [k \in {BudgetKey(tier) : tier \in Tiers} |->
                    IF k = "fast_seconds" THEN 1 ELSE 2],
     policy |-> [k \in PolicyKeys |-> FALSE],
     paths |-> [reports |-> "reports", baselines |-> "baselines"],
     generated |-> [hooks_dir |-> "hooks"],
     workspaces |-> <<[name |-> "root", path |-> ".", stack |-> "node-service",
                       package_manager |-> "npm"]>>,
     filesets |-> <<AnyTs>>,
     tiers |-> [staged |-> <<Lint>>, fast |-> <<>>, full |-> <<Lint, DeadCode>>]]

Without(object, key) == Restrict(object, DOMAIN object \ {key})
With(key, value) == (key :> value) @@ Base
Full(checks) == With("tiers", [Base.tiers EXCEPT !.full = checks])

Good ==
    {Base, With("filesets", <<NestedTs>>), With("workflow", [enabled |-> FALSE]),
     With("paths", [Base.paths EXCEPT !.reports = "outside"]),
     With("workspaces", <<[Base.workspaces[1] EXCEPT !.path = "gone"]>>)}

Bad ==
    {<<>>, Without(Base, "policy"), With("version", 2), With("workflow", [enabled |-> TRUE]),
     With("extra", "x"), With("budgets", [Base.budgets EXCEPT !["full_seconds"] = 1]),
     With("tiers", Without(Base.tiers, "fast")), With("filesets", <<AnyTs, NestedTs>>),
     With("filesets", <<[AnyTs EXCEPT !.source = "repo_all"]>>),
     With("filesets", <<Fileset(<<<<"t", "?">>>>, <<>>)>>),
     Full(<<Lint, Lint>>), Full(<<[Lint EXCEPT !.argv = <<Files("staged_ts")>>]>>),
     Full(<<[Lint EXCEPT !.argv = <<Exe, Files("staged_js")>>]>>),
     Full(<<[Lint EXCEPT !.skip_if_empty = "staged_js"]>>),
     Full(<<Lint, [DeadCode EXCEPT !.mode = "advisory"]>>)}

AnyManifest == Good \cup Bad

\* Every glob and path of up to four characters: both readings of the dialect agree.
Strings(chars) == UNION {[1..n -> chars] : n \in 0..4}

ASSUME GlobDialect ==
    \A pattern \in Strings({"t", "/", "*"}), path \in Strings({"t", "/"}) :
        Matches(path, pattern) <=> GlobMeans(path, pattern)
=============================================================================
