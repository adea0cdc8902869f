----------------------------- MODULE VerifyRunner -----------------------------
(***************************************************************************)
(* The quality gate (tools/verify-runner.mjs): the hooks, the developer    *)
(* and CI run "verify" over one repository, perhaps at once.  A run reads  *)
(* its arguments and the manifest, expands the filesets, runs the checks   *)
(* of its tier one after the other under their timeouts and the tier's     *)
(* budget, and replaces the tier's report.  It may be killed anywhere.     *)
(***************************************************************************)
EXTENDS Manifest, TLC

CONSTANTS
    Runners,
    Invocations,       \* argument lists
    Manifests,         \* what quality.json may hold
    Listings,          \* files git may list
    Characters,        \* of the names of files and of globs
    Directories,       \* directories there are
    MaxDelay           \* seconds git takes, or a check goes on after its timeout's SIGTERM

ASSUME RunnerInputs == MaxDelay \in Nat /\ "none" \notin Runners

ASSUME FileNames == Listings \subseteq SUBSET Seq(Characters)

ASSUME ManifestTypes ==
    \A root \in Manifests \ {<<>>} : ValidStructure(root) => Typed(root, Characters)

VARIABLES
    manifest,          \* in quality.json, or <<>> for a file that is no JSON
    phase,             \* "start", "expand", "check", "write", "rename", "reported", "exited", "killed"
    scope, exit,
    candidates,        \* files git listed, by fileset
    filesByName,
    results,           \* one by one; "files" is what a check was given
    elapsed,
    tmp,               \* "none", "partial" or "whole"
    reports            \* by tier

runVars == <<scope, candidates, filesByName, results, elapsed>>
vars == <<manifest, phase, exit, runVars, tmp, reports>>

NoReport == [by |-> "none", whole |-> TRUE, results |-> <<>>]

Init ==
    /\ manifest \in Manifests
    /\ phase = [r \in Runners |-> "start"] /\ scope = [r \in Runners |-> "none"]
    /\ exit = [r \in Runners |-> -1]
    /\ candidates = [r \in Runners |-> <<>>] /\ filesByName = [r \in Runners |-> <<>>]
    /\ results = [r \in Runners |-> <<>>] /\ elapsed = [r \in Runners |-> 0]
    /\ tmp = [r \in Runners |-> "none"]
    /\ reports = [tier \in Tiers |-> NoReport]

Exit(r, code) ==
    phase' = [phase EXCEPT ![r] = "exited"] /\ exit' = [exit EXCEPT ![r] = code]
Go(r, p) == phase' = [phase EXCEPT ![r] = p] /\ UNCHANGED exit

ExitUsage == 2
ExitManifest == 1
ExitCheckFailed == 1

-----------------------------------------------------------------------------
(* main, up to the tier. *)

Loadable(path) == path = "quality.json" /\ manifest # <<>> /\ Valid(manifest)

\* Missing hooks are only reported.
Doctor == \A i \in DOMAIN manifest.workspaces : manifest.workspaces[i].path \in Directories

Start(r) ==
    /\ phase[r] = "start"
    /\ \E argv \in Invocations :
        LET invocation == ParseArgs(argv)
        IN  \/ ~invocation.ok /\ Exit(r, ExitUsage) /\ UNCHANGED scope
            \/ /\ invocation.ok /\ ~Loadable(invocation.manifestPath)
               /\ Exit(r, ExitManifest) /\ UNCHANGED scope
            \/ /\ invocation.ok /\ Loadable(invocation.manifestPath)
               /\ scope' = [scope EXCEPT ![r] = invocation.scope]
               /\ \/ invocation.scope = "doctor" /\ Exit(r, IF Doctor THEN 0 ELSE 1)
                  \/ invocation.scope = "fix-staged" /\ Exit(r, ExitUsage)
                  \/ invocation.scope \in Tiers /\ Go(r, "expand")
    /\ UNCHANGED <<manifest, candidates, filesByName, results, elapsed, tmp, reports>>

-----------------------------------------------------------------------------
(* runTier *)

Filesets == {manifest.filesets[i] : i \in DOMAIN manifest.filesets}
FilesetNamed(name) == CHOOSE fileset \in Filesets : fileset.name = name

TierChecks(r) ==
    IF scope[r] \in DOMAIN manifest.tiers THEN manifest.tiers[scope[r]] ELSE <<>>

BudgetSeconds(r) == manifest.budgets[BudgetKey(scope[r])]

\* Mutated: the error is swallowed and no exit code set.
ThrowsQuietly(r) == Go(r, "exited") /\ UNCHANGED <<manifest, scope, reports>>

\* Anything that throws in the tier: no report.
Throws(r) == Exit(r, 1) /\ UNCHANGED <<manifest, scope, reports>>

\* Each fileset is listed by a git call of its own: the index may change in between.
Expand(r) ==
    /\ phase[r] = "expand"
    /\ \E listed \in [Names(manifest.filesets) -> Listings], delay \in 0..MaxDelay :
        /\ candidates' = [candidates EXCEPT ![r] = listed]
        /\ filesByName' = [filesByName EXCEPT ![r] =
               [name \in DOMAIN listed |-> ExpandFileset(FilesetNamed(name), listed[name])]]
        /\ elapsed' = [elapsed EXCEPT ![r] = delay]
    /\ Go(r, "check")
    /\ UNCHANGED <<manifest, scope, results, tmp, reports>>

GitFails(r) ==
    /\ phase[r] = "expand"
    /\ Throws(r) /\ UNCHANGED <<candidates, filesByName, results, elapsed, tmp>>

\* The files of a name; none for a name that is not declared.
FilesOf(r, name) == IF name \in DOMAIN filesByName[r] THEN filesByName[r][name] ELSE {}
Operands(r, check) ==
    UNION {FilesOf(r, check.argv[i].files) : i \in {j \in DOMAIN check.argv : IsToken(check.argv[j])}}

OptionLike(file) == file[1] \in {"-", "@"}

\* No file name that a command would read as an option.
Expandable(r, check) == \A file \in Operands(r, check) : ~OptionLike(file)

Skipped(r, check) ==
    \/ "skip_if_empty" \in DOMAIN check /\ FilesOf(r, check.skip_if_empty) = {}
    \/ Operands(r, check) = {} /\ \A i \in DOMAIN check.argv : IsToken(check.argv[i])

Mode(check) == IF "mode" \in DOMAIN check THEN check.mode ELSE "blocking"

\* How a check may end, and how long it took; a child slow to heed SIGTERM takes longer.
Outcomes(check) ==
    {[status |-> s, took |-> t] : s \in {"pass", "fail"}, t \in 0..check.timeout_seconds}
    \cup {[status |-> "timeout", took |-> check.timeout_seconds + t] : t \in 0..MaxDelay}

Checking(r) == phase[r] = "check" /\ Len(results[r]) < Len(TierChecks(r))
NextCheck(r) == TierChecks(r)[Len(results[r]) + 1]

\* assertWithinBudget, after every check, also the last.
AfterCheck(r, result, took) ==
    /\ results' = [results EXCEPT ![r] = Append(@, result)]
    /\ elapsed' = [elapsed EXCEPT ![r] = @ + took]
    /\ IF elapsed'[r] > BudgetSeconds(r) THEN Throws(r)
       ELSE Go(r, "check") /\ UNCHANGED <<manifest, scope, reports>>
    /\ UNCHANGED <<candidates, filesByName, tmp>>

SkipCheck(r) ==
    /\ Checking(r) /\ Skipped(r, NextCheck(r))
    /\ AfterCheck(r, [status |-> "skipped", mode |-> Mode(NextCheck(r)), files |-> {}], 0)

RunCheck(r) ==
    /\ Checking(r) /\ ~Skipped(r, NextCheck(r)) /\ Expandable(r, NextCheck(r))
    /\ \E outcome \in Outcomes(NextCheck(r)) :
        AfterCheck(r, [status |-> outcome.status, mode |-> Mode(NextCheck(r)),
                       files |-> Operands(r, NextCheck(r))], outcome.took)

RefuseOperand(r) ==
    /\ Checking(r) /\ ~Skipped(r, NextCheck(r)) /\ ~Expandable(r, NextCheck(r))
    /\ Throws(r) /\ UNCHANGED <<candidates, filesByName, results, elapsed, tmp>>

-----------------------------------------------------------------------------
(* writeReport: a temporary file of its own, renamed over the tier's report. *)

Report(r, whole) == [by |-> r, whole |-> whole, results |-> results[r]]

\* Where its symbolic links lead, too.
WithinRoot == manifest.paths.reports # "outside"

\* Mutated: written where it is read.
OpenTmpInPlace(r) ==
    /\ phase[r] = "check" /\ Len(results[r]) = Len(TierChecks(r))
    /\ IF ~WithinRoot
       THEN Throws(r) /\ UNCHANGED tmp
       ELSE /\ Go(r, "write") /\ tmp' = [tmp EXCEPT ![r] = "partial"]
            /\ reports' = [reports EXCEPT ![scope[r]] = Report(r, FALSE)]
            /\ UNCHANGED <<manifest, scope>>
    /\ UNCHANGED <<candidates, filesByName, results, elapsed>>

\* Only inside the repository.
OpenTmp(r) ==
    /\ phase[r] = "check" /\ Len(results[r]) = Len(TierChecks(r))
    /\ IF ~WithinRoot
       THEN Throws(r) /\ UNCHANGED tmp
       ELSE /\ Go(r, "write") /\ tmp' = [tmp EXCEPT ![r] = "partial"]
            /\ UNCHANGED <<manifest, scope, reports>>
    /\ UNCHANGED <<candidates, filesByName, results, elapsed>>

\* Not cleaned up if the disk is full.
FillTmp(r) ==
    /\ phase[r] = "write"
    /\ \/ Go(r, "rename") /\ tmp' = [tmp EXCEPT ![r] = "whole"] /\ UNCHANGED <<manifest, scope, reports>>
       \/ Throws(r) /\ UNCHANGED tmp
    /\ UNCHANGED <<candidates, filesByName, results, elapsed>>

\* Mutated: a timeout does not count.
BlockingFailedOnly(r) ==
    \E i \in DOMAIN results[r] :
        results[r][i].mode = "blocking" /\ results[r][i].status = "fail"

BlockingFailed(r) ==
    \E i \in DOMAIN results[r] :
        results[r][i].mode = "blocking" /\ results[r][i].status \in {"fail", "timeout"}

RenameTmp(r) ==
    /\ phase[r] = "rename"
    /\ tmp' = [tmp EXCEPT ![r] = "none"]
    /\ reports' = [reports EXCEPT ![scope[r]] = Report(r, tmp[r] = "whole")]
    /\ Go(r, "reported")
    /\ UNCHANGED <<manifest, runVars>>

\* The temporary file is removed, if that works.
RenameFails(r) ==
    /\ phase[r] = "rename"
    /\ tmp' \in {tmp, [tmp EXCEPT ![r] = "none"]}
    /\ Throws(r) /\ UNCHANGED <<candidates, filesByName, results, elapsed>>

Finish(r) ==
    /\ phase[r] = "reported"
    /\ Exit(r, IF BlockingFailed(r) THEN ExitCheckFailed ELSE 0)
    /\ UNCHANGED <<manifest, runVars, tmp, reports>>

Kill(r) ==
    /\ phase[r] \notin {"exited", "killed"}
    /\ Go(r, "killed")
    /\ UNCHANGED <<manifest, runVars, tmp, reports>>

-----------------------------------------------------------------------------
RunTier(r) ==
    \/ Expand(r) \/ GitFails(r) \/ SkipCheck(r) \/ RunCheck(r) \/ RefuseOperand(r)
    \/ OpenTmp(r) \/ FillTmp(r) \/ RenameTmp(r) \/ RenameFails(r) \/ Finish(r)

Over == (\A r \in Runners : phase[r] \in {"exited", "killed"}) /\ UNCHANGED vars

Next == (\E r \in Runners : Start(r) \/ RunTier(r) \/ Kill(r)) \/ Over

Spec == Init /\ [][Next]_vars

-----------------------------------------------------------------------------
(* What a green gate promises. *)

TypeOK ==
    /\ manifest \in Manifests
    /\ phase \in [Runners -> {"start", "expand", "check", "write", "rename", "reported", "exited",
                          "killed"}]
    /\ exit \in [Runners -> {-1, 0, 1, 2}]
    /\ scope \in [Runners -> {"none", "doctor", "fix-staged"} \cup Tiers]
    /\ elapsed \in [Runners -> Nat] /\ tmp \in [Runners -> {"none", "partial", "whole"}]
    /\ \A r \in Runners :
        /\ exit[r] = -1 <=> phase[r] # "exited"
        /\ scope[r] \in Tiers => Len(results[r]) <= Len(TierChecks(r))
        /\ \A i \in DOMAIN results[r] : results[r][i].status \in {"pass", "fail", "timeout", "skipped"}
    /\ \A tier \in Tiers : reports[tier].by \in Runners \cup {"none"}

\* The files the manifest means a check to see, of those git listed.
Meant(r, name) == {file \in candidates[r][name] : Selects(FilesetNamed(name), file)}
Declared(name) == name \in Names(manifest.filesets)

\* The check had them all and passed, or there were none it was made for.
Cleared(r, check, result) ==
    \/ result.status = "skipped" /\ "skip_if_empty" \in DOMAIN check
       /\ Declared(check.skip_if_empty) /\ Meant(r, check.skip_if_empty) = {}
    \/ /\ result.status = "pass" \/ (result.status # "skipped" /\ Mode(check) = "report-only")
       /\ \A i \in DOMAIN check.argv :
            IsToken(check.argv[i]) => /\ Declared(check.argv[i].files)
                                      /\ result.files = Meant(r, check.argv[i].files)

(***************************************************************************)
(* A tier that exits 0 has run every check of a valid manifest, on the     *)
(* files its globs mean, within the tier's budget (which a tier of no      *)
(* checks is never held to); every blocking check passed or had nothing    *)
(* to look at, and a whole report is in place                              *)
(* (verify-runner.mjs:592-626, 685-773, 898-923).                          *)
(***************************************************************************)
GreenMeansChecked ==
    \A r \in Runners :
        exit[r] = 0 /\ scope[r] \in Tiers =>
            /\ Valid(manifest)
            /\ results[r] # <<>> => elapsed[r] <= BudgetSeconds(r)
            /\ Len(results[r]) = Len(TierChecks(r))
            /\ \A i \in DOMAIN results[r] : Cleared(r, TierChecks(r)[i], results[r][i])
            /\ reports[scope[r]].by # "none"

(***************************************************************************)
(* Whoever is killed or races for it, a report is never read half written  *)
(* and never mixes two runs: it is all that one run found, of a run that   *)
(* came through its whole tier (verify-runner.mjs:778-801).                *)
(***************************************************************************)
ReportsWhole ==
    \A tier \in Tiers :
        LET report == reports[tier]
        IN  /\ report.whole
            /\ report.by # "none" =>
                  /\ scope[report.by] = tier /\ report.results = results[report.by]
                  /\ Len(report.results) = Len(TierChecks(report.by))

=============================================================================
