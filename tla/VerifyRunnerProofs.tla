-------------------------- MODULE VerifyRunnerProofs --------------------------
(***************************************************************************)
(* The quality gate, for any number of runners, any manifests and any      *)
(* files: its reports are whole and of one run, and a tier that exits 0    *)
(* has checked what its manifest means.                                    *)
(***************************************************************************)
EXTENDS VerifyRunner, ManifestProofs

\* The state of a runner is a function of the runner, that of a report of its tier.
ShapeInv ==
    /\ DOMAIN phase = Runners /\ DOMAIN scope = Runners /\ DOMAIN results = Runners
    /\ DOMAIN tmp = Runners /\ DOMAIN reports = Tiers

\* A runner writes only what it found in its whole tier, and renames only a whole file.
WriterInv ==
    \A r \in Runners :
        /\ phase[r] \in {"write", "rename"} => Len(results[r]) = Len(TierChecks(r))
        /\ phase[r] = "rename" => tmp[r] = "whole"

\* A report in place is of a runner that has nothing more to find.
Done == {"reported", "exited", "killed"}

Settled(tier, report) ==
    /\ report.whole
    /\ report.by # "none" =>
          /\ report.by \in Runners /\ phase[report.by] \in Done
          /\ scope[report.by] = tier /\ report.results = results[report.by]
          /\ Len(report.results) = Len(TierChecks(report.by))

ReportInv == \A tier \in Tiers : Settled(tier, reports[tier])

GateInv == ShapeInv /\ WriterInv /\ ReportInv

-----------------------------------------------------------------------------
\* A step of a runner.
StepOf(r) ==
    /\ manifest' = manifest
    /\ phase[r] \in Done => phase'[r] \in Done /\ scope'[r] = scope[r] /\ results'[r] = results[r]
    /\ \A q \in Runners \ {r} :
          /\ phase'[q] = phase[q] /\ scope'[q] = scope[q]
          /\ results'[q] = results[q] /\ tmp'[q] = tmp[q]

\* It leaves the other writers alone.
LEMMA OthersWrite ==
    ASSUME NEW r \in Runners, WriterInv, StepOf(r),
           phase'[r] \in {"write", "rename"} => Len(results'[r]) = Len(TierChecks(r)'),
           phase'[r] = "rename" => tmp'[r] = "whole"
    PROVE  WriterInv'
  BY DEF WriterInv, StepOf, TierChecks

\* It leaves settled reports settled.
LEMMA StaysSettled ==
    ASSUME NEW r \in Runners, StepOf(r), NEW tier, NEW report, Settled(tier, report)
    PROVE  Settled(tier, report)'
  BY DEF Settled, StepOf, TierChecks

\* A step that neither writes nor reports.
LEMMA QuietStep ==
    ASSUME NEW r \in Runners, GateInv, StepOf(r), ShapeInv',
           reports' = reports, phase'[r] \notin {"write", "rename"}
    PROVE  GateInv'
<1>1. WriterInv'
  BY OthersWrite DEF GateInv
<1>2. ReportInv'
  <2> SUFFICES ASSUME NEW tier \in Tiers PROVE Settled(tier, reports[tier])'
    BY DEF ReportInv, Tiers
  <2>1. Settled(tier, reports[tier])
    BY DEF GateInv, ReportInv
  <2> QED
    BY <2>1, StaysSettled
<1> QED
  BY <1>1, <1>2 DEF GateInv

\* Where a runner goes.
LEMMA Going ==
    ASSUME NEW r \in Runners, NEW p, ShapeInv, phase' = [phase EXCEPT ![r] = p]
    PROVE  /\ DOMAIN phase' = Runners /\ phase'[r] = p
           /\ \A q \in Runners \ {r} : phase'[q] = phase[q]
  BY DEF ShapeInv

LEMMA AfterCheckKeeps ==
    ASSUME NEW r \in Runners, GateInv, phase[r] = "check", NEW result, NEW took,
           AfterCheck(r, result, took)
    PROVE  GateInv'
<1> USE DEF GateInv
<1>1. /\ results' = [results EXCEPT ![r] = Append(@, result)]
      /\ tmp' = tmp /\ manifest' = manifest /\ scope' = scope /\ reports' = reports
  BY DEF AfterCheck, Throws
<1>2. PICK p \in {"exited", "check"} : phase' = [phase EXCEPT ![r] = p]
  BY DEF AfterCheck, Throws, Exit, Go
<1>3. StepOf(r) /\ ShapeInv'
  BY <1>1, <1>2, Going DEF ShapeInv, StepOf, Done
<1> QED
  BY <1>1, <1>2, <1>3, Going, QuietStep

\* A step that changes no runner's scope, results or file, but its phase.
LEMMA OnlyMoves ==
    ASSUME NEW r \in Runners, GateInv, NEW p \in {"exited", "killed", "check"},
           phase[r] \in Done => p \in Done, phase' = [phase EXCEPT ![r] = p],
           manifest' = manifest, reports' = reports, scope' = scope, results' = results,
           tmp' = tmp
    PROVE  GateInv'
<1>1. StepOf(r) /\ ShapeInv'
  BY Going DEF GateInv, ShapeInv, StepOf, Done
<1> QED
  BY <1>1, Going, QuietStep DEF GateInv

\* One lemma per way of the report to its place.
LEMMA StartKeeps == ASSUME NEW r \in Runners, GateInv, Start(r) PROVE GateInv'
<1>1. PICK p, s : /\ p \in {"exited", "expand"}
                  /\ phase' = [phase EXCEPT ![r] = p]
                  /\ scope' \in {scope, [scope EXCEPT ![r] = s]}
  BY DEF Start, Exit, Go
<1>2. /\ manifest' = manifest /\ results' = results /\ tmp' = tmp /\ reports' = reports
      /\ phase[r] = "start"
  BY DEF Start
<1>3. StepOf(r) /\ ShapeInv'
  BY <1>1, <1>2, Going DEF GateInv, ShapeInv, StepOf, Done
<1> QED
  BY <1>1, <1>2, <1>3, Going, QuietStep DEF GateInv

LEMMA OpenKeeps == ASSUME NEW r \in Runners, GateInv, OpenTmp(r) PROVE GateInv'
<1>1. /\ phase[r] = "check" /\ Len(results[r]) = Len(TierChecks(r))
      /\ manifest' = manifest /\ scope' = scope /\ results' = results /\ reports' = reports
  BY DEF OpenTmp, Throws
<1>2. CASE ~WithinRoot
  <2>1. phase' = [phase EXCEPT ![r] = "exited"] /\ tmp' = tmp
    BY <1>2 DEF OpenTmp, Throws, Exit
  <2> QED
    BY <1>1, <2>1, OnlyMoves DEF Done
<1>3. CASE WithinRoot
  <2>1. phase' = [phase EXCEPT ![r] = "write"] /\ tmp' = [tmp EXCEPT ![r] = "partial"]
    BY <1>3 DEF OpenTmp, Go
  <2>2. StepOf(r) /\ ShapeInv'
    BY <1>1, <2>1, Going DEF GateInv, ShapeInv, StepOf, Done
  <2>3. TierChecks(r)' = TierChecks(r) /\ results'[r] = results[r] /\ phase'[r] = "write"
    BY <1>1, <2>1, Going DEF GateInv, TierChecks
  <2>4. WriterInv'
    BY <1>1, <2>2, <2>3, OthersWrite DEF GateInv
  <2>5. ReportInv'
    BY <1>1, <2>2, StaysSettled DEF GateInv, ReportInv
  <2> QED
    BY <2>2, <2>4, <2>5 DEF GateInv
<1> QED
  BY <1>2, <1>3

LEMMA FillKeeps == ASSUME NEW r \in Runners, GateInv, FillTmp(r) PROVE GateInv'
<1>1. /\ phase[r] = "write"
      /\ manifest' = manifest /\ scope' = scope /\ results' = results /\ reports' = reports
  BY DEF FillTmp, Throws
<1>2. CASE Throws(r) /\ UNCHANGED tmp
  BY <1>1, <1>2, OnlyMoves DEF Throws, Exit, Done
<1>3. CASE Go(r, "rename") /\ tmp' = [tmp EXCEPT ![r] = "whole"]
  <2>1. StepOf(r) /\ ShapeInv'
    BY <1>1, <1>3, Going DEF GateInv, ShapeInv, StepOf, Go, Done
  <2>2. /\ TierChecks(r)' = TierChecks(r) /\ results'[r] = results[r]
        /\ phase'[r] = "rename" /\ tmp'[r] = "whole"
    BY <1>1, <1>3, Going DEF GateInv, ShapeInv, TierChecks, Go
  <2>3. Len(results[r]) = Len(TierChecks(r))
    BY <1>1 DEF GateInv, WriterInv
  <2>4. WriterInv'
    BY <2>1, <2>2, <2>3, OthersWrite DEF GateInv
  <2>5. ReportInv'
    BY <1>1, <2>1, StaysSettled DEF GateInv, ReportInv
  <2> QED
    BY <2>1, <2>4, <2>5 DEF GateInv
<1> QED
  BY <1>2, <1>3 DEF FillTmp

LEMMA RenameKeeps == ASSUME NEW r \in Runners, GateInv, RenameTmp(r) PROVE GateInv'
<1>1. /\ phase[r] = "rename" /\ phase' = [phase EXCEPT ![r] = "reported"]
      /\ manifest' = manifest /\ scope' = scope /\ results' = results
      /\ tmp' = [tmp EXCEPT ![r] = "none"]
      /\ reports' = [reports EXCEPT ![scope[r]] = Report(r, tmp[r] = "whole")]
  BY DEF RenameTmp, Go, runVars
<1>2. StepOf(r) /\ ShapeInv' /\ phase'[r] = "reported"
  BY <1>1, Going DEF GateInv, ShapeInv, StepOf, Done
<1>3. WriterInv'
  BY <1>2, OthersWrite DEF GateInv
<1>4. ReportInv'
  <2> SUFFICES ASSUME NEW tier \in Tiers PROVE Settled(tier, reports[tier])'
    BY DEF ReportInv, Tiers
  <2>1. CASE tier # scope[r]
    <3>1. reports'[tier] = reports[tier]
      BY <1>1, <2>1 DEF GateInv, ShapeInv
    <3> QED
      BY <1>2, <3>1, StaysSettled DEF GateInv, ReportInv
  <2>2. CASE tier = scope[r]
    <3>1. tmp[r] = "whole" /\ Len(results[r]) = Len(TierChecks(r))
      BY <1>1 DEF GateInv, WriterInv
    <3>2. reports'[tier] = Report(r, tmp[r] = "whole")
      BY <1>1, <2>2 DEF GateInv, ShapeInv
    <3>3. /\ reports'[tier].by = r /\ reports'[tier].results = results[r]
          /\ reports'[tier].whole = (tmp[r] = "whole")
      BY <3>2 DEF Report
    <3>4. reports'[tier].whole
      BY <3>1, <3>3, Zenon
    <3>5. scope' = scope /\ manifest' = manifest /\ results' = results /\ phase'[r] = "reported"
      BY <1>1, <1>2
    <3> QED
      BY <2>2, <3>1, <3>3, <3>4, <3>5 DEF Settled, TierChecks, Done
  <2> QED
    BY <2>1, <2>2
<1> QED
  BY <1>2, <1>3, <1>4 DEF GateInv

LEMMA RenameFailsKeeps == ASSUME NEW r \in Runners, GateInv, RenameFails(r) PROVE GateInv'
<1>1. /\ phase[r] = "rename" /\ phase' = [phase EXCEPT ![r] = "exited"]
      /\ manifest' = manifest /\ scope' = scope /\ results' = results /\ reports' = reports
      /\ tmp' \in {tmp, [tmp EXCEPT ![r] = "none"]}
  BY DEF RenameFails, Throws, Exit
<1>2. StepOf(r) /\ ShapeInv' /\ phase'[r] = "exited"
  BY <1>1, Going DEF GateInv, ShapeInv, StepOf, Done
<1> QED
  BY <1>1, <1>2, QuietStep

-----------------------------------------------------------------------------
LEMMA GateStep == ASSUME GateInv, [Next]_vars PROVE GateInv'
<1>1. ASSUME NEW r \in Runners, Start(r) \/ RunTier(r) \/ Kill(r) PROVE GateInv'
  <2>1. CASE Expand(r)
    <3>1. /\ phase[r] = "expand" /\ phase' = [phase EXCEPT ![r] = "check"]
          /\ manifest' = manifest /\ scope' = scope /\ results' = results /\ tmp' = tmp
          /\ reports' = reports
      BY <2>1 DEF Expand, Go
    <3> QED
      BY <3>1, OnlyMoves DEF Done
  <2>2. CASE GitFails(r) \/ RefuseOperand(r)
    <3>1. /\ phase[r] \in {"expand", "check"} /\ phase' = [phase EXCEPT ![r] = "exited"]
          /\ manifest' = manifest /\ scope' = scope /\ results' = results /\ tmp' = tmp
          /\ reports' = reports
      BY <2>2 DEF GitFails, RefuseOperand, Throws, Exit, Checking
    <3> QED
      BY <3>1, OnlyMoves DEF Done
  <2>3. CASE SkipCheck(r) \/ RunCheck(r)
    BY <2>3, AfterCheckKeeps DEF SkipCheck, RunCheck, Checking
  <2>4. CASE Finish(r) \/ Kill(r)
    BY <2>4, OnlyMoves DEF Finish, Kill, Exit, Go, runVars, Done
  <2> QED
    BY <1>1, <2>1, <2>2, <2>3, <2>4, StartKeeps, OpenKeeps, FillKeeps, RenameKeeps,
       RenameFailsKeeps DEF RunTier
<1>2. CASE UNCHANGED vars
  BY <1>2 DEF vars, runVars, GateInv, ShapeInv, WriterInv, ReportInv, Settled, TierChecks
<1> QED
  BY <1>1, <1>2 DEF Next, Over

\* However many runners race and wherever they are killed, a report is whole, of one run
\* and of a run that came through its tier.
THEOREM ReportsAlwaysWhole == Spec => []ReportsWhole
<1>1. Init => GateInv
  BY DEF Init, GateInv, ShapeInv, WriterInv, ReportInv, Settled, NoReport
<1>2. GateInv /\ [Next]_vars => GateInv'
  BY GateStep
<1>3. GateInv => ReportsWhole
  BY DEF GateInv, ReportInv, Settled, ReportsWhole
<1> QED
  BY <1>1, <1>2, <1>3, PTL DEF Spec

-----------------------------------------------------------------------------
(* What the checks of a valid manifest are.                                *)

Statuses == {"pass", "fail", "timeout", "skipped"}
Results == [status : Statuses, mode : {"blocking", "report-only"}, files : SUBSET Seq(Characters)]

Checks(root, tier) == IF tier \in DOMAIN root.tiers THEN root.tiers[tier] ELSE <<>>

SoundCheck(check, filesetNames) ==
    /\ ValidCheck(check) /\ CheckSemantics(check, filesetNames)
    /\ check.timeout_seconds \in Nat /\ check.argv \in Seq(ToSet(check.argv))

LEMMA ManifestOf ==
    ASSUME NEW root \in Manifests, root # <<>>, Valid(root), NEW tier \in Tiers
    PROVE  /\ root.budgets[BudgetKey(tier)] \in Nat
           /\ Checks(root, tier) \in Seq(ToSet(Checks(root, tier)))
           /\ \A i \in 1..Len(Checks(root, tier)) :
                 SoundCheck(Checks(root, tier)[i], Names(root.filesets))
<1>1. Typed(root, Characters) /\ ValidStructure(root) /\ ValidSemantics(root)
  BY ManifestTypes DEF Valid
<1>2. root.budgets[BudgetKey(tier)] \in Nat
  <2>1. DOMAIN root.budgets = {BudgetKey(t) : t \in Tiers}
    BY <1>1 DEF ValidStructure, ValidBudgets, ExactKeys
  <2>2. root.budgets \in [DOMAIN root.budgets -> Nat]
    BY <1>1 DEF Typed
  <2> QED
    BY <2>1, <2>2
<1>3. CASE tier \in DOMAIN root.tiers
  <2> DEFINE checks == root.tiers[tier]
  <2>1. Checks(root, tier) = checks
    BY <1>3 DEF Checks
  <2>2. checks \in Seq(ToSet(checks))
    BY <1>1, <1>3 DEF Typed
  <2>3. \A i \in 1..Len(checks) : checks[i] \in ToSet(checks)
    BY <2>2 DEF ToSet
  <2>4. \A check \in ToSet(checks) :
           check.timeout_seconds \in Nat /\ check.argv \in Seq(ToSet(check.argv))
    BY <1>1, <1>3 DEF Typed
  <2>5. \A check \in ToSet(checks) : ValidCheck(check)
    BY <1>1, <1>3 DEF ValidStructure, ValidTiers
  <2>6. \A check \in ToSet(checks) : CheckSemantics(check, Names(root.filesets))
    BY <1>1, <1>3 DEF ValidSemantics, TierCheckSemantics
  <2>7. \A i \in 1..Len(checks) : SoundCheck(checks[i], Names(root.filesets))
    <3> HIDE DEF checks
    <3> QED
      BY <2>3, <2>4, <2>5, <2>6 DEF SoundCheck
  <2> HIDE DEF checks
  <2> QED
    BY <1>2, <2>1, <2>2, <2>7
<1>4. CASE tier \notin DOMAIN root.tiers
  <2>1. Checks(root, tier) = <<>>
    BY <1>4 DEF Checks
  <2>2. <<>> \in Seq(ToSet(<<>>)) /\ 1..Len(<<>>) = {}
    OBVIOUS
  <2> QED
    BY <1>2, <2>1, <2>2
<1> QED
  BY <1>3, <1>4

-----------------------------------------------------------------------------
(* Types. *)

Phases == {"start", "expand", "check", "write", "rename", "reported", "exited", "killed"}
Scopes == {"none", "doctor", "fix-staged"} \cup Tiers

TmpFiles == [Runners -> {"none", "partial", "whole"}]

MoveTypes ==
    /\ phase \in [Runners -> Phases] /\ exit \in [Runners -> {-1, 0, 1, 2}]
    /\ \A r \in Runners : exit[r] = -1 <=> phase[r] # "exited"

DataTypes ==
    /\ manifest \in Manifests /\ scope \in [Runners -> Scopes]
    /\ elapsed \in [Runners -> Nat] /\ results \in [Runners -> Seq(Results)]
    /\ tmp \in TmpFiles /\ DOMAIN candidates = Runners /\ DOMAIN filesByName = Runners

TypeInv == MoveTypes /\ DataTypes

\* What a runner found is of the checks of its tier, and stands behind its exit code.
Expanded(r) ==
    /\ candidates[r] \in [Names(manifest.filesets) -> Listings]
    /\ filesByName[r] = [name \in Names(manifest.filesets) |->
                           ExpandFileset(FilesetNamed(name), candidates[r][name])]

Explained(r, check, result) ==
    /\ result.mode = Mode(check)
    /\ result.status = "skipped" => Skipped(r, check)
    /\ result.status # "skipped" => result.files = Operands(r, check)

Accounted(r) ==
    /\ \A i \in DOMAIN results[r] : Explained(r, TierChecks(r)[i], results[r][i])
    /\ results[r] # <<>> => elapsed[r] <= BudgetSeconds(r)

Green(r) == exit[r] = 0 /\ scope[r] \in Tiers
Counting(r) == phase[r] \in {"check", "write", "rename", "reported"} \/ Green(r)

RunnerInv(r) ==
    /\ phase[r] \in {"start", "expand"} => results[r] = <<>>
    /\ phase[r] \in {"expand", "check", "write", "rename", "reported"} => scope[r] \in Tiers
    /\ scope[r] \in Tiers =>
          manifest # <<>> /\ Valid(manifest) /\ Len(results[r]) <= Len(TierChecks(r))
    /\ Counting(r) => Expanded(r) /\ Accounted(r)
    /\ phase[r] = "reported" \/ Green(r) =>
          Len(results[r]) = Len(TierChecks(r)) /\ reports[scope[r]].by # "none"
    /\ Green(r) => ~BlockingFailed(r)

GreenInv == GateInv /\ TypeInv /\ \A r \in Runners : RunnerInv(r)

LEMMA ChecksOf ==
    ASSUME NEW r \in Runners, TypeInv, RunnerInv(r), scope[r] \in Tiers
    PROVE  /\ BudgetSeconds(r) \in Nat
           /\ TierChecks(r) \in Seq(ToSet(TierChecks(r)))
           /\ \A i \in 1..Len(TierChecks(r)) :
                 SoundCheck(TierChecks(r)[i], Names(manifest.filesets))
<1>1. manifest \in Manifests /\ manifest # <<>> /\ Valid(manifest)
  BY DEF TypeInv, DataTypes, RunnerInv
<1>2. TierChecks(r) = Checks(manifest, scope[r])
  BY DEF TierChecks, Checks
<1> QED
  BY <1>1, <1>2, ManifestOf DEF BudgetSeconds

\* A check is given files that git listed.
LEMMA OperandsListed ==
    ASSUME NEW r \in Runners, Expanded(r), NEW check
    PROVE  Operands(r, check) \subseteq Seq(Characters)
<1>1. ASSUME NEW name PROVE FilesOf(r, name) \subseteq Seq(Characters)
  <2>1. CASE name \in DOMAIN filesByName[r]
    <3>1. FilesOf(r, name) = ExpandFileset(FilesetNamed(name), candidates[r][name])
      BY <2>1 DEF FilesOf, Expanded
    <3>2. candidates[r][name] \subseteq Seq(Characters)
      BY <2>1, FileNames DEF Expanded
    <3> QED
      BY <3>1, <3>2 DEF ExpandFileset
  <2> QED
    BY <2>1 DEF FilesOf
<1> QED
  BY <1>1 DEF Operands

LEMMA ModeOf ==
    ASSUME NEW check, ValidCheck(check)
    PROVE  Mode(check) \in {"blocking", "report-only"}
  BY DEF ValidCheck, Mode

\* The files of a declared name are the files the manifest means.
LEMMA FilesMeant ==
    ASSUME NEW r \in Runners, TypeInv, RunnerInv(r), scope[r] \in Tiers, Expanded(r),
           NEW name \in Names(manifest.filesets)
    PROVE  FilesOf(r, name) = Meant(r, name)
<1> DEFINE fileset == FilesetNamed(name)
<1>1. Typed(manifest, Characters)
  BY ManifestTypes DEF TypeInv, DataTypes, RunnerInv, Valid
<1>2. fileset \in Filesets
  <2>1. \E f \in Filesets : f.name = name
    BY DEF Names, Filesets
  <2> QED
    BY <2>1 DEF FilesetNamed
<1>3. TypedFileset(fileset, Characters)
  <2> HIDE DEF fileset
  <2> QED
    BY <1>1, <1>2 DEF Typed, Filesets
<1>4. candidates[r][name] \in SUBSET Seq(Characters)
  BY FileNames DEF Expanded
<1>5. FilesOf(r, name) = ExpandFileset(fileset, candidates[r][name])
  BY DEF FilesOf, Expanded
<1> HIDE DEF fileset
<1>6. ExpandFileset(fileset, candidates[r][name])
         = {file \in candidates[r][name] : Selects(fileset, file)}
  BY <1>3, <1>4, ExpandSelects
<1> QED
  BY <1>5, <1>6 DEF Meant, fileset

\* One place, one name: a check has at most one token.
LEMMA OneToken ==
    ASSUME NEW check, NEW names, SoundCheck(check, names),
           NEW i \in DOMAIN check.argv, IsToken(check.argv[i]),
           NEW j \in DOMAIN check.argv, IsToken(check.argv[j])
    PROVE  i = j /\ i # 1 /\ check.argv[i].files \in names
<1> DEFINE tokens == {k \in DOMAIN check.argv : IsToken(check.argv[k])}
<1>1. Cardinality(tokens) <= 1 /\ 1 \notin tokens /\ \A k \in tokens : check.argv[k].files \in names
  BY DEF SoundCheck, CheckSemantics
<1>2. DOMAIN check.argv = 1..Len(check.argv) /\ Len(check.argv) \in Nat
  BY DEF SoundCheck
<1>3. IsFiniteSet(tokens)
  <2>1. IsFiniteSet(1..Len(check.argv))
    BY <1>2, FS_Interval
  <2>2. tokens \subseteq 1..Len(check.argv)
    BY <1>2
  <2> HIDE DEF tokens
  <2> QED
    BY <2>1, <2>2, FS_Subset
<1>4. {i, j} \subseteq tokens
  OBVIOUS
<1>5. SUFFICES ASSUME i # j PROVE FALSE
  BY <1>1, <1>4
<1>6. Cardinality({i, j}) = 2
  <2>1. IsFiniteSet({i}) /\ Cardinality({i}) = 1
    BY FS_Singleton
  <2>2. Cardinality({i} \cup {j}) = Cardinality({i}) + 1
    BY <1>5, <2>1, FS_AddElement
  <2>3. {i} \cup {j} = {i, j}
    OBVIOUS
  <2> QED
    BY <2>1, <2>2, <2>3
<1>7. Cardinality({i, j}) <= Cardinality(tokens)
  <2> HIDE DEF tokens
  <2> QED
    BY <1>3, <1>4, FS_Subset
<1>8. Cardinality(tokens) \in Nat
  <2> HIDE DEF tokens
  <2> QED
    BY <1>3, FS_CardinalityType
<1> QED
  BY <1>1, <1>6, <1>7, <1>8

LEMMA ExplainedCleared ==
    ASSUME NEW r \in Runners, TypeInv, RunnerInv(r), scope[r] \in Tiers, Expanded(r),
           NEW check, SoundCheck(check, Names(manifest.filesets)),
           NEW result \in Results, Explained(r, check, result),
           ~(result.mode = "blocking" /\ result.status \in {"fail", "timeout"})
    PROVE  Cleared(r, check, result)
<1> DEFINE names == Names(manifest.filesets)
<1>1. CASE result.status = "skipped"
  <2>1. Skipped(r, check)
    BY <1>1 DEF Explained
  <2>2. ~(\A i \in DOMAIN check.argv : IsToken(check.argv[i]))
    <3>1. 1 \in DOMAIN check.argv
      <4>1. check.argv \in Seq(ToSet(check.argv)) /\ check.argv # <<>>
        BY DEF SoundCheck, ValidCheck
      <4> QED
        BY <4>1, EmptySeq
    <3> QED
      BY <3>1, OneToken
  <2>3. "skip_if_empty" \in DOMAIN check /\ FilesOf(r, check.skip_if_empty) = {}
    BY <2>1, <2>2 DEF Skipped
  <2>4. check.skip_if_empty \in names
    BY <2>3 DEF SoundCheck, CheckSemantics
  <2>5. Meant(r, check.skip_if_empty) = {}
    BY <2>3, <2>4, FilesMeant
  <2> QED
    BY <1>1, <2>3, <2>4, <2>5 DEF Cleared, Declared
<1>2. CASE result.status # "skipped"
  <2>1. result.mode = Mode(check) /\ result.files = Operands(r, check)
    BY <1>2 DEF Explained
  <2>2. Mode(check) \in {"blocking", "report-only"}
    BY ModeOf DEF SoundCheck
  <2>3. result.status = "pass" \/ Mode(check) = "report-only"
    BY <1>2, <2>1, <2>2 DEF Results, Statuses
  <2>4. ASSUME NEW i \in DOMAIN check.argv, IsToken(check.argv[i])
        PROVE  Declared(check.argv[i].files) /\ result.files = Meant(r, check.argv[i].files)
    <3>1. check.argv[i].files \in names
      BY <2>4, OneToken
    <3>2. {j \in DOMAIN check.argv : IsToken(check.argv[j])} = {i}
      BY <2>4, OneToken
    <3>3. Operands(r, check) = FilesOf(r, check.argv[i].files)
      BY <3>2 DEF Operands
    <3> QED
      BY <2>1, <3>1, <3>3, FilesMeant DEF Declared
  <2> QED
    BY <1>2, <2>3, <2>4 DEF Cleared
<1> QED
  BY <1>1, <1>2

LEMMA GreenInvImplies == GreenInv => TypeOK /\ GreenMeansChecked
<1> SUFFICES ASSUME GreenInv PROVE TypeOK /\ GreenMeansChecked
  OBVIOUS
<1>1. \A r \in Runners : RunnerInv(r)
  BY DEF GreenInv
<1>2. TypeInv
  BY DEF GreenInv
<1>3. TypeOK
  <2>1. \A r \in Runners : scope[r] \in Tiers => Len(results[r]) <= Len(TierChecks(r))
    BY <1>1 DEF RunnerInv
  <2>2. ASSUME NEW r \in Runners, NEW i \in DOMAIN results[r]
        PROVE  results[r][i].status \in {"pass", "fail", "timeout", "skipped"}
    <3>1. results[r] \in Seq(Results)
      BY <1>2 DEF TypeInv, DataTypes
    <3>2. results[r][i] \in Results
      BY <3>1
    <3> QED
      BY <3>2 DEF Results, Statuses
  <2>3. \A tier \in Tiers : reports[tier].by \in Runners \cup {"none"}
    BY DEF GreenInv, GateInv, ReportInv, Settled
  <2> QED
    BY <1>2, <2>1, <2>2, <2>3 DEF TypeOK, TypeInv, MoveTypes, DataTypes, TmpFiles, Phases, Scopes
<1>4. ASSUME NEW r \in Runners, exit[r] = 0, scope[r] \in Tiers
      PROVE  /\ Valid(manifest)
             /\ results[r] # <<>> => elapsed[r] <= BudgetSeconds(r)
             /\ Len(results[r]) = Len(TierChecks(r))
             /\ \A i \in DOMAIN results[r] : Cleared(r, TierChecks(r)[i], results[r][i])
             /\ reports[scope[r]].by # "none"
  <2>1. Green(r) /\ Counting(r)
    BY <1>4 DEF Green, Counting
  <2>2. /\ Expanded(r) /\ Accounted(r) /\ Valid(manifest) /\ ~BlockingFailed(r)
        /\ Len(results[r]) = Len(TierChecks(r)) /\ reports[scope[r]].by # "none"
    BY <1>1, <1>4, <2>1 DEF RunnerInv
  <2>3. ASSUME NEW i \in DOMAIN results[r] PROVE Cleared(r, TierChecks(r)[i], results[r][i])
    <3>1. results[r] \in Seq(Results)
      BY <1>2 DEF TypeInv, DataTypes
    <3>2. results[r][i] \in Results /\ i \in 1..Len(TierChecks(r))
      BY <2>2, <3>1
    <3>3. SoundCheck(TierChecks(r)[i], Names(manifest.filesets))
      BY <1>1, <1>2, <1>4, <3>2, ChecksOf
    <3>4. /\ Explained(r, TierChecks(r)[i], results[r][i])
          /\ ~(results[r][i].mode = "blocking" /\ results[r][i].status \in {"fail", "timeout"})
      BY <2>2 DEF Accounted, BlockingFailed
    <3> QED
      BY <1>1, <1>2, <1>4, <2>2, <3>2, <3>3, <3>4, ExplainedCleared
  <2> QED
    BY <2>2, <2>3 DEF Accounted
<1> QED
  BY <1>3, <1>4 DEF GreenMeansChecked

-----------------------------------------------------------------------------
(* A step of one runner: the others, and that there is a report, stay.     *)

Apart(r) ==
    /\ manifest' = manifest
    /\ \A q \in Runners \ {r} :
          /\ phase'[q] = phase[q] /\ exit'[q] = exit[q] /\ scope'[q] = scope[q]
          /\ candidates'[q] = candidates[q] /\ filesByName'[q] = filesByName[q]
          /\ results'[q] = results[q] /\ elapsed'[q] = elapsed[q]
    /\ \A tier \in Tiers : reports[tier].by # "none" => reports'[tier].by # "none"

LEMMA SameFiles ==
    ASSUME NEW q \in Runners, manifest' = manifest, scope'[q] = scope[q],
           candidates'[q] = candidates[q], filesByName'[q] = filesByName[q]
    PROVE  /\ Expanded(q) => Expanded(q)'
           /\ TierChecks(q)' = TierChecks(q) /\ BudgetSeconds(q)' = BudgetSeconds(q)
           /\ \A check, result : Explained(q, check, result) => Explained(q, check, result)'
<1>1. TierChecks(q)' = TierChecks(q) /\ BudgetSeconds(q)' = BudgetSeconds(q)
  BY DEF TierChecks, BudgetSeconds
<1>2. \A name : FilesOf(q, name)' = FilesOf(q, name) /\ FilesetNamed(name)' = FilesetNamed(name)
  BY DEF FilesOf, FilesetNamed, Filesets
<1>3. \A check : Operands(q, check)' = Operands(q, check)
  BY <1>2 DEF Operands
<1>4. \A check : Skipped(q, check)' <=> Skipped(q, check)
  BY <1>2, <1>3 DEF Skipped
<1>5. \A check, result : Explained(q, check, result) => Explained(q, check, result)'
  BY <1>3, <1>4 DEF Explained
<1>6. Expanded(q) => Expanded(q)'
  BY <1>2 DEF Expanded
<1> QED
  BY <1>1, <1>5, <1>6

LEMMA SameFindings ==
    ASSUME NEW q \in Runners, manifest' = manifest, scope'[q] = scope[q],
           candidates'[q] = candidates[q], filesByName'[q] = filesByName[q],
           results'[q] = results[q], elapsed'[q] = elapsed[q]
    PROVE  /\ Expanded(q) /\ Accounted(q) => Expanded(q)' /\ Accounted(q)'
           /\ BlockingFailed(q)' <=> BlockingFailed(q)
           /\ TierChecks(q)' = TierChecks(q)
<1>1. BlockingFailed(q)' <=> BlockingFailed(q)
  BY DEF BlockingFailed
<1> QED
  BY <1>1, SameFiles DEF Accounted

LEMMA OthersKeep ==
    ASSUME NEW r \in Runners, Apart(r), NEW q \in Runners \ {r}, RunnerInv(q)
    PROVE  RunnerInv(q)'
<1>1. /\ manifest' = manifest /\ phase'[q] = phase[q] /\ exit'[q] = exit[q]
      /\ scope'[q] = scope[q] /\ results'[q] = results[q]
      /\ \A tier \in Tiers : reports[tier].by # "none" => reports'[tier].by # "none"
  BY DEF Apart
<1>2. /\ Expanded(q) /\ Accounted(q) => Expanded(q)' /\ Accounted(q)'
      /\ BlockingFailed(q)' <=> BlockingFailed(q)
      /\ TierChecks(q)' = TierChecks(q)
  BY SameFindings DEF Apart
<1>3. (Green(q)' <=> Green(q)) /\ (Counting(q)' <=> Counting(q))
  BY <1>1 DEF Green, Counting
<1> QED
  BY <1>1, <1>2, <1>3 DEF RunnerInv, Green

LEMMA Assemble ==
    ASSUME NEW r \in Runners, GreenInv, GateInv', TypeInv', Apart(r), RunnerInv(r)'
    PROVE  GreenInv'
<1>1. \A q \in Runners : RunnerInv(q)'
  BY OthersKeep DEF GreenInv
<1> QED
  BY <1>1 DEF GreenInv

LEMMA ExitMoves ==
    ASSUME NEW r \in Runners, MoveTypes, NEW code \in {0, 1, 2}, Exit(r, code)
    PROVE  /\ MoveTypes' /\ phase'[r] = "exited" /\ exit'[r] = code
           /\ \A q \in Runners \ {r} : phase'[q] = phase[q] /\ exit'[q] = exit[q]
<1>1. /\ phase' \in [Runners -> Phases] /\ exit' \in [Runners -> {-1, 0, 1, 2}]
      /\ phase'[r] = "exited" /\ exit'[r] = code
      /\ \A q \in Runners \ {r} : phase'[q] = phase[q] /\ exit'[q] = exit[q]
  BY DEF MoveTypes, Exit, Phases
<1> QED
  BY <1>1 DEF MoveTypes

LEMMA GoMoves ==
    ASSUME NEW r \in Runners, MoveTypes, phase[r] # "exited",
           NEW p \in Phases \ {"exited"}, Go(r, p)
    PROVE  /\ MoveTypes' /\ phase'[r] = p /\ exit'[r] = -1
           /\ \A q \in Runners \ {r} : phase'[q] = phase[q] /\ exit'[q] = exit[q]
<1>1. /\ phase' \in [Runners -> Phases] /\ exit' = exit /\ phase'[r] = p
      /\ \A q \in Runners \ {r} : phase'[q] = phase[q]
  BY DEF MoveTypes, Go
<1> QED
  BY <1>1 DEF MoveTypes

\* A runner that stops without a green tier has nothing to stand for.
LEMMA StopKeeps ==
    ASSUME NEW r \in Runners, GreenInv, GateInv', TypeInv', Apart(r),
           phase'[r] \in {"exited", "killed"}, exit'[r] = 0 => scope'[r] \notin Tiers,
           scope'[r] \in Tiers =>
              scope'[r] = scope[r] /\ Len(results'[r]) <= Len(TierChecks(r))
    PROVE  GreenInv'
<1>1. ~Green(r)' /\ ~Counting(r)'
  BY DEF Green, Counting
<1>2. scope'[r] \in Tiers => TierChecks(r)' = TierChecks(r)
  BY DEF Apart, TierChecks
<1>3. scope[r] \in Tiers => manifest # <<>> /\ Valid(manifest)
  BY DEF GreenInv, RunnerInv
<1>4. manifest' = manifest
  BY DEF Apart
<1>5. RunnerInv(r)'
  BY <1>1, <1>2, <1>3, <1>4 DEF RunnerInv
<1> QED
  BY <1>5, Assemble

LEMMA ThrowKeeps ==
    ASSUME NEW r \in Runners, GreenInv, GateInv', Throws(r), tmp' \in TmpFiles,
           candidates' = candidates, filesByName' = filesByName,
           results' = results, elapsed' = elapsed
    PROVE  GreenInv'
<1>1. Exit(r, 1) /\ manifest' = manifest /\ scope' = scope /\ reports' = reports
  BY DEF Throws
<1>2. /\ MoveTypes' /\ phase'[r] = "exited" /\ exit'[r] = 1
      /\ \A q \in Runners \ {r} : phase'[q] = phase[q] /\ exit'[q] = exit[q]
  BY <1>1, ExitMoves DEF GreenInv, TypeInv
<1>3. TypeInv'
  BY <1>1, <1>2 DEF GreenInv, TypeInv, DataTypes
<1>4. Apart(r)
  BY <1>1, <1>2 DEF Apart
<1>5. scope[r] \in Tiers => Len(results[r]) <= Len(TierChecks(r))
  BY DEF GreenInv, RunnerInv
<1> QED
  BY <1>1, <1>2, <1>3, <1>4, <1>5, StopKeeps

-----------------------------------------------------------------------------
\* One lemma per way of a runner to its exit code.
LEMMA StartGreen == ASSUME NEW r \in Runners, GreenInv, GateInv', Start(r) PROVE GreenInv'
<1>1. /\ manifest' = manifest /\ candidates' = candidates /\ filesByName' = filesByName
      /\ results' = results /\ elapsed' = elapsed /\ tmp' = tmp /\ reports' = reports
      /\ phase[r] = "start"
  BY DEF Start
<1>2. results[r] = <<>>
  BY <1>1 DEF GreenInv, RunnerInv
<1>3. MoveTypes /\ DataTypes
  BY DEF GreenInv, TypeInv
<1>4. CASE (Exit(r, ExitUsage) \/ Exit(r, ExitManifest)) /\ UNCHANGED scope
  <2>1. PICK code \in {1, 2} : Exit(r, code)
    BY <1>4 DEF ExitUsage, ExitManifest
  <2>2. /\ MoveTypes' /\ phase'[r] = "exited" /\ exit'[r] = code
        /\ \A q \in Runners \ {r} : phase'[q] = phase[q] /\ exit'[q] = exit[q]
    BY <1>3, <2>1, ExitMoves
  <2>3. TypeInv' /\ Apart(r)
    BY <1>1, <1>3, <1>4, <2>2 DEF TypeInv, DataTypes, Apart
  <2>4. scope[r] \in Tiers => Len(results[r]) <= Len(TierChecks(r))
    BY DEF GreenInv, RunnerInv
  <2> QED
    BY <1>1, <1>4, <2>2, <2>3, <2>4, StopKeeps
<1>5. ASSUME NEW s \in {"doctor", "fix-staged"}, NEW code \in {0, 1, 2},
             scope' = [scope EXCEPT ![r] = s], Exit(r, code)
      PROVE  GreenInv'
  <2>1. /\ MoveTypes' /\ phase'[r] = "exited" /\ exit'[r] = code
        /\ \A q \in Runners \ {r} : phase'[q] = phase[q] /\ exit'[q] = exit[q]
    BY <1>3, <1>5, ExitMoves
  <2>2. /\ scope' \in [Runners -> Scopes] /\ scope'[r] = s /\ s \notin Tiers
        /\ \A q \in Runners \ {r} : scope'[q] = scope[q]
    BY <1>3, <1>5 DEF DataTypes, Scopes, Tiers
  <2>3. TypeInv' /\ Apart(r)
    BY <1>1, <1>3, <2>1, <2>2 DEF TypeInv, DataTypes, Apart
  <2> QED
    BY <2>1, <2>2, <2>3, StopKeeps
<1>6. ASSUME NEW s \in Tiers, scope' = [scope EXCEPT ![r] = s], Go(r, "expand"),
             manifest # <<>>, Valid(manifest)
      PROVE  GreenInv'
  <2>1. /\ MoveTypes' /\ phase'[r] = "expand" /\ exit'[r] = -1
        /\ \A q \in Runners \ {r} : phase'[q] = phase[q] /\ exit'[q] = exit[q]
    <3>1. "expand" \in Phases \ {"exited"}
      BY DEF Phases
    <3> QED
      BY <1>1, <1>3, <1>6, <3>1, GoMoves
  <2>2. /\ scope' \in [Runners -> Scopes] /\ scope'[r] = s
        /\ \A q \in Runners \ {r} : scope'[q] = scope[q]
    BY <1>3, <1>6 DEF DataTypes, Scopes
  <2>3. TypeInv' /\ Apart(r)
    BY <1>1, <1>3, <2>1, <2>2 DEF TypeInv, DataTypes, Apart
  <2>4. Len(results'[r]) <= Len(TierChecks(r)')
    <3>1. TierChecks(r)' = Checks(manifest, s)
      BY <1>1, <2>2 DEF TierChecks, Checks
    <3>2. Checks(manifest, s) \in Seq(ToSet(Checks(manifest, s)))
      BY <1>3, <1>6, ManifestOf DEF DataTypes
    <3>3. Len(results'[r]) = 0 /\ Len(Checks(manifest, s)) \in Nat
      BY <1>1, <1>2, <3>2
    <3> QED
      BY <3>1, <3>3
  <2>5. RunnerInv(r)'
    BY <1>1, <1>2, <1>6, <2>1, <2>2, <2>4 DEF RunnerInv, Green, Counting
  <2> QED
    BY <2>3, <2>5, Assemble
<1>7. PICK argv \in Invocations :
         LET invocation == ParseArgs(argv)
         IN  \/ ~invocation.ok /\ Exit(r, ExitUsage) /\ UNCHANGED scope
             \/ /\ invocation.ok /\ ~Loadable(invocation.manifestPath)
                /\ Exit(r, ExitManifest) /\ UNCHANGED scope
             \/ /\ invocation.ok /\ Loadable(invocation.manifestPath)
                /\ scope' = [scope EXCEPT ![r] = invocation.scope]
                /\ \/ invocation.scope = "doctor" /\ Exit(r, IF Doctor THEN 0 ELSE 1)
                   \/ invocation.scope = "fix-staged" /\ Exit(r, ExitUsage)
                   \/ invocation.scope \in Tiers /\ Go(r, "expand")
  BY DEF Start
<1> DEFINE s == ParseArgs(argv).scope
           loads == Loadable(ParseArgs(argv).manifestPath)
<1>8. \/ (Exit(r, ExitUsage) \/ Exit(r, ExitManifest)) /\ UNCHANGED scope
      \/ /\ loads /\ scope' = [scope EXCEPT ![r] = s]
         /\ \/ s = "doctor" /\ Exit(r, IF Doctor THEN 0 ELSE 1)
            \/ s = "fix-staged" /\ Exit(r, ExitUsage)
            \/ s \in Tiers /\ Go(r, "expand")
  BY <1>7
<1>9. loads => manifest # <<>> /\ Valid(manifest)
  BY DEF Loadable
<1>10. (IF Doctor THEN 0 ELSE 1) \in {0, 1, 2} /\ ExitUsage \in {0, 1, 2}
  BY DEF ExitUsage
<1> HIDE DEF s, loads
<1>11. ASSUME scope' = [scope EXCEPT ![r] = s], s = "doctor", Exit(r, IF Doctor THEN 0 ELSE 1)
       PROVE  GreenInv'
  BY <1>5, <1>10, <1>11
<1>12. ASSUME scope' = [scope EXCEPT ![r] = s], s = "fix-staged", Exit(r, ExitUsage)
       PROVE  GreenInv'
  BY <1>5, <1>10, <1>12
<1> QED
  BY <1>4, <1>6, <1>8, <1>9, <1>11, <1>12

LEMMA ExpandGreen == ASSUME NEW r \in Runners, GreenInv, GateInv', Expand(r) PROVE GreenInv'
<1>1. PICK listed \in [Names(manifest.filesets) -> Listings], delay \in 0..MaxDelay :
         /\ candidates' = [candidates EXCEPT ![r] = listed]
         /\ filesByName' = [filesByName EXCEPT ![r] =
                [name \in DOMAIN listed |-> ExpandFileset(FilesetNamed(name), listed[name])]]
         /\ elapsed' = [elapsed EXCEPT ![r] = delay]
  BY DEF Expand
<1>2. /\ phase[r] = "expand" /\ Go(r, "check") /\ manifest' = manifest /\ scope' = scope
      /\ results' = results /\ tmp' = tmp /\ reports' = reports
  BY DEF Expand
<1>3. MoveTypes /\ DataTypes
  BY DEF GreenInv, TypeInv
<1>4. /\ results[r] = <<>> /\ scope[r] \in Tiers /\ manifest # <<>> /\ Valid(manifest)
      /\ Len(results[r]) <= Len(TierChecks(r))
  BY <1>2 DEF GreenInv, RunnerInv
<1>5. /\ MoveTypes' /\ phase'[r] = "check" /\ exit'[r] = -1
      /\ \A q \in Runners \ {r} : phase'[q] = phase[q] /\ exit'[q] = exit[q]
  <2>1. "check" \in Phases \ {"exited"}
    BY DEF Phases
  <2> QED
    BY <1>2, <1>3, <2>1, GoMoves
<1>6. delay \in Nat
  BY RunnerInputs
<1>7. /\ elapsed' \in [Runners -> Nat]
      /\ DOMAIN candidates' = Runners /\ DOMAIN filesByName' = Runners
      /\ candidates'[r] = listed
      /\ filesByName'[r] = [name \in DOMAIN listed |-> ExpandFileset(FilesetNamed(name), listed[name])]
      /\ \A q \in Runners \ {r} : /\ candidates'[q] = candidates[q]
                                  /\ filesByName'[q] = filesByName[q] /\ elapsed'[q] = elapsed[q]
  BY <1>1, <1>3, <1>6 DEF DataTypes
<1>8. TypeInv' /\ Apart(r)
  BY <1>2, <1>3, <1>5, <1>7 DEF TypeInv, DataTypes, Apart
<1>9. Expanded(r)'
  BY <1>2, <1>7 DEF Expanded, FilesetNamed, Filesets
<1>10. Accounted(r)'
  BY <1>2, <1>4 DEF Accounted
<1>11. TierChecks(r)' = TierChecks(r)
  BY <1>2 DEF TierChecks
<1>12. RunnerInv(r)'
  BY <1>2, <1>4, <1>5, <1>9, <1>10, <1>11 DEF RunnerInv, Green
<1> QED
  BY <1>8, <1>12, Assemble

LEMMA AfterCheckGreen ==
    ASSUME NEW r \in Runners, GreenInv, GateInv', Checking(r), NEW result \in Results,
           Explained(r, NextCheck(r), result), NEW took \in Nat, AfterCheck(r, result, took)
    PROVE  GreenInv'
<1> DEFINE found == results[r]
<1>1. /\ phase[r] = "check" /\ Len(found) < Len(TierChecks(r))
      /\ NextCheck(r) = TierChecks(r)[Len(found) + 1]
  BY DEF Checking, NextCheck
<1>2. /\ results' = [results EXCEPT ![r] = Append(found, result)]
      /\ elapsed' = [elapsed EXCEPT ![r] = @ + took]
      /\ manifest' = manifest /\ scope' = scope /\ reports' = reports
      /\ candidates' = candidates /\ filesByName' = filesByName /\ tmp' = tmp
  BY DEF AfterCheck, Throws
<1>3. MoveTypes /\ DataTypes
  BY DEF GreenInv, TypeInv
<1>4. /\ scope[r] \in Tiers /\ manifest # <<>> /\ Valid(manifest) /\ Expanded(r) /\ Accounted(r)
  BY <1>1 DEF GreenInv, RunnerInv, Counting
<1>5. BudgetSeconds(r) \in Nat /\ Len(TierChecks(r)) \in Nat
  <2>1. TierChecks(r) \in Seq(ToSet(TierChecks(r))) /\ BudgetSeconds(r) \in Nat
    BY <1>4, ChecksOf DEF GreenInv
  <2> QED
    BY <2>1
<1>6. found \in Seq(Results)
  BY <1>3 DEF DataTypes
<1>7. /\ Append(found, result) \in Seq(Results) /\ Len(Append(found, result)) = Len(found) + 1
      /\ \A i \in 1..Len(found) : Append(found, result)[i] = found[i]
      /\ Append(found, result)[Len(found) + 1] = result
      /\ DOMAIN Append(found, result) = 1..(Len(found) + 1) /\ Len(found) \in Nat
  <2> HIDE DEF found
  <2> QED
    BY <1>6, AppendProperties
<1>8. /\ results' \in [Runners -> Seq(Results)] /\ results'[r] = Append(found, result)
      /\ \A q \in Runners \ {r} : results'[q] = results[q]
  BY <1>2, <1>3, <1>7 DEF DataTypes
<1>9. /\ elapsed' \in [Runners -> Nat]
      /\ \A q \in Runners \ {r} : elapsed'[q] = elapsed[q]
  BY <1>2, <1>3 DEF DataTypes
<1>10. ASSUME MoveTypes',
              \A q \in Runners \ {r} : phase'[q] = phase[q] /\ exit'[q] = exit[q]
       PROVE  TypeInv' /\ Apart(r)
  BY <1>2, <1>3, <1>8, <1>9, <1>10 DEF TypeInv, DataTypes, Apart
<1>11. Len(results'[r]) <= Len(TierChecks(r))
  BY <1>1, <1>5, <1>7, <1>8
<1>12. CASE elapsed'[r] > BudgetSeconds(r)
  <2>1. Exit(r, 1)
    BY <1>12 DEF AfterCheck, Throws
  <2>2. /\ MoveTypes' /\ phase'[r] = "exited" /\ exit'[r] = 1
        /\ \A q \in Runners \ {r} : phase'[q] = phase[q] /\ exit'[q] = exit[q]
    BY <1>3, <2>1, ExitMoves
  <2> QED
    BY <1>2, <1>10, <1>11, <2>2, StopKeeps
<1>13. CASE ~(elapsed'[r] > BudgetSeconds(r))
  <2>1. Go(r, "check")
    BY <1>13 DEF AfterCheck
  <2>2. "check" \in Phases \ {"exited"}
    BY DEF Phases
  <2>3. /\ MoveTypes' /\ phase'[r] = "check" /\ exit'[r] = -1
        /\ \A q \in Runners \ {r} : phase'[q] = phase[q] /\ exit'[q] = exit[q]
    BY <1>1, <1>3, <2>1, <2>2, GoMoves
  <2>4. /\ Expanded(r)' /\ TierChecks(r)' = TierChecks(r) /\ BudgetSeconds(r)' = BudgetSeconds(r)
        /\ \A c, f : Explained(r, c, f) => Explained(r, c, f)'
    BY <1>2, <1>4, SameFiles
  <2>5. ASSUME NEW i \in DOMAIN results'[r]
        PROVE  Explained(r, TierChecks(r)[i], results'[r][i])
    <3>1. i \in 1..Len(found) \/ i = Len(found) + 1
      BY <1>7, <1>8
    <3>2. i \in 1..Len(found) => Explained(r, TierChecks(r)[i], found[i])
      BY <1>4, <1>6 DEF Accounted
    <3> HIDE DEF found
    <3> QED
      BY <1>1, <1>7, <1>8, <3>1, <3>2
  <2>6. elapsed'[r] <= BudgetSeconds(r)
    <3>1. elapsed'[r] \in Nat
      BY <1>9
    <3> QED
      BY <1>5, <1>13, <3>1
  <2>7. Accounted(r)'
    BY <2>4, <2>5, <2>6 DEF Accounted
  <2>8. RunnerInv(r)'
    BY <1>2, <1>4, <1>11, <2>3, <2>4, <2>7 DEF RunnerInv, Green
  <2> QED
    BY <1>10, <2>3, <2>8, Assemble
<1> QED
  BY <1>12, <1>13

LEMMA CheckGreen ==
    ASSUME NEW r \in Runners, GreenInv, GateInv', SkipCheck(r) \/ RunCheck(r)
    PROVE  GreenInv'
<1> DEFINE check == NextCheck(r)
<1>1. Checking(r) /\ scope[r] \in Tiers /\ Expanded(r) /\ TypeInv /\ RunnerInv(r)
  BY DEF SkipCheck, RunCheck, Checking, GreenInv, RunnerInv, Counting
<1>2. SoundCheck(check, Names(manifest.filesets))
  <2>1. results[r] \in Seq(Results) /\ TierChecks(r) \in Seq(ToSet(TierChecks(r)))
    BY <1>1, ChecksOf DEF TypeInv, DataTypes
  <2>2. Len(results[r]) + 1 \in 1..Len(TierChecks(r))
    BY <1>1, <2>1 DEF Checking
  <2> QED
    BY <1>1, <2>2, ChecksOf DEF NextCheck
<1>3. Mode(check) \in {"blocking", "report-only"}
  BY <1>2, ModeOf DEF SoundCheck
<1>4. CASE SkipCheck(r)
  <2> DEFINE result == [status |-> "skipped", mode |-> Mode(check), files |-> {}]
  <2>1. Skipped(r, check) /\ AfterCheck(r, result, 0)
    BY <1>4 DEF SkipCheck
  <2>2. result \in Results
    BY <1>3 DEF Results, Statuses
  <2>3. Explained(r, check, result)
    BY <2>1 DEF Explained
  <2> HIDE DEF result
  <2> QED
    BY <1>1, <2>1, <2>2, <2>3, AfterCheckGreen
<1>5. CASE RunCheck(r)
  <2>1. PICK outcome \in Outcomes(check) :
           AfterCheck(r, [status |-> outcome.status, mode |-> Mode(check),
                          files |-> Operands(r, check)], outcome.took)
    BY <1>5 DEF RunCheck
  <2>2. check.timeout_seconds \in Nat
    BY <1>2 DEF SoundCheck
  <2>3. outcome.status \in {"pass", "fail", "timeout"} /\ outcome.took \in Nat
    <3> HIDE DEF check
    <3>1. CASE outcome \in {[status |-> s, took |-> t] :
                              s \in {"pass", "fail"}, t \in 0..check.timeout_seconds}
      BY <2>2, <3>1
    <3>2. CASE outcome \in {[status |-> "timeout", took |-> check.timeout_seconds + t] :
                              t \in 0..MaxDelay}
      BY <2>2, <3>2, RunnerInputs
    <3> QED
      BY <3>1, <3>2 DEF Outcomes
  <2> DEFINE result == [status |-> outcome.status, mode |-> Mode(check),
                        files |-> Operands(r, check)]
  <2>4. result \in Results
    <3>1. Operands(r, check) \in SUBSET Seq(Characters)
      BY <1>1, OperandsListed
    <3> HIDE DEF check
    <3> QED
      BY <1>3, <2>3, <3>1 DEF Results, Statuses
  <2>5. Explained(r, check, result)
    BY <2>3 DEF Explained
  <2> HIDE DEF result
  <2> QED
    BY <1>1, <2>1, <2>3, <2>4, <2>5, AfterCheckGreen DEF result
<1> QED
  BY <1>4, <1>5

\* A step of the report: what was found stays.
LEMMA WritesGreen ==
    ASSUME NEW r \in Runners, GreenInv, GateInv', NEW p \in {"write", "rename"},
           phase[r] \in {"check", "write"}, Go(r, p), tmp' \in TmpFiles,
           manifest' = manifest, reports' = reports, scope' = scope, candidates' = candidates,
           filesByName' = filesByName, results' = results, elapsed' = elapsed
    PROVE  GreenInv'
<1>1. /\ MoveTypes' /\ phase'[r] = p /\ exit'[r] = -1
      /\ \A q \in Runners \ {r} : phase'[q] = phase[q] /\ exit'[q] = exit[q]
  <2>1. p \in Phases \ {"exited"}
    BY DEF Phases
  <2> QED
    BY <2>1, GoMoves DEF GreenInv, TypeInv
<1>2. TypeInv' /\ Apart(r)
  BY <1>1 DEF GreenInv, TypeInv, DataTypes, Apart
<1>3. Expanded(r) /\ Accounted(r) /\ scope[r] \in Tiers
  BY DEF GreenInv, RunnerInv, Counting
<1>4. Expanded(r)' /\ Accounted(r)' /\ TierChecks(r)' = TierChecks(r)
  BY <1>3, SameFindings
<1>5. RunnerInv(r)'
  BY <1>1, <1>3, <1>4 DEF GreenInv, RunnerInv, Green
<1> QED
  BY <1>2, <1>5, Assemble

LEMMA OpenGreen == ASSUME NEW r \in Runners, GreenInv, GateInv', OpenTmp(r) PROVE GreenInv'
<1>1. /\ phase[r] = "check" /\ candidates' = candidates /\ filesByName' = filesByName
      /\ results' = results /\ elapsed' = elapsed
  BY DEF OpenTmp
<1>2. tmp \in TmpFiles
  BY DEF GreenInv, TypeInv, DataTypes
<1>3. CASE Throws(r) /\ UNCHANGED tmp
  BY <1>1, <1>2, <1>3, ThrowKeeps
<1>4. CASE /\ Go(r, "write") /\ tmp' = [tmp EXCEPT ![r] = "partial"]
           /\ UNCHANGED <<manifest, scope, reports>>
  <2>1. tmp' \in TmpFiles
    BY <1>2, <1>4 DEF TmpFiles
  <2> QED
    BY <1>1, <1>4, <2>1, WritesGreen
<1> QED
  BY <1>3, <1>4 DEF OpenTmp

LEMMA FillGreen == ASSUME NEW r \in Runners, GreenInv, GateInv', FillTmp(r) PROVE GreenInv'
<1>1. /\ phase[r] = "write" /\ candidates' = candidates /\ filesByName' = filesByName
      /\ results' = results /\ elapsed' = elapsed
  BY DEF FillTmp
<1>2. tmp \in TmpFiles
  BY DEF GreenInv, TypeInv, DataTypes
<1>3. CASE Throws(r) /\ UNCHANGED tmp
  BY <1>1, <1>2, <1>3, ThrowKeeps
<1>4. CASE /\ Go(r, "rename") /\ tmp' = [tmp EXCEPT ![r] = "whole"]
           /\ UNCHANGED <<manifest, scope, reports>>
  <2>1. tmp' \in TmpFiles
    BY <1>2, <1>4 DEF TmpFiles
  <2> QED
    BY <1>1, <1>4, <2>1, WritesGreen
<1> QED
  BY <1>3, <1>4 DEF FillTmp

LEMMA RenameFailsGreen ==
    ASSUME NEW r \in Runners, GreenInv, GateInv', RenameFails(r) PROVE GreenInv'
<1>1. /\ Throws(r) /\ candidates' = candidates /\ filesByName' = filesByName
      /\ results' = results /\ elapsed' = elapsed
  BY DEF RenameFails
<1>2. tmp \in TmpFiles
  BY DEF GreenInv, TypeInv, DataTypes
<1>3. tmp' \in TmpFiles
  <2>1. [tmp EXCEPT ![r] = "none"] \in TmpFiles
    BY <1>2 DEF TmpFiles
  <2> QED
    BY <1>2, <2>1 DEF RenameFails
<1> QED
  BY <1>1, <1>3, ThrowKeeps

\* The report is in place.
LEMMA RenameGreen == ASSUME NEW r \in Runners, GreenInv, GateInv', RenameTmp(r) PROVE GreenInv'
<1>1. /\ phase[r] = "rename" /\ Go(r, "reported") /\ tmp' = [tmp EXCEPT ![r] = "none"]
      /\ reports' = [reports EXCEPT ![scope[r]] = Report(r, tmp[r] = "whole")]
      /\ manifest' = manifest /\ scope' = scope /\ candidates' = candidates
      /\ filesByName' = filesByName /\ results' = results /\ elapsed' = elapsed
  BY DEF RenameTmp, runVars
<1>2. /\ MoveTypes' /\ phase'[r] = "reported" /\ exit'[r] = -1
      /\ \A q \in Runners \ {r} : phase'[q] = phase[q] /\ exit'[q] = exit[q]
  <2>1. "reported" \in Phases \ {"exited"}
    BY DEF Phases
  <2> QED
    BY <1>1, <2>1, GoMoves DEF GreenInv, TypeInv
<1>3. TypeInv'
  <2>1. tmp' \in TmpFiles
    BY <1>1 DEF GreenInv, TypeInv, DataTypes, TmpFiles
  <2> QED
    BY <1>1, <1>2, <2>1 DEF GreenInv, TypeInv, DataTypes
<1>4. /\ scope[r] \in Tiers /\ Expanded(r) /\ Accounted(r)
      /\ Len(results[r]) = Len(TierChecks(r)) /\ Len(results[r]) <= Len(TierChecks(r))
  BY <1>1 DEF GreenInv, RunnerInv, Counting, GateInv, WriterInv
<1>5. /\ reports'[scope[r]].by = r
      /\ \A tier \in Tiers \ {scope[r]} : reports'[tier] = reports[tier]
  BY <1>1, <1>4 DEF GreenInv, GateInv, ShapeInv, Report
<1>6. r # "none"
  BY RunnerInputs
<1>7. Apart(r)
  BY <1>1, <1>2, <1>5, <1>6 DEF Apart
<1>8. Expanded(r)' /\ Accounted(r)' /\ TierChecks(r)' = TierChecks(r)
  BY <1>1, <1>4, SameFindings
<1>9. RunnerInv(r)'
  BY <1>1, <1>2, <1>4, <1>5, <1>6, <1>8 DEF GreenInv, RunnerInv, Green
<1> QED
  BY <1>3, <1>7, <1>9, Assemble

\* The last step of a green tier: nothing blocking failed.
LEMMA FinishGreen == ASSUME NEW r \in Runners, GreenInv, GateInv', Finish(r) PROVE GreenInv'
<1> DEFINE code == IF BlockingFailed(r) THEN ExitCheckFailed ELSE 0
<1>1. /\ phase[r] = "reported" /\ Exit(r, code) /\ tmp' = tmp /\ reports' = reports
      /\ manifest' = manifest /\ scope' = scope /\ candidates' = candidates
      /\ filesByName' = filesByName /\ results' = results /\ elapsed' = elapsed
  BY DEF Finish, runVars
<1>2. code \in {0, 1, 2} /\ (code = 0 => ~BlockingFailed(r))
  BY DEF ExitCheckFailed
<1>3. /\ MoveTypes' /\ phase'[r] = "exited" /\ exit'[r] = code
      /\ \A q \in Runners \ {r} : phase'[q] = phase[q] /\ exit'[q] = exit[q]
  <2> HIDE DEF code
  <2> QED
    BY <1>1, <1>2, ExitMoves DEF GreenInv, TypeInv
<1> HIDE DEF code
<1>4. TypeInv' /\ Apart(r)
  BY <1>1, <1>3 DEF GreenInv, TypeInv, DataTypes, Apart
<1>5. /\ scope[r] \in Tiers /\ Expanded(r) /\ Accounted(r)
      /\ Len(results[r]) = Len(TierChecks(r)) /\ Len(results[r]) <= Len(TierChecks(r))
      /\ reports[scope[r]].by # "none"
  BY <1>1 DEF GreenInv, RunnerInv, Counting
<1>6. /\ Expanded(r)' /\ Accounted(r)' /\ TierChecks(r)' = TierChecks(r)
      /\ BlockingFailed(r)' <=> BlockingFailed(r)
  BY <1>1, <1>5, SameFindings
<1>7. RunnerInv(r)'
  BY <1>1, <1>2, <1>3, <1>5, <1>6 DEF GreenInv, RunnerInv, Green
<1> QED
  BY <1>4, <1>7, Assemble

LEMMA KillGreen == ASSUME NEW r \in Runners, GreenInv, GateInv', Kill(r) PROVE GreenInv'
<1>1. /\ phase[r] # "exited" /\ Go(r, "killed") /\ UNCHANGED <<manifest, runVars, tmp, reports>>
  BY DEF Kill
<1>2. /\ MoveTypes' /\ phase'[r] = "killed" /\ exit'[r] = -1
      /\ \A q \in Runners \ {r} : phase'[q] = phase[q] /\ exit'[q] = exit[q]
  <2>1. "killed" \in Phases \ {"exited"}
    BY DEF Phases
  <2> QED
    BY <1>1, <2>1, GoMoves DEF GreenInv, TypeInv
<1>3. TypeInv' /\ Apart(r)
  BY <1>1, <1>2 DEF GreenInv, TypeInv, DataTypes, Apart, runVars
<1>4. scope[r] \in Tiers => Len(results[r]) <= Len(TierChecks(r))
  BY DEF GreenInv, RunnerInv
<1> QED
  BY <1>1, <1>2, <1>3, <1>4, StopKeeps DEF runVars

LEMMA GreenInit == Init => GreenInv
<1> SUFFICES ASSUME Init PROVE GreenInv
  OBVIOUS
<1>1. GateInv
  BY DEF Init, GateInv, ShapeInv, WriterInv, ReportInv, Settled, NoReport
<1>2. TypeInv
  <2>1. <<>> \in Seq(Results) /\ "start" \in Phases /\ "none" \in Scopes
    BY DEF Phases, Scopes
  <2> QED
    BY <2>1 DEF Init, TypeInv, MoveTypes, DataTypes, TmpFiles
<1>3. \A r \in Runners : RunnerInv(r)
  BY DEF Init, RunnerInv, Green, Counting, Tiers
<1> QED
  BY <1>1, <1>2, <1>3 DEF GreenInv

LEMMA GreenStep == ASSUME GreenInv, [Next]_vars PROVE GreenInv'
<1>1. GateInv'
  BY GateStep DEF GreenInv
<1>2. ASSUME NEW r \in Runners, Start(r) \/ RunTier(r) \/ Kill(r) PROVE GreenInv'
  <2>1. CASE GitFails(r) \/ RefuseOperand(r)
    <3>1. /\ Throws(r) /\ candidates' = candidates /\ filesByName' = filesByName
          /\ results' = results /\ elapsed' = elapsed /\ tmp' = tmp
      BY <2>1 DEF GitFails, RefuseOperand
    <3>2. tmp \in TmpFiles
      BY DEF GreenInv, TypeInv, DataTypes
    <3> QED
      BY <1>1, <3>1, <3>2, ThrowKeeps
  <2> QED
    BY <1>1, <1>2, <2>1, StartGreen, ExpandGreen, CheckGreen, OpenGreen, FillGreen,
       RenameGreen, RenameFailsGreen, FinishGreen, KillGreen DEF RunTier
<1>3. CASE UNCHANGED vars
  <2>1. /\ manifest' = manifest /\ phase' = phase /\ exit' = exit /\ scope' = scope
        /\ candidates' = candidates /\ filesByName' = filesByName /\ results' = results
        /\ elapsed' = elapsed /\ tmp' = tmp /\ reports' = reports
    BY <1>3 DEF vars, runVars
  <2>2. TypeInv'
    BY <2>1 DEF GreenInv, TypeInv, MoveTypes, DataTypes
  <2>3. \A r \in Runners : RunnerInv(r)'
    <3> SUFFICES ASSUME NEW r \in Runners PROVE RunnerInv(r)'
      OBVIOUS
    <3>1. /\ Expanded(r) /\ Accounted(r) => Expanded(r)' /\ Accounted(r)'
          /\ BlockingFailed(r)' <=> BlockingFailed(r)
          /\ TierChecks(r)' = TierChecks(r)
      BY <2>1, SameFindings
    <3> QED
      BY <2>1, <3>1 DEF GreenInv, RunnerInv, Green, Counting
  <2> QED
    BY <1>1, <2>2, <2>3 DEF GreenInv
<1> QED
  BY <1>2, <1>3 DEF Next, Over

\* Every variable of the gate keeps to its type, and its exit codes to its phases.
THEOREM GateTypes == Spec => []TypeOK
<1>1. GreenInv /\ [Next]_vars => GreenInv'
  BY GreenStep
<1> QED
  BY GreenInit, GreenInvImplies, <1>1, PTL DEF Spec

\* A tier that exits 0 has run every check of a valid manifest on the files its globs mean,
\* for any manifest, any files, and however many runs race.
THEOREM GreenAlwaysMeansChecked == Spec => []GreenMeansChecked
<1>1. GreenInv /\ [Next]_vars => GreenInv'
  BY GreenStep
<1> QED
  BY GreenInit, GreenInvImplies, <1>1, PTL DEF Spec

=============================================================================
