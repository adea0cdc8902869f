# A verification project for ai-agents-assistant

TLA+ models of the agent runtime under `src/src` and of the quality gate in `src/tools`, the TLC
runs that check them on small instances, and TLAPS proofs for every value of the constants. Paths
below are relative to `src/src` unless they say otherwise.

## 1. The system

One *agent run* is one execution of a LangGraph state graph (the *main graph*) whose state is
checkpointed to SQLite after every superstep; `--resume <runId>` re-enters the graph at the
node the last checkpoint schedules. One of its nodes runs a *swarm*, a second graph with an
in-memory checkpointer and a human gate. Two nodes touch the workspace: `applyPatches` writes
the drafted files and `finalize` rolls them back. A kernel starts what the run needs (gateway,
tool providers), runs the graph and writes a run summary. Apart from the runtime, hooks, CI and
developers run a quality gate over the repository itself.

| Component | State it keeps | Operations | Talks to | Hard parts |
|---|---|---|---|---|
| Main graph: `graph/`, `state/graph-state.ts`, `run/node-lifecycle.ts` | checkpointed channels: loop counters, flags, drafts, cost; the next node | 13 nodes, 7 routers | models, swarm, workspace, checkpointer | four loops that feed each other under one recursion limit; throwing nodes; resumption |
| Soft budget: `graph/budget.ts`, `consts/tuning.ts` | none, reads `totalCost`, `costBudgetUsd` | `isCostBudgetNear`, `canSpendUsd` | routers | gates work on projections; the opening is not gated |
| Patch application: `patching/`, `graph/nodes/{apply-patches,verify,finalize}.ts` | workspace; `patchBackups`, `patchCreatedFiles`, `patchApplied` | parse, apply, verify, roll back | file system, run_tests | the disk is not part of the checkpoint; I/O fails block by block; crashes |
| Swarm: `swarm/`, `state/swarm-state.ts` | worker kind, status, attempts, escalations, artifacts; the worker's loop | delegator, ReAct worker, oracle, human gate, compression, blocked | models, tool registry, driver | bounded retries granted by two parties; guidance in a shared channel |
| Human in the loop: `hitl/` | round counter | interrupt, resolve, forced abort | swarm, stdin | nobody answers; cap on rounds |
| Run kernel: `app/run-agent-task.ts`, `run/`, `main.ts` | run context, `summaryWritten` | start, run, resume, summarise, stop | everything | SIGINT, failing startup, summaries of resumed runs, torn writes |
| Gateway lifecycle: `tools/gateway.ts` | `managedGatewayProcess` | start, stop, probe | kernel, child process, other processes' gateways | starts and stops of several processes over one port, a child that dies or boots too slowly |
| Tool registry, local tools: `tools/registry.ts`, `policy.ts`, `local-tools.ts` | bindings; a child process per call | validate, invoke, start, stop | worker, processes | two guards that must agree; SIGTERM then SIGKILL against an exit |
| Web search, gateway calls: `tools/web-search.ts`, `http.ts` | none | search with fallback, retried RPC | gateway | retries of two backends one after the other |
| Model transport: `models/retry.ts`, `models/providers/`, `tools/llm.ts` | none | build a request, call with retries, read usage | providers | answers nobody waits for, retried billing, parameters an API refuses |
| Profiles, pricing: `models/{profile,resolve}.ts`, `tools/pricing.ts` | profile in force | accept, resolve bindings, price usage | all LLM calls | five places decide who serves a role; profile on resume |
| Command line: `cli/` | configuration | parse, choose a profile, print | kernel | the profile of a resumption |
| Quality gate: `../tools/verify-runner.mjs`, `../quality.json` | manifest, tier report | parse, validate, expand globs, run checks, report, doctor | git, child processes, other runs of itself | a green exit that checked nothing; two runs replacing one report |
| Logging, prompts, shared parsers, benches, smoke scripts | none that others read | format, parse | all | none of interest to a model checker |

What makes each correct, in short: the loops of the main graph end within their caps and never
run into the recursion limit; money chosen to be spent stays below the soft ceiling and reviews
are skipped only for want of it; the workspace ends as verified or as found; retries of a swarm
are counted whoever grants them and an abort is final; an attempt of the worker ends, whatever its
services do, and what they bill is counted or belongs to a failed request; the kernel writes one
truthful summary on every path and stops what it started; no gateway child is lost; every role has
somebody to serve it; a gate that exits 0 has run every check on the files the manifest means.

## 2. Modules

| Module | Models | Extends / uses |
|---|---|---|
| `Budget` | `graph/budget.ts` | |
| `MainGraph` | nodes, routers, checkpoint, resumption | `Budget` |
| `MainGraphInvariant` | the inductive strengthenings of MainGraph's properties | `MainGraph` |
| `GuardedWorkspace` | abstract: what a run promises about the workspace | |
| `PatchLoop` | apply, verify, finalize on a disk | implements `GuardedWorkspace` |
| `SwarmGraph` | one swarm run and its HITL driver | |
| `ModelWire` | requests, usage and prices on the wire (operators) | |
| `ToolGuards` | the two guards of a tool call (operators) | |
| `WorkerCalls` | one attempt of the worker, call by call | `ModelWire`, `ToolGuards`; implements `SwarmGraph` |
| `Profiles` | acceptance of profiles, bindings of roles (operators) | |
| `Gateway` | start and stop of the gateway by many processes | |
| `RunReport` | abstract: what the kernel promises about summaries | |
| `RunLifecycle` | the kernel and the command line around it | `Gateway`, `Profiles`; implements `RunReport` |
| `Manifest` | command line, manifest and globs of the quality gate (operators) | |
| `VerifyRunner` | runs of the quality gate over one repository | `Manifest` |
| `MCMainGraph`, `MCPatchLoop`, `MCSwarmGraph`, `MCWorkerCalls`, `MCRunLifecycle`, `MCVerifyRunner` | constants for TLC | the module they are named after |
| `MainGraphProofs`, `MainGraphBudgetProofs`, `SwarmProofs`, `PatchLoopProofs`, `WorkerCallsProofs`, `RunLifecycleProofs`, `ManifestProofs`, `VerifyRunnerProofs` | lemmas and theorems | TLAPS |

Operators whose comment starts with "Mutated:" are faulty variants of the definition that
follows them. No specification uses them; replacing the definition by its variant makes the
property that guards it fail, which shows that the property can fail.

### Budget
Money is a whole number of units, one unit being `COST_BUDGET_MIN_REMAINING_USD` ($0.005) in the
runs. `isCostBudgetNear` compares `(spent + projected) / budget` with 0.95; `BelowCeiling` is
the same comparison multiplied out. Rounding of binary floating point is abstracted. `budget` is
the effective one, `state.costBudgetUsd ?? DEFAULT_COST_BUDGET_USD`; a non-positive one is no limit.

### MainGraph
One action per node. A LangGraph superstep runs a node, merges the returned update through the
channel reducers, evaluates the conditional edge on the *updated* state and checkpoints all of
it; so an action sets the primed channels and then `next' = RouteX'`. `steps` counts supersteps of this
invocation (the recursion limit is LangGraph's and is taken from its documented behaviour).
Channels whose value no router reads (texts, token counts) are left out; `draft`, `opening` and
`usedKeys` are history variables. What models answer is a nondeterministic choice, and so is the
`strongEscalationReasonForTask` heuristic, fixed per task (`taskSignal`). `NodeThrows`,
`OutOfSteps` and `ProcessDies` stop the run with its last checkpoint; `Resume` re-enters with
`steps = 0`. The caps are constant: a resume under another profile (see the hazards in
`PROJECT.json`) is not modelled here. `totalCost` is what is billed to the state: calls of a node that throws
are not, as in the code.

### PatchLoop and GuardedWorkspace
The other nodes are one node `debate` that hands over any draft. A draft is a sequence of blocks
with distinct literal paths (as `parsePatchBlocks` yields); `Resolve` maps a path to the file it
names or to `Outside`. `applyPatches` and `rollbackPatches` take one step per file because the
disk changes file by file while the node's update is checkpointed only when it returns: the
locals `todo` and `fresh` are lost in a crash. `Protected` abstracts `isProtectedPath`. Backups
pass through UTF-8 (`Utf8`). `IoFaults` lets any read, write or unlink reject, a write possibly
after truncation (`Torn`). `CrashIn` names the phases in which the process may die.
`GuardedWorkspace` says the same without drafts, records or retries: unprotected files may be
written, a verification approves the tree as it stands, and the run ends with the tree approved
last or with the tree it found. The refinement maps `disk` to `tree` and the end of a run to
`kept` or `untouched`.

### SwarmGraph
The graph nodes are actions; the worker's loop is one action per planner decision (final answer,
rejected call, answered call, throwing call, unavailable provider) with the routers evaluated on
the updated state as above. `driver` is `driveSwarmWithHitl`: `Interrupt` ends an invocation,
`OperatorAnswers`, `AutoAbort` or `ForceAbort` resume it. Of a text only its author is kept
(`escalationResponse`), of the worker kind nothing, as it is fixed by the delegator. A crash loses the whole run (MemorySaver): MainGraph's `Swarm` starts it
again from `Init`, which is why it is one action there.

### WorkerCalls, ModelWire and ToolGuards
What SwarmGraph does in one step, the decision of a planner and its tool call, takes many here.
`AskPlanner`, `PlannerAnswers`, `PlannerIsSilent` and `PlannerFails` are `callLlm` and its retry
loop; an error is the chain of causes `isTransient` walks, with the words `classifyFailure` looks
for. A request that failed for the client stays at the service as an *orphan* and may be served,
and billed, at any later time. `Spawn` to `ChildReported` is `runLocalProcess`: the exit event,
the timeout and the kill timer interleave, and a `stubborn` child ignores SIGTERM. SIGKILL never
fails, as the commands run as the agent's user. `BeginSearch` to `FallbackFails` is the search with
its two backends, each retried. `ToolGuards` has what the registry validates and builds and what
the tool checks again when it is invoked; arguments are reduced to the fields given, whether the
command is allowlisted and whether the path is inside the workspace. `ModelWire` says which
parameters each transport puts into a request, which combinations the APIs refuse, in what form each
provider reports its usage and how `pricing.ts` reads it. A profile may bind every thinking mode and
effort `modelBindingSchema` accepts; what the model does not know to be refused (the mode "enabled",
the rungs of the effort) the API may answer or turn down with a 400, at any request. The refinement maps an attempt to the worker node of SwarmGraph with no
retry.

### RunLifecycle, Gateway, RunReport and Profiles
A *host* is a process: the CLI executes one run and exits, an embedding one (a bench) executes run
after run. `executeAgentRun` is cut at its awaits, so the actions of several hosts interleave
there and only there. Starting the gateway is three steps, as it waits between them: the probe and
the look at `managedGatewayProcess` (`ProbeMissed`), the lookup of the CLI, and the spawn, which
checks nothing again (`Spawn`). A process executes one run at a time, as `main.ts` and the scripts
do. Hosts meet at the gateway's port and in the files of the runs. The probe may
miss and a deadline pass at any time; a child boots, serves if the port is free, and may exit at
any time; `unmanaged` is a gateway no host started, or whose host is gone. The graph is reduced to
steps that cost something, commit and may throw. `writeFileSync` is not atomic: a failing write may
leave a torn summary. `Interrupt` is the SIGINT handler of `main.ts` (a failure summary unless one
was written, then exit without the `finally` block), `Kill` any other death. A resumption takes the
profile of `--profile`, else the one recorded in the last summary, else the default. `Profiles`
holds what `parseProfile` accepts and the four ways the code asks for a role's binding.
`RunReport` promises that a summary changes only while a process executes its run and that the
first report of an execution stands.

### VerifyRunner and Manifest
Runs of the gate over one repository, each from its arguments to its exit code: the manifest is
validated, git lists the files of each fileset (the index may change between two listings), the
checks run in turn under their timeouts and the tier's budget, and the report is written to a
temporary file, renamed, and followed by the exit. Each run may be killed anywhere, also between the
rename and the exit. A JSON object is a function on its
keys, a path or glob a sequence of characters; a value of a wrong JSON type is refused like a
missing key and left out (`Typed` says what a manifest of the right JSON types is). `Matches` is the
code's matcher: `Tokenize` cuts a glob into literals and wildcards, and one row for each token, from the
last to the first and from right to left in the path, says where the tokens from there on match.
`GlobMeans` is the dialect itself, a glob read from the left over all ways through the path.
`MCVerifyRunner` compares the two (`ASSUME GlobDialect`) for every glob and path of up to four
characters, and `MatchesMeans` proves them equal. `GreenMeansChecked` holds a tier to its budget when
it has checks: `runTier` compares the time only after a check, so an empty tier whose listings are slow
passes.

## 3. Runs

| Run | Question | Bounds | Result |
|---|---|---|---|
| `main_caps` | Do the loops stay within caps and recursion limit, and does a resumed run complete? | the caps and the limit of `tuning.ts`; no cost | holds |
| `main_budget` | Is spending gated, and are reviews skipped only for want of money? | budgets of 5, 12, 20 and 30 units, projections halved, charges of nothing or the conservative maximum; caps 2, 2, 2, 1; recursion limit 10, so that longer runs are stopped by it and resumed | holds |
| `patch_guard` | Is what a run keeps what it verified, and does it otherwise undo itself? | three files, two contents, drafts of up to two blocks, crashes outside writing | holds |
| `patch_faults` | What survives failing I/O, non-text originals and crashes anywhere? | the same, all faults on | holds |
| `patch_resume` | `UnverifiedRunLeavesTree` with a crash while writing | | violated |
| `patch_llmfail` | `FailedRunLeavesTree` with a failing model call | | violated |
| `swarm_bounds` | Are retries bounded and guided, aborts final, giving up justified; does the run end? | the real escalation cap, a driver's cap of nothing and of the real six, three planner steps, two tool failures, one tool | holds |
| `worker_calls` | Does an attempt end, is every bill accounted for, every outage retried, every child reaped, every refusal final? | two steps, one retry, seven bindings over three transports and three providers, three usages | holds |
| `worker_outage` | `PlannerOutagesAreEnvironment` | the same | violated |
| `run_lifecycle` | Are costs told, children stopped and never lost, roles served, reports final, and does every execution end? | a CLI and a bench, two runs, two launches, two graph steps, one failing write, four profiles | holds |
| `run_profile` | `RecoveredProfileIsOriginal` | two profiles | violated |
| `gate_verify` | Has a green gate checked what the manifest means, and is a report always whole? | two runs at once, nine command lines, twenty manifests (most with one thing wrong), four listings, listings and checks that take up to two seconds under budgets of one and more | holds |

Why the bounds are enough. In `main_caps` they are the program's own. In `main_budget` a unit is
coarse, but the budgets put the ceiling before, at and behind every gate, and each
projection is met exactly by a charge. Three files are one that exists, one that is created and one that is
protected; two rounds of verification and two reformats (the real caps) let every record be
written once and met again. Two failures in three steps let the worker of `swarm_bounds` leave its
loop in every way; the two escalations are the program's. In `worker_calls` two steps let a second
call meet what the first left behind (timers, orphans, keys), and one retry is what the tools have.
Two launches are one run and its resumption, or two runs at once on the hosts, or two one after the other in one
process; the profiles make each of the five places decide otherwise than the others once. A second
run of the gate is enough to race for a report; the manifests cover each clause of the validation.

### What the violated runs show
* `patch_resume`: backups reach the checkpoint only when the whole draft is written. A process
  killed in between leaves patched files that the resumed node takes for originals.
* `patch_llmfail`: only `finalize` rolls back; a model call that throws after a rejected round
  ends the run with the rejected files in place. (Resuming it repairs this: `CheckpointUndoes`.)
* `run_profile`: a resumption under another profile, or after a death without a summary, records
  the profile it ran under, and the next resumption recovers that one.
* `worker_outage`: planner failures are classified by words of their message, and the messages of
  a rate limit, a refused connection and an SDK timeout have none of them.

Seen in the models, though no run is about it: `fs.writeFile` truncates before it writes, and when the
write then fails the block counts as skipped and its original is not recorded, so nothing restores
it; two spellings of one file in a draft defeat the
rollback (the set of handled files is not extended within one call); artifact references are keyed
by tool and step without the attempt; a child killed by its timeout counts as a successful tool
call; a start of the gateway that gives up, and SIGINT, leave the child running (the process still
knows it in the first case); a resumption that fails writes a summary over the earlier one with the
cost of its own steps only, and calls of a node that throws are in no summary. Not seen: a process that dies after `run_tests` was sent and before its checkpoint sends the
same key again when resumed (`VerifyKeysFresh` is about verifications that were checkpointed), and
`calculateUsage` without a price (`assertPricingEntries` refuses such profiles).

### Fairness
`PersistentSpec` of MainGraph assumes that a node that can run does run to its end infinitely
often (strong fairness on the nodes, as crashes and errors may come in between) and that a
stopped run is resumed. It is the assumption behind "a run that is resumed often enough
completes": the code itself does not resume, its user does. `FairSpec` of SwarmGraph assumes weak
fairness of everything but the operator: model calls and tool calls have timeouts and bounded
retries, so each ends, which `AttemptEnds` checks below. The operator may never answer;
`SwarmEnds` says that nothing else can hold a run up. `FairSpec` of WorkerCalls assumes weak
fairness of the worker's own process: its timers fire, and a request is answered or times out.
Children may run for ever (`ChildExits` is not fair) and orphans may stay. `FairSpec` of RunLifecycle assumes for
each host that its kernel or gateway step is taken: every wait of startup and shutdown has a
deadline and the invocation of the graph ends. Nothing is assumed of children, other gateways,
signals or the operator.

## 4. Proofs

TLAPS proves what follows for every value of the constants, with no assumption but those named in
the modules: `CapsAssumption`, `CostAssumption`, `MinRemainingAssumption` (caps are any integers,
charges any sets of naturals), `SwarmLimits` (the swarm's caps are naturals, those on steps and
failures positive), `WorkspaceAssumption` and `LimitsAssumption` (shapes of files, contents and
paths), `CallLimits` (retries are naturals), `CallsAssumption` (planners are called with what
`modelBindingSchema` accepts), `BillingAssumption` (token counts and prices are naturals, and a
price of missed tokens is that of input tokens, as in `consts/pricing/model-pricing.json`),
`LifecycleAssumption` and `ContentsAssumption` (shapes of hosts, files and overrides), `RunnerInputs`,
`FileNames` (what git lists are sequences of characters) and `ManifestTypes` (a manifest that passes
the structural validation has the JSON types the validation asks for, `Typed`; the model leaves
values of other types out, so the validation it has cannot refuse them).

| Of | Theorem | States |
|---|---|---|
| MainGraph | `TypeCorrect` | the type invariant |
| | `LoopsAccounted`, `LoopCaps`, `StepsAreBounded`, `RecursionLimitSuffices` | each loop counter stays within a bound computed from the caps, one invocation takes at most `StepBound` supersteps (38 with the default caps, the limit being 50) and, whenever the limit is at least `StepBound`, no run is stopped by it |
| | `VerifyKeysDistinct`, `ReasoningIsolated`, `DraftsAreReviewed` | see the properties |
| | `CeilingHolds` (for `ConservativeProjections`), `StrongReviewHeld`, `RejectedDraftHeld` | the budget's promises |
| SwarmGraph | `SwarmTypeCorrect`, `RetriesAccounted` | types, and the inductive invariant below |
| | `WorkIsBounded` | at most `MaxEscalationAttempts + 1` attempts of at most `MaxReactSteps` planner calls each, whoever grants the retries |
| | `ForcedAbortNeverNeeded` | if the driver may ask at least as often as the swarm may escalate, its own cap is never what ends a run |
| | `RunsAreFinite` | every step of a run, the operator's included, lowers a natural number that starts at `(MaxEscalationAttempts + 1) * (MaxReactSteps + 7)` |
| | `ToolKeysDistinct`, `LastFailureReported`, `AbortsAreFinal`, `RetriesGuided`, `GivenUpLate` | see the properties |
| PatchLoop | `PatchTyped` | the type invariant |
| | `ProtectedNeverWritten`, `KeptOnlyVerified` | whatever fails and wherever the process dies, protected files stay and changes are kept only on the tree verified last |
| | `CheckpointAlwaysUndoes`, `KeptAnswersOnDisk`, `RunsAreGuarded` | for `Reliable` files: the checkpoint undoes the run so far, the answer is what is on disk, and PatchLoop implements GuardedWorkspace |
| WorkerCalls | `AttemptTyped` | the type invariant |
| | `OutagesAlwaysRetried`, `ChildrenReaped`, `RefusalsAlwaysFailFast`, `BillsAlwaysAccounted` | see the properties, for any numbers of steps, failures and retries, any bindings and any price list |
| | `AttemptsAreFinite` | every step, of the worker, its children or its services, lowers a natural number that starts at `(MaxReactSteps + 1) * StepCost + 1` |
| | `AttemptsImplemented` | WorkerCalls implements the worker of SwarmGraph |
| RunLifecycle | `LifecycleTyped` | the type invariant |
| | `ChildrenStopped`, `ChildrenKept`, `EveryRoleServed`, `CostsTold` | see the properties |
| | `ExecutionsAreFinite` | every step of an execution lowers a number of at most `MaxSteps + 9` that is 0 only when it is over, and nobody else raises it |
| | `ReportsImplemented` | RunLifecycle implements RunReport |
| Manifest | `MatchesMeans` | for every path and glob the matcher agrees with the meaning of the dialect |
| | `ExpandSelects` | a fileset keeps exactly the files its include globs mean and its exclude globs do not |
| VerifyRunner | `GateTypes` | the type invariant |
| | `GreenAlwaysMeansChecked` | see `GreenMeansChecked`, for any manifests, listings, budgets, delays and any number of runs |
| | `ReportsAlwaysWhole` | see the property |

`Reliable` says that originals are text, that files can be read and written, that no two paths name
one file and that the process does not die inside `applyPatches`. Each hypothesis is one the code
needs: without the first the backup differs from the original, without the second a block that could not be
written leaves a torn file nobody has recorded, without the third a file is recorded twice, and
`patch_resume` shows the fourth. Model calls may still fail, and the process may die anywhere else.

The argument for MainGraph. `LoopsCapped` is not inductive: `routeDebate` reads the refetch cap before the
debate cap and failed verifications re-enter the debate, so the debate counter does pass
`maxDebateIterations`. `MainGraphInvariant` adds what pays for it. `FlowInv` says where in the
graph each kind of task can be. `CountInv` bounds each counter at each node, the debate counter
by its cap plus the verifications and refetches so far. `StepsInv` gives every superstep to a
fetch, a critique, a verification or a reformat, up to an `Offset` that says how far the node
lies from the last such event. `KeysInv` says that a critique lies between two verifications.
`MoneyInv` says how much room the gate in front of a node has left for the cycle it opens. They
held in TLC before they were proved; the proofs show that `Init` implies them,
one step per action that each `Next` step preserves them, and that they imply the properties.
Lemmas about the guard (what an affordable step leaves, what stays unaffordable) open
`MainGraphBudgetProofs`.

The argument for SwarmGraph. None of its bounds is inductive, as the counter that a guard reads
is not the one that grows: the router compares `escalationAttempts`, the oracle and the gate
raise it, the worker counts `attempts` and the driver `round`. `RetriesPaidFor` ties them
together. `CountersInv` says at each node how far one is ahead of the others. `PlansInv` charges
every planner call to a finished attempt or to a step of the running one, `KeysInv` puts the keys
already sent before the next one, and `FailureInv` says that who is asked, and what a blocked run
will report, agree with the last failure.

The argument for PatchLoop. `GuardInv` says that no record and no plan mentions a protected file,
so that not even a rollback from damaged records can write one. `KeptInv` says that after a verdict
in favour the run only ends, on the tree that was judged. `UndoInv` is what a rollback rests on.
`CheckpointUndoes` is not inductive, as it says nothing of a draft half written: `RecordInv` says
file by file that what is recorded, in the checkpoint or by the running node, is the original, and
that what differs from the original is recorded; `QueueInv` that the blocks still to write are of
files this call has not written; `RollbackInv` that in a rollback a recorded file is restored or
still to be. `AnswerInv` follows the draft from the queue to the disk. For the refinement a write,
a restore or a removal is a `Write`, a passing verification an `Approve`, and the end of a run is
`EndKept` by `KeptInv` or `EndUntouched` by `UndoInv`.

The argument for WorkerCalls. `PlaceInv` says which of the variables of the three kinds of call
are in use where the attempt stands, `TriesInv` how many tries the running call has had, and
`ChildInv` that timers and children belong to a running child call. `OutagesRetried` is decided in
the step that ends the attempt: `OneCauseDecides` and `PassingIsTransient` show that the code's walk
over the causes finds every outage that may pass to be transient, so the call was retried before.
`ReportInv` follows a child that was signalled to its report. `RefusalsFailFast` rests on
`RequestsWellFormed`, over the bindings, `GuardsAgree`, over the tool calls, and `MalformedEnds`: a
400 is not transient, so it ends the attempt, where only the services still move (`LeftRests`), and
counts as a failed request that is never billed. `BillsAccounted`
splits into one lemma per wire shape (`ChatUsage`, `DeepSeekUsage`, `AnthropicUsage`: the usage
normalised from an answer costs what the answer was billed) and `LostInv`, which charges every
failed request to a retry of a step taken or of the running one. For the refinement,
a step inside a call is a stutter and the step that ends it is SwarmGraph's `Continue` or
`LeaveWorker`, which `GoesOn` and `Leaves` restate for this module.

The argument for RunLifecycle. The invariants are stated per host and per run, and most of the
proof is that a step of one host leaves those of the others alone. `HostsInv`: how far the gateway
is says how far the execution is (`PlaceInv`); a live child is managed, left by a process that is
gone, or being stopped, and a host between the look at its record and the spawn has none
(`ChildInv`); the profile in force was accepted and the gateway it needs was
asked for (`ServedInv`). `RunsInv`: what an execution has counted was billed to a run only it
executes (`ExecInv`, `OneHost`), and a final summary stands for a graph that has ended and so
commits no more (`CostInv`). The refinement uses `OneHost`: two hosts that executed one run would
overwrite each other's reports.

The argument for Manifest. `Tokenize` and the rows are recursive functions and folds, and the prover
cannot instantiate the library's induction theorems, which take an operator. Induction is done on
sets instead: `SetInduction` says that a set of naturals with no least natural outside it has them
all, and each proof names the set of places where its claim holds. `Solution` and `FoldSolution` show
that the equation of a recursive function, and that of a fold, has a solution, so that the one TLA+
chooses satisfies it. Then `Matches` and `GlobMeans` meet in the middle: cut a glob after any token;
some place reached from the left is one where the rest matches, computed from the right; and moving
the cut by one token changes nothing.

The argument for VerifyRunner. Each run writes a temporary file of its own and publishes it by one
rename, so an invariant of the writer (what it holds at each phase, `WriterInv`) and one of the
published reports (their writer has left the phases in which results change, `ReportInv`) make
`ReportsWhole`. `GreenMeansChecked` is not inductive, as it speaks of the exit only and what it
promises is decided long before: that the manifest is valid when the run starts, what a fileset
contains when git lists it, how a check ended when it ran. `RunnerInv` carries this to the exit: a
tier is only begun under a valid manifest; from the first check on, every fileset is the expansion of
the listing git gave for it (`Expanded`); every result so far is explained by its check (skipped only
where it may be, else given the operands of its arguments), and the time used is within the budget
once there is a result (`Accounted`); a green exit has all results, none of a blocking check that
failed, and a report in place. `ExpandSelects` then turns the expansions into the files the globs
mean, and the validation into names that are declared (`SoundCheck`). `TypeInv` keeps times
numbers and the maps of filesets on the names of the manifest.

Why runs end. `SwarmEnds`, `AttemptEnds` and `RunsSettle` need fairness, which is out of the prover's
reach, but what makes them true is a quantity that every step lowers, and that is a theorem. For a
swarm (`StepsLeft` of SwarmGraph) it is the retries that may still be granted, each worth a whole
attempt, and the steps from where the run is to the next retry. For an attempt (`StepsLeft` of
WorkerCalls) it is the steps not yet taken, each worth `StepCost` (every retry of the planner and of
two backends), the way to the end of the running one, and one for each request left at a service. For
an execution (`StepsLeft` of RunLifecycle) it is counted per host: the others share the port and the
files with it but cannot lengthen its startup, graph or shutdown, as a checkpoint is its own
(`OneHost`). All three held in TLC before they were proved. MainGraph has no such quantity, as a run
may crash and be resumed any number of times; `StepsAreBounded` bounds each invocation.

Only model-checked: liveness itself (`RunCompletes`, `SwarmEnds`, `AttemptEnds`, `RunsSettle`), as it
needs fairness, and that a step is possible until the end. Every invariant, action property and
refinement of the passing runs is a theorem.

No proof depends on a flaw met in the prover: the SMT encoding of `Len` in tlapm 1.4.5 has an axiom
that is false of values which are not sequences. All modules were also proved with it taken out.

## 5. Not modelled, and the plan

Not modelled:
* wording of prompts, logs and reports (`prompts/`, `logging/`, `cli/report.ts`,
  `tools/result-reports.ts`): no state another component reads depends on it;
* parsing of text (`graph/parsers.ts`, `shared/`, `patching`'s block parser) and of the agent's
  arguments: what a parser may return is a choice of the action that calls it;
* benchmarks and smoke scripts: they call the program and check its output;
* the `tuning` block of a profile: the caps are constants of MainGraph and SwarmGraph, so a
  resumption under other caps is not covered. (`tuning.maxReactSteps` is accepted but the worker
  uses the constant; `../.agents/tasks.md:179-183` records that as deferred.);
* the gateway program, the model providers, git and the commands of the checks, which are external;
* names that objects inherit from their prototype: `parseArgs` of the gate takes `toString` for a
  scope (and exits 1, where an unknown argument exits 2);
* floating point of costs; what child processes print; contents of the files the gate checks.

Plan: the tuning block as variables of MainGraph, to see what a resumption under other caps preserves of
`StepsBounded`; the command line's arguments as operators against a reference definition, as in
`Manifest`.
