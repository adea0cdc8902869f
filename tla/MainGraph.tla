------------------------------ MODULE MainGraph ------------------------------
(***************************************************************************)
(* The main graph of src/graph: one agent run as a sequence of LangGraph   *)
(* supersteps.  An action runs the node named by "next", applies the state *)
(* update the node returns and evaluates the router on the UPDATED state   *)
(* (the primed routers below), all of which LangGraph commits in one       *)
(* checkpoint.  What a model answers is a nondeterministic choice.         *)
(*                                                                         *)
(* A node whose LLM call fails throws and ends the run; the process can    *)
(* also die at any time.  Either way the last checkpoint survives and a    *)
(* later --resume re-enters the graph at "next" with a fresh step count.   *)
(***************************************************************************)
EXTENDS Budget

CONSTANTS
    Budgets,               \* costBudgetUsd values a run may be given, in units
    Charge,                \* Charge[n]: the costs one visit to LLM node n may report
    ProjRefetch,           \* PROJECTED_CONTEXT_REFETCH_CYCLE_USD
    ProjStrongArchitect,   \* PROJECTED_STRONG_ARCHITECT_USD
    ProjCoderReview,       \* PROJECTED_CODER_REVIEW_CYCLE_USD
    ProjStrongCritic,      \* PROJECTED_STRONG_CRITIC_USD
    ProjSme,               \* PROJECTED_SME_TIEBREAKER_USD
    MaxDebateIterations, MaxContextFetches, MaxVerifyAttempts, MaxPatchFormatRetries,
    RecursionLimit         \* MAIN_GRAPH_RECURSION_LIMIT

\* Nodes that call a model: they cost money and they can throw.
LlmNodes == {"complexityRouter", "directResponder", "swarm", "frontierArchitect",
             "claudeArchitect", "claudeCoder", "frontierCritic", "openaiCritic",
             "smeTiebreaker"}

Nodes == LlmNodes \cup {"firewall", "applyPatches", "verify", "finalize"}

Complexities == {"trivial", "tool_complex", "pure_reasoning"}

\* The caps are whatever integers the profile's tuning block holds.
ASSUME CapsAssumption ==
    /\ MaxDebateIterations \in Int /\ MaxContextFetches \in Int
    /\ MaxVerifyAttempts \in Int /\ MaxPatchFormatRetries \in Int
    /\ RecursionLimit \in Nat

ASSUME CostAssumption ==
    /\ Budgets \subseteq Int
    /\ Charge \in [LlmNodes -> SUBSET Nat]
    /\ \A n \in LlmNodes : Charge[n] # {}
    /\ ProjRefetch \in Nat /\ ProjStrongArchitect \in Nat /\ ProjCoderReview \in Nat
    /\ ProjStrongCritic \in Nat /\ ProjSme \in Nat

VARIABLES
    status,            \* "running", "stopped" (threw or died, resumable) or "done"
    next,              \* the node the checkpoint schedules, or "END"
    steps,             \* supersteps completed by this invocation
    complexity, budget, patchEnabled,
    taskSignal,        \* strongEscalationReasonForTask(originalTask) # undefined
    strongEscalationRequired, strongCriticRequired,
    consensusReached, needsMoreContext, debateIterations, contextFetches,
    awaitingPatchReformat, patchApplicationFailed, patchApplied, patchFormatRetries,
    verificationPassed, verifyAttempts,
    totalCost,
    opening,           \* history: totalCost when the first budget gate was read
    draft,             \* history: who wrote currentDraft, and has a critic read it
    usedKeys           \* history: idempotency keys verify has sent to run_tests

inputVars == <<budget, patchEnabled, taskSignal>>
strongVars == <<strongEscalationRequired, strongCriticRequired>>
debateVars == <<consensusReached, needsMoreContext, debateIterations>>
patchVars == <<awaitingPatchReformat, patchApplicationFailed, patchApplied, patchFormatRetries>>
verifyVars == <<verificationPassed, verifyAttempts, usedKeys>>
costVars == <<totalCost, opening>>
stateVars == <<inputVars, complexity, strongVars, debateVars, contextFetches, patchVars,
               verifyVars, costVars, draft>>
vars == <<status, next, steps, stateVars>>

Init ==
    /\ status = "running" /\ next = "complexityRouter" /\ steps = 0
    /\ budget \in Budgets /\ patchEnabled \in BOOLEAN /\ taskSignal \in BOOLEAN
    /\ complexity = "none"
    /\ strongEscalationRequired = FALSE /\ strongCriticRequired = FALSE
    /\ consensusReached = FALSE /\ needsMoreContext = FALSE
    /\ debateIterations = 0 /\ contextFetches = 0
    /\ awaitingPatchReformat = FALSE /\ patchApplicationFailed = FALSE
    /\ patchApplied = FALSE /\ patchFormatRetries = 0
    /\ verificationPassed = FALSE /\ verifyAttempts = 0 /\ usedKeys = {}
    /\ totalCost = 0 /\ opening = 0
    /\ draft = [author |-> "none", reviewed |-> FALSE]

-----------------------------------------------------------------------------
(* The routers: the node the graph runs after the one that just updated the state. *)

Near(projected) == IsCostBudgetNear(budget, totalCost, projected)
Affordable(projected) == CanSpend(budget, totalCost, projected)

RouteByComplexity ==
    CASE complexity = "trivial" -> "directResponder"
      [] complexity = "pure_reasoning" -> "frontierArchitect"
      [] OTHER -> "swarm"

RouteAfterClaudeArchitect ==
    IF complexity = "pure_reasoning" THEN "finalize" ELSE "claudeCoder"

\* Mutated: the strong architect is priced without the coder cycle it leads to.
RouteAfterFrontierArchitectUnderpriced ==
    IF Near(ProjCoderReview) THEN "finalize"
    ELSE IF strongEscalationRequired /\ Affordable(ProjStrongArchitect) THEN "claudeArchitect"
    ELSE RouteAfterClaudeArchitect

RouteAfterFrontierArchitect ==
    IF Near(ProjCoderReview) THEN "finalize"
    ELSE IF complexity = "pure_reasoning"
    THEN IF strongEscalationRequired /\ Affordable(ProjStrongArchitect)
         THEN "claudeArchitect" ELSE "finalize"
    ELSE IF strongEscalationRequired /\ Affordable(ProjStrongArchitect + ProjCoderReview)
         THEN "claudeArchitect" ELSE "claudeCoder"

RouteAfterCoder ==
    IF awaitingPatchReformat THEN "applyPatches" ELSE "frontierCritic"

\* Mutated: the refetch cap is not read.
RefetchUncapped == needsMoreContext /\ Affordable(ProjRefetch)

RefetchAllowed ==
    /\ needsMoreContext
    /\ contextFetches < MaxContextFetches
    /\ Affordable(ProjRefetch)

\* Mutated: the debate cap hands the draft over without pricing the tie-breaker.
RouteDebateCapAccepts ==
    IF Near(0) \/ consensusReached THEN "applyPatches"
    ELSE IF RefetchAllowed THEN "swarm"
    ELSE IF debateIterations >= MaxDebateIterations THEN "applyPatches"
    ELSE IF Affordable(ProjCoderReview) THEN "claudeCoder" ELSE "applyPatches"

RouteDebate ==
    IF Near(0) \/ consensusReached THEN "applyPatches"
    ELSE IF RefetchAllowed THEN "swarm"
    ELSE IF debateIterations >= MaxDebateIterations
    THEN IF Affordable(ProjSme) THEN "smeTiebreaker" ELSE "applyPatches"
    ELSE IF Affordable(ProjCoderReview) THEN "claudeCoder" ELSE "applyPatches"

\* Mutated: consensus of the first critic is taken as final.
RouteAfterFrontierCriticConsensusFirst ==
    IF ~consensusReached /\ strongCriticRequired /\ Affordable(ProjStrongCritic)
    THEN "openaiCritic" ELSE RouteDebate

RouteAfterFrontierCritic ==
    IF strongCriticRequired /\ Affordable(ProjStrongCritic) THEN "openaiCritic" ELSE RouteDebate

RouteAfterApplyPatches ==
    IF ~patchApplicationFailed THEN "verify"
    ELSE IF Near(ProjCoderReview) \/ patchFormatRetries >= MaxPatchFormatRetries
         THEN "finalize" ELSE "claudeCoder"

RouteAfterVerify ==
    IF verificationPassed \/ Near(ProjCoderReview) \/ verifyAttempts >= MaxVerifyAttempts
    THEN "finalize" ELSE "claudeCoder"

-----------------------------------------------------------------------------
(* The nodes. *)

\* The superstep of node n is scheduled and the recursion limit leaves room for it.
Visit(n) ==
    /\ status = "running" /\ next = n /\ steps < RecursionLimit
    /\ steps' = steps + 1

\* The nodes a run may visit before it reads its first gate, which is the router
\* after the first frontierArchitect; a later architect follows a critic.
OpeningNodes == {"complexityRouter", "directResponder", "swarm", "frontierArchitect"}

\* The node's update adds what its LLM calls cost (sumNumbers reducer).
Bill(n) ==
    /\ \E c \in Charge[n] : totalCost' = totalCost + c
    /\ opening' = IF n \in OpeningNodes /\ debateIterations = 0 THEN totalCost' ELSE opening

ComplexityRouter ==
    /\ Visit("complexityRouter")
    /\ complexity' \in Complexities
    /\ debateIterations' = 0 /\ consensusReached' = FALSE
    /\ Bill("complexityRouter")
    /\ UNCHANGED <<status, inputVars, strongVars, needsMoreContext, contextFetches, patchVars,
                   verifyVars, draft>>
    /\ next' = RouteByComplexity'

DirectResponder ==
    /\ Visit("directResponder")
    /\ consensusReached' = TRUE
    /\ draft' = [author |-> "direct", reviewed |-> FALSE]
    /\ Bill("directResponder")
    /\ next' = "finalize"
    /\ UNCHANGED <<status, inputVars, complexity, strongVars, needsMoreContext, debateIterations,
                   contextFetches, patchVars, verifyVars>>

\* One whole swarm run; its result only reaches the prompts and the bill.
Swarm ==
    /\ Visit("swarm")
    /\ contextFetches' = contextFetches + 1
    /\ Bill("swarm")
    /\ next' = "firewall"
    /\ UNCHANGED <<status, inputVars, complexity, strongVars, debateVars, patchVars, verifyVars,
                   draft>>

Firewall ==
    /\ Visit("firewall")
    /\ next' = "frontierArchitect"
    /\ UNCHANGED <<status, stateVars>>

FrontierArchitect ==
    /\ Visit("frontierArchitect")
    /\ \E decisionEscalates \in BOOLEAN :
          strongEscalationRequired' = (taskSignal \/ decisionEscalates)
    /\ Bill("frontierArchitect")
    /\ UNCHANGED <<status, inputVars, complexity, strongCriticRequired, debateVars,
                   contextFetches, patchVars, verifyVars, draft>>
    /\ next' = RouteAfterFrontierArchitect'

ClaudeArchitect ==
    /\ Visit("claudeArchitect")
    /\ Bill("claudeArchitect")
    /\ next' = RouteAfterClaudeArchitect
    /\ UNCHANGED <<status, inputVars, complexity, strongVars, debateVars, contextFetches,
                   patchVars, verifyVars, draft>>

ClaudeCoder ==
    /\ Visit("claudeCoder")
    /\ draft' = [author |-> "coder", reviewed |-> FALSE]
    /\ Bill("claudeCoder")
    /\ next' = RouteAfterCoder
    /\ UNCHANGED <<status, inputVars, complexity, strongVars, debateVars, contextFetches,
                   patchVars, verifyVars>>

FrontierCritic ==
    /\ Visit("frontierCritic")
    /\ debateIterations' = debateIterations + 1
    /\ consensusReached' \in BOOLEAN /\ needsMoreContext' \in BOOLEAN
    /\ \E decisionEscalates \in BOOLEAN :
          strongCriticRequired' = (taskSignal \/ decisionEscalates)
    /\ draft' = [draft EXCEPT !.reviewed = TRUE]
    /\ Bill("frontierCritic")
    /\ UNCHANGED <<status, inputVars, complexity, strongEscalationRequired, contextFetches,
                   patchVars, verifyVars>>
    /\ next' = RouteAfterFrontierCritic'

OpenaiCritic ==
    /\ Visit("openaiCritic")
    /\ debateIterations' = debateIterations + (IF strongCriticRequired THEN 0 ELSE 1)
    /\ consensusReached' \in BOOLEAN /\ needsMoreContext' \in BOOLEAN
    /\ strongCriticRequired' = FALSE
    /\ draft' = [draft EXCEPT !.reviewed = TRUE]
    /\ Bill("openaiCritic")
    /\ UNCHANGED <<status, inputVars, complexity, strongEscalationRequired, contextFetches,
                   patchVars, verifyVars>>
    /\ next' = RouteDebate'

SmeTiebreaker ==
    /\ Visit("smeTiebreaker")
    /\ consensusReached' = TRUE
    /\ draft' = [author |-> "sme", reviewed |-> FALSE]
    /\ Bill("smeTiebreaker")
    /\ next' = "applyPatches"
    /\ UNCHANGED <<status, inputVars, complexity, strongVars, needsMoreContext, debateIterations,
                   contextFetches, patchVars, verifyVars>>

\* Patch application switched off (or nothing to patch): straight on to verify.
SkipPatches ==
    /\ ~patchEnabled \/ complexity = "pure_reasoning"
    /\ patchApplicationFailed' = FALSE /\ awaitingPatchReformat' = FALSE
    /\ UNCHANGED <<patchApplied, patchFormatRetries, verificationPassed>>

\* Mutated: counts down instead of up.
NothingAppliedCountsDown ==
    /\ patchEnabled /\ complexity # "pure_reasoning"
    /\ patchApplicationFailed' = TRUE /\ awaitingPatchReformat' = TRUE
    /\ patchFormatRetries' = patchFormatRetries - 1
    /\ verificationPassed' = FALSE
    /\ UNCHANGED patchApplied

\* Mutated: the retry is not counted.
NothingAppliedUncounted ==
    /\ patchEnabled /\ complexity # "pure_reasoning"
    /\ patchApplicationFailed' = TRUE /\ awaitingPatchReformat' = TRUE
    /\ verificationPassed' = FALSE
    /\ UNCHANGED <<patchApplied, patchFormatRetries>>

\* No block in the draft, or the guards skipped every one.
NothingApplied ==
    /\ patchEnabled /\ complexity # "pure_reasoning"
    /\ patchApplicationFailed' = TRUE /\ awaitingPatchReformat' = TRUE
    /\ patchFormatRetries' = patchFormatRetries + 1
    /\ verificationPassed' = FALSE
    /\ UNCHANGED patchApplied

\* Mutated: the reformat flag survives a successful application.
SomeAppliedKeepsReformat ==
    /\ patchEnabled /\ complexity # "pure_reasoning"
    /\ patchApplicationFailed' = FALSE
    /\ patchApplied' = TRUE
    /\ UNCHANGED <<awaitingPatchReformat, patchFormatRetries, verificationPassed>>

SomeApplied ==
    /\ patchEnabled /\ complexity # "pure_reasoning"
    /\ patchApplicationFailed' = FALSE /\ awaitingPatchReformat' = FALSE
    /\ patchApplied' = TRUE
    /\ UNCHANGED <<patchFormatRetries, verificationPassed>>

ApplyPatches ==
    /\ Visit("applyPatches")
    /\ SkipPatches \/ NothingApplied \/ SomeApplied
    /\ UNCHANGED <<status, inputVars, complexity, strongVars, debateVars, contextFetches,
                   verifyAttempts, usedKeys, costVars, draft>>
    /\ next' = RouteAfterApplyPatches'

\* The pure-reasoning branch makes no tool call; any other verdict is the tool's.
Verify ==
    /\ Visit("verify")
    /\ verifyAttempts' = verifyAttempts + 1
    /\ IF complexity = "pure_reasoning"
       THEN verificationPassed' = TRUE /\ UNCHANGED usedKeys
       ELSE /\ verificationPassed' \in BOOLEAN
            /\ usedKeys' = usedKeys \cup {debateIterations}
    /\ UNCHANGED <<status, inputVars, complexity, strongVars, debateVars, contextFetches,
                   patchVars, costVars, draft>>
    /\ next' = RouteAfterVerify'

Finalize ==
    /\ Visit("finalize")
    /\ next' = "END" /\ status' = "done"
    /\ UNCHANGED stateVars

-----------------------------------------------------------------------------
(* How an invocation of the graph ends early, and how a run is taken up again. *)

\* An LLM call (after the provider's own retries) throws out of the node.
NodeThrows ==
    /\ status = "running" /\ next \in LlmNodes /\ steps < RecursionLimit
    /\ status' = "stopped"
    /\ UNCHANGED <<next, steps, stateVars>>

\* LangGraph gives up with GraphRecursionError.
OutOfSteps ==
    /\ status = "running" /\ steps >= RecursionLimit
    /\ status' = "stopped"
    /\ UNCHANGED <<next, steps, stateVars>>

\* SIGINT (process.exit) or a crash, at any node.
ProcessDies ==
    /\ status = "running"
    /\ status' = "stopped"
    /\ UNCHANGED <<next, steps, stateVars>>

\* --resume: graph.invoke(null) re-enters the checkpointed thread.
Resume ==
    /\ status = "stopped"
    /\ status' = "running" /\ steps' = 0
    /\ UNCHANGED <<next, stateVars>>

\* A finished run stays finished.
Finished == status = "done" /\ UNCHANGED vars

NodeStep ==
    \/ ComplexityRouter \/ DirectResponder \/ Swarm \/ Firewall
    \/ FrontierArchitect \/ ClaudeArchitect \/ ClaudeCoder
    \/ FrontierCritic \/ OpenaiCritic \/ SmeTiebreaker
    \/ ApplyPatches \/ Verify \/ Finalize

Next == NodeStep \/ NodeThrows \/ OutOfSteps \/ ProcessDies \/ Resume \/ Finished

Spec == Init /\ [][Next]_vars

\* A run that is taken up again whenever it has stopped, and whose nodes do not fail
\* or get killed for ever: an operator who repeats --resume until the run ends.
PersistentSpec == Spec /\ SF_vars(NodeStep) /\ WF_vars(Resume)

-----------------------------------------------------------------------------
(* What the graph promises. *)

ControlTyped ==
    /\ status \in {"running", "stopped", "done"}
    /\ next \in Nodes \cup {"END"}
    /\ complexity \in Complexities \cup {"none"}
    /\ budget \in Budgets
    /\ draft \in [author : {"none", "direct", "coder", "sme"}, reviewed : BOOLEAN]

FlagsTyped ==
    /\ patchEnabled \in BOOLEAN /\ taskSignal \in BOOLEAN
    /\ strongEscalationRequired \in BOOLEAN /\ strongCriticRequired \in BOOLEAN
    /\ consensusReached \in BOOLEAN /\ needsMoreContext \in BOOLEAN
    /\ awaitingPatchReformat \in BOOLEAN /\ patchApplicationFailed \in BOOLEAN
    /\ patchApplied \in BOOLEAN /\ verificationPassed \in BOOLEAN

CountersTyped ==
    /\ steps \in Nat /\ debateIterations \in Nat /\ contextFetches \in Nat
    /\ patchFormatRetries \in Nat /\ verifyAttempts \in Nat /\ usedKeys \subseteq Nat
    /\ totalCost \in Nat /\ opening \in Nat

TypeOK == ControlTyped /\ FlagsTyped /\ CountersTyped

\* A loop runs its body once before its cap is read.
AtLeastOnce(cap) == IF cap < 1 THEN 1 ELSE cap

FetchBound == AtLeastOnce(MaxContextFetches)
VerifyBound == AtLeastOnce(MaxVerifyAttempts)
FormatBound == AtLeastOnce(MaxPatchFormatRetries)

\* Beyond the debate cap only a refetch or a failed verification leads to another critique.
DebateBound == AtLeastOnce(MaxDebateIterations) + (VerifyBound - 1) + (FetchBound - 1)

(***************************************************************************)
(* The counters of the four loops stay within what the caps allow, even    *)
(* where the loops feed each other: routeDebate reads the refetch cap      *)
(* before the debate cap, a failed verification re-enters the debate, and  *)
(* a stopped run is resumed from its checkpoint (routing.ts:46-101,        *)
(* graph-state.ts:78 "Hard loop counters are independent of the soft USD   *)
(* budget").                                                               *)
(***************************************************************************)
LoopsCapped ==
    /\ contextFetches <= FetchBound
    /\ verifyAttempts <= VerifyBound
    /\ patchFormatRetries <= FormatBound
    /\ debateIterations <= DebateBound

\* The most supersteps one invocation can take.
StepBound == 2 + 4 * FetchBound + 3 * DebateBound + 3 * VerifyBound + 2 * FormatBound

(***************************************************************************)
(* One invocation takes at most StepBound supersteps, and with the caps of *)
(* tuning.ts it never runs into MAIN_GRAPH_RECURSION_LIMIT: tuning.ts:7,   *)
(* "Recursion headroom protects bounded loops; per-cycle caps remain the   *)
(* real guard".                                                            *)
(***************************************************************************)
StepsBounded == steps <= StepBound
NeverOutOfSteps == status = "running" => steps < RecursionLimit

\* "Budget projections are conservative cycle-level estimates" (tuning.ts:16):
\* no cycle costs more than the projection its gate was priced with.
ConservativeProjections ==
    /\ \A c \in Charge["claudeCoder"], r \in Charge["frontierCritic"] : c + r <= ProjCoderReview
    /\ \A s \in Charge["swarm"], a \in Charge["frontierArchitect"] : s + a <= ProjRefetch
    /\ \A c \in Charge["claudeArchitect"] : c <= ProjStrongArchitect
    /\ \A c \in Charge["openaiCritic"] : c <= ProjStrongCritic
    /\ \A c \in Charge["smeTiebreaker"] : c <= ProjSme

(***************************************************************************)
(* If the projections are conservative, everything the graph chooses to    *)
(* spend keeps the run below the soft ceiling: only the ungated opening    *)
(* (router, first swarm, first architect or the direct answer) can take it *)
(* to the ceiling or over, and then not one further LLM call is paid for   *)
(* (budget.ts, routing.ts; tuning.ts:10 "Soft budget checks stop before    *)
(* the hard user-provided USD ceiling").                                   *)
(***************************************************************************)
SpendingStopsAtCeiling ==
    Limited(budget) /\ totalCost > opening => BelowCeiling(budget, totalCost)

(***************************************************************************)
(* A strong review that is called for is skipped only because it cannot be *)
(* paid for: with strongCriticRequired still set, no later node runs while *)
(* the strong critic is affordable (routing.ts:66-71, critics.ts:27-31).   *)
(***************************************************************************)
StrongReviewSkippedOnlyForBudget ==
    strongCriticRequired /\ next # "openaiCritic" => ~Affordable(ProjStrongCritic)

(***************************************************************************)
(* A draft the critics rejected is handed to applyPatches only when money  *)
(* has run out for both remaining ways to settle it: another coder cycle,  *)
(* or, once the debate cap is reached, the tie-breaker (routing.ts:46-64). *)
(***************************************************************************)
RejectedDraftOnlyWhenBroke ==
    next = "applyPatches" /\ ~consensusReached /\ ~awaitingPatchReformat =>
        ~Affordable(IF debateIterations >= MaxDebateIterations THEN ProjSme ELSE ProjCoderReview)

(***************************************************************************)
(* A coder's draft reaches applyPatches without a critique only as the     *)
(* answer to a failed patch application; after a successful one every new  *)
(* draft goes through the critics again, whatever happened in between      *)
(* (routing.ts:86-89, graph-state.ts:92 "Skips critique after a retry that *)
(* only fixes patch delimiters").                                          *)
(***************************************************************************)
UnreviewedOnlyToReformat ==
    next = "applyPatches" /\ draft.author = "coder" /\ ~draft.reviewed => patchApplicationFailed

(***************************************************************************)
(* Every verification of a run is sent under an idempotency key of its     *)
(* own, although the key is made from debateIterations and not from the    *)
(* verify counter (verify.ts:31): a critique separates any two of them.    *)
(***************************************************************************)
VerifyKeysFresh == next = "verify" => debateIterations \notin usedKeys

(***************************************************************************)
(* Pure reasoning and trivial tasks never reach the nodes that gather      *)
(* context, write code or touch the workspace, whatever is resumed or      *)
(* escalated (routing.ts:15-44).                                           *)
(***************************************************************************)
ReasoningTouchesNothing ==
    complexity \in {"trivial", "pure_reasoning"} =>
        /\ contextFetches = 0 /\ verifyAttempts = 0 /\ ~patchApplied
        /\ draft.author \in {"none", "direct"}

(***************************************************************************)
(* A run that is resumed after every failure, crash and recursion error    *)
(* reaches END: no loop of the graph can go round for ever, because each   *)
(* pass is counted in the checkpoint and survives the restart              *)
(* (routing.ts, graph-state.ts:78-96, run-agent-task.ts:167-186).          *)
(***************************************************************************)
RunCompletes == <>(status = "done")

=============================================================================
