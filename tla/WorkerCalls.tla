----------------------------- MODULE WorkerCalls -----------------------------
(***************************************************************************)
(* One attempt of the ReAct worker (src/swarm/react-worker.ts), call by    *)
(* call: the planner's model call with its retries (src/models,            *)
(* src/tools/llm.ts), the guards of its tool call, and the call itself, a  *)
(* child process with a timeout (src/tools/local-tools.ts) or a search     *)
(* with two backends behind the gateway (web-search.ts, http.ts).  What    *)
(* SwarmGraph does in one step takes many here, with services that go on   *)
(* working for a client that has given up.                                 *)
(***************************************************************************)
EXTENDS Integers, Sequences, FiniteSetsExt, ModelWire, ToolGuards

CONSTANTS
    MaxReactSteps, MaxReactToolFailures,
    LlmMaxRetries,        \* tuning.llmMaxRetries
    ToolMaxRetries,       \* maxRetries of the worker's tool calls, 1
    Calls,                \* bindings and options a planner may be called with
    TokenCounts,          \* true token counts of a model request
    Prices                \* by provider

ASSUME CallLimits ==
    /\ MaxReactSteps \in Nat \ {0} /\ MaxReactToolFailures \in Nat \ {0}
    /\ LlmMaxRetries \in Nat /\ ToolMaxRetries \in Nat

ASSUME CallsAssumption == Calls \subseteq CallShapes

\* Where a missed token has a price of its own it is that of an input token
\* (consts/pricing/model-pricing.json); who bills cache writes has both prices of them.
ASSUME BillingAssumption ==
    /\ TokenCounts \subseteq [miss : Nat, hit : Nat, write5m : Nat, write1h : Nat, out : Nat]
    /\ \A p \in Providers :
        LET fields == DOMAIN Prices[p]
        IN  /\ {"input", "hit", "output"} \subseteq fields
            /\ p = "anthropic" => {"write5m", "write1h"} \subseteq fields
            /\ \A f \in fields : Prices[p][f] \in Nat
            /\ "miss" \in fields => Prices[p]["miss"] = Prices[p]["input"]

VARIABLES
    kind, call,           \* the worker's kind and its planner's binding
    phase,                \* "start", "plan", "decide", "child", "search", "left"
    step, toolFailures, successfulToolCalls, artifacts,
    result,               \* how the attempt ended, [status, type]
    \* retry loops, of the planner call or of one search backend
    attempt,
    atService,            \* a request is at the service and the client waits
    backend,              \* "tavily" or "duckduckgo"
    tavilyFailures,       \* requests of this search tavily failed to answer
    tavilyEmpty,          \* or it answered, with no results
    alias,                \* the tool being called
    \* the child process of a tool call
    child,                \* "none", "running", "exited" or "unreported" (not started, not killed)
    stubborn,             \* it ignores SIGTERM
    timer, forceKillTimer, timedOut,
    lastStatus,           \* status of the last child process that was reported
    \* the model service
    orphans,              \* requests it works on though the client gave up
    billed, counted, lost,\* answers billed, counted by the worker, and calls that failed
    lastBill, lastUsage,  \* of the last answer
    \* history
    planned, sentKeys,    \* planner calls and tool calls of the steps taken
    refused,              \* the API turned a request down with a 400
    lastRefusal,          \* kind of ToolError the last invoked tool refused with
    ending                \* the outage that ended the attempt: "none", "passing" or
                          \* "lasting" (the planner's), "search"

requestVars == <<attempt, atService>>
searchVars == <<backend, tavilyFailures, tavilyEmpty>>
childVars == <<child, stubborn, timer, forceKillTimer, timedOut, lastStatus>>
billVars == <<orphans, billed, counted, lost, lastBill, lastUsage>>
workerVars == <<step, toolFailures, successfulToolCalls, artifacts>>
historyVars == <<planned, sentKeys, refused, lastRefusal, ending>>
vars == <<kind, call, phase, workerVars, result, requestVars, searchVars, alias, childVars, billVars,
          historyVars>>

-----------------------------------------------------------------------------
(* Errors of a model request: the chain of causes, whether the text names  *)
(* an environment problem in the words classifyFailure looks for, and      *)
(* whether it was one, that a later try may find gone or not.              *)

Http(status) == <<[status |-> status, name |-> "OpenClawError", code |-> "none"]>>
Error(name, code) == [status |-> 0, name |-> name, code |-> code]

OpenClawErrors ==
    {[chain |-> Http(400), named |-> FALSE, down |-> "no"],
     [chain |-> Http(401), named |-> TRUE, down |-> "lasting"],
     [chain |-> Http(429), named |-> FALSE, down |-> "passing"],
     [chain |-> Http(502), named |-> TRUE, down |-> "passing"],
     [chain |-> <<Error("TimeoutError", "none")>>, named |-> TRUE, down |-> "passing"],
     \* "fetch failed", whose cause says why
     [chain |-> <<Error("TypeError", "none"), Error("Error", "ECONNREFUSED")>>,
      named |-> FALSE, down |-> "passing"]}

\* "Connection error." and "Request timed out."
DirectErrors ==
    {[chain |-> Http(400), named |-> FALSE, down |-> "no"],
     [chain |-> Http(529), named |-> FALSE, down |-> "passing"],
     [chain |-> <<Error("APIConnectionError", "none"), Error("TypeError", "none")>>,
      named |-> FALSE, down |-> "passing"],
     [chain |-> <<Error("APIConnectionTimeoutError", "none")>>, named |-> FALSE, down |-> "passing"]}

FakeErrors == {[chain |-> <<Error("Error", "none")>>, named |-> FALSE, down |-> "no"]}

ErrorsOf(transport) ==
    CASE transport = "openclaw" -> OpenClawErrors
      [] transport = "direct" -> DirectErrors
      [] transport = "fake" -> FakeErrors

MalformedRequest == [chain |-> Http(400), named |-> FALSE, down |-> "no"]

MaxCauseDepth == 5
TransientErrorNames == {"AbortError", "TimeoutError", "APIConnectionError", "APIConnectionTimeoutError"}
TransientNetworkCodes ==
    {"ECONNREFUSED", "ECONNRESET", "EPIPE", "ETIMEDOUT", "ENOTFOUND", "EAI_AGAIN",
     "UND_ERR_CONNECT_TIMEOUT", "UND_ERR_HEADERS_TIMEOUT", "UND_ERR_SOCKET"}

\* Mutated: only the error itself is looked at, not its causes.
IsTransientShallow(error) ==
    LET e == error.chain[1]
    IN  IF e.status # 0 THEN e.status \in {408, 429} \/ e.status >= 500
        ELSE e.name \in TransientErrorNames \/ e.code \in TransientNetworkCodes

\* Mutated: whatever answers with an HTTP status is tried again.
IsTransientStatus(error) ==
    LET Says(e) == e.status # 0 \/ e.name \in TransientErrorNames \/ e.code \in TransientNetworkCodes
    IN  \E i \in DOMAIN error.chain : i <= MaxCauseDepth /\ Says(error.chain[i])

\* The first cause that says anything decides; an HTTP status says most.
IsTransient(error) ==
    LET Says(e) == e.status # 0 \/ e.name \in TransientErrorNames \/ e.code \in TransientNetworkCodes
        saying == {i \in DOMAIN error.chain : i <= MaxCauseDepth /\ Says(error.chain[i])}
        e == error.chain[Min(saying)]
    IN  saying # {} /\ (e.status # 0 => e.status \in {408, 429} \/ e.status >= 500)

\* The planner's errors are classified by their text.
ClassifyText(error) == IF error.named THEN "environment" ELSE "reasoning"

-----------------------------------------------------------------------------
Init ==
    /\ kind \in Kinds /\ call \in Calls
    /\ phase = "start" /\ result = [status |-> "WORKING", type |-> "none"]
    /\ step = 0 /\ toolFailures = 0 /\ successfulToolCalls = 0 /\ artifacts = {}
    /\ attempt = 0 /\ atService = FALSE /\ backend = "tavily" /\ tavilyFailures = 0
    /\ tavilyEmpty = FALSE /\ alias = "none"
    /\ child = "none" /\ stubborn = FALSE /\ timer = FALSE /\ forceKillTimer = FALSE
    /\ timedOut = FALSE /\ lastStatus = "none"
    /\ orphans = 0 /\ billed = 0 /\ counted = 0 /\ lost = 0 /\ lastBill = <<>> /\ lastUsage = <<>>
    /\ planned = 0 /\ sentKeys = {} /\ refused = FALSE /\ lastRefusal = "none"
    /\ ending = "none"

\* leadDelegator hands the subtask over.
Begin ==
    /\ phase = "start" /\ phase' = "plan"
    /\ UNCHANGED <<kind, call, workerVars, result, requestVars, searchVars, alias, childVars, billVars,
                   historyVars>>

-----------------------------------------------------------------------------
(* The end of a step of the worker, and of the attempt. *)

Leave(status, type) ==
    /\ phase' = "left" /\ result' = [status |-> status, type |-> type]
    /\ UNCHANGED <<step, toolFailures, successfulToolCalls, artifacts>>

NextStep ==
    /\ phase' = "plan" /\ step' = step + 1
    /\ UNCHANGED result

\* Without a final text and a successful call there is no result.
Finish(text) ==
    IF text \/ successfulToolCalls > 0 THEN Leave("DONE", "none") ELSE Leave("ESCALATING", "reasoning")

\* Mutated: one failure too many is forgiven.
CountFailureLate ==
    IF toolFailures + 1 > MaxReactToolFailures
    THEN /\ phase' = "left" /\ result' = [status |-> "ESCALATING", type |-> "reasoning"]
         /\ toolFailures' = toolFailures + 1
         /\ UNCHANGED <<step, successfulToolCalls, artifacts>>
    ELSE NextStep /\ toolFailures' = toolFailures + 1 /\ UNCHANGED <<successfulToolCalls, artifacts>>

CountFailure ==
    IF toolFailures + 1 >= MaxReactToolFailures
    THEN /\ phase' = "left" /\ result' = [status |-> "ESCALATING", type |-> "reasoning"]
         /\ toolFailures' = toolFailures + 1
         /\ UNCHANGED <<step, successfulToolCalls, artifacts>>
    ELSE NextStep /\ toolFailures' = toolFailures + 1 /\ UNCHANGED <<successfulToolCalls, artifacts>>

Planned == planned' = planned + 1
Sent == sentKeys' = sentKeys \cup {<<1, step>>}

\* The tool call resolved: whatever it says is stored and counts as a success, or storing
\* it throws, an error classified by its text ("permission denied").
ToolAnswers(tool) ==
    /\ Planned /\ Sent /\ UNCHANGED ending
    /\ \/ /\ artifacts' = artifacts \cup {<<tool, step>>}
          /\ successfulToolCalls' = successfulToolCalls + 1
          /\ NextStep /\ UNCHANGED toolFailures
       \/ CountFailure
       \/ Leave("ESCALATING", "environment")

\* It threw a ToolError of this kind.
ToolThrows(error) ==
    /\ Planned /\ Sent
    /\ IF ClassifyToolError(error) = "environment"
       THEN Leave("ESCALATING", "environment") /\ ending' = "search"
       ELSE CountFailure /\ UNCHANGED ending

-----------------------------------------------------------------------------
(* callLlm: a request, and again while its failures are transient. *)

Request ==
    CASE call.transport = "direct" -> DirectRequest(call)
      [] call.transport = "openclaw" -> OpenClawRequest(call)
      [] call.transport = "fake" -> OpenClawRequest(call)

Malformed == call.transport = "direct" /\ Refuses(call, Request)

\* The prompt is built and sent; the loop's next try after a backoff sends it again.
AskPlanner ==
    /\ phase = "plan" /\ step < MaxReactSteps /\ ~atService
    /\ atService' = TRUE
    /\ UNCHANGED <<kind, call, phase, workerVars, result, attempt, searchVars, alias, childVars,
                   billVars, historyVars>>

Asked == phase = "plan" /\ atService

\* A text came back: its usage is read, priced and counted.
PlannerAnswers ==
    /\ Asked /\ ~Malformed
    /\ \E t \in TokenCounts, hasRaw \in BOOLEAN :
        /\ Billable(call, t)
        /\ lastBill' = Bill(t, Prices[call.provider])
        /\ lastUsage' = CalculateUsage(ExtractDirectUsage(call, t, hasRaw), Prices[call.provider])
    /\ billed' = billed + 1 /\ counted' = counted + 1
    /\ phase' = "decide" /\ atService' = FALSE /\ attempt' = 0
    /\ UNCHANGED <<kind, call, workerVars, result, searchVars, alias, childVars, orphans, lost,
                   historyVars>>

\* Mutated: an empty text is asked for again.
PlannerIsSilentAgain ==
    /\ Asked /\ ~Malformed /\ call.transport # "fake"
    /\ billed' = billed + 1
    /\ atService' = FALSE
    /\ UNCHANGED <<kind, call, phase, workerVars, result, attempt, searchVars, alias, childVars,
                   orphans, counted, lost, lastBill, lastUsage, historyVars>>

\* An empty text: thrown outside the retry loop, and not counted.
PlannerIsSilent ==
    /\ Asked /\ ~Malformed /\ call.transport # "fake"
    /\ billed' = billed + 1 /\ lost' = lost + 1
    /\ atService' = FALSE /\ attempt' = 0
    /\ Leave("ESCALATING", "reasoning") /\ Planned
    /\ UNCHANGED <<kind, call, searchVars, alias, childVars, orphans, counted, lastBill, lastUsage,
                   sentKeys, refused, lastRefusal, ending>>

\* A request that failed for the client may still be served.
RequestFails(error) ==
    /\ atService' = FALSE /\ lost' = lost + 1
    /\ orphans' \in {orphans} \cup (IF error.down = "passing" THEN {orphans + 1} ELSE {})
    /\ UNCHANGED <<billed, counted, lastBill, lastUsage>>

Retried(error) == attempt < LlmMaxRetries /\ IsTransient(error)

PlannerFails ==
    /\ Asked
    /\ \E error \in IF Malformed THEN {MalformedRequest} ELSE ErrorsOf(call.transport) :
        /\ RequestFails(error)
        /\ refused' = (refused \/ error = MalformedRequest)
        /\ IF Retried(error)
           THEN /\ attempt' = attempt + 1
                /\ UNCHANGED <<phase, workerVars, result, planned, ending>>
           ELSE /\ Leave("ESCALATING", ClassifyText(error)) /\ Planned
                /\ ending' = IF error.down = "no" THEN "none" ELSE error.down
                /\ UNCHANGED attempt
    /\ UNCHANGED <<kind, call, searchVars, alias, childVars, sentKeys, lastRefusal>>

\* The service comes to an end with a request nobody waits for.
OrphanServed ==
    /\ orphans > 0
    /\ orphans' = orphans - 1
    /\ billed' \in {billed, billed + 1}
    /\ UNCHANGED <<kind, call, phase, workerVars, result, requestVars, searchVars, alias, childVars,
                   counted, lost, lastBill, lastUsage, historyVars>>

StepsExhausted ==
    /\ phase = "plan" /\ step >= MaxReactSteps
    /\ Finish(FALSE)
    /\ UNCHANGED <<kind, call, requestVars, searchVars, alias, childVars, billVars, historyVars>>

-----------------------------------------------------------------------------
(* The planner's decision. *)

\* The bill of the last answer is compared while the decision is open.
Decide ==
    /\ phase = "decide"
    /\ lastBill' = <<>> /\ lastUsage' = <<>>
    /\ UNCHANGED <<kind, call, orphans, billed, counted, lost, refused>>

\* A final text, or prose; blank prose is no text.
PlannerFinishes ==
    /\ Decide
    /\ \E text \in BOOLEAN : Finish(text)
    /\ Planned
    /\ UNCHANGED <<requestVars, searchVars, alias, childVars, sentKeys, lastRefusal, ending>>

InvalidCall ==
    /\ Decide
    /\ \E tool \in ToolNames \cup {"unknown"}, args \in ProposedArgs : ~Validated(kind, tool, args)
    /\ CountFailure /\ Planned
    /\ UNCHANGED <<requestVars, searchVars, alias, childVars, sentKeys, lastRefusal, ending>>

\* What registry.invoke is called with.
CleanArgs(tool) == {Sanitized(tool, args) : args \in {a \in ProposedArgs : Validated(kind, tool, a)}}

ToolRefuses ==
    /\ Decide
    /\ \E tool \in ToolNames : \E args \in CleanArgs(tool) :
        /\ Refusal(tool, args) # "none"
        /\ lastRefusal' = Refusal(tool, args)
        /\ ToolThrows(Refusal(tool, args))
    /\ UNCHANGED <<requestVars, searchVars, alias, childVars>>

Accepts(tools) ==
    {tool \in tools : \E args \in CleanArgs(tool) : Refusal(tool, args) = "none"}

\* ast_read: the file's text, or an error of the file system.
ReadFile ==
    /\ Decide
    /\ \E tool \in Accepts(InProcess) : ToolAnswers(tool) \/ ToolThrows("execution")
    /\ UNCHANGED <<requestVars, searchVars, alias, childVars, lastRefusal>>

-----------------------------------------------------------------------------
(* runLocalProcess.  Kill never fails: the commands run as the agent's user. *)

\* The child is started, or its "error" event is due.
Spawn ==
    /\ Decide
    /\ alias' \in Accepts(ByChild)
    /\ phase' = "child" /\ child' \in {"running", "unreported"} /\ stubborn' \in BOOLEAN
    /\ timer' = TRUE /\ forceKillTimer' = FALSE /\ timedOut' = FALSE
    /\ UNCHANGED <<workerVars, result, requestVars, searchVars, lastStatus, planned, sentKeys,
                   lastRefusal, ending>>

ChildStep ==
    UNCHANGED <<kind, call, phase, workerVars, result, requestVars, searchVars, alias, lastStatus,
                billVars, historyVars>>

\* By itself, or killed by somebody else; the "exit" event is due.
ChildExits ==
    /\ child = "running" /\ child' \in {"exited", "killed"}
    /\ ChildStep /\ UNCHANGED <<stubborn, timer, forceKillTimer, timedOut>>

\* Mutated: SIGTERM is all a slow child gets.
TimerFiresOnce ==
    /\ timer /\ timer' = FALSE /\ timedOut' = TRUE /\ forceKillTimer' = FALSE
    /\ child' \in IF child = "running" /\ ~stubborn THEN {"exited", "killed"} ELSE {child}
    /\ ChildStep /\ UNCHANGED stubborn

\* SIGTERM: dies of it, handles it and exits, or ignores it.
TimerFires ==
    /\ timer /\ timer' = FALSE /\ timedOut' = TRUE /\ forceKillTimer' = TRUE
    /\ child' \in IF child = "running" /\ ~stubborn THEN {"exited", "killed"} ELSE {child}
    /\ ChildStep /\ UNCHANGED stubborn

\* SIGKILL.
ForceKillTimerFires ==
    /\ forceKillTimer /\ forceKillTimer' = FALSE
    /\ child' = IF child = "running" THEN "killed" ELSE child
    /\ ChildStep /\ UNCHANGED <<stubborn, timer, timedOut>>

\* Mutated: what the process says of its end comes before the timeout.
ExitStatusFirst ==
    CASE child = "exited" -> "completed"
      [] child # "exited" -> IF timedOut THEN "timed_out" ELSE "failed"

ExitStatus ==
    CASE child = "unreported" -> "failed"
      [] child # "unreported" ->
           IF timedOut THEN "timed_out" ELSE IF child = "killed" THEN "failed" ELSE "completed"

\* The "exit" or "error" handler: both timers are cleared and the call resolves.
ChildReported ==
    /\ phase = "child" /\ child \in {"exited", "killed", "unreported"}
    /\ child' = "none" /\ timer' = FALSE /\ forceKillTimer' = FALSE
    /\ lastStatus' = ExitStatus
    /\ ToolAnswers(alias) /\ alias' = "none"
    /\ UNCHANGED <<kind, call, requestVars, searchVars, stubborn, timedOut, billVars, refused,
                   lastRefusal>>

-----------------------------------------------------------------------------
(* runWebLookupWithFallback over invokeGatewayTool *)

BeginSearch ==
    /\ Decide
    /\ alias' \in Accepts(OverGateway)
    /\ phase' = "search" /\ backend' = "tavily" /\ tavilyFailures' = 0 /\ tavilyEmpty' = FALSE
    /\ attempt' = 0 /\ atService' = FALSE
    /\ UNCHANGED <<workerVars, result, childVars, planned, sentKeys, lastRefusal, ending>>

AskBackend ==
    /\ phase = "search" /\ ~atService
    /\ atService' = TRUE
    /\ UNCHANGED <<kind, call, phase, workerVars, result, attempt, searchVars, alias, childVars,
                   billVars, historyVars>>

Searching == phase = "search" /\ atService
SearchStep == UNCHANGED <<kind, call, childVars, billVars, refused, lastRefusal>>
StaysInSearch == UNCHANGED <<phase, workerVars, result, alias, planned, sentKeys, ending>>

\* Results, or the fallback's word that there are none.
SearchEnds ==
    /\ Searching /\ SearchStep
    /\ atService' = FALSE
    /\ ToolAnswers(alias) /\ alias' = "none"
    /\ attempt' = 0
    /\ UNCHANGED searchVars

FallBack == backend' = "duckduckgo" /\ attempt' = 0 /\ atService' = FALSE

TavilyIsEmpty ==
    /\ Searching /\ SearchStep /\ StaysInSearch
    /\ backend = "tavily" /\ tavilyEmpty' = TRUE /\ FallBack
    /\ UNCHANGED tavilyFailures

\* Mutated: one retry too many.
BackendRetriedLate ==
    /\ Searching /\ SearchStep /\ StaysInSearch
    /\ attempt <= ToolMaxRetries
    /\ attempt' = attempt + 1 /\ atService' = FALSE
    /\ tavilyFailures' = tavilyFailures + (IF backend = "tavily" THEN 1 ELSE 0)
    /\ UNCHANGED <<backend, tavilyEmpty>>

\* Every failure is tried again, a rejection too.
BackendRetried ==
    /\ Searching /\ SearchStep /\ StaysInSearch
    /\ attempt < ToolMaxRetries
    /\ attempt' = attempt + 1 /\ atService' = FALSE
    /\ tavilyFailures' = tavilyFailures + (IF backend = "tavily" THEN 1 ELSE 0)
    /\ UNCHANGED <<backend, tavilyEmpty>>

TavilyFails ==
    /\ Searching /\ SearchStep /\ StaysInSearch
    /\ backend = "tavily" /\ attempt >= ToolMaxRetries
    /\ tavilyFailures' = tavilyFailures + 1 /\ FallBack
    /\ UNCHANGED tavilyEmpty

FallbackFails ==
    /\ Searching /\ SearchStep
    /\ backend = "duckduckgo" /\ attempt >= ToolMaxRetries
    /\ atService' = FALSE
    /\ ToolThrows("provider_unavailable") /\ alias' = "none"
    /\ UNCHANGED <<attempt, searchVars>>

-----------------------------------------------------------------------------
\* What the worker's process and its services' timeouts see to.
ModelCall == AskPlanner \/ PlannerAnswers \/ PlannerIsSilent \/ PlannerFails
Decision ==
    PlannerFinishes \/ InvalidCall \/ ToolRefuses \/ ReadFile \/ Spawn \/ BeginSearch
Process == TimerFires \/ ForceKillTimerFires \/ ChildReported
Search == AskBackend \/ SearchEnds \/ TavilyIsEmpty \/ BackendRetried \/ TavilyFails \/ FallbackFails
WorkerStep == Begin \/ ModelCall \/ StepsExhausted \/ Decision \/ Process \/ Search

Over == phase = "left" /\ UNCHANGED vars

Next == WorkerStep \/ ChildExits \/ OrphanServed \/ Over

Spec == Init /\ [][Next]_vars

\* Requests and timers have timeouts; a child may run for ever.
FairSpec == Spec /\ WF_vars(WorkerStep)

-----------------------------------------------------------------------------
(* What an attempt promises. *)

WorkerTyped ==
    /\ kind \in Kinds /\ call \in Calls
    /\ phase \in {"start", "plan", "decide", "child", "search", "left"}
    /\ step \in 0..MaxReactSteps /\ toolFailures \in 0..MaxReactToolFailures
    /\ successfulToolCalls \in Nat /\ artifacts \subseteq ToolNames \X (0..(MaxReactSteps - 1))
    /\ planned \in Nat /\ sentKeys \subseteq {1} \X (0..(MaxReactSteps - 1))
    /\ ending \in {"none", "passing", "lasting", "search"}
    /\ alias \in AllowedAliases(kind) \cup {"none"} /\ (alias = "none" <=> phase \notin {"child", "search"})

TriesTyped ==
    /\ attempt \in Nat /\ (attempt <= LlmMaxRetries \/ attempt <= ToolMaxRetries)
    /\ backend \in {"tavily", "duckduckgo"} /\ tavilyFailures \in 0..(ToolMaxRetries + 1)
    /\ orphans \in Nat /\ billed \in Nat /\ counted \in Nat /\ lost \in Nat

FlagsTyped ==
    /\ atService \in BOOLEAN /\ tavilyEmpty \in BOOLEAN /\ refused \in BOOLEAN
    /\ child \in {"none", "running", "exited", "killed", "unreported"}
    /\ stubborn \in BOOLEAN /\ timer \in BOOLEAN /\ forceKillTimer \in BOOLEAN
    /\ timedOut \in BOOLEAN
    /\ lastStatus \in {"none", "completed", "failed", "timed_out"}

TypeOK == WorkerTyped /\ TriesTyped /\ FlagsTyped

(***************************************************************************)
(* A request the API turns down (a prompt too long, a thinking mode or an  *)
(* effort it does not take: direct.ts:61-64, 84-87) fails fast             *)
(* (retry.ts:1-4): it is the last of its attempt, after whatever retries   *)
(* of passing failures, ends it as a failure of reasoning, and nobody is   *)
(* billed for it.  A combination that is known to be refused is not even   *)
(* sent, by the planner or, with a schema, by the router and the           *)
(* reviewers; and no tool repeats a validation or policy check that a      *)
(* validated call fails (direct.ts:34-124, descriptors.ts,                 *)
(* local-tools.ts:23-190).                                                 *)
(***************************************************************************)
RefusalsFailFast ==
    /\ refused => /\ phase = "left" /\ result = [status |-> "ESCALATING", type |-> "reasoning"]
                  /\ billed + orphans < counted + lost
    /\ ~Malformed
    /\ LET structured == [call EXCEPT !.schema = TRUE]
       IN  phase = "start" => ~Refuses(structured, DirectRequest(structured))
    /\ lastRefusal \notin {"validation", "policy"}

(***************************************************************************)
(* What an answer is counted as is what the provider bills for it, in      *)
(* every wire format; and all that is billed and not counted belongs to a  *)
(* failed request of its own, of which the retry limit allows so many      *)
(* (pricing.ts:23-127, llm.ts:89-92, retry.ts:82, openclaw.ts:132-135).    *)
(***************************************************************************)
BillsAccounted ==
    /\ lastUsage = lastBill
    /\ counted <= billed /\ billed + orphans <= counted + lost
    /\ lost <= (step + 1) * LlmMaxRetries + 1

(***************************************************************************)
(* An outage that may pass ends an attempt only after every retry: of the  *)
(* planner's call (retry.ts:82), or of both search backends, unless the    *)
(* first had no results (web-search.ts:56-98, http.ts:51-85).              *)
(***************************************************************************)
OutagesRetried ==
    /\ ending = "passing" => attempt = LlmMaxRetries
    /\ ending = "search" =>
          /\ backend = "duckduckgo" /\ attempt = ToolMaxRetries
          /\ tavilyEmpty \/ tavilyFailures = ToolMaxRetries + 1

(***************************************************************************)
(* When a tool call of a child process has resolved, no timer is left to   *)
(* signal a process that is gone, no child runs on, and a child that got   *)
(* the timeout's signal is not reported as completed, whatever it did      *)
(* about the signal (local-tools.ts:51-80).                                *)
(***************************************************************************)
ChildAccountedFor ==
    /\ phase # "child" => child = "none" /\ ~timer /\ ~forceKillTimer
    /\ phase # "child" /\ timedOut => lastStatus \in {"timed_out", "failed"}

(***************************************************************************)
(* Call by call, with retries, timeouts and fallbacks, an attempt is a     *)
(* course of the worker node of SwarmGraph: one planner decision, at most  *)
(* one tool call under one key, one count at a time.                       *)
(***************************************************************************)
Ended == phase = "left"
Swarm == INSTANCE SwarmGraph WITH
    Aliases <- ToolNames, MaxEscalationAttempts <- 1, RoundCaps <- {0},
    driver <- "running", interactive <- TRUE, maxRounds <- 0, round <- 0,
    node <- CASE phase = "start" -> "leadDelegator"
              [] result.status = "DONE" -> "workerCompress"
              [] result.type = "reasoning" -> "smeOracle"
              [] result.type = "environment" -> "humanGate"
              [] OTHER -> "worker",
    status <- IF phase = "start" THEN "PENDING" ELSE result.status,
    failureType <- result.type,
    attempts <- IF Ended THEN 1 ELSE 0, escalationAttempts <- 0, escalationResponse <- "none",
    workerSummary <- "none",
    fresh <- [k \in ToolNames \X (0..(MaxReactSteps - 1)) |-> IF k \in artifacts THEN 1 ELSE 0],
    producedArtifacts <- [k \in ToolNames \X (0..(MaxReactSteps - 1)) |->
                            IF Ended /\ k \in artifacts THEN 1 ELSE 0],
    lastFailure <- result.type

ImplementsSwarmWorker == Swarm!Spec

(***************************************************************************)
(* Every attempt ends: no retry loop runs on, and a child that neither     *)
(* exits nor heeds SIGTERM is killed (retry.ts:78-91, http.ts:51,          *)
(* local-tools.ts:51-55).                                                  *)
(***************************************************************************)
AttemptEnds == <>Ended

(***************************************************************************)
(* react-worker.ts:123 "Planner gateway/timeout failures are environment   *)
(* issues, not graph crashes.": an attempt ended by an outage of the       *)
(* planner's service escalates as an environment failure.                  *)
(***************************************************************************)
PlannerOutagesAreEnvironment ==
    Ended /\ ending # "none" => result.type = "environment"

\* Steps an attempt has left at most, whoever takes them: those of the running step from
\* where it is, those of the steps not yet taken, and one for every request still served.
StepCost == 4 * ToolMaxRetries + 3 * LlmMaxRetries + 8
StepsToEnd ==
    CASE phase = "start" -> StepCost + 1
      [] phase = "plan" ->
           4 * ToolMaxRetries + 5 + 3 * (LlmMaxRetries - attempt) + (IF atService THEN 2 ELSE 3)
      [] phase = "decide" -> 4 * ToolMaxRetries + 5
      [] phase = "child" ->
           1 + (IF child = "running" THEN 1 ELSE 0) + (IF timer THEN 2 ELSE 0)
             + (IF forceKillTimer THEN 1 ELSE 0)
      [] phase = "search" ->
           (IF backend = "tavily" THEN 2 * ToolMaxRetries + 2 ELSE 0)
             + 2 * (ToolMaxRetries - attempt) + (IF atService THEN 1 ELSE 2)
      [] phase = "left" -> 0
StepsLeft == (MaxReactSteps - step) * StepCost + StepsToEnd + orphans

=============================================================================
