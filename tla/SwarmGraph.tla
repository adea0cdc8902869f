------------------------------ MODULE SwarmGraph ------------------------------
(***************************************************************************)
(* One swarm run: the sub-graph of src/swarm (delegator, one ReAct worker, *)
(* SME oracle, human gate, compression, blocked) and the driver of         *)
(* src/hitl that resumes it after each interrupt.  It is what the action   *)
(* Swarm of MainGraph does in one step; its checkpoints live in a          *)
(* MemorySaver, so a process that dies starts a new run from Init.         *)
(*                                                                         *)
(* The graph nodes are actions, but the worker's loop is one action per    *)
(* planner decision.  Texts (observations, transcript, queries) and cost   *)
(* are left out; of the guidance only its author is kept.                  *)
(***************************************************************************)
EXTENDS Integers, FiniteSets

CONSTANTS
    Aliases,                  \* tools the worker may call
    MaxReactSteps,            \* MAX_REACT_STEPS
    MaxReactToolFailures,     \* MAX_REACT_TOOL_FAILURES
    MaxEscalationAttempts,    \* MAX_ESCALATION_ATTEMPTS
    RoundCaps                 \* values of maxRounds, by default DEFAULT_MAX_HITL_ROUNDS

ASSUME SwarmLimits ==
    /\ MaxReactSteps \in Nat \ {0} /\ MaxReactToolFailures \in Nat \ {0}
    /\ MaxEscalationAttempts \in Nat /\ RoundCaps \subseteq Nat

Failures == {"environment", "reasoning"}

VARIABLES
    \* the driver, in the process of the main graph
    driver,               \* "running", "waiting" (for the operator), "returned" or "threw"
    interactive,          \* stdin is a terminal and AGENT_HITL is not off
    maxRounds,            \* the cap the driver was called with
    round,
    \* the graph state
    node, status, failureType, attempts, escalationAttempts,
    escalationResponse,   \* "none", or whose text it is; "silence" is the empty text
    workerSummary, producedArtifacts,
    \* the running worker
    step, toolFailures, successfulToolCalls,
    fresh,                \* the attempt's own producedArtifacts
    \* history
    lastFailure,          \* failureType of the last escalation
    sentKeys,             \* idempotency keys of the tool calls, <<attempt, step>>
    planned               \* planner calls made

driverVars == <<driver, interactive, maxRounds, round>>
resultVars == <<workerSummary, producedArtifacts>>
countVars == <<attempts, escalationAttempts>>
workerVars == <<step, toolFailures, successfulToolCalls, fresh>>
historyVars == <<lastFailure, sentKeys, planned>>
vars == <<driverVars, node, status, failureType, countVars, escalationResponse, resultVars,
          workerVars, historyVars>>

\* Artifact references by <<alias, step>>; 0 where there is none, else the attempt.
IndexKeys == Aliases \X (0..(MaxReactSteps - 1))
NoArtifacts == [k \in IndexKeys |-> 0]

Init ==
    /\ driver = "running" /\ interactive \in BOOLEAN /\ maxRounds \in RoundCaps /\ round = 0
    /\ node = "leadDelegator" /\ status = "PENDING" /\ failureType = "none"
    /\ attempts = 0 /\ escalationAttempts = 0 /\ escalationResponse = "none"
    /\ workerSummary = "none" /\ producedArtifacts = NoArtifacts
    /\ step = 0 /\ toolFailures = 0 /\ successfulToolCalls = 0 /\ fresh = NoArtifacts
    /\ lastFailure = "none" /\ sentKeys = {} /\ planned = 0

At(n) == driver = "running" /\ node = n

-----------------------------------------------------------------------------
(* The routers, evaluated on the updated state. *)

\* Mutated: gives up one escalation early.
RouteAfterWorkerEarly ==
    CASE status = "DONE" -> "workerCompress"
      [] status # "DONE" /\ escalationAttempts + 1 >= MaxEscalationAttempts -> "blocked"
      [] OTHER -> IF failureType = "reasoning" THEN "smeOracle" ELSE "humanGate"

RouteAfterWorker ==
    CASE status = "DONE" -> "workerCompress"
      [] status # "DONE" /\ escalationAttempts >= MaxEscalationAttempts -> "blocked"
      [] OTHER -> IF failureType = "reasoning" THEN "smeOracle" ELSE "humanGate"

\* Mutated: goes on without an answer.
RouteAfterSmeAlways == "worker"

RouteAfterSme == IF escalationResponse \in {"none", "silence"} THEN "blocked" ELSE "worker"

\* Mutated: an aborted worker is delegated again.
RouteAfterHumanAlways == "worker"

RouteAfterHuman == IF status = "BLOCKED" THEN "blocked" ELSE "worker"

\* The loop variables of runReactWorker are new in every attempt.
ResetWorker ==
    /\ step' = 0 /\ toolFailures' = 0 /\ successfulToolCalls' = 0 /\ fresh' = NoArtifacts

-----------------------------------------------------------------------------
(* leadDelegator: an LLM failure is caught and the seeded worker kind is used. *)

LeadDelegator ==
    /\ At("leadDelegator")
    /\ node' = "worker" /\ status' = "WORKING" /\ failureType' = "none"
    /\ UNCHANGED <<driverVars, countVars, escalationResponse, resultVars, workerVars, historyVars>>

-----------------------------------------------------------------------------
(* runReactWorker *)

\* Mutated: the attempt is not counted.
LeaveWorkerUncounted(st, type) ==
    /\ status' = st /\ failureType' = type
    /\ attempts' = attempts
    /\ producedArtifacts' = [k \in IndexKeys |-> IF fresh'[k] # 0 THEN fresh'[k]
                                                 ELSE producedArtifacts[k]]
    /\ UNCHANGED <<driverVars, escalationAttempts, escalationResponse, workerSummary>>
    /\ node' = RouteAfterWorker'

\* The update every return of the worker carries; mergeDicts joins the artifacts.
LeaveWorker(st, type) ==
    /\ status' = st /\ failureType' = type
    /\ attempts' = attempts + 1
    /\ producedArtifacts' = [k \in IndexKeys |-> IF fresh'[k] # 0 THEN fresh'[k]
                                                 ELSE producedArtifacts[k]]
    /\ UNCHANGED <<driverVars, escalationAttempts, escalationResponse, workerSummary>>
    /\ node' = RouteAfterWorker'

Escalate(type) == LeaveWorker("ESCALATING", type) /\ lastFailure' = type

\* A decision that leaves the loop running.
Continue ==
    /\ step' = step + 1
    /\ UNCHANGED <<driverVars, node, status, failureType, countVars, escalationResponse, resultVars,
                   lastFailure>>

\* Out of the loop: no final text and no successful call is no result.
Finish(text) ==
    IF text \/ successfulToolCalls > 0
    THEN LeaveWorker("DONE", "none") /\ UNCHANGED lastFailure
    ELSE Escalate("reasoning")

Planning == At("worker") /\ step < MaxReactSteps
Planned == planned' = planned + 1

\* Any error of the planner call, classified by its text.
PlannerFails ==
    /\ Planning /\ Planned
    /\ UNCHANGED <<workerVars, sentKeys>>
    /\ \E type \in Failures : Escalate(type)

PlannerFinishes ==
    /\ Planning /\ Planned
    /\ UNCHANGED <<workerVars, sentKeys>>
    /\ \E text \in BOOLEAN : Finish(text)

StepsExhausted ==
    /\ At("worker") /\ step >= MaxReactSteps
    /\ UNCHANGED <<workerVars, sentKeys, planned>>
    /\ Finish(FALSE)

\* Back to the planner, unless the attempt has failed too often.
CountFailure ==
    /\ toolFailures' = toolFailures + 1
    /\ UNCHANGED <<successfulToolCalls, fresh>>
    /\ IF toolFailures' >= MaxReactToolFailures
       THEN Escalate("reasoning") /\ UNCHANGED step
       ELSE Continue

\* Rejected by the registry's validation: nothing is sent.
InvalidCall ==
    /\ Planning /\ Planned /\ CountFailure
    /\ UNCHANGED sentKeys

Key == <<attempts + 1, step>>
Send == sentKeys' = sentKeys \cup {Key}

\* Local processes answer even when they were killed after their timeout or could not
\* be started; the answer's status field is shown to the planner and not read.
ToolAnswers ==
    /\ Planning /\ Planned /\ Send
    /\ \E alias \in Aliases : fresh' = [fresh EXCEPT ![<<alias, step>>] = attempts + 1]
    /\ successfulToolCalls' = successfulToolCalls + 1
    /\ UNCHANGED toolFailures
    /\ Continue

\* The call, or storing its artifact, throws.
ToolThrows ==
    /\ Planning /\ Planned /\ Send
    /\ CountFailure

ToolUnavailable ==
    /\ Planning /\ Planned /\ Send
    /\ UNCHANGED workerVars
    /\ Escalate("environment")

WorkerStep ==
    \/ PlannerFails \/ PlannerFinishes \/ StepsExhausted
    \/ InvalidCall \/ ToolAnswers \/ ToolThrows \/ ToolUnavailable

-----------------------------------------------------------------------------
(* smeOracle, workerCompress and blocked *)

\* Mutated: the counter runs the wrong way.
SmeOracleCountsDown ==
    /\ At("smeOracle")
    /\ escalationResponse' \in {"oracle", "silence"}
    /\ escalationAttempts' = escalationAttempts - 1
    /\ node' = RouteAfterSme'
    /\ ResetWorker
    /\ UNCHANGED <<driverVars, status, failureType, attempts, resultVars, lastFailure, sentKeys,
                   planned>>

\* The network providers throw on an empty answer, the offline provider returns it.
SmeOracle ==
    /\ At("smeOracle")
    /\ escalationResponse' \in {"oracle", "silence"}
    /\ escalationAttempts' = escalationAttempts + 1
    /\ node' = RouteAfterSme'
    /\ ResetWorker
    /\ UNCHANGED <<driverVars, status, failureType, attempts, resultVars, lastFailure, sentKeys,
                   planned>>

WorkerCompress ==
    /\ At("workerCompress")
    /\ workerSummary' = "compressed" /\ node' = "END"
    /\ UNCHANGED <<driverVars, status, failureType, countVars, escalationResponse, producedArtifacts,
                   workerVars, historyVars>>

\* These two do not catch: the swarm run, and the main graph's node, throws.
LlmThrows ==
    /\ At("smeOracle") \/ At("workerCompress")
    /\ driver' = "threw"
    /\ UNCHANGED <<interactive, maxRounds, round, node, status, failureType, countVars,
                   escalationResponse, resultVars, workerVars, historyVars>>

Blocked ==
    /\ At("blocked")
    /\ status' = "BLOCKED" /\ node' = "END"
    /\ workerSummary' = IF status = "BLOCKED" /\ escalationResponse # "none"
                        THEN escalationResponse ELSE "report"
    /\ escalationResponse' = workerSummary'
    /\ UNCHANGED <<driverVars, failureType, countVars, producedArtifacts, workerVars, historyVars>>

-----------------------------------------------------------------------------
(* humanGate and the driver *)

\* interrupt(): the invocation ends with a request for the operator.
Interrupt ==
    /\ At("humanGate")
    /\ driver' = "waiting"
    /\ UNCHANGED <<interactive, maxRounds, round, node, status, failureType, countVars,
                   escalationResponse, resultVars, workerVars, historyVars>>

\* humanGate, run again by Command({resume: abort}).
Abort ==
    /\ driver' = "running"
    /\ status' = "BLOCKED" /\ escalationResponse' = "manual"
    /\ node' = RouteAfterHuman'
    /\ UNCHANGED <<interactive, maxRounds, failureType, countVars, resultVars, workerVars,
                   historyVars>>

\* Mutated: a retry granted by the operator is not counted.
RetryUncounted ==
    /\ driver' = "running"
    /\ status' = "WORKING" /\ failureType' = "none" /\ escalationResponse' = "operator"
    /\ escalationAttempts' = escalationAttempts
    /\ node' = RouteAfterHuman'
    /\ ResetWorker
    /\ UNCHANGED <<interactive, maxRounds, attempts, resultVars, lastFailure, sentKeys, planned>>

\* humanGate, run again by Command({resume: retry}) with non-empty guidance.
Retry ==
    /\ driver' = "running"
    /\ status' = "WORKING" /\ failureType' = "none" /\ escalationResponse' = "operator"
    /\ escalationAttempts' = escalationAttempts + 1
    /\ node' = RouteAfterHuman'
    /\ ResetWorker
    /\ UNCHANGED <<interactive, maxRounds, attempts, resultVars, lastFailure, sentKeys, planned>>

\* Mutated: the resolver reads stdin whatever it is.
AlwaysAttended == TRUE

\* createStdinHitlResolver: without a terminal every request is aborted at once.
Attended == interactive

OperatorAnswers ==
    /\ driver = "waiting" /\ round < maxRounds /\ Attended
    /\ round' = round + 1
    /\ Abort \/ Retry

AutoAbort ==
    /\ driver = "waiting" /\ round < maxRounds /\ ~Attended
    /\ round' = round + 1
    /\ Abort

ForceAbort ==
    /\ driver = "waiting" /\ round >= maxRounds
    /\ Abort /\ UNCHANGED round

Return ==
    /\ At("END")
    /\ driver' = "returned"
    /\ UNCHANGED <<interactive, maxRounds, round, node, status, failureType, countVars,
                   escalationResponse, resultVars, workerVars, historyVars>>

-----------------------------------------------------------------------------
Over == driver \in {"returned", "threw"} /\ UNCHANGED vars

\* What runs without the operator.
SystemStep ==
    \/ LeadDelegator \/ WorkerStep \/ SmeOracle \/ WorkerCompress \/ LlmThrows \/ Blocked
    \/ Interrupt \/ AutoAbort \/ ForceAbort \/ Return

Next == SystemStep \/ OperatorAnswers \/ Over

Spec == Init /\ [][Next]_vars

\* Model and tool calls end: both have timeouts.  The operator may never answer.
FairSpec == Spec /\ WF_vars(SystemStep)

-----------------------------------------------------------------------------
(* What a swarm run promises. *)

Texts == {"none", "oracle", "silence", "operator", "manual", "report"}

TypeOK ==
    /\ driver \in {"running", "waiting", "returned", "threw"}
    /\ interactive \in BOOLEAN /\ maxRounds \in RoundCaps /\ round \in 0..maxRounds
    /\ node \in {"leadDelegator", "worker", "smeOracle", "humanGate", "workerCompress", "blocked", "END"}
    /\ status \in {"PENDING", "WORKING", "ESCALATING", "DONE", "BLOCKED"}
    /\ failureType \in Failures \cup {"none"} /\ lastFailure \in Failures \cup {"none"}
    /\ attempts \in Nat /\ escalationAttempts \in Nat
    /\ escalationResponse \in Texts /\ workerSummary \in Texts \cup {"compressed"}
    /\ producedArtifacts \in [IndexKeys -> Nat] /\ fresh \in [IndexKeys -> Nat]
    /\ step \in 0..MaxReactSteps /\ toolFailures \in Nat /\ successfulToolCalls \in Nat
    /\ sentKeys \subseteq Nat \X Nat
    /\ planned \in Nat

(***************************************************************************)
(* Whoever grants them, the oracle and the operator together grant at most *)
(* MAX_ESCALATION_ATTEMPTS retries, so a run makes a bounded number of     *)
(* planner calls (tuning.ts:69 "Bounded retries keep SME/HITL escalation   *)
(* from cycling forever"; routing.ts, nodes.ts, react-worker.ts).          *)
(***************************************************************************)
WorkBounded ==
    /\ attempts <= MaxEscalationAttempts + 1
    /\ planned <= (MaxEscalationAttempts + 1) * MaxReactSteps

(***************************************************************************)
(* The driver never has to abort on its own: the swarm's bound is reached  *)
(* before its cap on rounds, unless that is lower (tuning.ts:72 "Defensive *)
(* cap beyond the swarm's own escalation bound", swarm-driver.ts:36).      *)
(***************************************************************************)
ForcedAbortUnneeded ==
    driver = "waiting" /\ MaxEscalationAttempts <= maxRounds => round < maxRounds

(***************************************************************************)
(* A worker that is run again works with the answer to its last failure:   *)
(* the oracle's after a reasoning failure, the operator's after an         *)
(* environment failure, never an older one (react-worker.ts:40,            *)
(* routing.ts:27-31).                                                      *)
(***************************************************************************)
RetriesAreGuided ==
    node = "worker" /\ attempts > 0 =>
        escalationResponse = (IF lastFailure = "reasoning" THEN "oracle" ELSE "operator")

(***************************************************************************)
(* A worker is given up only if the operator aborted, the oracle had       *)
(* nothing to say, or it has really had its first attempt and every retry: *)
(* an escalation that is counted is also followed by an attempt            *)
(* (routing.ts:14-31, nodes.ts:79, nodes.ts:114, react-worker.ts:86).      *)
(***************************************************************************)
GivenUpOnlyWhenExhausted ==
    node = "blocked" =>
        \/ status = "BLOCKED" \/ escalationResponse = "silence"
        \/ attempts = MaxEscalationAttempts + 1

(***************************************************************************)
(* A blocked run reports the kind of failure its last attempt met, though  *)
(* the channel is reset by every retry in between (nodes.ts:134-152).      *)
(***************************************************************************)
BlockedReportsLastFailure ==
    driver = "returned" /\ status = "BLOCKED" =>
        failureType = lastFailure /\ lastFailure # "none"

(***************************************************************************)
(* Within a run no two tool calls carry the same idempotency key, however  *)
(* often the worker is retried (react-worker.ts:151).                      *)
(***************************************************************************)
ToolKeysFresh == Planning => Key \notin sentKeys

(***************************************************************************)
(* After an abort nothing is planned, called or asked any more: the run    *)
(* goes straight to its report (nodes.ts:102-107, routing.ts:30).          *)
(***************************************************************************)
AbortIsFinal ==
    [][status = "BLOCKED" => /\ node' \in {"blocked", "END"} /\ driver' # "waiting"
                             /\ planned' = planned /\ sentKeys' = sentKeys]_vars

(***************************************************************************)
(* A run ends, or waits for an operator who is there and may still be      *)
(* asked: it never hangs without a terminal, nor past the driver's cap     *)
(* (resolvers.ts:21 "Non-TTY runs must never hang waiting for operator     *)
(* input", swarm-driver.ts:36).                                            *)
(***************************************************************************)
SwarmEnds ==
    \/ <>(driver \in {"returned", "threw"})
    \/ <>[](driver = "waiting" /\ interactive /\ round < maxRounds)

\* Attempts made, attempts granted and requests to the operator keep step.
CountersInv ==
    /\ escalationAttempts <= MaxEscalationAttempts
    /\ node \in {"leadDelegator", "worker"} => attempts = escalationAttempts
    /\ node \in {"smeOracle", "humanGate"} =>
          attempts = escalationAttempts + 1 /\ attempts <= MaxEscalationAttempts
    /\ node \in {"workerCompress", "blocked", "END"} => attempts <= MaxEscalationAttempts + 1
    /\ round <= escalationAttempts + (IF node \in {"blocked", "END"} THEN 1 ELSE 0)

\* Every planner call belongs to an attempt that is over or to a step of the running one.
PlansInv == planned <= attempts * MaxReactSteps + (IF node = "worker" THEN step ELSE 0)

\* The keys sent so far lie before the next one.
KeysInv ==
    \A k \in sentKeys :
        \/ k[1] <= attempts
        \/ node = "worker" /\ k[1] = attempts + 1 /\ k[2] < step

\* Who is asked, and what the report will say, agree with the last failure.
FailureInv ==
    /\ driver = "waiting" => node = "humanGate"
    /\ node \in {"leadDelegator", "worker", "smeOracle", "humanGate", "workerCompress"} =>
          status # "BLOCKED"
    /\ node = "leadDelegator" => attempts = 0
    /\ node = "smeOracle" => failureType = "reasoning" /\ lastFailure = "reasoning"
    /\ node = "humanGate" => failureType = "environment" /\ lastFailure = "environment"
    /\ node = "blocked" \/ status = "BLOCKED" => failureType = lastFailure /\ lastFailure # "none"

(***************************************************************************)
(* The bookkeeping behind the bounds: escalations granted, attempts made,  *)
(* planner steps and requests to the operator are counted in four places   *)
(* (nodes.ts:79, nodes.ts:114, react-worker.ts:86, swarm-driver.ts:30) and *)
(* never drift apart, and who is asked agrees with the last failure.       *)
(***************************************************************************)
RetriesPaidFor == CountersInv /\ PlansInv /\ KeysInv /\ FailureInv

\* Steps a run has left at most, counted from where it is to its end: those of the running
\* attempt, and those of every attempt it may still be granted.
StepsToReturn ==
    CASE driver \in {"returned", "threw"} -> 0
      [] driver = "waiting" -> 4
      [] driver = "running" ->
           CASE node = "leadDelegator" -> MaxReactSteps + 7
             [] node = "worker" -> (MaxReactSteps - step) + 6
             [] node \in {"smeOracle", "humanGate"} -> 5
             [] node \in {"workerCompress", "blocked"} -> 3
             [] node = "END" -> 1
StepsLeft == (MaxEscalationAttempts - escalationAttempts) * (MaxReactSteps + 7) + StepsToReturn

=============================================================================
