----------------------------- MODULE SwarmProofs -----------------------------
(***************************************************************************)
(* A swarm run grants a bounded number of guided retries, for every value  *)
(* of its caps.                                                            *)
(***************************************************************************)
EXTENDS SwarmGraph, TLAPS

-----------------------------------------------------------------------------
(* Types. *)

\* mergeDicts of two artifact indexes is one.
LEMMA MergeTyped ==
    ASSUME producedArtifacts \in [IndexKeys -> Nat], fresh' \in [IndexKeys -> Nat]
    PROVE  [k \in IndexKeys |-> IF fresh'[k] # 0 THEN fresh'[k] ELSE producedArtifacts[k]]
              \in [IndexKeys -> Nat]
  OBVIOUS

\* Entering a reference into an index leaves an index.
LEMMA EnterTyped ==
    ASSUME NEW S, NEW index \in [S -> Nat], NEW key, NEW n \in Nat
    PROVE  [index EXCEPT ![key] = n] \in [S -> Nat]
  OBVIOUS

LEMMA NoArtifactsTyped == NoArtifacts \in [IndexKeys -> Nat]
  BY DEF NoArtifacts

\* Leaving the worker keeps the types, whatever the attempt did to its own variables.
LEMMA LeaveTyped ==
    ASSUME TypeOK, NEW st \in {"DONE", "ESCALATING"}, NEW type \in Failures \cup {"none"},
           LeaveWorker(st, type), fresh' \in [IndexKeys -> Nat]
    PROVE  /\ driver' = driver /\ round' = round
           /\ interactive' = interactive /\ maxRounds' = maxRounds
           /\ node' \in {"workerCompress", "blocked", "smeOracle", "humanGate"}
           /\ status' = st /\ failureType' = type
           /\ attempts' = attempts + 1 /\ escalationAttempts' = escalationAttempts
           /\ escalationResponse' = escalationResponse /\ workerSummary' = workerSummary
           /\ producedArtifacts' \in [IndexKeys -> Nat]
<1>1. producedArtifacts' \in [IndexKeys -> Nat]
  BY MergeTyped DEF TypeOK, LeaveWorker
<1>2. node' \in {"workerCompress", "blocked", "smeOracle", "humanGate"}
  BY DEF LeaveWorker, RouteAfterWorker
<1> QED
  BY <1>1, <1>2 DEF LeaveWorker, driverVars

\* The two ways an attempt goes on or ends, and what they leave alone.
WorkerGoesOn ==
    /\ step < MaxReactSteps /\ step' = step + 1
    /\ planned' = planned + 1
    /\ UNCHANGED <<driverVars, node, status, failureType, countVars, escalationResponse, resultVars,
                   lastFailure>>

WorkerLeaves ==
    /\ \/ step < MaxReactSteps /\ planned' = planned + 1
       \/ step >= MaxReactSteps /\ planned' = planned
    /\ step' = step
    /\ \/ LeaveWorker("DONE", "none") /\ lastFailure' = lastFailure
       \/ \E type \in Failures : LeaveWorker("ESCALATING", type) /\ lastFailure' = type

\* Every action of the worker is one of the two; it adds at most the next key.
LEMMA WorkerKinds ==
    ASSUME TypeOK, WorkerStep
    PROVE  /\ driver = "running" /\ node = "worker"
           /\ WorkerGoesOn \/ WorkerLeaves
           /\ \/ sentKeys' = sentKeys
              \/ step < MaxReactSteps /\ sentKeys' = sentKeys \cup {Key}
           /\ toolFailures' \in Nat /\ successfulToolCalls' \in Nat
           /\ fresh' \in [IndexKeys -> Nat]
<1> USE DEF WorkerGoesOn, WorkerLeaves
<1>1. "reasoning" \in Failures /\ "environment" \in Failures
  BY DEF Failures
<1>2. CASE PlannerFails
  BY <1>2 DEF PlannerFails, Planning, Planned, At, Escalate, TypeOK, workerVars
<1>3. ASSUME NEW text \in BOOLEAN, Finish(text)
      PROVE  \/ LeaveWorker("DONE", "none") /\ lastFailure' = lastFailure
             \/ \E type \in Failures : LeaveWorker("ESCALATING", type) /\ lastFailure' = type
  BY <1>1, <1>3 DEF Finish, Escalate
<1>4. CASE PlannerFinishes
  BY <1>3, <1>4 DEF PlannerFinishes, Planning, Planned, At, TypeOK, workerVars
<1>5. CASE StepsExhausted
  BY <1>3, <1>5 DEF StepsExhausted, At, TypeOK, workerVars
<1>6. ASSUME Planning, Planned, CountFailure
      PROVE  /\ WorkerGoesOn \/ WorkerLeaves
             /\ toolFailures' \in Nat /\ successfulToolCalls' \in Nat
             /\ fresh' \in [IndexKeys -> Nat]
  BY <1>1, <1>6 DEF CountFailure, Planning, Planned, Escalate, Continue, TypeOK
<1>7. CASE InvalidCall
  BY <1>6, <1>7 DEF InvalidCall, Planning, At, TypeOK
<1>8. CASE ToolThrows
  BY <1>6, <1>8 DEF ToolThrows, Planning, At, Send, TypeOK
<1>9. CASE ToolUnavailable
  BY <1>1, <1>9 DEF ToolUnavailable, Planning, Planned, At, Send, Escalate, TypeOK, workerVars
<1>10. CASE ToolAnswers
  <2>1. PICK alias \in Aliases : fresh' = [fresh EXCEPT ![<<alias, step>>] = attempts + 1]
    BY <1>10 DEF ToolAnswers
  <2>2. fresh \in [IndexKeys -> Nat] /\ attempts + 1 \in Nat
    BY DEF TypeOK
  <2>3. [fresh EXCEPT ![<<alias, step>>] = attempts + 1] \in [IndexKeys -> Nat]
    BY ONLY <2>2, EnterTyped
  <2>4. fresh' \in [IndexKeys -> Nat]
    BY <2>1, <2>3
  <2>5. QED
    BY <1>10, <2>1, <2>4 DEF ToolAnswers, Planning, Planned, At, Send, Continue, TypeOK
<1> QED
  BY <1>2, <1>4, <1>5, <1>7, <1>8, <1>9, <1>10 DEF WorkerStep

\* A step of the worker keeps the types.
LEMMA WorkerTyped == TypeOK /\ WorkerStep => TypeOK'
<1> SUFFICES ASSUME TypeOK, WorkerStep PROVE TypeOK'
  OBVIOUS
<1>1. /\ toolFailures' \in Nat /\ successfulToolCalls' \in Nat
      /\ fresh' \in [IndexKeys -> Nat]
  BY WorkerKinds
<1>2. attempts + 1 \in Nat /\ step \in Nat
  BY SwarmLimits DEF TypeOK
<1>3. sentKeys' \subseteq Nat \X Nat
  BY <1>2, WorkerKinds DEF TypeOK, Key
<1>5. CASE WorkerGoesOn
  <2>1. step' \in 0..MaxReactSteps /\ planned' \in Nat
    BY <1>5, SwarmLimits DEF WorkerGoesOn, TypeOK
  <2> QED
    BY <1>1, <1>3, <1>5, <2>1 DEF WorkerGoesOn, TypeOK, driverVars, countVars, resultVars
<1>6. CASE WorkerLeaves
  <2>1. PICK st \in {"DONE", "ESCALATING"}, type \in Failures \cup {"none"} :
            LeaveWorker(st, type) /\ lastFailure' \in {lastFailure, type}
    BY <1>6 DEF WorkerLeaves
  <2>2. step' \in 0..MaxReactSteps /\ planned' \in Nat
    BY <1>6 DEF WorkerLeaves, TypeOK
  <2> QED
    BY <1>1, <1>3, <2>1, <2>2, LeaveTyped DEF TypeOK
<1> QED
  BY <1>5, <1>6, WorkerKinds

\* A new attempt starts with typed variables.
LEMMA ResetTyped ==
    ASSUME ResetWorker
    PROVE  /\ step' = 0 /\ toolFailures' = 0 /\ successfulToolCalls' = 0
           /\ fresh' \in [IndexKeys -> Nat]
  BY NoArtifactsTyped DEF ResetWorker

\* The type invariant of a swarm run.
THEOREM SwarmTypeCorrect == Spec => []TypeOK
<1>1. Init => TypeOK
  <2> SUFFICES ASSUME Init PROVE TypeOK
    OBVIOUS
  <2>1. step \in 0..MaxReactSteps /\ round \in 0..maxRounds
    BY SwarmLimits DEF Init
  <2>2. sentKeys \subseteq Nat \X Nat
    BY DEF Init
  <2>3. producedArtifacts \in [IndexKeys -> Nat] /\ fresh \in [IndexKeys -> Nat]
    BY NoArtifactsTyped DEF Init
  <2>4. /\ driver = "running" /\ interactive \in BOOLEAN /\ maxRounds \in RoundCaps
        /\ node = "leadDelegator"
        /\ status = "PENDING" /\ failureType = "none" /\ lastFailure = "none"
        /\ escalationResponse = "none" /\ workerSummary = "none"
    BY DEF Init
  <2>5. /\ attempts \in Nat /\ escalationAttempts \in Nat /\ planned \in Nat
        /\ toolFailures \in Nat /\ successfulToolCalls \in Nat
    BY DEF Init
  <2> QED
    BY <2>1, <2>2, <2>3, <2>4, <2>5 DEF TypeOK, Texts
<1>2. TypeOK /\ [Next]_vars => TypeOK'
  <2> SUFFICES ASSUME TypeOK, [Next]_vars PROVE TypeOK'
    OBVIOUS
  <2> USE DEF TypeOK, Texts
  <2>1. CASE LeadDelegator
    BY <2>1 DEF LeadDelegator, At, driverVars, countVars, resultVars, workerVars, historyVars
  <2>2. CASE WorkerStep
    BY <2>2, WorkerTyped
  <2>3. CASE SmeOracle
    BY <2>3, ResetTyped, SwarmLimits DEF SmeOracle, RouteAfterSme, driverVars, resultVars
  <2>4. CASE WorkerCompress
    BY <2>4 DEF WorkerCompress, driverVars, countVars, workerVars, historyVars
  <2>5. CASE LlmThrows
    BY <2>5 DEF LlmThrows, countVars, resultVars, workerVars, historyVars
  <2>6. CASE Blocked
    <3>1. workerSummary' \in Texts
      BY <2>6 DEF Blocked, Texts
    <3> QED
      BY <2>6, <3>1 DEF Blocked, driverVars, countVars, workerVars, historyVars
  <2>7. CASE Interrupt
    BY <2>7 DEF Interrupt, countVars, resultVars, workerVars, historyVars
  <2>8. ASSUME Abort, round' \in 0..maxRounds PROVE TypeOK'
    BY <2>8 DEF Abort, RouteAfterHuman, countVars, resultVars, workerVars, historyVars
  <2>9. ASSUME Retry, round' \in 0..maxRounds PROVE TypeOK'
    BY <2>9, ResetTyped, SwarmLimits DEF Retry, RouteAfterHuman, resultVars
  <2>10. CASE AutoAbort
    BY <2>8, <2>10, SwarmLimits DEF AutoAbort
  <2>11. CASE ForceAbort
    BY <2>8, <2>11 DEF ForceAbort
  <2>12. CASE OperatorAnswers
    BY <2>8, <2>9, <2>12, SwarmLimits DEF OperatorAnswers
  <2>13. CASE Return
    BY <2>13 DEF Return, countVars, resultVars, workerVars, historyVars
  <2>14. CASE UNCHANGED vars
    BY <2>14 DEF vars, driverVars, countVars, resultVars, workerVars, historyVars
  <2> QED
    BY <2>1, <2>2, <2>3, <2>4, <2>5, <2>6, <2>7, <2>10, <2>11, <2>12, <2>13, <2>14
    DEF Next, SystemStep, Over
<1> QED
  BY <1>1, <1>2, PTL DEF Spec

-----------------------------------------------------------------------------
(* The bookkeeping. *)

\* One more attempt has room for one more attempt's steps.
LEMMA OneMoreAttempt ==
    ASSUME NEW a \in Nat, NEW k \in Nat
    PROVE  (a + 1) * k = a * k + k /\ a * k \in Nat
  OBVIOUS

\* More attempts have room for at least as many steps.
LEMMA MoreAttempts ==
    ASSUME NEW a \in Nat, NEW b \in Nat, NEW k \in Nat, a <= b
    PROVE  a * k <= b * k
<1>1. b = a + (b - a) /\ b - a \in Nat
  OBVIOUS
<1>2. b * k = a * k + (b - a) * k /\ (b - a) * k >= 0
  BY <1>1
<1> QED
  BY <1>2

\* Where a worker that stops goes, and what that says of it.
LEMMA LeaveTarget ==
    ASSUME TypeOK, NEW st \in {"DONE", "ESCALATING"}, NEW type \in Failures \cup {"none"},
           LeaveWorker(st, type)
    PROVE  /\ node' = "workerCompress" <=> st = "DONE"
           /\ node' = "blocked" => escalationAttempts >= MaxEscalationAttempts
           /\ node' \in {"smeOracle", "humanGate"} => escalationAttempts < MaxEscalationAttempts
           /\ node' = "smeOracle" => type = "reasoning"
           /\ node' = "humanGate" => type # "reasoning"
<1>1. escalationAttempts \in Nat /\ MaxEscalationAttempts \in Nat
  BY SwarmLimits DEF TypeOK
<1>2. /\ node' = RouteAfterWorker' /\ status' = st /\ failureType' = type
      /\ escalationAttempts' = escalationAttempts
  BY DEF LeaveWorker
<1>3. CASE st = "DONE"
  BY <1>2, <1>3 DEF RouteAfterWorker
<1>4. CASE st # "DONE"
  BY <1>1, <1>2, <1>4 DEF RouteAfterWorker
<1> QED
  BY <1>3, <1>4

\* Planner calls are paid for by attempts and steps through every step of a worker.
LEMMA WorkerPlans ==
    ASSUME TypeOK, PlansInv, node = "worker", WorkerGoesOn \/ WorkerLeaves
    PROVE  PlansInv'
<1>1. attempts \in Nat /\ MaxReactSteps \in Nat /\ step \in 0..MaxReactSteps /\ planned \in Nat
  BY SwarmLimits DEF TypeOK
<1>2. planned <= attempts * MaxReactSteps + step
  BY DEF PlansInv
<1>3. CASE WorkerGoesOn
  <2>1. /\ attempts' = attempts /\ node' = "worker" /\ planned' = planned + 1 /\ step' = step + 1
    BY <1>3 DEF WorkerGoesOn, countVars
  <2> QED
    BY <1>1, <1>2, <2>1, OneMoreAttempt DEF PlansInv
<1>4. CASE WorkerLeaves
  <2>1. attempts' = attempts + 1 /\ node' # "worker"
    BY <1>4 DEF WorkerLeaves, LeaveWorker, RouteAfterWorker
  <2>2. planned' <= attempts * MaxReactSteps + MaxReactSteps
    BY <1>1, <1>2, <1>4, OneMoreAttempt DEF WorkerLeaves
  <2> QED
    BY <1>1, <2>1, <2>2, OneMoreAttempt DEF PlansInv
<1> QED
  BY <1>3, <1>4

\* The key a call is sent under lies behind those of earlier calls and before the next.
LEMMA WorkerKeys ==
    ASSUME TypeOK, KeysInv, node = "worker", WorkerGoesOn \/ WorkerLeaves,
           \/ sentKeys' = sentKeys
           \/ step < MaxReactSteps /\ sentKeys' = sentKeys \cup {Key}
    PROVE  KeysInv'
<1>1. attempts \in Nat /\ step \in Nat
  BY SwarmLimits DEF TypeOK
<1>2. /\ \A k \in sentKeys : k \in Nat \X Nat
      /\ \A k \in sentKeys : k[1] <= attempts \/ (k[1] = attempts + 1 /\ k[2] < step)
  BY DEF TypeOK, KeysInv
<1>3. \A k \in sentKeys' : k \in sentKeys \/ (k[1] = attempts + 1 /\ k[2] = step)
  BY DEF Key
<1>4. \A k \in sentKeys : k[1] \in Nat /\ k[2] \in Nat
  BY <1>2
<1>5. CASE WorkerGoesOn
  <2>1. attempts' = attempts /\ node' = "worker" /\ step' = step + 1
    BY <1>5 DEF WorkerGoesOn, countVars
  <2> QED
    BY <1>1, <1>2, <1>3, <1>4, <2>1 DEF KeysInv
<1>6. CASE WorkerLeaves
  <2>1. attempts' = attempts + 1
    BY <1>6 DEF WorkerLeaves, LeaveWorker
  <2> QED
    BY <1>1, <1>2, <1>3, <1>4, <2>1 DEF KeysInv
<1> QED
  BY <1>5, <1>6

\* A worker's step keeps attempts, escalations and the failure in line.
LEMMA WorkerCounts ==
    ASSUME TypeOK, CountersInv, FailureInv, driver = "running", node = "worker",
           WorkerGoesOn \/ WorkerLeaves
    PROVE  CountersInv' /\ FailureInv'
<1>1. /\ attempts \in Nat /\ escalationAttempts \in Nat /\ round \in Nat
      /\ MaxEscalationAttempts \in Nat
  BY SwarmLimits DEF TypeOK
<1>2. /\ attempts = escalationAttempts /\ escalationAttempts <= MaxEscalationAttempts
      /\ round <= escalationAttempts /\ status # "BLOCKED"
  BY <1>1 DEF CountersInv, FailureInv
<1>3. CASE WorkerGoesOn
  BY <1>2, <1>3 DEF WorkerGoesOn, CountersInv, FailureInv, countVars, driverVars
<1>4. CASE WorkerLeaves
  <2>1. PICK st \in {"DONE", "ESCALATING"}, type \in Failures \cup {"none"} :
            /\ LeaveWorker(st, type)
            /\ st = "ESCALATING" => type \in Failures /\ lastFailure' = type
    BY <1>4 DEF WorkerLeaves
  <2>2. /\ driver' = driver /\ round' = round /\ status' = st /\ failureType' = type
        /\ attempts' = attempts + 1 /\ escalationAttempts' = escalationAttempts
    BY <2>1 DEF LeaveWorker, driverVars
  <2>3. node' \in {"workerCompress", "blocked", "smeOracle", "humanGate"}
    BY <2>1 DEF LeaveWorker, RouteAfterWorker
  <2>4. /\ node' = "workerCompress" <=> st = "DONE"
        /\ node' \in {"smeOracle", "humanGate"} => escalationAttempts < MaxEscalationAttempts
        /\ node' = "smeOracle" => type = "reasoning"
        /\ node' = "humanGate" => type # "reasoning"
    BY <2>1, LeaveTarget
  <2>5. CountersInv'
    BY <1>1, <1>2, <2>2, <2>3, <2>4 DEF CountersInv
  <2>6. FailureInv'
    BY <2>1, <2>2, <2>3, <2>4 DEF FailureInv, Failures
  <2> QED
    BY <2>5, <2>6
<1> QED
  BY <1>3, <1>4

\* Steps outside the worker that leave the counters of work alone.
LEMMA IdleKeeps ==
    ASSUME TypeOK, PlansInv, KeysInv, node # "worker",
           attempts' = attempts, planned' = planned, sentKeys' = sentKeys,
           node' = "worker" => step' \in Nat
    PROVE  PlansInv' /\ KeysInv'
<1>1. attempts \in Nat /\ MaxReactSteps \in Nat /\ planned \in Nat
  BY SwarmLimits DEF TypeOK
<1>2. planned <= attempts * MaxReactSteps
  BY <1>1, OneMoreAttempt DEF PlansInv
<1>3. PlansInv'
  BY <1>1, <1>2, OneMoreAttempt DEF PlansInv
<1>4. KeysInv'
  BY DEF KeysInv
<1> QED
  BY <1>3, <1>4

SInv == TypeOK /\ RetriesPaidFor

\* The bookkeeping is inductive: one case per action.
LEMMA RetriesStep == SInv /\ [Next]_vars => RetriesPaidFor'
<1> SUFFICES ASSUME TypeOK, CountersInv, PlansInv, KeysInv, FailureInv, [Next]_vars
             PROVE  RetriesPaidFor'
  BY DEF SInv, RetriesPaidFor
<1>1. /\ attempts \in Nat /\ escalationAttempts \in Nat /\ round \in Nat /\ planned \in Nat
      /\ MaxEscalationAttempts \in Nat /\ step \in Nat
  BY SwarmLimits DEF TypeOK
<1>2. CASE WorkerStep
  BY <1>2, WorkerKinds, WorkerPlans, WorkerKeys, WorkerCounts DEF RetriesPaidFor
<1>3. CASE LeadDelegator
  <2>1. /\ node = "leadDelegator" /\ node' = "worker" /\ status' = "WORKING"
        /\ driver = "running" /\ driver' = driver /\ round' = round /\ step' = step
        /\ attempts' = attempts /\ escalationAttempts' = escalationAttempts
        /\ planned' = planned /\ sentKeys' = sentKeys
    BY <1>3 DEF LeadDelegator, At, driverVars, countVars, workerVars, historyVars
  <2>2. PlansInv' /\ KeysInv'
    BY <1>1, <2>1, IdleKeeps
  <2> QED
    BY <1>1, <2>1, <2>2 DEF RetriesPaidFor, CountersInv, FailureInv
<1>4. CASE SmeOracle
  <2>1. /\ node = "smeOracle" /\ driver = "running" /\ driver' = driver /\ round' = round
        /\ node' \in {"worker", "blocked"} /\ status' = status /\ step' = 0
        /\ attempts' = attempts /\ escalationAttempts' = escalationAttempts + 1
        /\ failureType' = failureType /\ lastFailure' = lastFailure
        /\ planned' = planned /\ sentKeys' = sentKeys
    BY <1>4 DEF SmeOracle, RouteAfterSme, ResetWorker, At, driverVars
  <2>2. PlansInv' /\ KeysInv'
    BY <2>1, IdleKeeps
  <2>3. CountersInv'
    BY <1>1, <2>1 DEF CountersInv
  <2>4. FailureInv'
    BY <2>1 DEF FailureInv
  <2> QED
    BY <2>2, <2>3, <2>4 DEF RetriesPaidFor
<1>5. CASE WorkerCompress
  <2>1. /\ node = "workerCompress" /\ driver = "running" /\ driver' = driver /\ round' = round
        /\ node' = "END" /\ status' = status /\ attempts' = attempts
        /\ escalationAttempts' = escalationAttempts /\ planned' = planned /\ sentKeys' = sentKeys
    BY <1>5 DEF WorkerCompress, At, driverVars, countVars, historyVars
  <2>2. PlansInv' /\ KeysInv'
    BY <2>1, IdleKeeps
  <2> QED
    BY <1>1, <2>1, <2>2 DEF RetriesPaidFor, CountersInv, FailureInv
<1>6. CASE Blocked
  <2>1. /\ node = "blocked" /\ driver = "running" /\ driver' = driver /\ round' = round
        /\ node' = "END" /\ attempts' = attempts
        /\ failureType' = failureType /\ lastFailure' = lastFailure
        /\ escalationAttempts' = escalationAttempts /\ planned' = planned /\ sentKeys' = sentKeys
    BY <1>6 DEF Blocked, At, driverVars, countVars, historyVars
  <2>2. PlansInv' /\ KeysInv'
    BY <2>1, IdleKeeps
  <2> QED
    BY <1>1, <2>1, <2>2 DEF RetriesPaidFor, CountersInv, FailureInv
<1>7. ASSUME /\ driver' = "waiting" => node = "humanGate"
             /\ round' = round /\ node' = node /\ status' = status /\ failureType' = failureType
             /\ attempts' = attempts /\ escalationAttempts' = escalationAttempts
             /\ lastFailure' = lastFailure /\ sentKeys' = sentKeys /\ planned' = planned
             /\ step' = step
      PROVE  RetriesPaidFor'
  BY <1>7 DEF RetriesPaidFor, CountersInv, PlansInv, KeysInv, FailureInv
<1>8. CASE LlmThrows
  BY <1>7, <1>8 DEF LlmThrows, countVars, workerVars, historyVars
<1>9. CASE Interrupt
  BY <1>7, <1>9 DEF Interrupt, At, countVars, workerVars, historyVars
<1>10. CASE Return
  BY <1>7, <1>10 DEF Return, countVars, workerVars, historyVars
<1>11. CASE UNCHANGED vars
  <2>1. driver' = "waiting" => node = "humanGate"
    BY <1>11 DEF vars, driverVars, FailureInv
  <2> QED
    BY <1>7, <1>11, <2>1 DEF vars, driverVars, countVars, workerVars, historyVars
<1>12. ASSUME driver = "waiting", Abort, round' \in {round, round + 1} PROVE RetriesPaidFor'
  <2>1. /\ node = "humanGate" /\ driver' = "running" /\ status' = "BLOCKED"
        /\ node' = "blocked" /\ attempts' = attempts
        /\ failureType' = failureType /\ lastFailure' = lastFailure
        /\ escalationAttempts' = escalationAttempts /\ planned' = planned /\ sentKeys' = sentKeys
    BY <1>12 DEF Abort, RouteAfterHuman, FailureInv, countVars, historyVars
  <2>2. PlansInv' /\ KeysInv'
    BY <2>1, IdleKeeps
  <2>3. CountersInv'
    BY <1>1, <1>12, <2>1 DEF CountersInv
  <2>4. FailureInv'
    BY <2>1 DEF FailureInv
  <2> QED
    BY <2>2, <2>3, <2>4 DEF RetriesPaidFor
<1>13. ASSUME driver = "waiting", Retry, round' = round + 1 PROVE RetriesPaidFor'
  <2>1. /\ node = "humanGate" /\ driver' = "running" /\ status' = "WORKING" /\ step' = 0
        /\ node' = "worker" /\ attempts' = attempts
        /\ escalationAttempts' = escalationAttempts + 1
        /\ planned' = planned /\ sentKeys' = sentKeys
    BY <1>13 DEF Retry, RouteAfterHuman, ResetWorker, FailureInv
  <2>2. PlansInv' /\ KeysInv'
    BY <2>1, IdleKeeps
  <2>3. CountersInv'
    BY <1>1, <1>13, <2>1 DEF CountersInv
  <2>4. FailureInv'
    BY <2>1 DEF FailureInv
  <2> QED
    BY <2>2, <2>3, <2>4 DEF RetriesPaidFor
<1>14. CASE AutoAbort
  BY <1>12, <1>14 DEF AutoAbort
<1>15. CASE ForceAbort
  BY <1>12, <1>15 DEF ForceAbort
<1>16. CASE OperatorAnswers
  BY <1>12, <1>13, <1>16 DEF OperatorAnswers
<1> QED
  BY <1>2, <1>3, <1>4, <1>5, <1>6, <1>8, <1>9, <1>10, <1>11, <1>14, <1>15, <1>16
  DEF Next, SystemStep, Over

\* The counters of escalations, attempts, planner calls and rounds never drift apart.
THEOREM RetriesAccounted == Spec => [](TypeOK /\ RetriesPaidFor)
<1>1. Init => RetriesPaidFor
  <2> SUFFICES ASSUME Init PROVE RetriesPaidFor
    OBVIOUS
  <2>1. 0 * MaxReactSteps = 0
    BY SwarmLimits
  <2> QED
    BY <2>1, SwarmLimits
    DEF Init, RetriesPaidFor, CountersInv, PlansInv, KeysInv, FailureInv
<1>2. TypeOK /\ RetriesPaidFor /\ [Next]_vars => RetriesPaidFor'
  BY RetriesStep DEF SInv
<1> QED
  BY <1>1, <1>2, SwarmTypeCorrect, PTL DEF Spec

-----------------------------------------------------------------------------
(* The theorems. *)

\* The oracle and the operator together cannot keep a worker going for ever.
THEOREM WorkIsBounded == Spec => []WorkBounded
<1>1. TypeOK /\ RetriesPaidFor => WorkBounded
  <2> SUFFICES ASSUME TypeOK, RetriesPaidFor PROVE WorkBounded
    OBVIOUS
  <2>1. /\ attempts \in Nat /\ MaxEscalationAttempts \in Nat /\ planned \in Nat
        /\ MaxReactSteps \in Nat /\ step \in 0..MaxReactSteps
    BY SwarmLimits DEF TypeOK
  <2>2. /\ attempts <= MaxEscalationAttempts + 1
        /\ node = "worker" => attempts <= MaxEscalationAttempts
    BY <2>1 DEF RetriesPaidFor, CountersInv, TypeOK
  <2>3. CASE node = "worker"
    <3>1. planned <= attempts * MaxReactSteps + MaxReactSteps
      BY <2>1, <2>3, OneMoreAttempt DEF RetriesPaidFor, PlansInv
    <3>2. attempts * MaxReactSteps <= MaxEscalationAttempts * MaxReactSteps
      BY <2>1, <2>2, <2>3, MoreAttempts
    <3> QED
      BY <2>1, <2>2, <3>1, <3>2, OneMoreAttempt DEF WorkBounded
  <2>4. CASE node # "worker"
    <3>1. planned <= attempts * MaxReactSteps
      BY <2>1, <2>4, OneMoreAttempt DEF RetriesPaidFor, PlansInv
    <3>2. attempts * MaxReactSteps <= (MaxEscalationAttempts + 1) * MaxReactSteps
      BY <2>1, <2>2, MoreAttempts
    <3> QED
      BY <2>1, <2>2, <3>1, <3>2, OneMoreAttempt DEF WorkBounded
  <2> QED
    BY <2>3, <2>4
<1> QED
  BY <1>1, RetriesAccounted, PTL

\* A driver that may ask as often as the swarm may escalate never has to force an abort.
THEOREM ForcedAbortNeverNeeded == Spec => []ForcedAbortUnneeded
<1>1. TypeOK /\ RetriesPaidFor => ForcedAbortUnneeded
  BY SwarmLimits
  DEF TypeOK, RetriesPaidFor, CountersInv, FailureInv, ForcedAbortUnneeded
<1> QED
  BY <1>1, RetriesAccounted, PTL

\* No two tool calls of a run share an idempotency key.
THEOREM ToolKeysDistinct == Spec => []ToolKeysFresh
<1>1. TypeOK /\ RetriesPaidFor => ToolKeysFresh
  <2> SUFFICES ASSUME TypeOK, KeysInv, Planning, Key \in sentKeys PROVE FALSE
    BY DEF RetriesPaidFor, ToolKeysFresh
  <2>1. attempts \in Nat /\ step \in Nat
    BY SwarmLimits DEF TypeOK
  <2>2. Key[1] = attempts + 1 /\ Key[2] = step
    BY DEF Key
  <2> QED
    BY <2>1, <2>2 DEF KeysInv
<1> QED
  BY <1>1, RetriesAccounted, PTL

\* What an attempt starts with is fixed when it is granted.
LEMMA GuidanceStep ==
    ASSUME SInv, RetriesAreGuided, [Next]_vars
    PROVE  RetriesAreGuided'
<1> USE DEF RetriesAreGuided
<1>0. TypeOK /\ FailureInv
  BY DEF SInv, RetriesPaidFor
<1>1. CASE LeadDelegator
  BY <1>0, <1>1 DEF LeadDelegator, At, FailureInv, countVars
<1>2. CASE WorkerStep
  <2>1. CASE WorkerGoesOn
    BY <2>1 DEF WorkerGoesOn, countVars
  <2>2. CASE WorkerLeaves
    BY <2>2 DEF WorkerLeaves, LeaveWorker, RouteAfterWorker
  <2> QED
    BY <1>0, <1>2, <2>1, <2>2, WorkerKinds
<1>3. CASE SmeOracle
  BY <1>0, <1>3 DEF SmeOracle, RouteAfterSme, At, FailureInv
<1>4. CASE Blocked
  BY <1>4 DEF Blocked
<1>5. CASE WorkerCompress
  BY <1>5 DEF WorkerCompress
<1>6. CASE LlmThrows \/ Interrupt \/ Return
  BY <1>6 DEF LlmThrows, Interrupt, Return, countVars, historyVars
<1>7. ASSUME Abort PROVE RetriesAreGuided'
  BY <1>7 DEF Abort, RouteAfterHuman
<1>8. CASE AutoAbort \/ ForceAbort
  BY <1>7, <1>8 DEF AutoAbort, ForceAbort
<1>9. ASSUME driver = "waiting", Retry PROVE RetriesAreGuided'
  BY <1>0, <1>9 DEF Retry, FailureInv
<1>10. CASE OperatorAnswers
  BY <1>7, <1>9, <1>10 DEF OperatorAnswers
<1>11. CASE UNCHANGED vars
  BY <1>11 DEF vars, countVars, historyVars
<1> QED
  BY <1>1, <1>2, <1>3, <1>4, <1>5, <1>6, <1>8, <1>10, <1>11 DEF Next, SystemStep, Over

\* Whoever answers last answers the failure the worker meets again.
THEOREM RetriesGuided == Spec => []RetriesAreGuided
<1>1. Init => RetriesAreGuided
  BY DEF Init, RetriesAreGuided
<1>2. TypeOK /\ RetriesPaidFor /\ RetriesAreGuided /\ [Next]_vars => RetriesAreGuided'
  BY GuidanceStep DEF SInv
<1> QED
  BY <1>1, <1>2, RetriesAccounted, PTL DEF Spec

\* The way to the report leads through an abort, a silent oracle or the last attempt.
LEMMA GivenUpStep ==
    ASSUME SInv, GivenUpOnlyWhenExhausted, [Next]_vars
    PROVE  GivenUpOnlyWhenExhausted'
<1> USE DEF GivenUpOnlyWhenExhausted
<1>0. TypeOK /\ FailureInv /\ CountersInv
  BY DEF SInv, RetriesPaidFor
<1>1. CASE LeadDelegator
  BY <1>1 DEF LeadDelegator
<1>2. CASE WorkerStep
  <2>1. CASE WorkerGoesOn
    BY <1>0, <1>2, <2>1, WorkerKinds DEF WorkerGoesOn
  <2>2. ASSUME NEW st \in {"DONE", "ESCALATING"}, NEW type \in Failures \cup {"none"},
               LeaveWorker(st, type), node' = "blocked"
        PROVE  attempts' = MaxEscalationAttempts + 1
    <3>1. node = "worker"
      BY <1>0, <1>2, WorkerKinds
    <3>2. attempts = escalationAttempts /\ escalationAttempts <= MaxEscalationAttempts
      BY <1>0, <3>1 DEF CountersInv
    <3>3. escalationAttempts >= MaxEscalationAttempts
      BY <1>0, <2>2, LeaveTarget
    <3>4. attempts' = attempts + 1
      BY <2>2 DEF LeaveWorker
    <3> QED
      BY <1>0, <3>2, <3>3, <3>4, SwarmLimits DEF TypeOK
  <2>3. CASE WorkerLeaves
    BY <2>2, <2>3 DEF WorkerLeaves
  <2> QED
    BY <1>0, <1>2, <2>1, <2>3, WorkerKinds
<1>3. CASE SmeOracle
  BY <1>3 DEF SmeOracle, RouteAfterSme
<1>4. CASE Blocked \/ WorkerCompress
  BY <1>4 DEF Blocked, WorkerCompress
<1>5. CASE LlmThrows \/ Interrupt \/ Return
  BY <1>5 DEF LlmThrows, Interrupt, Return, At
<1>6. ASSUME Abort PROVE GivenUpOnlyWhenExhausted'
  BY <1>6 DEF Abort
<1>7. ASSUME Retry PROVE GivenUpOnlyWhenExhausted'
  BY <1>7 DEF Retry, RouteAfterHuman
<1>8. CASE AutoAbort \/ ForceAbort \/ OperatorAnswers
  BY <1>6, <1>7, <1>8 DEF AutoAbort, ForceAbort, OperatorAnswers
<1>9. CASE UNCHANGED vars
  BY <1>9 DEF vars, countVars
<1> QED
  BY <1>1, <1>2, <1>3, <1>4, <1>5, <1>8, <1>9 DEF Next, SystemStep, Over

\* No worker is given up with a retry left that somebody would have granted.
THEOREM GivenUpLate == Spec => []GivenUpOnlyWhenExhausted
<1>1. Init => GivenUpOnlyWhenExhausted
  BY DEF Init, GivenUpOnlyWhenExhausted
<1>2. TypeOK /\ RetriesPaidFor /\ GivenUpOnlyWhenExhausted /\ [Next]_vars
        => GivenUpOnlyWhenExhausted'
  BY GivenUpStep DEF SInv
<1> QED
  BY <1>1, <1>2, RetriesAccounted, PTL DEF Spec

\* A blocked run reports the failure of its last attempt.
THEOREM LastFailureReported == Spec => []BlockedReportsLastFailure
<1>1. RetriesPaidFor => BlockedReportsLastFailure
  BY DEF RetriesPaidFor, FailureInv, BlockedReportsLastFailure
<1> QED
  BY <1>1, RetriesAccounted, PTL

\* After an abort nothing is planned, called or asked any more.
THEOREM AbortsAreFinal == Spec => AbortIsFinal
<1>1. TypeOK /\ RetriesPaidFor /\ [Next]_vars =>
        [status = "BLOCKED" => /\ node' \in {"blocked", "END"} /\ driver' # "waiting"
                               /\ planned' = planned /\ sentKeys' = sentKeys]_vars
  <2> SUFFICES ASSUME TypeOK, FailureInv, Next, status = "BLOCKED"
               PROVE  /\ node' \in {"blocked", "END"} /\ driver' # "waiting"
                      /\ planned' = planned /\ sentKeys' = sentKeys
    BY DEF RetriesPaidFor
  <2>1. node \in {"blocked", "END"} /\ driver # "waiting"
    BY DEF FailureInv, TypeOK
  <2>2. ~WorkerStep
    BY <2>1, WorkerKinds
  <2>3. CASE Blocked
    BY <2>1, <2>3 DEF Blocked, driverVars, historyVars
  <2>4. CASE Return
    BY <2>1, <2>4 DEF Return, historyVars
  <2>5. CASE Over
    BY <2>1, <2>5 DEF Over, vars, driverVars, historyVars
  <2> QED
    BY <2>1, <2>2, <2>3, <2>4, <2>5
    DEF Next, SystemStep, LeadDelegator, SmeOracle, WorkerCompress, LlmThrows, Interrupt,
        AutoAbort, ForceAbort, OperatorAnswers, At
<1> QED
  BY <1>1, RetriesAccounted, PTL DEF Spec, AbortIsFinal

-----------------------------------------------------------------------------
(* A swarm run is finite. *)

\* What StepsToReturn is at each place, as equations.
ToReturn ==
    /\ driver \in {"returned", "threw"} => StepsToReturn = 0
    /\ driver = "waiting" => StepsToReturn = 4
    /\ driver = "running" =>
          /\ node = "leadDelegator" => StepsToReturn = MaxReactSteps + 7
          /\ node = "worker" => StepsToReturn = (MaxReactSteps - step) + 6
          /\ node \in {"smeOracle", "humanGate"} => StepsToReturn = 5
          /\ node \in {"workerCompress", "blocked"} => StepsToReturn = 3
          /\ node = "END" => StepsToReturn = 1

LEMMA StepsToReturnIs == (TypeOK => ToReturn) /\ (TypeOK' => ToReturn')
<1>1. TypeOK => ToReturn
  BY DEF StepsToReturn, ToReturn
<1>2. TypeOK' => ToReturn'
  BY DEF StepsToReturn, ToReturn
<1> QED
  BY <1>1, <1>2

\* A granted retry costs at least as much as the attempt it pays for.
LEMMA RetryPaysForAttempt ==
    ASSUME NEW left \in Nat, NEW cost \in Nat, left >= 1
    PROVE  left * cost = (left - 1) * cost + cost
  OBVIOUS

\* Sums of a part that stays, or pays, and a part that shrinks.
LEMMA SmallerSum ==
    ASSUME NEW kept \in Int, NEW before \in Int, NEW after \in Int, after < before
    PROVE  kept + after < kept + before
  OBVIOUS

LEMMA PaidSum ==
    ASSUME NEW kept \in Int, NEW paid \in Int, NEW before \in Int, NEW after \in Int,
           after <= paid, 0 < before
    PROVE  kept + after < (kept + paid) + before
  OBVIOUS

LEMMA StepsTaken ==
    ASSUME NEW n \in Int, NEW k \in Int, 0 <= k
    PROVE  (n - k) + 6 < n + 7
  OBVIOUS

\* Where a step leaves the escalations alone only the way to the end counts.
LEMMA SameEscalations ==
    ASSUME TypeOK, escalationAttempts' = escalationAttempts,
           StepsToReturn \in Int, StepsToReturn' \in Int, StepsToReturn' < StepsToReturn
    PROVE  StepsLeft' < StepsLeft
<1> DEFINE granted == (MaxEscalationAttempts - escalationAttempts) * (MaxReactSteps + 7)
<1>1. granted \in Int
  BY SwarmLimits DEF TypeOK
<1>2. StepsLeft = granted + StepsToReturn /\ StepsLeft' = granted + StepsToReturn'
  BY DEF StepsLeft
<1>3. granted + StepsToReturn' < granted + StepsToReturn
  BY ONLY <1>1, StepsToReturn \in Int, StepsToReturn' \in Int, StepsToReturn' < StepsToReturn,
          SmallerSum
<1> QED
  BY ONLY <1>2, <1>3

\* A step that grants a retry pays for the attempt that follows.
LEMMA OneEscalation ==
    ASSUME TypeOK, escalationAttempts < MaxEscalationAttempts,
           escalationAttempts' = escalationAttempts + 1, StepsToReturn \in Nat,
           StepsToReturn > 0, StepsToReturn' \in 0..(MaxReactSteps + 7)
    PROVE  StepsLeft' < StepsLeft
<1> DEFINE left == MaxEscalationAttempts - escalationAttempts
           cost == MaxReactSteps + 7
<1>1. left \in Nat /\ left >= 1 /\ cost \in Nat
  BY SwarmLimits DEF TypeOK
<1>2. left * cost = (left - 1) * cost + cost
  BY ONLY <1>1, RetryPaysForAttempt
<1>3. (left - 1) * cost \in Int
  BY <1>1
<1>4. (MaxEscalationAttempts - escalationAttempts)' = left - 1
  BY SwarmLimits DEF TypeOK
<1>5. StepsLeft = left * cost + StepsToReturn /\ StepsLeft' = (left - 1) * cost + StepsToReturn'
  BY <1>4 DEF StepsLeft
<1>6. StepsToReturn' \in Int /\ StepsToReturn' <= cost
  BY SwarmLimits
<1>7. cost \in Int /\ StepsToReturn \in Int /\ 0 < StepsToReturn
  BY SwarmLimits
<1>8. (left - 1) * cost + StepsToReturn' < ((left - 1) * cost + cost) + StepsToReturn
  BY ONLY <1>3, <1>6, <1>7, PaidSum
<1> QED
  BY ONLY <1>2, <1>5, <1>8

\* Every step brings the end nearer, the operator's too.
LEMMA StepCounts ==
    ASSUME TypeOK, TypeOK', CountersInv, CountersInv', FailureInv, Next
    PROVE  vars' = vars \/ StepsLeft' < StepsLeft
<1>1. /\ MaxReactSteps \in Nat /\ step \in 0..MaxReactSteps /\ step' \in 0..MaxReactSteps
      /\ MaxEscalationAttempts \in Nat /\ escalationAttempts \in Nat /\ attempts \in Nat
  BY SwarmLimits DEF TypeOK
<1>2. StepsToReturn \in Nat /\ StepsToReturn' \in Nat
  BY <1>1, StepsToReturnIs DEF ToReturn, TypeOK
<1>3. CASE LeadDelegator
  <2>1. /\ driver = "running" /\ driver' = "running" /\ node = "leadDelegator" /\ node' = "worker"
        /\ escalationAttempts' = escalationAttempts
    BY <1>3 DEF LeadDelegator, At, driverVars, countVars
  <2>2. StepsToReturn = MaxReactSteps + 7 /\ StepsToReturn' = (MaxReactSteps - step') + 6
    BY <2>1, StepsToReturnIs DEF ToReturn
  <2>3. step' \in Int /\ 0 <= step' /\ MaxReactSteps \in Int
    BY <1>1
  <2>4. StepsToReturn' < StepsToReturn
    BY ONLY <2>2, <2>3, StepsTaken
  <2> QED
    BY <1>2, <2>1, <2>4, SameEscalations
<1>4. CASE WorkerStep
  <2>1. driver = "running" /\ node = "worker"
    BY <1>4, WorkerKinds
  <2>2. CASE WorkerGoesOn
    <3>1. /\ driver' = "running" /\ node' = "worker" /\ step' = step + 1
          /\ escalationAttempts' = escalationAttempts
      BY <2>1, <2>2 DEF WorkerGoesOn, driverVars, countVars
    <3>2. StepsToReturn' < StepsToReturn
      BY <1>1, <2>1, <3>1, StepsToReturnIs DEF ToReturn
    <3> QED
      BY <1>2, <3>1, <3>2, SameEscalations
  <2>3. CASE WorkerLeaves
    <3>1. /\ driver' = "running" /\ escalationAttempts' = escalationAttempts
          /\ node' \in {"workerCompress", "blocked", "smeOracle", "humanGate"}
      BY <2>1, <2>3 DEF WorkerLeaves, LeaveWorker, RouteAfterWorker, driverVars
    <3>2. StepsToReturn' < StepsToReturn
      BY <1>1, <2>1, <3>1, StepsToReturnIs DEF ToReturn
    <3> QED
      BY <1>2, <3>1, <3>2, SameEscalations
  <2> QED
    BY <1>4, <2>2, <2>3, WorkerKinds
<1>5. CASE SmeOracle
  <2>1. /\ driver = "running" /\ driver' = "running" /\ node = "smeOracle"
        /\ node' \in {"worker", "blocked"} /\ step' = 0
        /\ escalationAttempts' = escalationAttempts + 1
    BY <1>5 DEF SmeOracle, RouteAfterSme, ResetWorker, At, driverVars
  <2>2. escalationAttempts < MaxEscalationAttempts
    BY <1>1, <2>1 DEF CountersInv
  <2>3. StepsToReturn = 5 /\ StepsToReturn' \in 0..(MaxReactSteps + 7)
    BY <1>1, <2>1, StepsToReturnIs DEF ToReturn
  <2> QED
    BY <1>2, <2>1, <2>2, <2>3, OneEscalation
<1>6. CASE WorkerCompress \/ Blocked
  <2>1. /\ driver = "running" /\ driver' = "running" /\ node \in {"workerCompress", "blocked"}
        /\ node' = "END" /\ escalationAttempts' = escalationAttempts
    BY <1>6 DEF WorkerCompress, Blocked, At, driverVars, countVars
  <2>2. StepsToReturn' < StepsToReturn
    BY <2>1, StepsToReturnIs DEF ToReturn
  <2> QED
    BY <1>2, <2>1, <2>2, SameEscalations
<1>7. CASE LlmThrows \/ Return
  <2>1. /\ driver = "running" /\ driver' \in {"threw", "returned"}
        /\ node \in {"smeOracle", "workerCompress", "END"}
        /\ escalationAttempts' = escalationAttempts
    BY <1>7 DEF LlmThrows, Return, At, countVars
  <2>2. StepsToReturn' < StepsToReturn
    BY <2>1, StepsToReturnIs DEF ToReturn
  <2> QED
    BY <1>2, <2>1, <2>2, SameEscalations
<1>8. CASE Interrupt
  <2>1. /\ driver = "running" /\ driver' = "waiting" /\ node = "humanGate"
        /\ escalationAttempts' = escalationAttempts
    BY <1>8 DEF Interrupt, At, countVars
  <2>2. StepsToReturn' < StepsToReturn
    BY <2>1, StepsToReturnIs DEF ToReturn
  <2> QED
    BY <1>2, <2>1, <2>2, SameEscalations
<1>9. ASSUME driver = "waiting", Abort PROVE StepsLeft' < StepsLeft
  <2>1. /\ driver' = "running" /\ node' = "blocked" /\ escalationAttempts' = escalationAttempts
    BY <1>9 DEF Abort, RouteAfterHuman, countVars
  <2>2. StepsToReturn' < StepsToReturn
    BY <1>9, <2>1, StepsToReturnIs DEF ToReturn
  <2> QED
    BY <1>2, <2>1, <2>2, SameEscalations
<1>10. ASSUME driver = "waiting", Retry PROVE StepsLeft' < StepsLeft
  <2>1. /\ driver' = "running" /\ node = "humanGate" /\ node' = "worker" /\ step' = 0
        /\ escalationAttempts' = escalationAttempts + 1
    BY <1>10 DEF Retry, RouteAfterHuman, ResetWorker, FailureInv
  <2>2. escalationAttempts < MaxEscalationAttempts
    BY <1>1, <2>1 DEF CountersInv
  <2>3. StepsToReturn = 4 /\ StepsToReturn' \in 0..(MaxReactSteps + 7)
    BY <1>1, <1>10, <2>1, StepsToReturnIs DEF ToReturn
  <2> QED
    BY <1>2, <2>1, <2>2, <2>3, OneEscalation
<1>11. CASE AutoAbort \/ ForceAbort \/ OperatorAnswers
  BY <1>9, <1>10, <1>11 DEF AutoAbort, ForceAbort, OperatorAnswers
<1> QED
  BY <1>3, <1>4, <1>5, <1>6, <1>7, <1>8, <1>11 DEF Next, SystemStep, Over

\* A swarm run, with whatever its planner, its tools, the oracle and the operator do, is over
\* after at most (MaxEscalationAttempts + 1) * (MaxReactSteps + 7) steps: every step, whoever
\* takes it, lowers a natural number that starts there.  This is what makes SwarmEnds true;
\* fairness adds only that steps are taken.
THEOREM RunsAreFinite ==
    Spec => /\ StepsLeft = (MaxEscalationAttempts + 1) * (MaxReactSteps + 7)
            /\ [](StepsLeft \in Nat)
            /\ [][StepsLeft' < StepsLeft]_vars
<1>1. Init => StepsLeft = (MaxEscalationAttempts + 1) * (MaxReactSteps + 7)
  <2> SUFFICES ASSUME Init PROVE StepsLeft = (MaxEscalationAttempts + 1) * (MaxReactSteps + 7)
    OBVIOUS
  <2>1. StepsToReturn = MaxReactSteps + 7 /\ escalationAttempts = 0
    BY DEF Init, StepsToReturn
  <2>2. MaxReactSteps + 7 \in Nat /\ MaxEscalationAttempts \in Nat
    BY SwarmLimits
  <2> QED
    BY <2>1, <2>2, OneMoreAttempt DEF StepsLeft
<1>2. TypeOK /\ RetriesPaidFor => StepsLeft \in Nat
  <2> SUFFICES ASSUME TypeOK, CountersInv PROVE StepsLeft \in Nat
    BY DEF RetriesPaidFor
  <2>1. MaxEscalationAttempts - escalationAttempts \in Nat /\ MaxReactSteps + 7 \in Nat
    BY SwarmLimits DEF TypeOK, CountersInv
  <2>2. StepsToReturn \in Nat
    BY SwarmLimits, StepsToReturnIs DEF TypeOK, ToReturn
  <2>3. (MaxEscalationAttempts - escalationAttempts) * (MaxReactSteps + 7) \in Nat
    BY ONLY <2>1
  <2> QED
    BY <2>2, <2>3 DEF StepsLeft
<1>3. TypeOK /\ RetriesPaidFor /\ TypeOK' /\ RetriesPaidFor' /\ [Next]_vars
        => [StepsLeft' < StepsLeft]_vars
  BY StepCounts DEF RetriesPaidFor
<1> QED
  BY <1>1, <1>2, <1>3, RetriesAccounted, PTL DEF Spec

=============================================================================
