-------------------------- MODULE WorkerCallsProofs --------------------------
(***************************************************************************)
(* Proofs about an attempt of the worker, for every number of steps and    *)
(* retries, every binding of its planner and every price list.             *)
(***************************************************************************)
EXTENDS WorkerCalls, TLAPS

-----------------------------------------------------------------------------
(* The control of an attempt. *)

Outcomes ==
    {[status |-> "DONE", type |-> "none"], [status |-> "ESCALATING", type |-> "reasoning"],
     [status |-> "ESCALATING", type |-> "environment"]}

\* Where the attempt is, and what it may still do.
PlaceInv ==
    /\ IF phase = "left" THEN result \in Outcomes
       ELSE /\ result = [status |-> "WORKING", type |-> "none"]
            /\ toolFailures < MaxReactToolFailures /\ ending = "none"
    /\ phase \in {"decide", "child", "search"} => step < MaxReactSteps
    /\ atService => phase \in {"plan", "search"} /\ step < MaxReactSteps

\* How many tries the running call has had, and of which backend.
TriesInv ==
    /\ phase = "plan" => attempt <= LlmMaxRetries
    /\ phase \in {"start", "decide", "child"} => attempt = 0
    /\ phase = "search" =>
          /\ attempt <= ToolMaxRetries
          /\ backend = "tavily" => tavilyFailures = attempt
          /\ backend = "duckduckgo" => tavilyEmpty \/ tavilyFailures = ToolMaxRetries + 1

\* Timers and children belong to the call that runs.
ChildInv == phase # "child" => child = "none" /\ ~timer /\ ~forceKillTimer

Inv == TypeOK /\ PlaceInv /\ TriesInv /\ ChildInv

\* How a decision ends: with the next step or with the attempt.
GoesOn == phase' = "plan" /\ step' = step + 1 /\ result' = result
Leaves == phase' = "left" /\ step' = step /\ result' \in Outcomes

LEMMA FailureCounted ==
    ASSUME TypeOK, PlaceInv, phase # "left", CountFailure
    PROVE  /\ toolFailures' = toolFailures + 1
           /\ UNCHANGED <<successfulToolCalls, artifacts>>
           /\ \/ GoesOn /\ toolFailures' < MaxReactToolFailures
              \/ Leaves /\ toolFailures' <= MaxReactToolFailures /\ result'.type = "reasoning"
  BY CallLimits DEF CountFailure, NextStep, TypeOK, WorkerTyped, TriesTyped, FlagsTyped, PlaceInv, GoesOn, Leaves, Outcomes

LEMMA Left ==
    ASSUME NEW type \in {"reasoning", "environment"}, Leave("ESCALATING", type)
    PROVE  Leaves /\ UNCHANGED <<toolFailures, successfulToolCalls, artifacts>>
  BY DEF Leave, Leaves, Outcomes

LEMMA Finished ==
    ASSUME NEW text, Finish(text)
    PROVE  Leaves /\ UNCHANGED <<toolFailures, successfulToolCalls, artifacts>>
  BY DEF Finish, Leave, Leaves, Outcomes

\* What a tool call does to the worker's own variables.
CallEnds ==
    /\ \/ GoesOn /\ toolFailures' \in {toolFailures, toolFailures + 1}
          /\ toolFailures' < MaxReactToolFailures /\ ending' = ending
       \/ Leaves /\ toolFailures' \in 0..MaxReactToolFailures /\ ending' \in {ending, "search"}
    /\ successfulToolCalls' \in Nat
    /\ artifacts' \subseteq ToolNames \X (0..(MaxReactSteps - 1))
    /\ planned' = planned + 1 /\ sentKeys' = sentKeys \cup {<<1, step>>}

LEMMA Answered ==
    ASSUME Inv, step < MaxReactSteps, phase # "left", NEW tool \in ToolNames, ToolAnswers(tool)
    PROVE  CallEnds /\ ending' = ending
<1>1. planned' = planned + 1 /\ sentKeys' = sentKeys \cup {<<1, step>>} /\ ending' = ending
  BY DEF ToolAnswers, Planned, Sent
<1>2. CASE CountFailure
  BY <1>1, <1>2, FailureCounted, CallLimits DEF CallEnds, Inv, TypeOK, WorkerTyped, TriesTyped, FlagsTyped
<1>3. CASE Leave("ESCALATING", "environment")
  BY <1>1, <1>3, Left DEF CallEnds, Inv, TypeOK, WorkerTyped, TriesTyped, FlagsTyped
<1>4. CASE NextStep /\ UNCHANGED toolFailures /\ successfulToolCalls' = successfulToolCalls + 1
           /\ artifacts' = artifacts \cup {<<tool, step>>}
  BY <1>1, <1>4, CallLimits DEF CallEnds, NextStep, GoesOn, Inv, TypeOK, WorkerTyped, TriesTyped, FlagsTyped, PlaceInv
<1> QED
  BY <1>2, <1>3, <1>4 DEF ToolAnswers

LEMMA Threw ==
    ASSUME Inv, step < MaxReactSteps, phase # "left", NEW error, ToolThrows(error)
    PROVE  /\ CallEnds
           /\ error = "provider_unavailable" => Leaves /\ ending' = "search"
           /\ error # "provider_unavailable" /\ ClassifyToolError(error) # "environment" =>
                 ending' = ending
<1>1. planned' = planned + 1 /\ sentKeys' = sentKeys \cup {<<1, step>>}
  BY DEF ToolThrows, Planned, Sent
<1>2. CASE ClassifyToolError(error) = "environment"
  <2>1. Leave("ESCALATING", "environment") /\ ending' = "search"
    BY <1>2 DEF ToolThrows
  <2> QED
    BY <1>1, <1>2, <2>1, Left DEF CallEnds, Inv, TypeOK, WorkerTyped, TriesTyped, FlagsTyped
<1>3. CASE ClassifyToolError(error) # "environment"
  <2>1. CountFailure /\ ending' = ending
    BY <1>3 DEF ToolThrows
  <2> QED
    BY <1>1, <1>3, <2>1, FailureCounted, CallLimits DEF CallEnds, Inv, TypeOK, WorkerTyped, TriesTyped, FlagsTyped, ClassifyToolError
<1> QED
  BY <1>2, <1>3

\* A resolved call leaves a worker that plans or is done, with nothing under way.
LEMMA CallKeeps ==
    ASSUME Inv, CallEnds, phase \in {"decide", "child", "search"},
           UNCHANGED <<kind, call, backend, tavilyFailures, tavilyEmpty, stubborn, timedOut>>,
           atService' = FALSE, alias' = "none", child' = "none", timer' = FALSE,
           forceKillTimer' = FALSE,
           attempt' = 0 \/ (attempt' = attempt /\ phase' = "left"),
           lastStatus' \in {"none", "completed", "failed", "timed_out"},
           UNCHANGED <<orphans, billed, counted, lost, refused>>
    PROVE  Inv'
<1> USE CallLimits DEF Inv
<1>1. PlaceInv'
  BY DEF PlaceInv, CallEnds, GoesOn, Leaves, TypeOK, WorkerTyped, TriesTyped, FlagsTyped
<1>2. TriesInv' /\ ChildInv'
  BY DEF TriesInv, ChildInv, CallEnds, GoesOn, Leaves, TypeOK, WorkerTyped, TriesTyped, FlagsTyped
<1>3. TypeOK'
  <2>1. WorkerTyped'
    BY DEF TypeOK, WorkerTyped, PlaceInv, CallEnds, GoesOn, Leaves
  <2>2. TriesTyped'
    BY DEF TypeOK, TriesTyped, PlaceInv, CallEnds, GoesOn, Leaves
  <2>3. FlagsTyped'
    BY DEF TypeOK, FlagsTyped, PlaceInv, CallEnds, GoesOn, Leaves
  <2> QED
    BY <2>1, <2>2, <2>3 DEF TypeOK
<1> QED
  BY <1>1, <1>2, <1>3

\* A decision that ends at once leaves the rest alone.
LEMMA DecisionKeeps ==
    ASSUME Inv, Decide, CallEnds, UNCHANGED <<requestVars, searchVars, alias, childVars>>
    PROVE  Inv'
  BY CallKeeps DEF Inv, TypeOK, WorkerTyped, TriesTyped, FlagsTyped, TriesInv, PlaceInv, ChildInv, Decide, requestVars, searchVars, childVars

-----------------------------------------------------------------------------
(* One lemma per action. *)

LEMMA InitInv == Init => Inv
<1>1. Init => WorkerTyped
  BY CallLimits DEF Init, WorkerTyped
<1>2. Init => TriesTyped
  BY CallLimits DEF Init, TriesTyped
<1>3. Init => FlagsTyped
  BY DEF Init, FlagsTyped
<1>4. Init => PlaceInv /\ TriesInv /\ ChildInv
  BY CallLimits DEF Init, PlaceInv, TriesInv, ChildInv
<1> QED
  BY <1>1, <1>2, <1>3, <1>4 DEF Inv, TypeOK

LEMMA BeginKeeps == ASSUME Inv, Begin PROVE Inv'
  BY CallLimits DEF Begin, Inv, TypeOK, WorkerTyped, TriesTyped, FlagsTyped, PlaceInv, TriesInv, ChildInv, workerVars, requestVars, searchVars,
     childVars, billVars, historyVars

LEMMA AskPlannerKeeps == ASSUME Inv, AskPlanner PROVE Inv'
  BY DEF AskPlanner, Inv, TypeOK, WorkerTyped, TriesTyped, FlagsTyped, PlaceInv, TriesInv, ChildInv, workerVars, searchVars,
     childVars, billVars, historyVars

LEMMA PlannerAnswersKeeps == ASSUME Inv, PlannerAnswers PROVE Inv'
<1> USE DEF Inv, workerVars, searchVars, childVars, billVars, historyVars
<1>1. /\ phase = "plan" /\ atService /\ phase' = "decide" /\ atService' = FALSE /\ attempt' = 0
      /\ billed' = billed + 1 /\ counted' = counted + 1
      /\ UNCHANGED <<kind, call, workerVars, result, searchVars, alias, childVars, orphans, lost,
                     historyVars>>
  BY DEF PlannerAnswers, Asked
<1>2. TypeOK'
  <2>1. WorkerTyped'
    BY <1>1, CallLimits DEF TypeOK, WorkerTyped
  <2>2. TriesTyped'
    BY <1>1, CallLimits DEF TypeOK, TriesTyped
  <2>3. FlagsTyped'
    BY <1>1, CallLimits DEF TypeOK, FlagsTyped
  <2> QED
    BY <2>1, <2>2, <2>3 DEF TypeOK
<1>3. PlaceInv' /\ TriesInv' /\ ChildInv'
  BY <1>1 DEF TypeOK, WorkerTyped, TriesTyped, FlagsTyped, PlaceInv, TriesInv, ChildInv
<1> QED
  BY <1>2, <1>3

LEMMA PlannerIsSilentKeeps == ASSUME Inv, PlannerIsSilent PROVE Inv'
<1> USE CallLimits DEF Inv, searchVars, childVars, billVars, historyVars
<1>1. /\ phase = "plan" /\ atService' = FALSE /\ attempt' = 0
      /\ billed' = billed + 1 /\ lost' = lost + 1 /\ planned' = planned + 1
      /\ Leaves /\ UNCHANGED <<toolFailures, successfulToolCalls, artifacts>>
      /\ UNCHANGED <<kind, call, searchVars, alias, childVars, orphans, counted, sentKeys, refused,
                     ending>>
  BY Left DEF PlannerIsSilent, Planned, Asked
<1>2. TypeOK'
  <2>1. WorkerTyped'
    BY <1>1 DEF TypeOK, WorkerTyped, Leaves
  <2>2. TriesTyped'
    BY <1>1 DEF TypeOK, TriesTyped, Leaves
  <2>3. FlagsTyped'
    BY <1>1 DEF TypeOK, FlagsTyped, Leaves
  <2> QED
    BY <2>1, <2>2, <2>3 DEF TypeOK
<1>3. PlaceInv' /\ TriesInv' /\ ChildInv'
  BY <1>1 DEF TypeOK, WorkerTyped, TriesTyped, FlagsTyped, PlaceInv, TriesInv, ChildInv, Leaves
<1> QED
  BY <1>2, <1>3

LEMMA PlannerFailsKeeps == ASSUME Inv, PlannerFails PROVE Inv'
<1> USE CallLimits DEF Inv, searchVars, childVars, billVars, historyVars
<1>1. PICK error : /\ RequestFails(error)
                   /\ IF Retried(error)
                      THEN /\ attempt' = attempt + 1
                           /\ UNCHANGED <<phase, workerVars, result, planned, ending>>
                      ELSE /\ Leave("ESCALATING", ClassifyText(error)) /\ Planned
                           /\ ending' = IF error.down = "no" THEN "none" ELSE error.down
                           /\ UNCHANGED attempt
                   /\ error.down \in {"no", "passing", "lasting"}
  <2>1. \A error \in {MalformedRequest} \cup OpenClawErrors \cup DirectErrors \cup FakeErrors :
           error.down \in {"no", "passing", "lasting"}
    BY DEF MalformedRequest, OpenClawErrors, DirectErrors, FakeErrors
  <2>2. ErrorsOf(call.transport) \subseteq OpenClawErrors \cup DirectErrors \cup FakeErrors
    BY CallsAssumption DEF TypeOK, WorkerTyped, TriesTyped, FlagsTyped, ErrorsOf, CallShapes
  <2> QED
    BY <2>1, <2>2 DEF PlannerFails
<1>2. /\ phase = "plan" /\ atService' = FALSE
      /\ lost' = lost + 1 /\ orphans' \in {orphans, orphans + 1}
      /\ refused' \in BOOLEAN
      /\ UNCHANGED <<kind, call, searchVars, alias, childVars, sentKeys, billed, counted>>
  BY <1>1 DEF PlannerFails, Asked, RequestFails, TypeOK, FlagsTyped
<1>3. CASE Retried(error)
  <2>1. /\ attempt' = attempt + 1 /\ attempt < LlmMaxRetries
        /\ UNCHANGED <<phase, workerVars, result, planned, ending>>
    BY <1>1, <1>3 DEF Retried
  <2>2. TypeOK'
    <3>1. WorkerTyped'
      BY <1>2, <2>1 DEF TypeOK, WorkerTyped, workerVars
    <3>2. TriesTyped'
      BY <1>2, <2>1 DEF TypeOK, TriesTyped, workerVars
    <3>3. FlagsTyped'
      BY <1>2, <2>1 DEF TypeOK, FlagsTyped, workerVars
    <3> QED
      BY <3>1, <3>2, <3>3 DEF TypeOK
  <2>3. PlaceInv' /\ TriesInv' /\ ChildInv'
    BY <1>2, <2>1 DEF TypeOK, WorkerTyped, TriesTyped, FlagsTyped, PlaceInv, TriesInv, ChildInv, workerVars
  <2> QED
    BY <2>2, <2>3
<1>4. CASE ~Retried(error)
  <2>1. /\ Leaves /\ UNCHANGED <<toolFailures, successfulToolCalls, artifacts>>
        /\ planned' = planned + 1 /\ attempt' = attempt
        /\ ending' \in {"none", "passing", "lasting"}
    BY <1>1, <1>4, Left DEF Planned, ClassifyText
  <2>2. TypeOK'
    <3>1. WorkerTyped'
      BY <1>2, <2>1 DEF TypeOK, WorkerTyped, Leaves
    <3>2. TriesTyped'
      BY <1>2, <2>1 DEF TypeOK, TriesTyped, Leaves
    <3>3. FlagsTyped'
      BY <1>2, <2>1 DEF TypeOK, FlagsTyped, Leaves
    <3> QED
      BY <3>1, <3>2, <3>3 DEF TypeOK
  <2>3. PlaceInv' /\ TriesInv' /\ ChildInv'
    BY <1>2, <2>1 DEF TypeOK, WorkerTyped, TriesTyped, FlagsTyped, PlaceInv, TriesInv, ChildInv, Leaves
  <2> QED
    BY <2>2, <2>3
<1> QED
  BY <1>3, <1>4

LEMMA OrphanServedKeeps == ASSUME Inv, OrphanServed PROVE Inv'
  BY DEF OrphanServed, Inv, TypeOK, WorkerTyped, TriesTyped, FlagsTyped, PlaceInv, TriesInv, ChildInv, workerVars, requestVars, searchVars,
     childVars, historyVars

LEMMA StepsExhaustedKeeps == ASSUME Inv, StepsExhausted PROVE Inv'
<1>1. /\ phase = "plan" /\ step >= MaxReactSteps
      /\ Leaves /\ UNCHANGED <<toolFailures, successfulToolCalls, artifacts>>
      /\ UNCHANGED <<kind, call, requestVars, searchVars, alias, childVars, billVars, historyVars>>
  BY Finished DEF StepsExhausted
<1> QED
  BY <1>1, CallLimits DEF Inv, TypeOK, WorkerTyped, TriesTyped, FlagsTyped, PlaceInv, TriesInv, ChildInv, Leaves, requestVars, searchVars,
     childVars, billVars, historyVars

LEMMA PlannerFinishesKeeps == ASSUME Inv, PlannerFinishes PROVE Inv'
<1>1. /\ phase = "decide" /\ planned' = planned + 1
      /\ Leaves /\ UNCHANGED <<toolFailures, successfulToolCalls, artifacts>>
      /\ UNCHANGED <<kind, call, requestVars, searchVars, alias, childVars, orphans, billed, counted,
                     lost, refused, sentKeys, ending>>
  BY Finished DEF PlannerFinishes, Decide, Planned
<1> QED
  BY <1>1, CallLimits DEF Inv, TypeOK, WorkerTyped, TriesTyped, FlagsTyped, PlaceInv, TriesInv, ChildInv, Leaves, requestVars, searchVars,
     childVars

LEMMA InvalidCallKeeps == ASSUME Inv, InvalidCall PROVE Inv'
<1>1. /\ phase = "decide" /\ planned' = planned + 1 /\ CountFailure
      /\ UNCHANGED <<kind, call, requestVars, searchVars, alias, childVars, orphans, billed, counted,
                     lost, refused, sentKeys, ending>>
  BY DEF InvalidCall, Decide, Planned
<1>2. /\ toolFailures' = toolFailures + 1 /\ toolFailures' <= MaxReactToolFailures
      /\ UNCHANGED <<successfulToolCalls, artifacts>>
      /\ (GoesOn /\ toolFailures' < MaxReactToolFailures) \/ Leaves
  BY <1>1, FailureCounted, CallLimits DEF Inv, TypeOK, WorkerTyped, TriesTyped, FlagsTyped
<1>3. TypeOK'
  BY <1>1, <1>2, CallLimits DEF Inv, TypeOK, WorkerTyped, TriesTyped, FlagsTyped, PlaceInv, TriesInv, GoesOn, Leaves, requestVars, searchVars,
     childVars
<1>4. PlaceInv' /\ TriesInv' /\ ChildInv'
  BY <1>1, <1>2, CallLimits DEF Inv, TypeOK, WorkerTyped, TriesTyped, FlagsTyped, PlaceInv, TriesInv, ChildInv, GoesOn, Leaves, requestVars,
     searchVars, childVars
<1> QED
  BY <1>3, <1>4 DEF Inv

LEMMA ToolRefusesKeeps == ASSUME Inv, ToolRefuses PROVE Inv'
<1>1. PICK error : ToolThrows(error)
  BY DEF ToolRefuses
<1>2. /\ Decide /\ phase = "decide" /\ UNCHANGED <<requestVars, searchVars, alias, childVars>>
  BY DEF ToolRefuses, Decide
<1>3. CallEnds
  BY <1>1, <1>2, Threw DEF Inv, PlaceInv
<1> QED
  BY <1>2, <1>3, DecisionKeeps

LEMMA ReadFileKeeps == ASSUME Inv, ReadFile PROVE Inv'
<1>1. PICK tool \in Accepts(InProcess) : ToolAnswers(tool) \/ ToolThrows("execution")
  BY DEF ReadFile
<1>2. /\ Decide /\ phase = "decide" /\ UNCHANGED <<requestVars, searchVars, alias, childVars>>
      /\ tool \in ToolNames
  BY DEF ReadFile, Decide, Accepts, InProcess, ToolNames
<1>3. CallEnds
  BY <1>1, <1>2, Threw, Answered DEF Inv, PlaceInv
<1> QED
  BY <1>2, <1>3, DecisionKeeps

\* A tool that may be called is one of the worker's.
LEMMA AcceptedIsAllowed ==
    ASSUME NEW tools, NEW tool \in Accepts(tools)
    PROVE  tool \in AllowedAliases(kind) /\ tool # "none"
<1>1. tool \in AllowedAliases(kind)
  BY DEF Accepts, CleanArgs, Validated
<1> QED
  BY <1>1 DEF AllowedAliases, Catalog, InProcess, ByChild, OverGateway

LEMMA SpawnKeeps == ASSUME Inv, Spawn PROVE Inv'
<1>1. alias' \in AllowedAliases(kind) /\ alias' # "none"
  BY AcceptedIsAllowed DEF Spawn
<1>2. TypeOK'
  BY <1>1 DEF Spawn, Decide, Inv, TypeOK, WorkerTyped, TriesTyped, FlagsTyped, workerVars, requestVars, searchVars
<1>3. PlaceInv' /\ TriesInv' /\ ChildInv'
  BY DEF Spawn, Decide, Inv, TypeOK, WorkerTyped, TriesTyped, FlagsTyped, PlaceInv, TriesInv, ChildInv, workerVars, requestVars, searchVars
<1> QED
  BY <1>2, <1>3 DEF Inv

LEMMA BeginSearchKeeps == ASSUME Inv, BeginSearch PROVE Inv'
<1>1. alias' \in AllowedAliases(kind) /\ alias' # "none"
  BY AcceptedIsAllowed DEF BeginSearch
<1>2. TypeOK'
  <2>1. WorkerTyped'
    BY <1>1, CallLimits DEF BeginSearch, Decide, Inv, TypeOK, WorkerTyped, workerVars, childVars
  <2>2. TriesTyped'
    BY <1>1, CallLimits DEF BeginSearch, Decide, Inv, TypeOK, TriesTyped, workerVars, childVars
  <2>3. FlagsTyped'
    BY <1>1, CallLimits DEF BeginSearch, Decide, Inv, TypeOK, FlagsTyped, workerVars, childVars
  <2> QED
    BY <2>1, <2>2, <2>3 DEF TypeOK
<1>3. PlaceInv' /\ TriesInv' /\ ChildInv'
  BY CallLimits DEF BeginSearch, Decide, Inv, TypeOK, WorkerTyped, TriesTyped, FlagsTyped, PlaceInv, TriesInv, ChildInv, workerVars, childVars
<1> QED
  BY <1>2, <1>3 DEF Inv

\* Signals and exits only concern the child.
LEMMA ChildKeeps ==
    ASSUME Inv, ChildExits \/ TimerFires \/ ForceKillTimerFires
    PROVE  Inv'
<1>1. phase = "child"
  BY DEF ChildExits, TimerFires, ForceKillTimerFires, Inv, ChildInv
<1>2. /\ child' \in {"none", "running", "exited", "killed", "unreported"}
      /\ {stubborn', timer', forceKillTimer', timedOut'} \subseteq BOOLEAN /\ ChildStep
  BY DEF ChildExits, TimerFires, ForceKillTimerFires, Inv, TypeOK, WorkerTyped, TriesTyped, FlagsTyped
<1>3. TypeOK'
  BY <1>1, <1>2 DEF Inv, TypeOK, WorkerTyped, TriesTyped, FlagsTyped, ChildStep, workerVars, requestVars, searchVars, billVars, historyVars
<1>4. PlaceInv' /\ TriesInv' /\ ChildInv'
  BY <1>1, <1>2 DEF Inv, TypeOK, WorkerTyped, TriesTyped, FlagsTyped, PlaceInv, TriesInv, ChildInv, ChildStep, workerVars, requestVars,
     searchVars, billVars, historyVars
<1> QED
  BY <1>3, <1>4 DEF Inv

LEMMA ChildReportedKeeps == ASSUME Inv, ChildReported PROVE Inv'
<1>1. phase = "child" /\ step < MaxReactSteps /\ alias \in ToolNames
  BY DEF ChildReported, Inv, PlaceInv, TypeOK, WorkerTyped, TriesTyped, FlagsTyped, AllowedAliases, Catalog, InProcess, ByChild, OverGateway,
     ToolNames
<1>2. CallEnds
  BY <1>1, Answered DEF ChildReported
<1>3. lastStatus' \in {"none", "completed", "failed", "timed_out"}
  BY DEF ChildReported, ExitStatus
<1> QED
  BY <1>1, <1>2, <1>3, CallKeeps DEF ChildReported, Inv, PlaceInv, TriesInv, TypeOK, WorkerTyped, TriesTyped, FlagsTyped, requestVars,
     searchVars, billVars

LEMMA AskBackendKeeps == ASSUME Inv, AskBackend PROVE Inv'
  BY DEF AskBackend, Inv, TypeOK, WorkerTyped, TriesTyped, FlagsTyped, PlaceInv, TriesInv, ChildInv, workerVars, searchVars,
     childVars, billVars, historyVars

LEMMA SearchEndsKeeps == ASSUME Inv, SearchEnds PROVE Inv'
<1>1. phase = "search" /\ step < MaxReactSteps /\ alias \in ToolNames
  BY DEF SearchEnds, Searching, Inv, PlaceInv, TypeOK, WorkerTyped, TriesTyped, FlagsTyped, AllowedAliases, Catalog, InProcess, ByChild,
     OverGateway, ToolNames
<1>2. CallEnds
  BY <1>1, Answered DEF SearchEnds
<1> QED
  BY <1>1, <1>2, CallKeeps DEF SearchEnds, SearchStep, Inv, ChildInv, TypeOK, WorkerTyped, TriesTyped, FlagsTyped, searchVars, childVars,
     billVars

\* Another try, or the other backend.
LEMMA SearchGoesOnKeeps ==
    ASSUME Inv, TavilyIsEmpty \/ BackendRetried \/ TavilyFails
    PROVE  Inv'
<1> USE CallLimits DEF Searching, SearchStep, StaysInSearch, FallBack, workerVars, childVars, billVars
<1>1. TypeOK'
  <2>1. WorkerTyped'
    BY DEF TavilyIsEmpty, BackendRetried, TavilyFails, Inv, TypeOK, WorkerTyped, TriesInv
  <2>2. TriesTyped'
    BY DEF TavilyIsEmpty, BackendRetried, TavilyFails, Inv, TypeOK, TriesTyped, TriesInv
  <2>a. atService' = FALSE /\ (tavilyEmpty' = TRUE \/ tavilyEmpty' = tavilyEmpty)
    BY DEF TavilyIsEmpty, BackendRetried, TavilyFails
  <2>b. UNCHANGED <<refused, childVars>>
    BY DEF TavilyIsEmpty, BackendRetried, TavilyFails
  <2>3. FlagsTyped'
    BY Zenon, <2>a, <2>b DEF Inv, TypeOK, FlagsTyped
  <2> QED
    BY <2>1, <2>2, <2>3 DEF TypeOK
<1>2. PlaceInv' /\ ChildInv'
  BY DEF TavilyIsEmpty, BackendRetried, TavilyFails, Inv, TypeOK, WorkerTyped, TriesTyped, FlagsTyped, PlaceInv, ChildInv
<1>3. TriesInv'
  BY DEF TavilyIsEmpty, BackendRetried, TavilyFails, Inv, TypeOK, WorkerTyped, TriesTyped, FlagsTyped, TriesInv
<1> QED
  BY <1>1, <1>2, <1>3 DEF Inv

LEMMA FallbackFailsKeeps == ASSUME Inv, FallbackFails PROVE Inv'
<1>1. phase = "search" /\ step < MaxReactSteps
  BY DEF FallbackFails, Searching, Inv, PlaceInv
<1>2. CallEnds /\ Leaves
  BY <1>1, Threw DEF FallbackFails
<1> QED
  BY <1>1, <1>2, CallKeeps DEF FallbackFails, SearchStep, Leaves, Inv, ChildInv, TypeOK, WorkerTyped, TriesTyped, FlagsTyped, searchVars,
     childVars, billVars

LEMMA StepKeeps == ASSUME Inv, [Next]_vars PROVE Inv'
<1>1. CASE UNCHANGED vars
  BY <1>1 DEF vars, Inv, TypeOK, WorkerTyped, TriesTyped, FlagsTyped, PlaceInv, TriesInv, ChildInv, workerVars, requestVars, searchVars,
     childVars, billVars, historyVars
<1> QED
  BY <1>1, BeginKeeps, AskPlannerKeeps, PlannerAnswersKeeps, PlannerIsSilentKeeps, PlannerFailsKeeps,
     OrphanServedKeeps, StepsExhaustedKeeps, PlannerFinishesKeeps, InvalidCallKeeps, ToolRefusesKeeps,
     ReadFileKeeps, SpawnKeeps, BeginSearchKeeps, ChildKeeps, ChildReportedKeeps, AskBackendKeeps,
     SearchEndsKeeps, SearchGoesOnKeeps, FallbackFailsKeeps
     DEF Next, WorkerStep, ModelCall, Decision, Process, Search, Over

LEMMA Invariant == Spec => []Inv
  BY InitInv, StepKeeps, PTL DEF Spec

\* Every variable keeps its type: no loop counter passes its limit, and nothing is under way
\* that belongs to no phase.
THEOREM AttemptTyped == Spec => []TypeOK
  BY Invariant, PTL DEF Inv

-----------------------------------------------------------------------------
(* Outages are retried. *)

LEMMA MinOfOne == ASSUME NEW n \in Int PROVE Min({n}) = n
  BY DEF Min

CauseSays(e) ==
    e.status # 0 \/ e.name \in TransientErrorNames \/ e.code \in TransientNetworkCodes

\* Where one cause says something, it decides.
LEMMA OneCauseDecides ==
    ASSUME NEW error, NEW k \in 1..MaxCauseDepth, k \in DOMAIN error.chain,
           \A i \in DOMAIN error.chain : CauseSays(error.chain[i]) <=> i = k
    PROVE  LET e == error.chain[k]
           IN  IsTransient(error) <=> (e.status # 0 => e.status \in {408, 429} \/ e.status >= 500)
<1> DEFINE saying == {i \in DOMAIN error.chain : i <= MaxCauseDepth /\ CauseSays(error.chain[i])}
<1>1. saying = {k}
  BY DEF MaxCauseDepth
<1>2. Min(saying) = k
  BY <1>1, MinOfOne
<1> QED
  BY <1>1, <1>2 DEF IsTransient, CauseSays

LEMMA HttpDecides ==
    ASSUME NEW status \in Nat \ {0}, NEW error, error.chain = Http(status)
    PROVE  IsTransient(error) <=> status \in {408, 429} \/ status >= 500
<1>1. /\ DOMAIN error.chain = {1} /\ error.chain[1].status = status
  BY DEF Http
<1>2. \A i \in DOMAIN error.chain : CauseSays(error.chain[i]) <=> i = 1
  BY <1>1 DEF CauseSays
<1> QED
  BY <1>1, <1>2, OneCauseDecides DEF MaxCauseDepth

\* The errors of an outage that may pass are those the retry loop tries again.
LEMMA PassingIsTransient ==
    ASSUME NEW error \in {MalformedRequest} \cup OpenClawErrors \cup DirectErrors \cup FakeErrors,
           error.down = "passing"
    PROVE  IsTransient(error)
<1> USE DEF MalformedRequest, OpenClawErrors, DirectErrors, FakeErrors
<1>1. CASE error.chain \in {Http(429), Http(502), Http(529)}
  BY <1>1, HttpDecides
<1>2. CASE \E e \in {Error("TimeoutError", "none"), Error("APIConnectionTimeoutError", "none")} :
              error.chain = <<e>>
  <2>1. /\ DOMAIN error.chain = {1} /\ error.chain[1].status = 0
        /\ error.chain[1].name \in {"TimeoutError", "APIConnectionTimeoutError"}
    BY <1>2 DEF Error
  <2>2. \A i \in DOMAIN error.chain : CauseSays(error.chain[i]) <=> i = 1
    BY <2>1 DEF CauseSays, TransientErrorNames
  <2> QED
    BY <2>1, <2>2, OneCauseDecides DEF MaxCauseDepth
<1>3. CASE error.chain = <<Error("TypeError", "none"), Error("Error", "ECONNREFUSED")>>
  <2>1. /\ DOMAIN error.chain = {1, 2}
        /\ error.chain[1] = Error("TypeError", "none") /\ error.chain[2] = Error("Error", "ECONNREFUSED")
    BY <1>3
  <2>2. \A i \in DOMAIN error.chain : CauseSays(error.chain[i]) <=> i = 2
    BY <2>1 DEF CauseSays, Error, TransientErrorNames, TransientNetworkCodes
  <2> QED
    BY <2>1, <2>2, OneCauseDecides DEF MaxCauseDepth, Error
<1>4. CASE error.chain = <<Error("APIConnectionError", "none"), Error("TypeError", "none")>>
  <2>1. /\ DOMAIN error.chain = {1, 2}
        /\ error.chain[1] = Error("APIConnectionError", "none") /\ error.chain[2] = Error("TypeError", "none")
    BY <1>4
  <2>2. \A i \in DOMAIN error.chain : CauseSays(error.chain[i]) <=> i = 1
    BY <2>1 DEF CauseSays, Error, TransientErrorNames, TransientNetworkCodes
  <2> QED
    BY <2>1, <2>2, OneCauseDecides DEF MaxCauseDepth, Error
<1> QED
  BY <1>1, <1>2, <1>3, <1>4

LEMMA EndingKept ==
    ASSUME OutagesRetried, UNCHANGED <<ending, attempt, searchVars>>
    PROVE  OutagesRetried'
  BY DEF OutagesRetried, searchVars

LEMMA NoOutage == ASSUME ending' = "none" PROVE OutagesRetried'
  BY DEF OutagesRetried

\* A failing request ends the attempt only when no try is left, or the failure is no outage
\* that may pass.
LEMMA PlannerRetried == ASSUME Inv, PlannerFails PROVE OutagesRetried'
<1>1. PICK error \in {MalformedRequest} \cup OpenClawErrors \cup DirectErrors \cup FakeErrors :
         IF Retried(error)
         THEN attempt' = attempt + 1 /\ UNCHANGED <<phase, workerVars, result, planned, ending>>
         ELSE /\ ending' = IF error.down = "no" THEN "none" ELSE error.down
              /\ UNCHANGED attempt
  BY CallsAssumption DEF PlannerFails, Inv, TypeOK, WorkerTyped, ErrorsOf, CallShapes
<1>2. phase = "plan" /\ ending = "none" /\ attempt <= LlmMaxRetries /\ attempt \in Nat
  BY DEF PlannerFails, Asked, Inv, PlaceInv, TriesInv, TypeOK, TriesTyped
<1>3. CASE Retried(error)
  BY <1>1, <1>2, <1>3, NoOutage
<1>4. CASE ~Retried(error) /\ error.down = "passing"
  <2>1. attempt' = LlmMaxRetries /\ ending' = "passing"
    BY <1>1, <1>2, <1>4, PassingIsTransient, CallLimits DEF Retried
  <2> QED
    BY <2>1 DEF OutagesRetried
<1>5. CASE ~Retried(error) /\ error.down # "passing"
  <2>1. ending' \in {"none", "lasting"}
    BY <1>1, <1>5 DEF MalformedRequest, OpenClawErrors, DirectErrors, FakeErrors
  <2> QED
    BY <2>1 DEF OutagesRetried
<1> QED
  BY <1>3, <1>4, <1>5

\* The refusals of a validated call are no outages.
LEMMA RefusalIsNoOutage ==
    ASSUME NEW tool, NEW args, Refusal(tool, args) # "none"
    PROVE  ClassifyToolError(Refusal(tool, args)) # "environment"
  BY DEF Refusal, ClassifyToolError

LEMMA SearchRetried == ASSUME Inv, FallbackFails PROVE OutagesRetried'
<1>1. /\ backend = "duckduckgo" /\ attempt = ToolMaxRetries
      /\ tavilyEmpty \/ tavilyFailures = ToolMaxRetries + 1
      /\ UNCHANGED <<attempt, searchVars>>
  BY CallLimits DEF FallbackFails, Searching, Inv, TriesInv, TypeOK, TriesTyped
<1>2. ending' = "search"
  BY Threw DEF FallbackFails, Searching, Inv, PlaceInv
<1> QED
  BY <1>1, <1>2 DEF OutagesRetried, searchVars

LEMMA OutageStep == ASSUME Inv, OutagesRetried, [Next]_vars PROVE OutagesRetried'
<1> USE DEF searchVars
<1>1. CASE Begin \/ AskPlanner \/ StepsExhausted \/ OrphanServed \/ ChildExits \/ TimerFires
           \/ ForceKillTimerFires \/ AskBackend \/ UNCHANGED vars
  <2>1. UNCHANGED <<ending, attempt, searchVars>>
    BY <1>1 DEF Begin, AskPlanner, StepsExhausted, OrphanServed, ChildExits, TimerFires,
       ForceKillTimerFires, AskBackend, vars, ChildStep, requestVars, historyVars
  <2> QED
    BY <2>1, EndingKept
<1>2. CASE PlannerAnswers \/ PlannerIsSilent \/ PlannerFinishes \/ InvalidCall \/ Spawn \/ BeginSearch
           \/ TavilyIsEmpty \/ BackendRetried \/ TavilyFails
  <2>1. ending' = ending
    BY <1>2 DEF PlannerAnswers, PlannerIsSilent, PlannerFinishes, InvalidCall, Spawn, BeginSearch,
       TavilyIsEmpty, BackendRetried, TavilyFails, StaysInSearch, historyVars
  <2>2. phase # "left"
    BY <1>2 DEF PlannerAnswers, PlannerIsSilent, PlannerFinishes, InvalidCall, Spawn, BeginSearch,
       TavilyIsEmpty, BackendRetried, TavilyFails, Asked, Decide, Searching
  <2> QED
    BY <2>1, <2>2, NoOutage DEF Inv, PlaceInv
<1>3. CASE ToolRefuses \/ ReadFile \/ ChildReported \/ SearchEnds
  <2>1. phase \in {"decide", "child", "search"} /\ ending = "none"
    BY <1>3 DEF ToolRefuses, ReadFile, ChildReported, SearchEnds, Decide, Searching, Inv, PlaceInv
  <2>2. ending' = ending
    BY <1>3, <2>1, Threw, RefusalIsNoOutage
       DEF ToolRefuses, ReadFile, ChildReported, SearchEnds, ToolAnswers, ToolThrows, ClassifyToolError
  <2> QED
    BY <2>1, <2>2, NoOutage
<1> QED
  BY <1>1, <1>2, <1>3, PlannerRetried, SearchRetried
     DEF Next, WorkerStep, ModelCall, Decision, Process, Search, Over

\* An outage that may pass ends an attempt only after every retry, for any number of retries.
THEOREM OutagesAlwaysRetried == Spec => []OutagesRetried
<1>1. Init => OutagesRetried
  BY DEF Init, OutagesRetried
<1>2. Inv /\ OutagesRetried /\ [Next]_vars => OutagesRetried'
  BY OutageStep
<1> QED
  BY <1>1, <1>2, Invariant, PTL DEF Spec

-----------------------------------------------------------------------------
(* No child is left. *)

ReportInv == phase # "child" /\ timedOut => lastStatus \in {"timed_out", "failed"}

LEMMA ReportStep == ASSUME Inv, ReportInv, [Next]_vars PROVE ReportInv'
<1>1. CASE Spawn
  BY <1>1 DEF Spawn, ReportInv
<1>2. CASE ChildReported
  <2>1. lastStatus' = ExitStatus /\ timedOut' = timedOut
    BY <1>2 DEF ChildReported
  <2>2. timedOut => ExitStatus \in {"timed_out", "failed"}
    BY <1>2 DEF ChildReported, ExitStatus
  <2> QED
    BY <2>1, <2>2 DEF ReportInv
<1>3. CASE ChildExits \/ TimerFires \/ ForceKillTimerFires
  <2>1. phase = "child" /\ phase' = "child"
    BY <1>3 DEF ChildExits, TimerFires, ForceKillTimerFires, ChildStep, Inv, ChildInv
  <2> QED
    BY <2>1 DEF ReportInv
<1>4. CASE UNCHANGED <<timedOut, lastStatus>> /\ (phase = "child" => phase' = "child")
  BY <1>4 DEF ReportInv
<1> QED
  BY <1>1, <1>2, <1>3, <1>4
     DEF Next, WorkerStep, ModelCall, Decision, Process, Search, Over, vars, Begin, AskPlanner,
     PlannerAnswers, PlannerIsSilent, PlannerFails, StepsExhausted, OrphanServed, PlannerFinishes,
     InvalidCall, ToolRefuses, ReadFile, BeginSearch, AskBackend, SearchEnds, TavilyIsEmpty,
     BackendRetried, TavilyFails, FallbackFails, Asked, Decide, Searching, SearchStep, childVars

\* When a call has resolved no child and no timer is left, and a child that was signalled is
\* not reported as completed.
THEOREM ChildrenReaped == Spec => []ChildAccountedFor
<1>1. Init => ReportInv
  BY DEF Init, ReportInv
<1>2. Inv /\ ReportInv /\ [Next]_vars => ReportInv'
  BY ReportStep
<1>3. Inv /\ ReportInv => ChildAccountedFor
  BY DEF Inv, ChildInv, ReportInv, ChildAccountedFor
<1> QED
  BY <1>1, <1>2, <1>3, Invariant, PTL DEF Spec

-----------------------------------------------------------------------------
(* What is known to be refused is not sent. *)

\* No binding makes the direct transport combine what an API refuses.
LEMMA RequestsWellFormed ==
    ASSUME NEW c \in CallShapes
    PROVE  ~Refuses(c, DirectRequest(c))
<1>1. c.thinking \in ThinkingModes /\ c.provider \in Providers
  BY DEF CallShapes
<1>2. CASE c.provider = "anthropic"
  <2>1. DirectRequest(c) = AnthropicRequest(c)
    BY <1>2 DEF DirectRequest
  <2> DEFINE thinking == IF c.thinking = "disabled" /\ AlwaysThinking(c) THEN "absent" ELSE c.thinking
  <2>2. /\ AnthropicRequest(c).thinking = thinking
        /\ AnthropicRequest(c).temperature = (c.temperature /\ ~Active(thinking) /\ ~FixedSampling(c))
    BY DEF AnthropicRequest
  <2> HIDE DEF thinking
  <2>3. ~(AnthropicRequest(c).temperature /\ (Active(AnthropicRequest(c).thinking) \/ FixedSampling(c)))
    BY <2>2
  <2>4. ~(AnthropicRequest(c).thinking = "disabled" /\ AlwaysThinking(c))
    BY <2>2 DEF thinking
  <2> QED
    BY <1>2, <2>1, <2>3, <2>4 DEF Refuses
<1>3. CASE c.provider = "openai"
  <2>1. DirectRequest(c) = OpenAiRequest(c)
    BY <1>3 DEF DirectRequest
  <2>2. /\ OpenAiRequest(c).format = (c.format /\ ~c.schema)
        /\ OpenAiRequest(c).schema = c.schema
    BY DEF OpenAiRequest
  <2> QED
    BY <1>3, <2>1, <2>2 DEF Refuses
<1>4. CASE c.provider = "deepseek"
  <2>1. DirectRequest(c) = DeepSeekRequest(c)
    BY <1>4 DEF DirectRequest
  <2>2. DeepSeekRequest(c).schema = FALSE /\ DeepSeekRequest(c).thinking # "adaptive"
    BY <1>1 DEF DeepSeekRequest, Coerced, ThinkingModes
  <2> QED
    BY <1>4, <2>1, <2>2 DEF Refuses
<1> QED
  BY <1>1, <1>2, <1>3, <1>4 DEF Providers

\* The second guard finds nothing the first one let pass, but paths.
LEMMA GuardsAgree ==
    ASSUME NEW tool \in ToolNames, NEW args \in CleanArgs(tool)
    PROVE  Refusal(tool, args) \in {"none", "execution"}
<1>1. PICK a \in ProposedArgs : Validated(kind, tool, a) /\ args = Sanitized(tool, a)
  BY DEF CleanArgs
<1>2. ValidArgs(tool, a) /\ args.confirm = FALSE /\ args.safe = ("command" \in a.fields => a.safe)
  BY <1>1 DEF Validated, Sanitized
<1>3. CASE tool \in {"find_files", "grep_code"}
  <2>1. args.fields = {"path", "pattern"}
    BY <1>1, <1>3 DEF Sanitized
  <2> QED
    BY <1>2, <1>3, <2>1 DEF Refusal, Given
<1>4. CASE tool = "ast_read"
  <2>1. args.fields = {"path"}
    BY <1>1, <1>4 DEF Sanitized
  <2> QED
    BY <1>2, <1>4, <2>1 DEF Refusal, Given
<1>5. CASE tool \in {"shell_exec", "run_tests"}
  <2>1. args.fields = {"command"}
    BY <1>1, <1>5 DEF Sanitized
  <2>2. args.safe
    BY <1>2, <1>5 DEF ValidArgs, Given
  <2> QED
    BY <1>2, <1>5, <2>1, <2>2 DEF Refusal, Given
<1>6. CASE tool = "web_lookup"
  <2>1. args.fields = {"query"}
    BY <1>1, <1>6 DEF Sanitized
  <2> QED
    BY <1>2, <1>6, <2>1 DEF Refusal, Given
<1> QED
  BY <1>3, <1>4, <1>5, <1>6 DEF ToolNames

-----------------------------------------------------------------------------
(* What a provider bills is what is counted. *)

LEMMA MinIs ==
    ASSUME NEW S, NEW x \in S, S \subseteq Int, \A y \in S : x <= y
    PROVE  Min(S) = x
<1>1. Min(S) \in S /\ Min(S) <= x
  BY DEF Min
<1>2. Min(S) \in Int /\ x \in Int /\ x <= Min(S)
  BY <1>1
<1> QED
  BY <1>1, <1>2

LEMMA FirstOfOne ==
    ASSUME NEW u, NEW a, NEW d
    PROVE  FirstOf(u, <<a>>, d) = IF a \in DOMAIN u THEN u[a] ELSE d
<1> DEFINE there == {i \in DOMAIN <<a>> : <<a>>[i] \in DOMAIN u}
<1>1. CASE a \in DOMAIN u
  <2>1. there = {1}
    BY <1>1
  <2>2. Min(there) = 1
    BY <2>1, MinOfOne
  <2> QED
    BY <1>1, <2>1, <2>2 DEF FirstOf
<1>2. CASE a \notin DOMAIN u
  <2>1. there = {}
    BY <1>2
  <2> QED
    BY <1>2, <2>1 DEF FirstOf
<1> QED
  BY <1>1, <1>2

LEMMA FirstOfTwo ==
    ASSUME NEW u, NEW a, NEW b, NEW d
    PROVE  FirstOf(u, <<a, b>>, d) =
              IF a \in DOMAIN u THEN u[a] ELSE IF b \in DOMAIN u THEN u[b] ELSE d
<1> DEFINE there == {i \in DOMAIN <<a, b>> : <<a, b>>[i] \in DOMAIN u}
<1>1. CASE a \in DOMAIN u
  <2>1. 1 \in there /\ there \subseteq {1, 2}
    BY <1>1
  <2>2. Min(there) = 1
    BY <2>1, MinIs
  <2> QED
    BY <1>1, <2>1, <2>2 DEF FirstOf
<1>2. CASE a \notin DOMAIN u /\ b \in DOMAIN u
  <2>1. there = {2}
    BY <1>2
  <2>2. Min(there) = 2
    BY <2>1, MinOfOne
  <2> QED
    BY <1>2, <2>1, <2>2 DEF FirstOf
<1>3. CASE a \notin DOMAIN u /\ b \notin DOMAIN u
  <2>1. there = {}
    BY <1>3
  <2> QED
    BY <1>3, <2>1 DEF FirstOf
<1> QED
  BY <1>1, <1>2, <1>3

LEMMA FirstOfThree ==
    ASSUME NEW u, NEW a, NEW b, NEW c, NEW d
    PROVE  FirstOf(u, <<a, b, c>>, d) =
              IF a \in DOMAIN u THEN u[a] ELSE IF b \in DOMAIN u THEN u[b]
              ELSE IF c \in DOMAIN u THEN u[c] ELSE d
<1> DEFINE there == {i \in DOMAIN <<a, b, c>> : <<a, b, c>>[i] \in DOMAIN u}
<1>1. CASE a \in DOMAIN u
  <2>1. 1 \in there /\ there \subseteq {1, 2, 3}
    BY <1>1
  <2>2. Min(there) = 1
    BY <2>1, MinIs
  <2> QED
    BY <1>1, <2>1, <2>2 DEF FirstOf
<1>2. CASE a \notin DOMAIN u /\ b \in DOMAIN u
  <2>1. 2 \in there /\ there \subseteq {2, 3}
    BY <1>2
  <2>2. Min(there) = 2
    BY <2>1, MinIs
  <2> QED
    BY <1>2, <2>1, <2>2 DEF FirstOf
<1>3. CASE a \notin DOMAIN u /\ b \notin DOMAIN u /\ c \in DOMAIN u
  <2>1. there = {3}
    BY <1>3
  <2>2. Min(there) = 3
    BY <2>1, MinOfOne
  <2> QED
    BY <1>3, <2>1, <2>2 DEF FirstOf
<1>4. CASE a \notin DOMAIN u /\ b \notin DOMAIN u /\ c \notin DOMAIN u
  <2>1. there = {}
    BY <1>4
  <2> QED
    BY <1>4, <2>1 DEF FirstOf
<1> QED
  BY <1>1, <1>2, <1>3, <1>4

TokenTypes == [miss : Nat, hit : Nat, write5m : Nat, write1h : Nat, out : Nat]

\* A price list as the program has them.
PriceTyped(price) ==
    /\ {"input", "hit", "output"} \subseteq DOMAIN price
    /\ \A field \in DOMAIN price : price[field] \in Nat
    /\ "miss" \in DOMAIN price => price["miss"] = price.input

\* The bill of a request without cache writes.
LEMMA PlainBill ==
    ASSUME NEW t \in TokenTypes, NEW price, PriceTyped(price), t.write5m = 0, t.write1h = 0
    PROVE  /\ Bill(t, price).tokens = t.miss + t.hit + t.out
           /\ Bill(t, price).input = t.miss + t.hit
           /\ Bill(t, price).cost =
                 t.miss * price.input + (IF t.hit = 0 THEN 0 ELSE t.hit * price.hit)
                 + t.out * price.output
           /\ Bill(t, price) = [tokens |-> Bill(t, price).tokens, input |-> Bill(t, price).input,
                                cost |-> Bill(t, price).cost]
  BY DEF Bill, TokenTypes, PriceTyped

LEMMA HitAndMissPrice ==
    ASSUME NEW price, PriceTyped(price)
    PROVE  /\ FirstOf(price, <<"hit", "input">>, 0) = price.hit
           /\ FirstOf(price, <<"miss", "input">>, 0) = price.input
  BY FirstOfTwo DEF PriceTyped

LEMMA AtLeast == ASSUME NEW n \in Nat PROVE AtLeast0(n) = n
  BY DEF AtLeast0

\* The chat-completions shape, with or without the details of the cache.
LEMMA ChatUsage ==
    ASSUME NEW t \in TokenTypes, NEW price, PriceTyped(price), t.write5m = 0, t.write1h = 0,
           NEW u,
           \/ u = OpenAiUsage(t)
           \/ /\ t.hit = 0
              /\ u = [prompt_tokens |-> t.miss, completion_tokens |-> t.out,
                      total_tokens |-> t.miss + t.out]
    PROVE  CalculateUsage(u, price) = Bill(t, price)
<1>1. /\ DOMAIN u \subseteq {"prompt_tokens", "completion_tokens", "total_tokens", "cached_tokens"}
      /\ {"prompt_tokens", "completion_tokens", "total_tokens"} \subseteq DOMAIN u
      /\ u["prompt_tokens"] = t.miss + t.hit /\ u["completion_tokens"] = t.out
      /\ u["total_tokens"] = t.miss + t.hit + t.out
      /\ "cached_tokens" \in DOMAIN u => u["cached_tokens"] = t.hit
      /\ "cached_tokens" \notin DOMAIN u => t.hit = 0
  BY DEF OpenAiUsage, TokenTypes
<1>2. /\ t.miss \in Nat /\ t.hit \in Nat /\ t.out \in Nat
      /\ price.input \in Nat /\ price.hit \in Nat /\ price.output \in Nat
  BY DEF TokenTypes, PriceTyped
<1>3. PromptTokens(u) = t.miss + t.hit /\ OutputTokens(u) = t.out
  BY <1>1, FirstOfTwo, FirstOfThree DEF PromptTokens, OutputTokens
<1>4. CachedTokens(u) = t.hit
  BY <1>1, FirstOfThree DEF CachedTokens, Hit
<1>5. ~Has(u, Hit) /\ ~Has(u, Miss)
  BY <1>1 DEF Has, Hit, Miss
<1>6. ~HasAnthropicCacheUsage(u)
  <2>1. Field(u, Write5m) = 0 /\ Field(u, Write1h) = 0 /\ Field(u, Flat) = 0
    BY <1>1, FirstOfOne DEF Field, Write5m, Write1h, Flat
  <2>2. CacheWrites(u) = 0
    BY <2>1 DEF CacheWrites, DetailedWrites
  <2> QED
    BY <1>1, <2>2 DEF HasAnthropicCacheUsage, Has
<1>7. InputTokens(u) = t.miss + t.hit /\ TotalTokens(u) = t.miss + t.hit + t.out
  BY <1>1, <1>3, <1>6, FirstOfOne DEF InputTokens, TotalTokens
<1>8. InputCost(u, price) = t.miss * price.input + (IF t.hit = 0 THEN 0 ELSE t.hit * price.hit)
  <2>1. InputCost(u, price) =
           IF t.hit > 0 THEN t.hit * price.hit + AtLeast0((t.miss + t.hit) - t.hit) * price.input
           ELSE (t.miss + t.hit) * price.input
    BY <1>3, <1>4, <1>5, <1>6, HitAndMissPrice DEF InputCost
  <2>2. (t.miss + t.hit) - t.hit = t.miss
    BY <1>2
  <2>3. AtLeast0(t.miss) = t.miss
    BY <1>2, AtLeast
  <2> QED
    BY <1>2, <2>1, <2>2, <2>3
<1> QED
  BY <1>2, <1>3, <1>7, <1>8, PlainBill DEF CalculateUsage

\* DeepSeek's own cache fields.
LEMMA DeepSeekUsage ==
    ASSUME NEW t \in TokenTypes, NEW price, PriceTyped(price), t.write5m = 0, t.write1h = 0,
           NEW u,
           u = [prompt_tokens |-> t.miss + t.hit, completion_tokens |-> t.out,
                total_tokens |-> t.miss + t.hit + t.out,
                prompt_cache_hit_tokens |-> t.hit, prompt_cache_miss_tokens |-> t.miss]
    PROVE  CalculateUsage(u, price) = Bill(t, price)
<1>1. /\ DOMAIN u = {"prompt_tokens", "completion_tokens", "total_tokens",
                     "prompt_cache_hit_tokens", "prompt_cache_miss_tokens"}
      /\ u["prompt_tokens"] = t.miss + t.hit /\ u["completion_tokens"] = t.out
      /\ u["total_tokens"] = t.miss + t.hit + t.out
      /\ u["prompt_cache_hit_tokens"] = t.hit /\ u["prompt_cache_miss_tokens"] = t.miss
  OBVIOUS
<1>2. /\ t.miss \in Nat /\ t.hit \in Nat /\ t.out \in Nat
      /\ price.input \in Nat /\ price.hit \in Nat /\ price.output \in Nat
  BY DEF TokenTypes, PriceTyped
<1>3. PromptTokens(u) = t.miss + t.hit /\ OutputTokens(u) = t.out
  BY <1>1, FirstOfTwo, FirstOfThree DEF PromptTokens, OutputTokens
<1>4. Has(u, Hit) /\ Field(u, Hit) = t.hit
  BY <1>1, FirstOfOne DEF Has, Field, Hit
<1>5. FirstOf(u, <<Miss>>, AtLeast0(PromptTokens(u) - Field(u, Hit))) = t.miss
  BY <1>1, FirstOfOne DEF Miss
<1>6. ~HasAnthropicCacheUsage(u)
  <2>1. Field(u, Write5m) = 0 /\ Field(u, Write1h) = 0 /\ Field(u, Flat) = 0
    BY <1>1, FirstOfOne DEF Field, Write5m, Write1h, Flat
  <2>2. CacheWrites(u) = 0
    BY <2>1 DEF CacheWrites, DetailedWrites
  <2> QED
    BY <1>1, <2>2 DEF HasAnthropicCacheUsage, Has
<1>7. InputTokens(u) = t.miss + t.hit /\ TotalTokens(u) = t.miss + t.hit + t.out
  BY <1>1, <1>3, <1>6, FirstOfOne DEF InputTokens, TotalTokens
<1>8. InputCost(u, price) = t.miss * price.input + (IF t.hit = 0 THEN 0 ELSE t.hit * price.hit)
  <2>1. InputCost(u, price) =
           t.hit * price.hit + t.miss * price.input
           + AtLeast0(((t.miss + t.hit) - t.hit) - t.miss) * price.input
    BY <1>3, <1>4, <1>5, HitAndMissPrice DEF InputCost
  <2>2. ((t.miss + t.hit) - t.hit) - t.miss = 0
    BY <1>2
  <2>3. AtLeast0(0) = 0
    BY AtLeast
  <2> QED
    BY <1>2, <2>1, <2>2, <2>3
<1> QED
  BY <1>2, <1>3, <1>7, <1>8, PlainBill DEF CalculateUsage

\* The Anthropic shape, whose input_tokens leave out what the cache served and took.
LEMMA AnthropicUsage ==
    ASSUME NEW t \in TokenTypes, NEW price, PriceTyped(price),
           {"write5m", "write1h"} \subseteq DOMAIN price,
           NEW u,
           u = [input_tokens |-> t.miss, output_tokens |-> t.out,
                cache_read_input_tokens |-> t.hit,
                cache_creation_input_tokens |-> t.write5m + t.write1h,
                ephemeral_5m_input_tokens |-> t.write5m, ephemeral_1h_input_tokens |-> t.write1h]
    PROVE  CalculateUsage(u, price) = Bill(t, price)
<1>1. /\ DOMAIN u = {"input_tokens", "output_tokens", "cache_read_input_tokens",
                     "cache_creation_input_tokens", "ephemeral_5m_input_tokens",
                     "ephemeral_1h_input_tokens"}
      /\ u["input_tokens"] = t.miss /\ u["output_tokens"] = t.out
      /\ u["cache_read_input_tokens"] = t.hit
      /\ u["cache_creation_input_tokens"] = t.write5m + t.write1h
      /\ u["ephemeral_5m_input_tokens"] = t.write5m /\ u["ephemeral_1h_input_tokens"] = t.write1h
  OBVIOUS
<1>2. /\ t.miss \in Nat /\ t.hit \in Nat /\ t.out \in Nat
      /\ t.write5m \in Nat /\ t.write1h \in Nat
      /\ price.input \in Nat /\ price.hit \in Nat /\ price.output \in Nat
      /\ price.write5m \in Nat /\ price.write1h \in Nat
  BY DEF TokenTypes, PriceTyped
<1>3. /\ OutputTokens(u) = t.out /\ CachedTokens(u) = t.hit
      /\ FirstOf(u, <<"input_tokens", "prompt_tokens">>, PromptTokens(u)) = t.miss
  BY <1>1, FirstOfTwo, FirstOfThree DEF OutputTokens, CachedTokens, Hit
<1>4. /\ Field(u, Write5m) = t.write5m /\ Field(u, Write1h) = t.write1h
      /\ Field(u, Flat) = t.write5m + t.write1h /\ Field(u, "total_tokens") = 0
  BY <1>1, FirstOfOne DEF Field, Write5m, Write1h, Flat
<1>5. DetailedWrites(u) = t.write5m + t.write1h /\ CacheWrites(u) = t.write5m + t.write1h
  BY <1>2, <1>4 DEF DetailedWrites, CacheWrites
<1>6. HasAnthropicCacheUsage(u) /\ ~Has(u, Hit) /\ ~Has(u, Miss)
  BY <1>1 DEF HasAnthropicCacheUsage, Has, Hit, Miss
<1>7. CacheMissTokens(u) = t.miss
  <2>1. ~RawInputIncludesCacheRead(u)
    BY <1>1 DEF RawInputIncludesCacheRead, Has
  <2> QED
    BY <1>1, <1>3, <1>6, <2>1, FirstOfOne DEF CacheMissTokens, Miss
<1>8. InputTokens(u) = t.miss + t.hit + t.write5m + t.write1h
  BY <1>2, <1>3, <1>5, <1>6, <1>7 DEF InputTokens
<1>9. TotalTokens(u) = t.miss + t.hit + t.write5m + t.write1h + t.out
  <2> DEFINE computed == t.miss + t.hit + t.write5m + t.write1h + t.out
  <2>1. computed \in Nat
    BY <1>2
  <2>2. TotalTokens(u) = Max({0, computed})
    BY <1>3, <1>4, <1>6, <1>8 DEF TotalTokens
  <2> HIDE DEF computed
  <2>3. Max({0, computed}) \in {0, computed} /\ 0 <= Max({0, computed}) /\ computed <= Max({0, computed})
    BY <2>1 DEF Max
  <2>4. Max({0, computed}) = computed
    BY <2>1, <2>3
  <2> QED
    BY <2>2, <2>4 DEF computed
<1>10. InputCost(u, price) =
          t.miss * price.input + t.hit * price.hit + t.write5m * price.write5m
          + t.write1h * price.write1h
  <2>1. /\ FirstOf(price, <<"write5m", "write", "input">>, 0) = price.write5m
        /\ FirstOf(price, <<"write1h", "write", "input">>, 0) = price.write1h
    BY FirstOfThree
  <2> DEFINE flat == FirstOf(price, <<"write", "write5m", "input">>, 0)
  <2>2. flat \in Nat
    BY FirstOfThree DEF PriceTyped
  <2> HIDE DEF flat
  <2>3. AtLeast0((t.write5m + t.write1h) - (t.write5m + t.write1h)) = 0
    BY <1>2, AtLeast
  <2>4. InputCost(u, price) =
           t.miss * price.input + t.hit * price.hit + t.write5m * price.write5m
           + t.write1h * price.write1h + 0 * flat
    BY <1>3, <1>4, <1>5, <1>6, <1>7, <2>1, <2>3, HitAndMissPrice DEF InputCost, flat
  <2> QED
    BY <1>2, <2>2, <2>4
<1> QED
  <2>1. /\ t.hit = 0 => t.hit * price.hit = 0
        /\ t.write5m = 0 => t.write5m * price.write5m = 0
        /\ t.write1h = 0 => t.write1h * price.write1h = 0
    BY <1>2
  <2>2. CalculateUsage(u, price).cost = Bill(t, price).cost
    BY <1>2, <1>3, <1>10, <2>1 DEF CalculateUsage, Bill
  <2> QED
    BY <1>8, <1>9, <2>2 DEF CalculateUsage, Bill

\* Whatever the transport, the provider and its cache, and whether the raw usage was kept.
LEMMA BilledAsReported ==
    ASSUME NEW c \in CallShapes, NEW t \in TokenCounts, NEW hasRaw \in BOOLEAN, Billable(c, t)
    PROVE  CalculateUsage(ExtractDirectUsage(c, t, hasRaw), Prices[c.provider])
              = Bill(t, Prices[c.provider])
<1> DEFINE price == Prices[c.provider]
           u == ExtractDirectUsage(c, t, hasRaw)
<1>1. /\ t \in TokenTypes /\ c.provider \in Providers /\ PriceTyped(price)
      /\ c.provider = "anthropic" => {"write5m", "write1h"} \subseteq DOMAIN price
  BY BillingAssumption DEF TokenTypes, CallShapes, PriceTyped
<1>2. CASE c.transport = "direct" /\ c.provider = "anthropic"
  <2>1. u = [input_tokens |-> t.miss, output_tokens |-> t.out,
             cache_read_input_tokens |-> t.hit,
             cache_creation_input_tokens |-> t.write5m + t.write1h,
             ephemeral_5m_input_tokens |-> t.write5m, ephemeral_1h_input_tokens |-> t.write1h]
    BY <1>2 DEF ExtractDirectUsage, Reported
  <2> HIDE DEF u, price
  <2>2. CalculateUsage(u, price) = Bill(t, price)
    BY <1>1, <1>2, <2>1, AnthropicUsage
  <2> QED
    BY <2>2 DEF u, price
<1>3. CASE c.transport = "direct" /\ c.provider = "deepseek"
  <2>1. u = [prompt_tokens |-> t.miss + t.hit, completion_tokens |-> t.out,
             total_tokens |-> t.miss + t.hit + t.out,
             prompt_cache_hit_tokens |-> t.hit, prompt_cache_miss_tokens |-> t.miss]
    BY <1>3 DEF ExtractDirectUsage, Reported
  <2>2. t.write5m = 0 /\ t.write1h = 0
    BY <1>3 DEF Billable
  <2> HIDE DEF u, price
  <2>3. CalculateUsage(u, price) = Bill(t, price)
    BY <1>1, <2>1, <2>2, DeepSeekUsage
  <2> QED
    BY <2>3 DEF u, price
<1>4. CASE c.transport # "direct" \/ c.provider = "openai"
  <2>1. \/ u = OpenAiUsage(t)
        \/ /\ t.hit = 0
           /\ u = [prompt_tokens |-> t.miss, completion_tokens |-> t.out,
                   total_tokens |-> t.miss + t.out]
    BY <1>1, <1>4 DEF ExtractDirectUsage, Reported, TokenTypes
  <2>2. t.write5m = 0 /\ t.write1h = 0
    BY <1>4 DEF Billable
  <2> HIDE DEF u, price
  <2>3. CalculateUsage(u, price) = Bill(t, price)
    BY <1>1, <2>1, <2>2, ChatUsage
  <2> QED
    BY <2>3 DEF u, price
<1> QED
  BY <1>1, <1>2, <1>3, <1>4 DEF Providers

\* Requests paid for so far; the running call may lose one per try.
LostInv ==
    /\ phase \in {"start", "plan"} => lost <= step * LlmMaxRetries + attempt
    /\ phase \in {"decide", "child", "search"} => lost <= (step + 1) * LlmMaxRetries
    /\ phase = "left" => lost <= (step + 1) * LlmMaxRetries + 1

BillInv ==
    /\ lastUsage = lastBill
    /\ counted <= billed /\ billed + orphans <= counted + lost
    /\ LostInv

\* The bound of LostInv grows by the retries of one call with every step.
LEMMA BoundGrows ==
    ASSUME Inv
    PROVE  /\ step * LlmMaxRetries \in Nat
           /\ (step + 1) * LlmMaxRetries = step * LlmMaxRetries + LlmMaxRetries
  BY CallLimits DEF Inv, TypeOK, WorkerTyped

\* Nothing is lost where a call has been answered.
LEMMA LostStays ==
    ASSUME Inv, LostInv, lost' = lost,
           \/ UNCHANGED <<phase, step>> /\ attempt' \in Nat /\ (phase \in {"start", "plan"} => attempt <= attempt')
           \/ phase \in {"decide", "child", "search"} /\ phase' = "plan" /\ step' = step + 1
              /\ attempt' \in Nat
           \/ step' = step /\ phase \in {"decide", "child", "search"}
              /\ phase' \in {"decide", "child", "search", "left"}
           \/ step' = step /\ phase = "plan" /\ phase' \in {"decide", "left"}
           \/ UNCHANGED <<step, attempt>> /\ phase = "start" /\ phase' = "plan"
    PROVE  LostInv'
<1>1. lost \in Nat /\ attempt \in Nat /\ LlmMaxRetries \in Nat
  BY CallLimits DEF Inv, TypeOK, TriesTyped
<1>2. phase = "plan" => attempt <= LlmMaxRetries
  BY DEF Inv, TriesInv
<1> DEFINE bound == step * LlmMaxRetries
           next == (step + 1) * LlmMaxRetries
<1>3. bound \in Nat /\ next = bound + LlmMaxRetries
  BY BoundGrows
<1>4. CASE step' = step
  <2>1. step' * LlmMaxRetries = bound /\ (step' + 1) * LlmMaxRetries = next
    BY <1>4
  <2> HIDE DEF bound, next
  <2> QED
    BY <1>1, <1>2, <1>3, <1>4, <2>1 DEF LostInv, bound, next
<1>5. CASE phase \in {"decide", "child", "search"} /\ phase' = "plan" /\ step' = step + 1
           /\ attempt' \in Nat
  <2>1. step' * LlmMaxRetries = next
    BY <1>5
  <2>2. lost <= next
    BY <1>5 DEF LostInv
  <2> HIDE DEF bound, next
  <2>3. PICK a \in Nat : attempt' = a
    BY <1>5
  <2>4. lost' <= next + attempt'
    BY <1>1, <1>3, <2>2, <2>3
  <2> QED
    BY <1>5, <2>1, <2>4 DEF LostInv
<1> QED
  BY <1>4, <1>5

\* A request that fails is one try, or the end.
LEMMA LostGrows ==
    ASSUME Inv, LostInv, phase = "plan", lost' = lost + 1, step' = step,
           \/ phase' = "plan" /\ attempt' = attempt + 1
           \/ phase' = "left"
    PROVE  LostInv'
<1>1. lost \in Nat /\ attempt \in Nat /\ LlmMaxRetries \in Nat /\ attempt <= LlmMaxRetries
  BY CallLimits DEF Inv, TypeOK, TriesTyped, TriesInv
<1> DEFINE bound == step * LlmMaxRetries
           next == (step + 1) * LlmMaxRetries
<1>2. bound \in Nat /\ next = bound + LlmMaxRetries
  BY BoundGrows
<1>3. step' * LlmMaxRetries = bound /\ (step' + 1) * LlmMaxRetries = next
  OBVIOUS
<1>4. lost <= bound + attempt
  BY DEF LostInv
<1> HIDE DEF bound, next
<1> QED
  BY <1>1, <1>2, <1>3, <1>4 DEF LostInv

BillsKept ==
    UNCHANGED <<orphans, billed, counted, lost>> /\ lastUsage' = lastBill'

LEMMA LostStep ==
    ASSUME Inv, LostInv, [Next]_vars
    PROVE  LostInv'
<1> USE DEF workerVars, requestVars, billVars
<1>1. CASE Begin \/ AskPlanner \/ StepsExhausted \/ OrphanServed \/ ChildExits \/ TimerFires
           \/ ForceKillTimerFires \/ AskBackend \/ UNCHANGED vars
  <2>1. CASE StepsExhausted
    <3>1. Leaves /\ phase = "plan" /\ lost' = lost
      BY <2>1, Finished DEF StepsExhausted
    <3> QED
      BY <3>1, LostStays DEF Leaves
  <2>2. CASE Begin
    BY <2>2, LostStays DEF Begin
  <2>3. CASE AskPlanner \/ OrphanServed \/ ChildExits \/ TimerFires \/ ForceKillTimerFires
             \/ AskBackend \/ UNCHANGED vars
    <3>1. UNCHANGED <<phase, step, attempt, lost>>
      BY <2>3 DEF AskPlanner, OrphanServed, ChildExits, TimerFires, ForceKillTimerFires, AskBackend,
         ChildStep, vars
    <3> QED
      BY <3>1, LostStays DEF Inv, TypeOK, TriesTyped
  <2> QED
    BY <1>1, <2>1, <2>2, <2>3
<1>2. CASE PlannerAnswers
  BY <1>2, LostStays DEF PlannerAnswers, Asked
<1>3. CASE PlannerIsSilent
  <2>1. Leaves
    BY <1>3, Left DEF PlannerIsSilent
  <2> QED
    BY <1>3, <2>1, LostGrows DEF PlannerIsSilent, Asked, Leaves
<1>4. CASE PlannerFails
  <2>1. PICK error : /\ RequestFails(error)
                     /\ \/ attempt' = attempt + 1 /\ UNCHANGED <<phase, workerVars>>
                        \/ Leave("ESCALATING", ClassifyText(error))
    BY <1>4 DEF PlannerFails
  <2>2. phase = "plan" /\ lost' = lost + 1
    BY <1>4, <2>1 DEF PlannerFails, Asked, RequestFails
  <2>3. \/ attempt' = attempt + 1 /\ UNCHANGED <<phase, step>>
        \/ Leaves
    BY <2>1, Left DEF ClassifyText
  <2> QED
    BY <2>2, <2>3, LostGrows DEF Leaves
<1>5. CASE PlannerFinishes
  <2>1. Leaves /\ phase = "decide" /\ lost' = lost
    BY <1>5, Finished DEF PlannerFinishes, Decide
  <2> QED
    BY <2>1, LostStays DEF Leaves
<1>6. CASE InvalidCall \/ ToolRefuses \/ ReadFile \/ ChildReported \/ SearchEnds \/ FallbackFails
  <2>1. phase \in {"decide", "child", "search"} /\ lost' = lost /\ phase # "left" /\ step < MaxReactSteps
    BY <1>6 DEF InvalidCall, ToolRefuses, ReadFile, ChildReported, SearchEnds, FallbackFails, Decide,
       Searching, SearchStep, Inv, PlaceInv
  <2>2. GoesOn \/ Leaves
    <3>1. CASE InvalidCall
      BY <2>1, <3>1, FailureCounted DEF InvalidCall, Inv
    <3>2. CASE ToolRefuses \/ ReadFile \/ FallbackFails
      BY <2>1, <3>2, Threw, Answered DEF ToolRefuses, ReadFile, FallbackFails, Accepts, InProcess,
         ToolNames, CallEnds
    <3>3. CASE ChildReported \/ SearchEnds
      <4>1. alias \in ToolNames
        BY <3>3 DEF ChildReported, SearchEnds, Searching, Inv, TypeOK, WorkerTyped, AllowedAliases,
           Catalog, InProcess, ByChild, OverGateway, ToolNames
      <4> QED
        BY <2>1, <3>3, <4>1, Answered DEF ChildReported, SearchEnds, CallEnds
    <3> QED
      BY <1>6, <3>1, <3>2, <3>3
  <2>3. attempt' \in Nat
    BY StepKeeps DEF Inv, TypeOK, TriesTyped
  <2> QED
    BY <2>1, <2>2, <2>3, LostStays DEF GoesOn, Leaves
<1>7. CASE Spawn \/ BeginSearch
  BY <1>7, LostStays DEF Spawn, BeginSearch, Decide
<1>8. CASE TavilyIsEmpty \/ BackendRetried \/ TavilyFails
  <2>1. phase = "search" /\ UNCHANGED <<phase, step, lost>>
    BY <1>8 DEF TavilyIsEmpty, BackendRetried, TavilyFails, Searching, SearchStep, StaysInSearch
  <2> QED
    BY <2>1, LostStays
<1> QED
  BY <1>1, <1>2, <1>3, <1>4, <1>5, <1>6, <1>7, <1>8
     DEF Next, WorkerStep, ModelCall, Decision, Process, Search, Over

LEMMA BillStep ==
    ASSUME Inv, BillInv, [Next]_vars
    PROVE  BillInv'
<1> USE DEF billVars
<1>1. orphans \in Nat /\ billed \in Nat /\ counted \in Nat /\ lost \in Nat
  BY DEF Inv, TypeOK, TriesTyped
<1>2. LostInv'
  BY LostStep DEF BillInv
<1>3. CASE PlannerAnswers
  <2>1. lastUsage' = lastBill'
    BY <1>3, BilledAsReported, CallsAssumption DEF PlannerAnswers, Inv, TypeOK, WorkerTyped
  <2>2. billed' = billed + 1 /\ counted' = counted + 1 /\ UNCHANGED <<orphans, lost>>
    BY <1>3 DEF PlannerAnswers
  <2> QED
    BY <1>1, <1>2, <2>1, <2>2 DEF BillInv
<1>4. CASE PlannerIsSilent
  BY <1>1, <1>2, <1>4 DEF PlannerIsSilent, BillInv
<1>5. CASE PlannerFails
  <2>1. /\ lost' = lost + 1 /\ orphans' \in {orphans, orphans + 1}
        /\ UNCHANGED <<billed, counted, lastBill, lastUsage>>
    BY <1>5 DEF PlannerFails, RequestFails
  <2>2. counted <= billed /\ billed + orphans <= counted + lost /\ lastUsage = lastBill
    BY DEF BillInv
  <2>3. billed' + orphans' <= counted' + lost'
    <3>1. CASE orphans' = orphans
      BY <1>1, <2>1, <2>2, <3>1
    <3>2. CASE orphans' = orphans + 1
      BY <1>1, <2>1, <2>2, <3>2
    <3> QED
      BY <2>1, <3>1, <3>2
  <2> QED
    BY <1>2, <2>1, <2>2, <2>3 DEF BillInv
<1>6. CASE OrphanServed
  <2>1. /\ orphans' = orphans - 1 /\ billed' \in {billed, billed + 1}
        /\ UNCHANGED <<lost, counted, lastBill, lastUsage>>
    BY <1>6 DEF OrphanServed
  <2>2. counted <= billed /\ billed + orphans <= counted + lost /\ lastUsage = lastBill
    BY DEF BillInv
  <2>3. billed' + orphans' <= counted' + lost' /\ counted' <= billed'
    <3>1. CASE billed' = billed
      BY <1>1, <2>1, <2>2, <3>1
    <3>2. CASE billed' = billed + 1
      BY <1>1, <2>1, <2>2, <3>2
    <3> QED
      BY <2>1, <3>1, <3>2
  <2> QED
    BY <1>2, <2>1, <2>2, <2>3 DEF BillInv
<1>7. CASE BillsKept
  BY <1>2, <1>7 DEF BillsKept, BillInv
<1>8. CASE Decide \/ UNCHANGED billVars
  BY <1>7, <1>8 DEF Decide, BillsKept, BillInv
<1> QED
  BY <1>3, <1>4, <1>5, <1>6, <1>8
     DEF Next, WorkerStep, ModelCall, Decision, Process, Search, Over, vars, Begin, AskPlanner,
     StepsExhausted, PlannerFinishes, InvalidCall, ToolRefuses, ReadFile, Spawn, BeginSearch,
     AskBackend, SearchEnds, TavilyIsEmpty, BackendRetried, TavilyFails, FallbackFails, SearchStep,
     ChildExits, TimerFires, ForceKillTimerFires, ChildReported, ChildStep

\* What is counted is what was billed, for every price list; the rest belongs to failed
\* requests, of which there are at most the retries of every step and one.
THEOREM BillsAlwaysAccounted == Spec => []BillsAccounted
<1>1. Init => BillInv
  BY CallLimits DEF Init, BillInv, LostInv
<1>2. Inv /\ BillInv /\ [Next]_vars => BillInv'
  BY BillStep
<1>3. Inv /\ BillInv => BillsAccounted
  <2> SUFFICES ASSUME Inv, BillInv PROVE BillsAccounted
    OBVIOUS
  <2>1. /\ lost \in Nat /\ attempt \in Nat /\ LlmMaxRetries \in Nat
        /\ phase \in {"start", "plan", "decide", "child", "search", "left"}
        /\ phase = "plan" => attempt <= LlmMaxRetries
        /\ phase = "start" => attempt = 0
    BY CallLimits DEF Inv, TypeOK, WorkerTyped, TriesTyped, TriesInv
  <2> DEFINE bound == step * LlmMaxRetries
             next == (step + 1) * LlmMaxRetries
  <2>2. bound \in Nat /\ next = bound + LlmMaxRetries
    BY BoundGrows
  <2>3. /\ phase \in {"start", "plan"} => lost <= bound + attempt
        /\ phase \in {"decide", "child", "search"} => lost <= next
        /\ phase = "left" => lost <= next + 1
    BY DEF BillInv, LostInv
  <2> HIDE DEF bound, next
  <2>4. lost <= next + 1
    BY <2>1, <2>2, <2>3
  <2> QED
    BY <2>4 DEF BillsAccounted, BillInv, next
<1> QED
  BY <1>1, <1>2, <1>3, Invariant, PTL DEF Spec

-----------------------------------------------------------------------------
(* What is turned down fails fast. *)

RefusedInv ==
    /\ refused => /\ phase = "left" /\ result = [status |-> "ESCALATING", type |-> "reasoning"]
                  /\ billed + orphans < counted + lost
    /\ lastRefusal \notin {"validation", "policy"}

LEMMA NeverMalformed == ASSUME Inv PROVE ~Malformed
  BY RequestsWellFormed, CallsAssumption DEF Malformed, Request, Inv, TypeOK, WorkerTyped

\* A 400 is neither transient nor does its text name an environment problem.
LEMMA MalformedEnds == ~IsTransient(MalformedRequest) /\ ClassifyText(MalformedRequest) = "reasoning"
<1>1. ~IsTransient(MalformedRequest)
  BY HttpDecides DEF MalformedRequest
<1> QED
  BY <1>1 DEF ClassifyText, MalformedRequest

\* The first request that is turned down is the last, and counts as a failed one.
LEMMA RefusalEnds ==
    ASSUME Inv, BillInv, PlannerFails, ~refused, refused'
    PROVE  /\ phase' = "left" /\ result' = [status |-> "ESCALATING", type |-> "reasoning"]
           /\ billed' + orphans' < counted' + lost'
<1>1. /\ RequestFails(MalformedRequest)
      /\ ~Retried(MalformedRequest) => Leave("ESCALATING", ClassifyText(MalformedRequest))
  BY DEF PlannerFails
<1>2. phase' = "left" /\ result' = [status |-> "ESCALATING", type |-> "reasoning"]
  BY <1>1, MalformedEnds DEF Retried, Leave
<1>3. orphans' = orphans /\ lost' = lost + 1 /\ billed' = billed /\ counted' = counted
  BY <1>1 DEF RequestFails, MalformedRequest
<1>4. /\ billed \in Nat /\ orphans \in Nat /\ counted \in Nat /\ lost \in Nat
      /\ billed + orphans <= counted + lost
  BY DEF Inv, TypeOK, TriesTyped, BillInv
<1>5. billed + orphans < counted + (lost + 1)
  BY ONLY <1>4
<1> QED
  BY <1>2, <1>3, <1>5

\* Where an attempt is over only the services move.
LEMMA LeftRests ==
    ASSUME Inv, phase = "left", [Next]_vars
    PROVE  OrphanServed \/ UNCHANGED vars
<1>1. child = "none" /\ ~timer /\ ~forceKillTimer
  BY DEF Inv, ChildInv
<1>2. ~ChildExits /\ ~TimerFires /\ ~ForceKillTimerFires /\ ~ChildReported
  BY <1>1 DEF ChildExits, TimerFires, ForceKillTimerFires, ChildReported
<1>3. ~Begin /\ ~ModelCall /\ ~StepsExhausted /\ ~Decision /\ ~Search
  BY DEF Begin, ModelCall, AskPlanner, PlannerAnswers, PlannerIsSilent, PlannerFails, Asked,
     StepsExhausted, Decision, PlannerFinishes, InvalidCall, ToolRefuses, ReadFile, Spawn,
     BeginSearch, Decide, Search, AskBackend, SearchEnds, TavilyIsEmpty, BackendRetried, TavilyFails,
     FallbackFails, Searching
<1> QED
  BY <1>2, <1>3 DEF Next, WorkerStep, Process, Over

LEMMA RefusedStep == ASSUME Inv, BillInv, RefusedInv, [Next]_vars PROVE RefusedInv'
<1>1. lastRefusal' \notin {"validation", "policy"} /\ (refused' = refused \/ PlannerFails)
  <2>1. CASE ToolRefuses
    <3>1. PICK tool \in ToolNames : \E args \in CleanArgs(tool) : lastRefusal' = Refusal(tool, args)
      BY <2>1 DEF ToolRefuses
    <3>2. refused' = refused
      BY <2>1 DEF ToolRefuses, Decide
    <3> QED
      BY <3>1, <3>2, GuardsAgree DEF RefusedInv
  <2>2. CASE PlannerFails
    BY <2>2 DEF PlannerFails, RefusedInv
  <2>3. CASE UNCHANGED <<refused, lastRefusal>>
    BY <2>3 DEF RefusedInv
  <2> QED
    BY <2>1, <2>2, <2>3
       DEF Next, WorkerStep, ModelCall, Decision, Process, Search, Over, vars, historyVars, Begin,
       AskPlanner, PlannerAnswers, PlannerIsSilent, StepsExhausted, OrphanServed, PlannerFinishes,
       InvalidCall, ReadFile, Spawn, BeginSearch, AskBackend, SearchEnds, TavilyIsEmpty, BackendRetried,
       TavilyFails, FallbackFails, Decide, SearchStep, StaysInSearch, ChildExits, TimerFires,
       ForceKillTimerFires, ChildReported, ChildStep
<1>2. CASE ~refused
  BY <1>1, <1>2, RefusalEnds DEF RefusedInv
<1>3. CASE refused /\ UNCHANGED vars
  BY <1>1, <1>3 DEF RefusedInv, vars, billVars
<1>4. CASE refused /\ OrphanServed
  <2>1. /\ orphans' = orphans - 1 /\ billed' \in {billed, billed + 1}
        /\ UNCHANGED <<phase, result, lost, counted>>
    BY <1>4 DEF OrphanServed
  <2>2. /\ billed \in Nat /\ orphans \in Nat /\ counted \in Nat /\ lost \in Nat
        /\ billed + orphans < counted + lost
    BY <1>4 DEF Inv, TypeOK, TriesTyped, RefusedInv
  <2>3. billed + (orphans - 1) < counted + lost /\ billed + 1 + (orphans - 1) < counted + lost
    BY ONLY <2>2
  <2>4. billed' + orphans' < counted' + lost'
    BY <2>1, <2>3
  <2> QED
    BY <1>1, <1>4, <2>1, <2>4 DEF RefusedInv
<1> QED
  BY <1>2, <1>3, <1>4, LeftRests DEF RefusedInv

\* Whatever a profile binds and whatever the API thinks of it, a request that is turned down is
\* the last of its attempt, and no bill of the service belongs to it; what is known to be refused
\* is not sent, and no tool call that passed the registry is turned down by its tool.
THEOREM RefusalsAlwaysFailFast == Spec => []RefusalsFailFast
<1>1. Init => BillInv /\ RefusedInv
  BY CallLimits DEF Init, BillInv, LostInv, RefusedInv
<1>2. Inv /\ BillInv /\ RefusedInv /\ [Next]_vars => BillInv' /\ RefusedInv'
  BY BillStep, RefusedStep
<1>3. Inv /\ RefusedInv => RefusalsFailFast
  <2> SUFFICES ASSUME Inv, RefusedInv PROVE RefusalsFailFast
    OBVIOUS
  <2> DEFINE structured == [call EXCEPT !.schema = TRUE]
  <2>1. structured \in CallShapes
    BY CallsAssumption DEF Inv, TypeOK, WorkerTyped, CallShapes
  <2> QED
    BY <2>1, RequestsWellFormed, NeverMalformed DEF RefusalsFailFast, RefusedInv
<1> QED
  BY <1>1, <1>2, <1>3, Invariant, PTL DEF Spec

-----------------------------------------------------------------------------
(* An attempt is a course of SwarmGraph's worker. *)

SwarmUnmoved ==
    /\ Swarm!vars' = Swarm!vars

Running == phase \in {"plan", "decide", "child", "search"}

\* What SwarmGraph sees of a running attempt.
LEMMA RunningMap ==
    ASSUME Inv, Running
    PROVE  Swarm!At("worker") /\ ~Ended /\ result = [status |-> "WORKING", type |-> "none"]
  BY DEF Inv, PlaceInv, Running, Ended, Swarm!At

\* Steps between two decisions change nothing of it.
LEMMA Unseen ==
    ASSUME Inv, Running, Running', UNCHANGED <<result, workerVars, planned, sentKeys>>
    PROVE  SwarmUnmoved
  BY DEF Inv, PlaceInv, Running, Ended, SwarmUnmoved, workerVars, Swarm!vars, Swarm!driverVars,
     Swarm!countVars, Swarm!resultVars, Swarm!workerVars, Swarm!historyVars

\* The end of an attempt is the update of the worker node.
LEMMA EndMap ==
    ASSUME Inv, Running, phase' = "left", artifacts' = artifacts,
           NEW st \in {"DONE", "ESCALATING"}, NEW type \in {"none", "reasoning", "environment"},
           [status |-> st, type |-> type] \in Outcomes, result' = [status |-> st, type |-> type]
    PROVE  Swarm!LeaveWorker(st, type)
<1>1. ~Ended /\ Ended' /\ result = [status |-> "WORKING", type |-> "none"]
  BY RunningMap DEF Ended
<1>2. (st = "DONE" /\ type = "none") \/ (st = "ESCALATING" /\ type \in {"reasoning", "environment"})
  BY DEF Outcomes
<1> QED
  BY <1>1, <1>2 DEF Swarm!LeaveWorker, Swarm!IndexKeys, Swarm!RouteAfterWorker, Swarm!driverVars

LEMMA LeaveMap ==
    ASSUME Inv, Running, NEW type \in {"reasoning", "environment"}, Leave("ESCALATING", type)
    PROVE  Swarm!Escalate(type) /\ UNCHANGED Swarm!workerVars
<1>1. /\ phase' = "left" /\ result' = [status |-> "ESCALATING", type |-> type]
      /\ UNCHANGED <<step, toolFailures, successfulToolCalls, artifacts>>
  BY DEF Leave
<1>2. Swarm!LeaveWorker("ESCALATING", type)
  BY <1>1, EndMap DEF Outcomes
<1> QED
  BY <1>1, <1>2 DEF Swarm!Escalate, Swarm!workerVars

LEMMA FinishMap ==
    ASSUME Inv, Running, NEW text \in BOOLEAN, Finish(text)
    PROVE  Swarm!Finish(text) /\ UNCHANGED Swarm!workerVars
<1>1. CASE text \/ successfulToolCalls > 0
  <2>1. /\ phase' = "left" /\ result' = [status |-> "DONE", type |-> "none"]
        /\ UNCHANGED <<step, toolFailures, successfulToolCalls, artifacts>>
    BY <1>1 DEF Finish, Leave
  <2>2. Swarm!LeaveWorker("DONE", "none")
    BY <2>1, EndMap DEF Outcomes
  <2>3. result.type = "none" /\ result'.type = "none"
    BY <2>1, RunningMap
  <2> QED
    BY <1>1, <2>1, <2>2, <2>3 DEF Swarm!Finish, Swarm!workerVars
<1>2. CASE ~(text \/ successfulToolCalls > 0)
  <2>1. Leave("ESCALATING", "reasoning")
    BY <1>2 DEF Finish
  <2> QED
    BY <1>2, <2>1, LeaveMap DEF Swarm!Finish
<1> QED
  BY <1>1, <1>2

LEMMA ContinueMap ==
    ASSUME Inv, Running, GoesOn
    PROVE  Swarm!Continue
<1>1. result = [status |-> "WORKING", type |-> "none"] /\ result' = result /\ ~Ended /\ ~Ended'
      /\ phase # "start" /\ phase' # "start" /\ step' = step + 1
  BY RunningMap DEF GoesOn, Running, Ended
<1> QED
  BY <1>1 DEF Swarm!Continue, Swarm!driverVars, Swarm!countVars, Swarm!resultVars

LEMMA FailureMap ==
    ASSUME Inv, Running, CountFailure
    PROVE  Swarm!CountFailure
<1>1. /\ toolFailures \in Nat /\ toolFailures' = toolFailures + 1
      /\ UNCHANGED <<successfulToolCalls, artifacts>>
  BY FailureCounted, CallLimits DEF Inv, Running, TypeOK, WorkerTyped
<1>2. CASE toolFailures + 1 >= MaxReactToolFailures
  <2>1. phase' = "left" /\ result' = [status |-> "ESCALATING", type |-> "reasoning"] /\ step' = step
    BY <1>2 DEF CountFailure
  <2>2. Swarm!LeaveWorker("ESCALATING", "reasoning")
    BY <1>1, <2>1, EndMap DEF Outcomes
  <2> QED
    BY <1>1, <1>2, <2>1, <2>2 DEF Swarm!CountFailure, Swarm!Escalate
<1>3. CASE ~(toolFailures + 1 >= MaxReactToolFailures)
  <2>1. GoesOn
    BY <1>3 DEF CountFailure, NextStep, GoesOn
  <2> QED
    BY <1>1, <1>3, <2>1, ContinueMap DEF Swarm!CountFailure
<1> QED
  BY <1>2, <1>3

\* What SwarmGraph's worker does with a planner's decision that is sent.
LEMMA SendMap ==
    ASSUME Inv, Running, step < MaxReactSteps, Planned, Sent
    PROVE  Swarm!Planning /\ Swarm!Planned /\ Swarm!Send
<1>1. Swarm!At("worker") /\ ~Ended
  BY RunningMap
<1> QED
  BY <1>1 DEF Swarm!Planning, Swarm!Planned, Swarm!Send, Swarm!Key, Planned, Sent

LEMMA ThrowMap ==
    ASSUME Inv, Running, step < MaxReactSteps, NEW error, ToolThrows(error)
    PROVE  Swarm!WorkerStep
<1>1. Swarm!Planning /\ Swarm!Planned /\ Swarm!Send
  BY SendMap DEF ToolThrows
<1>2. CASE ClassifyToolError(error) = "environment"
  <2>1. Leave("ESCALATING", "environment")
    BY <1>2 DEF ToolThrows
  <2> QED
    BY <1>1, <2>1, LeaveMap DEF Swarm!WorkerStep, Swarm!ToolUnavailable
<1>3. CASE ClassifyToolError(error) # "environment"
  <2>1. CountFailure
    BY <1>3 DEF ToolThrows
  <2> QED
    BY <1>1, <2>1, FailureMap DEF Swarm!WorkerStep, Swarm!ToolThrows
<1> QED
  BY <1>2, <1>3

LEMMA AnswerMap ==
    ASSUME Inv, Running, step < MaxReactSteps, NEW tool \in ToolNames, ToolAnswers(tool)
    PROVE  Swarm!WorkerStep
<1>1. Swarm!Planning /\ Swarm!Planned /\ Swarm!Send
  BY SendMap DEF ToolAnswers
<1>2. CASE CountFailure
  BY <1>1, <1>2, FailureMap DEF Swarm!WorkerStep, Swarm!ToolThrows
<1>3. CASE Leave("ESCALATING", "environment")
  BY <1>1, <1>3, LeaveMap DEF Swarm!WorkerStep, Swarm!ToolUnavailable
<1>4. CASE /\ artifacts' = artifacts \cup {<<tool, step>>}
           /\ successfulToolCalls' = successfulToolCalls + 1
           /\ NextStep /\ UNCHANGED toolFailures
  <2>1. GoesOn
    BY <1>4 DEF NextStep, GoesOn
  <2>2. Swarm!Continue
    BY <2>1, ContinueMap
  <2>3. step \in 0..(MaxReactSteps - 1) /\ ~Ended
    BY RunningMap, CallLimits DEF Inv, TypeOK, WorkerTyped
  <2> DEFINE keys == ToolNames \X (0..(MaxReactSteps - 1))
             index(set) == [k \in keys |-> IF k \in set THEN 1 ELSE 0]
  <2>4. <<tool, step>> \in keys
    BY <2>3
  <2>5. index(artifacts') = [index(artifacts) EXCEPT ![<<tool, step>>] = 1]
    BY <1>4, <2>4
  <2>6. (IF Ended THEN 1 ELSE 0) + 1 = 1
    BY <2>3
  <2>7. index(artifacts') =
           [index(artifacts) EXCEPT ![<<tool, step>>] = (IF Ended THEN 1 ELSE 0) + 1]
    BY <2>5, <2>6
  <2>8. \E called \in ToolNames :
           index(artifacts') =
              [index(artifacts) EXCEPT ![<<called, step>>] = (IF Ended THEN 1 ELSE 0) + 1]
    BY <2>7
  <2>9. Swarm!ToolAnswers
    BY <1>1, <1>4, <2>2, <2>8 DEF Swarm!ToolAnswers
  <2> QED
    BY <2>9 DEF Swarm!WorkerStep
<1> QED
  BY <1>2, <1>3, <1>4 DEF ToolAnswers

LEMMA SwarmInit == Init => Swarm!Init
  BY DEF Init, Swarm!Init, Swarm!NoArtifacts, Swarm!IndexKeys, Ended

LEMMA BeginMap == ASSUME Inv, Begin PROVE Swarm!LeadDelegator
<1>1. /\ phase = "start" /\ phase' = "plan" /\ result = [status |-> "WORKING", type |-> "none"]
      /\ UNCHANGED <<result, workerVars, planned, sentKeys>>
  BY DEF Begin, historyVars, Inv, PlaceInv
<1> QED
  BY <1>1 DEF Swarm!LeadDelegator, Swarm!At, Ended, workerVars, Swarm!driverVars, Swarm!countVars,
     Swarm!resultVars, Swarm!workerVars, Swarm!historyVars

LEMMA SwarmStep ==
    ASSUME Inv, [Next]_vars
    PROVE  [Swarm!Next]_(Swarm!vars)
<1> USE DEF Running
<1>1. CASE Begin
  BY <1>1, BeginMap DEF Swarm!Next, Swarm!SystemStep
<1>2. CASE AskPlanner \/ PlannerAnswers \/ Spawn \/ BeginSearch \/ AskBackend \/ TavilyIsEmpty
           \/ BackendRetried \/ TavilyFails \/ ChildExits \/ TimerFires \/ ForceKillTimerFires
  <2>1. Running /\ Running' /\ UNCHANGED <<result, workerVars, planned, sentKeys>>
    BY <1>2 DEF AskPlanner, PlannerAnswers, Spawn, BeginSearch, AskBackend, TavilyIsEmpty,
       BackendRetried, TavilyFails, ChildExits, TimerFires, ForceKillTimerFires, ChildStep, Asked,
       Decide, Searching, StaysInSearch, historyVars, Inv, ChildInv
  <2> QED
    BY <2>1, Unseen DEF SwarmUnmoved
<1>3. CASE OrphanServed \/ UNCHANGED vars
  <2>1. UNCHANGED <<phase, result, workerVars, planned, sentKeys>>
    BY <1>3 DEF OrphanServed, vars, historyVars
  <2> QED
    BY <2>1 DEF workerVars, Ended, Swarm!vars, Swarm!driverVars, Swarm!countVars, Swarm!resultVars,
       Swarm!workerVars, Swarm!historyVars
<1>4. CASE PlannerIsSilent
  <2>1. /\ Running /\ step < MaxReactSteps /\ Leave("ESCALATING", "reasoning") /\ Planned
        /\ sentKeys' = sentKeys
    BY <1>4 DEF PlannerIsSilent, Asked, Inv, PlaceInv
  <2>2. Swarm!PlannerFails
    BY <2>1, RunningMap, LeaveMap DEF Swarm!PlannerFails, Swarm!Planning, Swarm!Planned, Planned,
       Swarm!Failures
  <2> QED
    BY <2>2 DEF Swarm!Next, Swarm!SystemStep, Swarm!WorkerStep
<1>5. CASE PlannerFails
  <2>1. Running /\ step < MaxReactSteps /\ sentKeys' = sentKeys
    BY <1>5 DEF PlannerFails, Asked, Inv, PlaceInv
  <2>2. PICK error : \/ UNCHANGED <<phase, workerVars, result, planned>>
                     \/ Leave("ESCALATING", ClassifyText(error)) /\ Planned
    BY <1>5 DEF PlannerFails
  <2>3. CASE UNCHANGED <<phase, workerVars, result, planned>>
    BY <2>1, <2>3, Unseen DEF SwarmUnmoved
  <2>4. CASE Leave("ESCALATING", ClassifyText(error)) /\ Planned
    <3>1. ClassifyText(error) \in {"reasoning", "environment"}
      BY DEF ClassifyText
    <3>2. Swarm!PlannerFails
      BY <2>1, <2>4, <3>1, RunningMap, LeaveMap DEF Swarm!PlannerFails, Swarm!Planning, Swarm!Planned,
         Planned, Swarm!Failures
    <3> QED
      BY <3>2 DEF Swarm!Next, Swarm!SystemStep, Swarm!WorkerStep
  <2> QED
    BY <2>2, <2>3, <2>4
<1>6. CASE StepsExhausted
  <2>1. /\ Running /\ step >= MaxReactSteps /\ Finish(FALSE)
        /\ UNCHANGED <<planned, sentKeys>>
    BY <1>6 DEF StepsExhausted, historyVars
  <2>2. Swarm!StepsExhausted
    BY <2>1, RunningMap, FinishMap DEF Swarm!StepsExhausted
  <2> QED
    BY <2>2 DEF Swarm!Next, Swarm!SystemStep, Swarm!WorkerStep
<1>7. CASE PlannerFinishes
  <2>1. /\ Running /\ step < MaxReactSteps /\ Planned /\ sentKeys' = sentKeys
        /\ \E text \in BOOLEAN : Finish(text)
    BY <1>7 DEF PlannerFinishes, Decide, Inv, PlaceInv
  <2>2. Swarm!PlannerFinishes
    BY <2>1, RunningMap, FinishMap DEF Swarm!PlannerFinishes, Swarm!Planning, Swarm!Planned, Planned
  <2> QED
    BY <2>2 DEF Swarm!Next, Swarm!SystemStep, Swarm!WorkerStep
<1>8. CASE InvalidCall
  <2>1. Running /\ step < MaxReactSteps /\ Planned /\ CountFailure /\ sentKeys' = sentKeys
    BY <1>8 DEF InvalidCall, Decide, Inv, PlaceInv
  <2>2. Swarm!InvalidCall
    BY <2>1, RunningMap, FailureMap DEF Swarm!InvalidCall, Swarm!Planning, Swarm!Planned, Planned
  <2> QED
    BY <2>2 DEF Swarm!Next, Swarm!SystemStep, Swarm!WorkerStep
<1>9. CASE ToolRefuses \/ ReadFile \/ FallbackFails
  <2>1. Running /\ step < MaxReactSteps
    BY <1>9 DEF ToolRefuses, ReadFile, FallbackFails, Decide, Searching, Inv, PlaceInv
  <2>2. \/ \E error : ToolThrows(error)
        \/ \E tool \in ToolNames : ToolAnswers(tool)
    BY <1>9 DEF ToolRefuses, ReadFile, FallbackFails, Accepts, InProcess, ToolNames
  <2>3. Swarm!WorkerStep
    BY <2>1, <2>2, ThrowMap, AnswerMap
  <2> QED
    BY <2>3 DEF Swarm!Next, Swarm!SystemStep
<1>10. CASE ChildReported \/ SearchEnds
  <2>1. Running /\ step < MaxReactSteps /\ ToolAnswers(alias)
    BY <1>10 DEF ChildReported, SearchEnds, Searching, Inv, PlaceInv
  <2>2. alias \in ToolNames
    BY <1>10 DEF ChildReported, SearchEnds, Searching, Inv, TypeOK, WorkerTyped, AllowedAliases, Catalog,
       InProcess, ByChild, OverGateway, ToolNames
  <2>3. Swarm!WorkerStep
    BY <2>1, <2>2, AnswerMap
  <2> QED
    BY <2>3 DEF Swarm!Next, Swarm!SystemStep
<1> QED
  BY <1>1, <1>2, <1>3, <1>4, <1>5, <1>6, <1>7, <1>8, <1>9, <1>10
     DEF Next, WorkerStep, ModelCall, Decision, Process, Search, Over

\* Call by call an attempt does what SwarmGraph lets its worker do, for any number of steps,
\* failures and retries.
THEOREM AttemptsImplemented == Spec => ImplementsSwarmWorker
  BY SwarmInit, SwarmStep, Invariant, PTL DEF Spec, ImplementsSwarmWorker, Swarm!Spec

-----------------------------------------------------------------------------
(* An attempt is finite. *)

\* What StepsToEnd is at each place, as equations.
ToEnd ==
    /\ phase = "start" => StepsToEnd = StepCost + 1
    /\ phase = "plan" /\ ~atService =>
          StepsToEnd = 4 * ToolMaxRetries + 5 + 3 * (LlmMaxRetries - attempt) + 3
    /\ phase = "plan" /\ atService =>
          StepsToEnd = 4 * ToolMaxRetries + 5 + 3 * (LlmMaxRetries - attempt) + 2
    /\ phase = "decide" => StepsToEnd = 4 * ToolMaxRetries + 5
    /\ phase = "child" =>
          StepsToEnd = 1 + (IF child = "running" THEN 1 ELSE 0) + (IF timer THEN 2 ELSE 0)
                         + (IF forceKillTimer THEN 1 ELSE 0)
    /\ phase = "search" =>
          StepsToEnd = (IF backend = "tavily" THEN 2 * ToolMaxRetries + 2 ELSE 0)
                         + 2 * (ToolMaxRetries - attempt) + (IF atService THEN 1 ELSE 2)
    /\ phase = "left" => StepsToEnd = 0

LEMMA StepsToEndIs == ToEnd /\ ToEnd'
<1>1. ToEnd
  BY DEF ToEnd, StepsToEnd
<1>2. ToEnd'
  BY DEF ToEnd, StepsToEnd
<1> QED
  BY <1>1, <1>2

LEMMA CostIsNat ==
    /\ ToolMaxRetries \in Nat /\ LlmMaxRetries \in Nat /\ MaxReactSteps \in Nat
    /\ StepCost \in Nat /\ StepCost = 4 * ToolMaxRetries + 3 * LlmMaxRetries + 8
  BY CallLimits DEF StepCost

\* The steps left in a step are never negative, and some until the attempt is over.
EndBounds ==
    /\ StepsToEnd \in Nat
    /\ phase # "left" => StepsToEnd >= 1
    /\ phase = "plan" => StepsToEnd <= StepCost

LEMMA EndIsNear == ASSUME Inv PROVE EndBounds
<1> USE CostIsNat DEF EndBounds
<1>1. attempt \in Nat
  BY DEF Inv, TypeOK, TriesTyped
<1>2. CASE phase = "start" \/ phase = "decide" \/ phase = "left"
  BY <1>2, StepsToEndIs DEF ToEnd
<1>3. CASE phase = "plan"
  <2>1. attempt <= LlmMaxRetries
    BY <1>3 DEF Inv, TriesInv
  <2>2. CASE atService
    BY <1>1, <1>3, <2>1, <2>2, StepsToEndIs DEF ToEnd
  <2>3. CASE ~atService
    BY <1>1, <1>3, <2>1, <2>3, StepsToEndIs DEF ToEnd
  <2> QED
    BY <2>2, <2>3
<1>4. CASE phase = "child"
  BY <1>4, StepsToEndIs DEF ToEnd
<1>5. CASE phase = "search"
  <2>1. attempt <= ToolMaxRetries
    BY <1>5 DEF Inv, TriesInv
  <2> QED
    BY <1>1, <1>5, <2>1, StepsToEndIs DEF ToEnd
<1> QED
  BY <1>2, <1>3, <1>4, <1>5 DEF Inv, TypeOK, WorkerTyped

LEMMA EndsAreNear == (Inv => EndBounds) /\ (Inv' => EndBounds')
<1>1. Inv => EndBounds
  BY EndIsNear
<1> QED
  BY <1>1, PTL

\* Sums of a part that stays, or pays, and a part that shrinks.
LEMMA SmallerSum ==
    ASSUME NEW kept \in Int, NEW b1 \in Int, NEW b2 \in Int, NEW a1 \in Int, NEW a2 \in Int,
           a1 + a2 < b1 + b2
    PROVE  kept + a1 + a2 < kept + b1 + b2
  OBVIOUS

LEMMA PaidSum ==
    ASSUME NEW n \in Int, NEW cost \in Int, NEW before \in Int, NEW after \in Int, NEW o \in Int,
           after <= cost, 1 <= before
    PROVE  (n - 1) * cost + after + o < n * cost + before + o
<1>1. n * cost = (n - 1) * cost + cost /\ (n - 1) * cost \in Int
  OBVIOUS
<1> QED
  BY <1>1

\* Within a step only the way to its end counts, and the requests still served.
LEMMA WithinStep ==
    ASSUME Inv, Inv', step' = step, StepsToEnd' + orphans' < StepsToEnd + orphans
    PROVE  StepsLeft' < StepsLeft
<1>1. /\ StepsToEnd \in Int /\ StepsToEnd' \in Int /\ orphans \in Int /\ orphans' \in Int
  BY EndsAreNear DEF EndBounds, Inv, TypeOK, TriesTyped
<1>2. (MaxReactSteps - step) * StepCost \in Int
  BY CostIsNat DEF Inv, TypeOK, WorkerTyped
<1>3. /\ StepsLeft = (MaxReactSteps - step) * StepCost + StepsToEnd + orphans
      /\ StepsLeft' = (MaxReactSteps - step) * StepCost + StepsToEnd' + orphans'
  BY DEF StepsLeft
<1>4. (MaxReactSteps - step) * StepCost + StepsToEnd' + orphans'
        < (MaxReactSteps - step) * StepCost + StepsToEnd + orphans
  BY ONLY <1>1, <1>2, StepsToEnd' + orphans' < StepsToEnd + orphans, SmallerSum
<1> QED
  BY ONLY <1>3, <1>4

\* A term that shrinks next to one that stays; a try that is repeated, in its time or after it.
LEMMA SmallerTerm ==
    ASSUME NEW a \in Int, NEW b \in Int, NEW o \in Int, a < b
    PROVE  a + o < b + o
  OBVIOUS

LEMMA RepeatedTry ==
    ASSUME NEW k \in Int, NEW l \in Int, NEW a \in Int, NEW before \in Int, NEW after \in Int,
           after <= before + 1
    PROVE  k + 3 * (l - (a + 1)) + 3 + after < k + 3 * (l - a) + 2 + before
  OBVIOUS

LEMMA ReleasedTry ==
    ASSUME NEW b \in Int, NEW before \in Int, NEW after \in Int,
           after <= before + 1, b >= 2
    PROVE  0 + after < b + before
  OBVIOUS

\* Without a request given up only the way to the step's end counts.
LEMMA WithinStepAlone ==
    ASSUME Inv, Inv', step' = step, orphans' = orphans, StepsToEnd' < StepsToEnd
    PROVE  StepsLeft' < StepsLeft
<1>1. StepsToEnd \in Int /\ StepsToEnd' \in Int /\ orphans \in Int
  BY EndsAreNear DEF EndBounds, Inv, TypeOK, TriesTyped
<1>2. StepsToEnd' + orphans < StepsToEnd + orphans
  BY ONLY <1>1, StepsToEnd' < StepsToEnd, SmallerTerm
<1>3. StepsToEnd' + orphans' < StepsToEnd + orphans
  BY ONLY <1>2, orphans' = orphans
<1> QED
  BY <1>3, WithinStep

\* A step that is taken pays for the next one.
LEMMA StepTaken ==
    ASSUME Inv, Inv', phase # "left", phase' = "plan", step' = step + 1, orphans' = orphans
    PROVE  StepsLeft' < StepsLeft
<1>1. /\ StepsToEnd \in Int /\ StepsToEnd' \in Int /\ 1 <= StepsToEnd /\ StepsToEnd' <= StepCost
  BY EndsAreNear DEF EndBounds
<1>2. orphans \in Int /\ step \in Int /\ MaxReactSteps \in Int /\ StepCost \in Int
  BY CostIsNat DEF Inv, TypeOK, TriesTyped, WorkerTyped
<1> DEFINE n == MaxReactSteps - step
<1>3. n \in Int /\ (MaxReactSteps - step)' = n - 1
  BY <1>2
<1>4. (n - 1) * StepCost + StepsToEnd' + orphans < n * StepCost + StepsToEnd + orphans
  BY ONLY <1>1, <1>2, <1>3, PaidSum
<1>5. /\ StepsLeft = n * StepCost + StepsToEnd + orphans
      /\ StepsLeft' = (n - 1) * StepCost + StepsToEnd' + orphans
  BY <1>3 DEF StepsLeft
<1> QED
  BY ONLY <1>4, <1>5

\* Whatever ends a decision brings the end nearer.
LEMMA DecisionCounts ==
    ASSUME Inv, Inv', phase # "left", GoesOn \/ Leaves, orphans' = orphans
    PROVE  StepsLeft' < StepsLeft
<1>1. CASE GoesOn
  BY <1>1, StepTaken DEF GoesOn
<1>2. CASE Leaves
  <2>1. StepsToEnd' = 0 /\ StepsToEnd \in Nat /\ StepsToEnd >= 1 /\ orphans \in Nat /\ step' = step
    BY <1>2, StepsToEndIs, EndsAreNear DEF ToEnd, EndBounds, Leaves, Inv, TypeOK, TriesTyped
  <2> QED
    BY <2>1, WithinStep
<1> QED
  BY <1>1, <1>2

\* Every step brings the end nearer: the worker's, its child's and its services'.
LEMMA StepCounts ==
    ASSUME Inv, Inv', Next
    PROVE  vars' = vars \/ StepsLeft' < StepsLeft
<1> USE CostIsNat
<1>1. orphans \in Nat /\ attempt \in Nat /\ attempt' \in Nat /\ StepsToEnd \in Nat
  BY EndsAreNear DEF EndBounds, Inv, TypeOK, TriesTyped
<1>2. CASE Begin
  <2>1. phase = "start" /\ phase' = "plan" /\ UNCHANGED <<step, orphans>>
    BY <1>2 DEF Begin, workerVars, billVars
  <2>2. StepsToEnd' < StepsToEnd /\ StepsToEnd' \in Nat
    BY <2>1, StepsToEndIs, EndsAreNear DEF ToEnd, EndBounds
  <2> QED
    BY <2>1, <2>2, WithinStepAlone
<1>3. CASE AskPlanner
  <2>1. /\ phase = "plan" /\ phase' = "plan" /\ ~atService /\ atService'
        /\ UNCHANGED <<step, attempt, orphans>>
    BY <1>3 DEF AskPlanner, workerVars, billVars
  <2>2. StepsToEnd' + orphans' < StepsToEnd + orphans
    BY <1>1, <2>1, StepsToEndIs DEF ToEnd
  <2> QED
    BY <2>1, <2>2, WithinStep
<1>4. CASE PlannerAnswers
  <2>1. /\ phase = "plan" /\ phase' = "decide" /\ atService /\ UNCHANGED <<step, orphans>>
        /\ attempt <= LlmMaxRetries
    BY <1>4 DEF PlannerAnswers, Asked, workerVars, Inv, TriesInv
  <2>2. StepsToEnd' + orphans' < StepsToEnd + orphans
    BY <1>1, <2>1, StepsToEndIs DEF ToEnd
  <2> QED
    BY <2>1, <2>2, WithinStep
<1>5. CASE PlannerIsSilent
  BY <1>5, Left, DecisionCounts DEF PlannerIsSilent, Asked
<1>6. CASE PlannerFails
  <2>1. PICK error : /\ RequestFails(error)
                     /\ \/ attempt' = attempt + 1 /\ UNCHANGED <<phase, workerVars>>
                        \/ Leave("ESCALATING", ClassifyText(error))
    BY <1>6 DEF PlannerFails
  <2>2. /\ phase = "plan" /\ atService /\ ~atService' /\ attempt <= LlmMaxRetries
        /\ orphans' \in Nat /\ orphans' <= orphans + 1
    BY <1>1, <1>6, <2>1 DEF PlannerFails, Asked, RequestFails, Inv, TriesInv
  <2>3. CASE attempt' = attempt + 1 /\ UNCHANGED <<phase, workerVars>>
    <3> DEFINE rest == 4 * ToolMaxRetries + 5
    <3>1. /\ StepsToEnd = rest + 3 * (LlmMaxRetries - attempt) + 2
          /\ StepsToEnd' = rest + 3 * (LlmMaxRetries - attempt') + 3
      BY <2>2, <2>3, StepsToEndIs DEF ToEnd
    <3>2. rest \in Int /\ LlmMaxRetries \in Int /\ attempt \in Int /\ orphans \in Int /\ orphans' \in Int
      BY <1>1, <2>2
    <3>3. rest + 3 * (LlmMaxRetries - (attempt + 1)) + 3 + orphans'
            < rest + 3 * (LlmMaxRetries - attempt) + 2 + orphans
      BY ONLY <2>2, <3>2, RepeatedTry
    <3>4. StepsToEnd' + orphans' < StepsToEnd + orphans
      BY ONLY <2>3, <3>1, <3>3
    <3> QED
      BY <2>3, <3>4, WithinStep DEF workerVars
  <2>4. CASE Leave("ESCALATING", ClassifyText(error))
    <3>1. phase' = "left" /\ step' = step
      BY <2>4 DEF Leave
    <3>2. StepsToEnd' = 0 /\ StepsToEnd >= 2
      BY <1>1, <2>2, <3>1, StepsToEndIs DEF ToEnd
    <3>3. 0 + orphans' < StepsToEnd + orphans
      <4>1. /\ StepsToEnd \in Int /\ orphans \in Int /\ orphans' \in Int
            /\ orphans' <= orphans + 1 /\ StepsToEnd >= 2
        BY <1>1, <2>2, <3>2
      <4> QED
        BY ONLY <4>1, ReleasedTry
    <3>4. StepsToEnd' + orphans' < StepsToEnd + orphans
      BY ONLY <3>2, <3>3
    <3> QED
      BY <3>1, <3>4, WithinStep
  <2> QED
    BY <2>1, <2>3, <2>4
<1>7. CASE OrphanServed
  <2>1. StepsToEnd' = StepsToEnd /\ step' = step /\ orphans' = orphans - 1
    BY <1>7 DEF OrphanServed, StepsToEnd, workerVars, requestVars, searchVars, childVars
  <2> QED
    BY <1>1, <2>1, WithinStep
<1>8. CASE StepsExhausted
  BY <1>8, Finished, DecisionCounts DEF StepsExhausted, billVars
<1>9. CASE PlannerFinishes
  BY <1>9, Finished, DecisionCounts DEF PlannerFinishes, Decide
<1>10. CASE InvalidCall \/ ToolRefuses \/ ReadFile \/ ChildReported \/ SearchEnds \/ FallbackFails
  <2>1. /\ phase \in {"decide", "child", "search"} /\ orphans' = orphans /\ phase # "left"
        /\ step < MaxReactSteps
    BY <1>10 DEF InvalidCall, ToolRefuses, ReadFile, ChildReported, SearchEnds, FallbackFails, Decide,
       Searching, SearchStep, Inv, PlaceInv, billVars
  <2>2. GoesOn \/ Leaves
    <3>1. CASE InvalidCall
      BY <2>1, <3>1, FailureCounted DEF InvalidCall, Inv
    <3>2. CASE ToolRefuses \/ ReadFile \/ FallbackFails
      BY <2>1, <3>2, Threw, Answered DEF ToolRefuses, ReadFile, FallbackFails, Accepts, InProcess,
         ToolNames, CallEnds
    <3>3. CASE ChildReported \/ SearchEnds
      <4>1. alias \in ToolNames
        BY <3>3 DEF ChildReported, SearchEnds, Searching, Inv, TypeOK, WorkerTyped, AllowedAliases,
           Catalog, InProcess, ByChild, OverGateway, ToolNames
      <4> QED
        BY <2>1, <3>3, <4>1, Answered DEF ChildReported, SearchEnds, CallEnds
    <3> QED
      BY <1>10, <3>1, <3>2, <3>3
  <2> QED
    BY <2>1, <2>2, DecisionCounts
<1>11. CASE Spawn
  <2>1. /\ phase = "decide" /\ phase' = "child" /\ timer' = TRUE /\ forceKillTimer' = FALSE
        /\ UNCHANGED <<step, orphans>>
    BY <1>11 DEF Spawn, Decide, workerVars
  <2>2. StepsToEnd' <= 4 /\ StepsToEnd' \in Nat /\ StepsToEnd >= 5
    BY <2>1, StepsToEndIs DEF ToEnd
  <2>3. StepsToEnd' < StepsToEnd
    BY ONLY <1>1, <2>2
  <2> QED
    BY <2>1, <2>3, WithinStepAlone
<1>12. CASE ChildExits \/ TimerFires \/ ForceKillTimerFires
  <2>1. phase = "child" /\ UNCHANGED <<phase, step, orphans>>
    BY <1>12 DEF ChildExits, TimerFires, ForceKillTimerFires, ChildStep, workerVars, billVars, Inv,
       ChildInv
  <2>2. StepsToEnd' < StepsToEnd /\ StepsToEnd' \in Nat
    <3>1. CASE ChildExits
      BY <2>1, <3>1, StepsToEndIs DEF ToEnd, ChildExits
    <3>2. CASE TimerFires
      BY <2>1, <3>2, StepsToEndIs DEF ToEnd, TimerFires
    <3>3. CASE ForceKillTimerFires
      BY <2>1, <3>3, StepsToEndIs DEF ToEnd, ForceKillTimerFires
    <3> QED
      BY <1>12, <3>1, <3>2, <3>3
  <2> QED
    BY <2>1, <2>2, WithinStepAlone
<1>13. CASE BeginSearch
  <2>1. /\ phase = "decide" /\ phase' = "search" /\ backend' = "tavily" /\ attempt' = 0
        /\ ~atService' /\ UNCHANGED <<step, orphans>>
    BY <1>13 DEF BeginSearch, Decide, workerVars
  <2>2. StepsToEnd' < StepsToEnd /\ StepsToEnd' \in Nat
    BY <2>1, StepsToEndIs DEF ToEnd
  <2> QED
    BY <2>1, <2>2, WithinStepAlone
<1>14. CASE AskBackend
  <2>1. /\ phase = "search" /\ ~atService /\ atService'
        /\ UNCHANGED <<phase, step, attempt, backend, orphans>>
    BY <1>14 DEF AskBackend, workerVars, searchVars, billVars
  <2>2. StepsToEnd' + orphans' < StepsToEnd + orphans
    BY <1>1, <2>1, StepsToEndIs DEF ToEnd
  <2> QED
    BY <2>1, <2>2, WithinStep
<1>15. CASE TavilyIsEmpty \/ BackendRetried \/ TavilyFails
  <2>1. /\ phase = "search" /\ phase' = "search" /\ atService /\ ~atService'
        /\ UNCHANGED <<step, orphans>> /\ attempt <= ToolMaxRetries
        /\ \/ backend = "tavily" /\ backend' = "duckduckgo" /\ attempt' = 0
           \/ backend' = backend /\ attempt' = attempt + 1
    BY <1>15 DEF TavilyIsEmpty, BackendRetried, TavilyFails, Searching, SearchStep, StaysInSearch,
       FallBack, workerVars, billVars, Inv, TriesInv
  <2>2. StepsToEnd' < StepsToEnd
    <3> DEFINE spare == IF backend = "tavily" THEN 2 * ToolMaxRetries + 2 ELSE 0
    <3>1. spare \in Int /\ StepsToEnd = spare + 2 * (ToolMaxRetries - attempt) + 1
      BY <2>1, StepsToEndIs DEF ToEnd
    <3>2. CASE backend = "tavily" /\ backend' = "duckduckgo" /\ attempt' = 0
      <4>1. StepsToEnd' = 2 * ToolMaxRetries + 2
        BY <2>1, <3>2, StepsToEndIs DEF ToEnd
      <4>2. 2 * ToolMaxRetries + 2 < StepsToEnd
        BY ONLY CostIsNat, <1>1, <2>1, <3>1, <3>2
      <4> QED
        BY ONLY <4>1, <4>2
    <3>3. CASE backend' = backend /\ attempt' = attempt + 1
      <4>1. StepsToEnd' = spare + 2 * (ToolMaxRetries - attempt') + 2
        BY <2>1, <3>3, StepsToEndIs DEF ToEnd
      <4>2. spare + 2 * (ToolMaxRetries - (attempt + 1)) + 2 < StepsToEnd
        BY ONLY CostIsNat, <1>1, <3>1
      <4> QED
        BY ONLY <3>3, <4>1, <4>2
    <3> QED
      BY <2>1, <3>2, <3>3
  <2> QED
    BY <2>1, <2>2, WithinStepAlone
<1> QED
  BY <1>2, <1>3, <1>4, <1>5, <1>6, <1>7, <1>8, <1>9, <1>10, <1>11, <1>12, <1>13, <1>14, <1>15
     DEF Next, WorkerStep, ModelCall, Decision, Process, Search, Over

\* An attempt, with the children it starts and the requests it gives up on, is over after at
\* most (MaxReactSteps + 1) * StepCost + 1 steps, a child that hangs and a service that never
\* answers included: every step, whoever takes it, lowers a natural number that starts there.
\* This is what makes AttemptEnds true; fairness adds only that steps are taken.
THEOREM AttemptsAreFinite ==
    Spec => /\ StepsLeft = (MaxReactSteps + 1) * StepCost + 1
            /\ [](StepsLeft \in Nat)
            /\ [][StepsLeft' < StepsLeft]_vars
<1>1. Init => StepsLeft = (MaxReactSteps + 1) * StepCost + 1
  <2> SUFFICES ASSUME Init PROVE StepsLeft = (MaxReactSteps + 1) * StepCost + 1
    OBVIOUS
  <2>1. StepsToEnd = StepCost + 1 /\ step = 0 /\ orphans = 0
    BY StepsToEndIs DEF Init, ToEnd
  <2>2. (MaxReactSteps + 1) * StepCost = MaxReactSteps * StepCost + StepCost
        /\ MaxReactSteps * StepCost \in Nat
    BY CostIsNat
  <2>3. StepsLeft = MaxReactSteps * StepCost + (StepCost + 1)
    BY <2>1, <2>2, CostIsNat DEF StepsLeft
  <2> QED
    BY <2>2, <2>3, CostIsNat
<1>2. Inv => StepsLeft \in Nat
  <2> SUFFICES ASSUME Inv PROVE StepsLeft \in Nat
    OBVIOUS
  <2>1. MaxReactSteps - step \in Nat /\ StepCost \in Nat
    BY CostIsNat DEF Inv, TypeOK, WorkerTyped
  <2>2. (MaxReactSteps - step) * StepCost \in Nat
    BY ONLY <2>1
  <2>3. StepsToEnd \in Nat /\ orphans \in Nat
    BY EndIsNear DEF EndBounds, Inv, TypeOK, TriesTyped
  <2> QED
    BY <2>2, <2>3 DEF StepsLeft
<1>3. Inv /\ Inv' /\ [Next]_vars => [StepsLeft' < StepsLeft]_vars
  BY StepCounts
<1> QED
  BY <1>1, <1>2, <1>3, Invariant, PTL DEF Spec

=============================================================================
