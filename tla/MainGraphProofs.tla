--------------------------- MODULE MainGraphProofs ---------------------------
(***************************************************************************)
(* Proofs about MainGraph: what TLC checks for the default caps and a few  *)
(* budgets holds for every budget, every charge and every setting of the   *)
(* profile's caps.                                                         *)
(***************************************************************************)
EXTENDS MainGraphInvariant, TLAPS

-----------------------------------------------------------------------------
(* Lemmas about single definitions. *)

\* What a node is billed is a natural number, and opening follows the bill or stays.
LEMMA BillFacts ==
    ASSUME CountersTyped, NEW n \in LlmNodes, Bill(n)
    PROVE  /\ totalCost' \in Nat /\ opening' \in Nat /\ totalCost' >= totalCost
           /\ totalCost' - totalCost \in Charge[n]
           /\ opening' = IF n \in OpeningNodes /\ debateIterations = 0 THEN totalCost' ELSE opening
<1>1. PICK c \in Charge[n] : totalCost' = totalCost + c
  BY DEF Bill
<1>2. c \in Nat /\ totalCost \in Nat /\ opening \in Nat
  BY CostAssumption DEF CountersTyped
<1>3. opening' = IF n \in OpeningNodes /\ debateIterations = 0 THEN totalCost' ELSE opening
  BY DEF Bill
<1> QED
  BY <1>1, <1>2, <1>3

\* Every router names a node.
RoutersNameNodes ==
    {RouteByComplexity, RouteAfterFrontierArchitect, RouteAfterClaudeArchitect, RouteAfterCoder,
     RouteDebate, RouteAfterFrontierCritic, RouteAfterApplyPatches, RouteAfterVerify}
        \subseteq Nodes

\* The graph never schedules a node it does not have, whatever its state.
LEMMA RoutersTotal == RoutersNameNodes
<1>1. RouteByComplexity \in Nodes
  BY DEF RouteByComplexity, Nodes, LlmNodes
<1>2. RouteAfterFrontierArchitect \in Nodes /\ RouteAfterClaudeArchitect \in Nodes
  BY DEF RouteAfterFrontierArchitect, RouteAfterClaudeArchitect, Nodes, LlmNodes
<1>3. RouteDebate \in Nodes
  BY DEF RouteDebate, Nodes, LlmNodes
<1>4. RouteAfterFrontierCritic \in Nodes
  BY <1>3 DEF RouteAfterFrontierCritic, Nodes, LlmNodes
<1>5. RouteAfterCoder \in Nodes /\ RouteAfterApplyPatches \in Nodes /\ RouteAfterVerify \in Nodes
  BY DEF RouteAfterCoder, RouteAfterApplyPatches, RouteAfterVerify, Nodes, LlmNodes
<1> QED
  BY <1>1, <1>2, <1>3, <1>4, <1>5 DEF RoutersNameNodes

\* ... before a step as after it.
LEMMA RoutersTotalNext == RoutersNameNodes /\ RoutersNameNodes'
BY RoutersTotal, PTL

\* Every node step schedules a node or END.
LEMMA NextTyped == NodeStep => next' \in Nodes \cup {"END"}
<1> SUFFICES ASSUME NodeStep PROVE next' \in Nodes \cup {"END"}
  OBVIOUS
<1>1. RoutersNameNodes /\ RoutersNameNodes'
  BY RoutersTotalNext
<1>2. {"finalize", "firewall", "frontierArchitect", "applyPatches"} \subseteq Nodes
  BY DEF Nodes, LlmNodes
<1>3. \/ next' \in {"finalize", "firewall", "frontierArchitect", "applyPatches", "END"}
      \/ next' \in {RouteAfterClaudeArchitect, RouteAfterCoder}
      \/ next' \in {RouteByComplexity', RouteAfterFrontierArchitect', RouteAfterFrontierCritic',
                     RouteDebate', RouteAfterApplyPatches', RouteAfterVerify'}
  BY DEF NodeStep, ComplexityRouter, DirectResponder, Swarm, Firewall, FrontierArchitect,
         ClaudeArchitect, ClaudeCoder, FrontierCritic, OpenaiCritic, SmeTiebreaker,
         ApplyPatches, Verify, Finalize
<1> QED
  BY <1>1, <1>2, <1>3 DEF RoutersNameNodes

-----------------------------------------------------------------------------
(* Type correctness, one part of TypeOK at a time. *)

\* No step schedules a node the graph does not have or leaves the domain of a control variable.
LEMMA ControlStep == ControlTyped /\ [Next]_vars => ControlTyped'
<1> SUFFICES ASSUME ControlTyped, [Next]_vars PROVE ControlTyped'
  OBVIOUS
<1> USE DEF ControlTyped, inputVars, strongVars, debateVars, patchVars, verifyVars, costVars,
            stateVars
<1>1. CASE ComplexityRouter
  <2>1. next' \in Nodes \cup {"END"}
    BY <1>1, NextTyped DEF NodeStep
  <2> QED
    BY <1>1, <2>1 DEF ComplexityRouter, Visit, Complexities
<1>2. CASE DirectResponder
  <2>1. next' \in Nodes \cup {"END"}
    BY <1>2, NextTyped DEF NodeStep
  <2> QED
    BY <1>2, <2>1 DEF DirectResponder, Visit
<1>3. CASE Swarm
  <2>1. next' \in Nodes \cup {"END"}
    BY <1>3, NextTyped DEF NodeStep
  <2> QED
    BY <1>3, <2>1 DEF Swarm, Visit
<1>4. CASE Firewall
  <2>1. next' \in Nodes \cup {"END"}
    BY <1>4, NextTyped DEF NodeStep
  <2> QED
    BY <1>4, <2>1 DEF Firewall, Visit
<1>5. CASE FrontierArchitect
  <2>1. next' \in Nodes \cup {"END"}
    BY <1>5, NextTyped DEF NodeStep
  <2> QED
    BY <1>5, <2>1 DEF FrontierArchitect, Visit
<1>6. CASE ClaudeArchitect
  <2>1. next' \in Nodes \cup {"END"}
    BY <1>6, NextTyped DEF NodeStep
  <2> QED
    BY <1>6, <2>1 DEF ClaudeArchitect, Visit
<1>7. CASE ClaudeCoder
  <2>1. next' \in Nodes \cup {"END"}
    BY <1>7, NextTyped DEF NodeStep
  <2> QED
    BY <1>7, <2>1 DEF ClaudeCoder, Visit
<1>8. CASE FrontierCritic
  <2>1. next' \in Nodes \cup {"END"}
    BY <1>8, NextTyped DEF NodeStep
  <2> QED
    BY <1>8, <2>1 DEF FrontierCritic, Visit
<1>9. CASE OpenaiCritic
  <2>1. next' \in Nodes \cup {"END"}
    BY <1>9, NextTyped DEF NodeStep
  <2> QED
    BY <1>9, <2>1 DEF OpenaiCritic, Visit
<1>10. CASE SmeTiebreaker
  <2>1. next' \in Nodes \cup {"END"}
    BY <1>10, NextTyped DEF NodeStep
  <2> QED
    BY <1>10, <2>1 DEF SmeTiebreaker, Visit
<1>11. CASE ApplyPatches
  <2>1. next' \in Nodes \cup {"END"}
    BY <1>11, NextTyped DEF NodeStep
  <2> QED
    BY <1>11, <2>1 DEF ApplyPatches, Visit
<1>12. CASE Verify
  <2>1. next' \in Nodes \cup {"END"}
    BY <1>12, NextTyped DEF NodeStep
  <2> QED
    BY <1>12, <2>1 DEF Verify, Visit
<1>13. CASE Finalize
  <2>1. next' \in Nodes \cup {"END"}
    BY <1>13, NextTyped DEF NodeStep
  <2> QED
    BY <1>13, <2>1 DEF Finalize, Visit
<1>14. CASE NodeThrows \/ OutOfSteps \/ ProcessDies \/ Resume
  BY <1>14 DEF NodeThrows, OutOfSteps, ProcessDies, Resume
<1>15. CASE UNCHANGED vars
  BY <1>15 DEF vars
<1> QED
  BY <1>1, <1>2, <1>3, <1>4, <1>5, <1>6, <1>7, <1>8, <1>9, <1>10, <1>11, <1>12, <1>13, <1>14,
         <1>15
     DEF Next, NodeStep, Finished

\* No step makes a flag anything but a Boolean.
LEMMA FlagsStep == FlagsTyped /\ [Next]_vars => FlagsTyped'
<1> SUFFICES ASSUME FlagsTyped, [Next]_vars PROVE FlagsTyped'
  OBVIOUS
<1> USE DEF FlagsTyped, inputVars, strongVars, debateVars, patchVars, verifyVars, costVars,
            stateVars
<1>1. CASE ComplexityRouter
  BY <1>1 DEF ComplexityRouter
<1>2. CASE DirectResponder
  BY <1>2 DEF DirectResponder
<1>3. CASE Swarm
  BY <1>3 DEF Swarm
<1>4. CASE Firewall
  BY <1>4 DEF Firewall
<1>5. CASE FrontierArchitect
  BY <1>5 DEF FrontierArchitect
<1>6. CASE ClaudeArchitect
  BY <1>6 DEF ClaudeArchitect
<1>7. CASE ClaudeCoder
  BY <1>7 DEF ClaudeCoder
<1>8. CASE FrontierCritic
  BY <1>8 DEF FrontierCritic
<1>9. CASE OpenaiCritic
  BY <1>9 DEF OpenaiCritic
<1>10. CASE SmeTiebreaker
  BY <1>10 DEF SmeTiebreaker
<1>11. CASE ApplyPatches
  BY <1>11 DEF ApplyPatches, SkipPatches, NothingApplied, SomeApplied
<1>12. CASE Verify
  BY <1>12 DEF Verify
<1>13. CASE Finalize
  BY <1>13 DEF Finalize
<1>14. CASE NodeThrows \/ OutOfSteps \/ ProcessDies \/ Resume
  BY <1>14 DEF NodeThrows, OutOfSteps, ProcessDies, Resume
<1>15. CASE UNCHANGED vars
  BY <1>15 DEF vars
<1> QED
  BY <1>1, <1>2, <1>3, <1>4, <1>5, <1>6, <1>7, <1>8, <1>9, <1>10, <1>11, <1>12, <1>13, <1>14,
         <1>15
     DEF Next, NodeStep, Finished

\* No step takes a counter or a cost out of the natural numbers.
LEMMA CountersStep == CountersTyped /\ [Next]_vars => CountersTyped'
<1> SUFFICES ASSUME CountersTyped, [Next]_vars PROVE CountersTyped'
  OBVIOUS
<1> USE DEF CountersTyped, inputVars, strongVars, debateVars, patchVars, verifyVars,
            costVars, stateVars
<1>1. CASE ComplexityRouter
  <2>1. totalCost' \in Nat /\ opening' \in Nat
    BY <1>1, BillFacts DEF ComplexityRouter, LlmNodes
  <2> QED
    BY <1>1, <2>1 DEF ComplexityRouter, Visit
<1>2. CASE DirectResponder
  <2>1. totalCost' \in Nat /\ opening' \in Nat
    BY <1>2, BillFacts DEF DirectResponder, LlmNodes
  <2> QED
    BY <1>2, <2>1 DEF DirectResponder, Visit
<1>3. CASE Swarm
  <2>1. totalCost' \in Nat /\ opening' \in Nat
    BY <1>3, BillFacts DEF Swarm, LlmNodes
  <2> QED
    BY <1>3, <2>1 DEF Swarm, Visit
<1>4. CASE Firewall
  BY <1>4 DEF Firewall, Visit
<1>5. CASE FrontierArchitect
  <2>1. totalCost' \in Nat /\ opening' \in Nat
    BY <1>5, BillFacts DEF FrontierArchitect, LlmNodes
  <2> QED
    BY <1>5, <2>1 DEF FrontierArchitect, Visit
<1>6. CASE ClaudeArchitect
  <2>1. totalCost' \in Nat /\ opening' \in Nat
    BY <1>6, BillFacts DEF ClaudeArchitect, LlmNodes
  <2> QED
    BY <1>6, <2>1 DEF ClaudeArchitect, Visit
<1>7. CASE ClaudeCoder
  <2>1. totalCost' \in Nat /\ opening' \in Nat
    BY <1>7, BillFacts DEF ClaudeCoder, LlmNodes
  <2> QED
    BY <1>7, <2>1 DEF ClaudeCoder, Visit
<1>8. CASE FrontierCritic
  <2>1. totalCost' \in Nat /\ opening' \in Nat
    BY <1>8, BillFacts DEF FrontierCritic, LlmNodes
  <2> QED
    BY <1>8, <2>1 DEF FrontierCritic, Visit
<1>9. CASE OpenaiCritic
  <2>1. totalCost' \in Nat /\ opening' \in Nat
    BY <1>9, BillFacts DEF OpenaiCritic, LlmNodes
  <2> QED
    BY <1>9, <2>1 DEF OpenaiCritic, Visit
<1>10. CASE SmeTiebreaker
  <2>1. totalCost' \in Nat /\ opening' \in Nat
    BY <1>10, BillFacts DEF SmeTiebreaker, LlmNodes
  <2> QED
    BY <1>10, <2>1 DEF SmeTiebreaker, Visit
<1>11. CASE ApplyPatches
  BY <1>11 DEF ApplyPatches, Visit, SkipPatches, NothingApplied, SomeApplied
<1>12. CASE Verify
  <2>1. usedKeys' \subseteq usedKeys \cup {debateIterations} /\ verifyAttempts' = verifyAttempts + 1
    BY <1>12 DEF Verify
  <2>2. UNCHANGED <<debateIterations, contextFetches, patchFormatRetries, totalCost, opening>>
    BY <1>12 DEF Verify
  <2>3. steps' = steps + 1
    BY <1>12 DEF Verify, Visit
  <2> QED
    BY <2>1, <2>2, <2>3
<1>13. CASE Finalize
  BY <1>13 DEF Finalize, Visit
<1>14. CASE NodeThrows \/ OutOfSteps \/ ProcessDies \/ Resume
  <2>1. (steps' = steps \/ steps' = 0) /\ UNCHANGED stateVars
    BY <1>14 DEF NodeThrows, OutOfSteps, ProcessDies, Resume
  <2> QED
    BY <2>1
<1>15. CASE UNCHANGED vars
  BY <1>15 DEF vars
<1> QED
  BY <1>1, <1>2, <1>3, <1>4, <1>5, <1>6, <1>7, <1>8, <1>9, <1>10, <1>11, <1>12, <1>13, <1>14,
         <1>15
     DEF Next, NodeStep, Finished

\* A fresh run is well typed.
LEMMA TypeInit == Init => TypeOK
<1> SUFFICES ASSUME Init PROVE TypeOK
  OBVIOUS
<1>1. ControlTyped
  BY DEF Init, ControlTyped, Nodes, LlmNodes, Complexities
<1>2. FlagsTyped /\ CountersTyped
  BY DEF Init, FlagsTyped, CountersTyped
<1> QED
  BY <1>1, <1>2 DEF TypeOK

\* Whatever a resumed run has been through, its state is one the nodes and routers can read.
THEOREM TypeCorrect == Spec => []TypeOK
<1>1. TypeOK /\ [Next]_vars => TypeOK'
  BY ControlStep, FlagsStep, CountersStep DEF TypeOK
<1> QED
  BY <1>1, TypeInit, PTL DEF Spec

-----------------------------------------------------------------------------
(* Flow: which nodes a run can reach, and in which state. *)

ToolNodes == {"swarm", "firewall", "claudeCoder", "frontierCritic", "openaiCritic",
              "smeTiebreaker", "applyPatches", "verify"}

\* Everything between the swarm and finalize, the architects apart, belongs to the tool path.
LEMMA ToolPath == ControlTyped /\ PathInv /\ next \in ToolNodes => complexity = "tool_complex"
BY DEF ControlTyped, PathInv, ToolNodes, Complexities, Over

\* A task stays on the path its complexity opened.
LEMMA PathStep == ControlTyped /\ PathInv /\ [Next]_vars => PathInv'
<1> SUFFICES ASSUME ControlTyped, PathInv, [Next]_vars PROVE PathInv'
  OBVIOUS
<1> USE DEF PathInv, Over, inputVars, strongVars, debateVars, patchVars, verifyVars,
            costVars, stateVars
<1>1. CASE ComplexityRouter
  BY <1>1 DEF ComplexityRouter, Visit, RouteByComplexity, Complexities
<1>2. CASE DirectResponder
  BY <1>2 DEF DirectResponder, Visit
<1>3. CASE Swarm
  <2>1. complexity = "tool_complex" /\ complexity' = complexity
    BY <1>3, ToolPath DEF Swarm, Visit, ToolNodes
  <2>2. next' \notin {"complexityRouter", "directResponder", "END"}
    BY <1>3, <2>1 DEF Swarm
  <2> QED
    BY <1>3, <2>1, <2>2 DEF Swarm, Visit
<1>4. CASE Firewall
  <2>1. complexity = "tool_complex" /\ complexity' = complexity
    BY <1>4, ToolPath DEF Firewall, Visit, ToolNodes
  <2>2. next' \notin {"complexityRouter", "directResponder", "END"}
    BY <1>4, <2>1 DEF Firewall
  <2> QED
    BY <1>4, <2>1, <2>2 DEF Firewall, Visit
<1>5. CASE FrontierArchitect
  BY <1>5 DEF FrontierArchitect, Visit, RouteAfterFrontierArchitect, RouteAfterClaudeArchitect
<1>6. CASE ClaudeArchitect
  BY <1>6 DEF ClaudeArchitect, Visit, RouteAfterClaudeArchitect
<1>7. CASE ClaudeCoder
  <2>1. complexity = "tool_complex" /\ complexity' = complexity
    BY <1>7, ToolPath DEF ClaudeCoder, Visit, ToolNodes
  <2>2. next' \notin {"complexityRouter", "directResponder", "END"}
    BY <1>7, <2>1 DEF ClaudeCoder, RouteAfterCoder
  <2> QED
    BY <1>7, <2>1, <2>2 DEF ClaudeCoder, Visit, RouteAfterCoder
<1>8. CASE FrontierCritic
  <2>1. complexity = "tool_complex" /\ complexity' = complexity
    BY <1>8, ToolPath DEF FrontierCritic, Visit, ToolNodes
  <2>2. next' \notin {"complexityRouter", "directResponder", "END"}
    BY <1>8, <2>1 DEF FrontierCritic, RouteAfterFrontierCritic, RouteDebate, RefetchAllowed
  <2> QED
    BY <1>8, <2>1, <2>2
       DEF FrontierCritic, Visit, RouteAfterFrontierCritic, RouteDebate, RefetchAllowed
<1>9. CASE OpenaiCritic
  <2>1. complexity = "tool_complex" /\ complexity' = complexity
    BY <1>9, ToolPath DEF OpenaiCritic, Visit, ToolNodes
  <2>2. next' \notin {"complexityRouter", "directResponder", "END"}
    BY <1>9, <2>1 DEF OpenaiCritic, RouteDebate, RefetchAllowed
  <2> QED
    BY <1>9, <2>1, <2>2 DEF OpenaiCritic, Visit, RouteDebate, RefetchAllowed
<1>10. CASE SmeTiebreaker
  <2>1. complexity = "tool_complex" /\ complexity' = complexity
    BY <1>10, ToolPath DEF SmeTiebreaker, Visit, ToolNodes
  <2>2. next' \notin {"complexityRouter", "directResponder", "END"}
    BY <1>10, <2>1 DEF SmeTiebreaker
  <2> QED
    BY <1>10, <2>1, <2>2 DEF SmeTiebreaker, Visit
<1>11. CASE ApplyPatches
  <2>1. complexity = "tool_complex" /\ complexity' = complexity
    BY <1>11, ToolPath DEF ApplyPatches, Visit, ToolNodes
  <2>2. next' \notin {"complexityRouter", "directResponder", "END"}
    BY <1>11, <2>1
       DEF ApplyPatches, RouteAfterApplyPatches, SkipPatches, NothingApplied, SomeApplied
  <2> QED
    BY <1>11, <2>1, <2>2
       DEF ApplyPatches, Visit, RouteAfterApplyPatches, SkipPatches, NothingApplied, SomeApplied
<1>12. CASE Verify
  <2>1. complexity = "tool_complex" /\ complexity' = complexity
    BY <1>12, ToolPath DEF Verify, Visit, ToolNodes
  <2>2. next' \notin {"complexityRouter", "directResponder", "END"}
    BY <1>12, <2>1 DEF Verify, RouteAfterVerify
  <2> QED
    BY <1>12, <2>1, <2>2 DEF Verify, Visit, RouteAfterVerify
<1>13. CASE Finalize
  BY <1>13 DEF Finalize, Visit
<1>14. CASE NodeThrows \/ OutOfSteps \/ ProcessDies \/ Resume
  BY <1>14 DEF NodeThrows, OutOfSteps, ProcessDies, Resume
<1>15. CASE UNCHANGED vars
  BY <1>15 DEF vars
<1> QED
  BY <1>1, <1>2, <1>3, <1>4, <1>5, <1>6, <1>7, <1>8, <1>9, <1>10, <1>11, <1>12, <1>13, <1>14,
         <1>15
     DEF Next, NodeStep, Finished

\* A task off the tool path keeps its counters, patches and drafts untouched.
LEMMA IdleStep == ControlTyped /\ PathInv /\ IdleInv /\ [Next]_vars => IdleInv'
<1> SUFFICES ASSUME ControlTyped, PathInv, IdleInv, [Next]_vars PROVE IdleInv'
  OBVIOUS
<1> USE DEF IdleInv, inputVars, strongVars, debateVars, patchVars, verifyVars, costVars, stateVars
<1>1. CASE ComplexityRouter
  BY <1>1 DEF ComplexityRouter, Visit, PathInv, Over
<1>2. CASE DirectResponder
  BY <1>2 DEF DirectResponder, Visit, PathInv, Over
<1>3. CASE Swarm
  <2>1. complexity = "tool_complex" /\ complexity' = complexity
    BY <1>3, ToolPath DEF Swarm, Visit, ToolNodes
  <2> QED
    BY <2>1
<1>4. CASE Firewall
  <2>1. complexity = "tool_complex" /\ complexity' = complexity
    BY <1>4, ToolPath DEF Firewall, Visit, ToolNodes
  <2> QED
    BY <2>1
<1>5. CASE FrontierArchitect
  BY <1>5 DEF FrontierArchitect, Visit, PathInv, Over
<1>6. CASE ClaudeArchitect
  BY <1>6 DEF ClaudeArchitect, Visit, PathInv, Over
<1>7. CASE ClaudeCoder
  <2>1. complexity = "tool_complex" /\ complexity' = complexity
    BY <1>7, ToolPath DEF ClaudeCoder, Visit, ToolNodes
  <2> QED
    BY <2>1
<1>8. CASE FrontierCritic
  <2>1. complexity = "tool_complex" /\ complexity' = complexity
    BY <1>8, ToolPath DEF FrontierCritic, Visit, ToolNodes
  <2> QED
    BY <2>1
<1>9. CASE OpenaiCritic
  <2>1. complexity = "tool_complex" /\ complexity' = complexity
    BY <1>9, ToolPath DEF OpenaiCritic, Visit, ToolNodes
  <2> QED
    BY <2>1
<1>10. CASE SmeTiebreaker
  <2>1. complexity = "tool_complex" /\ complexity' = complexity
    BY <1>10, ToolPath DEF SmeTiebreaker, Visit, ToolNodes
  <2> QED
    BY <2>1
<1>11. CASE ApplyPatches
  <2>1. complexity = "tool_complex" /\ complexity' = complexity
    BY <1>11, ToolPath DEF ApplyPatches, Visit, ToolNodes
  <2> QED
    BY <2>1
<1>12. CASE Verify
  <2>1. complexity = "tool_complex" /\ complexity' = complexity
    BY <1>12, ToolPath DEF Verify, Visit, ToolNodes
  <2> QED
    BY <2>1
<1>13. CASE Finalize
  BY <1>13 DEF Finalize, Visit, PathInv, Over
<1>14. CASE NodeThrows \/ OutOfSteps \/ ProcessDies \/ Resume
  BY <1>14 DEF NodeThrows, OutOfSteps, ProcessDies, Resume
<1>15. CASE UNCHANGED vars
  BY <1>15 DEF vars
<1> QED
  BY <1>1, <1>2, <1>3, <1>4, <1>5, <1>6, <1>7, <1>8, <1>9, <1>10, <1>11, <1>12, <1>13, <1>14,
         <1>15
     DEF Next, NodeStep, Finished

\* The reformat flag never outlives the answer to a failed application.
LEMMA ReformatStep == ReformatInv /\ [Next]_vars => ReformatInv'
<1> SUFFICES ASSUME ReformatInv, [Next]_vars PROVE ReformatInv'
  OBVIOUS
<1> USE DEF ReformatInv, Over, inputVars, strongVars, debateVars, patchVars, verifyVars,
            costVars, stateVars
<1>1. CASE ComplexityRouter
  BY <1>1 DEF ComplexityRouter, Visit, RouteByComplexity
<1>2. CASE DirectResponder
  BY <1>2 DEF DirectResponder, Visit
<1>3. CASE Swarm
  BY <1>3 DEF Swarm, Visit
<1>4. CASE Firewall
  BY <1>4 DEF Firewall, Visit
<1>5. CASE FrontierArchitect
  BY <1>5 DEF FrontierArchitect, Visit, RouteAfterFrontierArchitect, RouteAfterClaudeArchitect
<1>6. CASE ClaudeArchitect
  BY <1>6 DEF ClaudeArchitect, Visit, RouteAfterClaudeArchitect
<1>7. CASE ClaudeCoder
  BY <1>7 DEF ClaudeCoder, Visit, RouteAfterCoder
<1>8. CASE FrontierCritic
  BY <1>8 DEF FrontierCritic, Visit, RouteAfterFrontierCritic, RouteDebate, RefetchAllowed
<1>9. CASE OpenaiCritic
  BY <1>9 DEF OpenaiCritic, Visit, RouteDebate, RefetchAllowed
<1>10. CASE SmeTiebreaker
  BY <1>10 DEF SmeTiebreaker, Visit
<1>11. CASE ApplyPatches
  BY <1>11
     DEF ApplyPatches, Visit, RouteAfterApplyPatches, SkipPatches, NothingApplied, SomeApplied
<1>12. CASE Verify
  BY <1>12 DEF Verify, Visit, RouteAfterVerify
<1>13. CASE Finalize
  BY <1>13 DEF Finalize, Visit
<1>14. CASE NodeThrows \/ OutOfSteps \/ ProcessDies \/ Resume
  BY <1>14 DEF NodeThrows, OutOfSteps, ProcessDies, Resume
<1>15. CASE UNCHANGED vars
  BY <1>15 DEF vars
<1> QED
  BY <1>1, <1>2, <1>3, <1>4, <1>5, <1>6, <1>7, <1>8, <1>9, <1>10, <1>11, <1>12, <1>13, <1>14,
         <1>15
     DEF Next, NodeStep, Finished

-----------------------------------------------------------------------------
(* The loop counters. *)

\* Each bound admits one pass and everything the cap admits.
LEMMA BoundFacts ==
    /\ FetchBound \in Nat /\ FetchBound >= 1 /\ FetchBound >= MaxContextFetches
    /\ VerifyBound \in Nat /\ VerifyBound >= 1 /\ VerifyBound >= MaxVerifyAttempts
    /\ FormatBound \in Nat /\ FormatBound >= 1 /\ FormatBound >= MaxPatchFormatRetries
    /\ AtLeastOnce(MaxDebateIterations) \in Nat /\ AtLeastOnce(MaxDebateIterations) >= 1
    /\ AtLeastOnce(MaxDebateIterations) >= MaxDebateIterations
    /\ MaxDebateIterations \in Int /\ MaxContextFetches \in Int
    /\ MaxVerifyAttempts \in Int /\ MaxPatchFormatRetries \in Int
BY CapsAssumption DEF FetchBound, VerifyBound, FormatBound, AtLeastOnce

\* A swarm runs only below its cap, and no tool task goes on without one.
LEMMA FetchStep ==
    ControlTyped /\ CountersTyped /\ PathInv /\ IdleInv /\ FetchInv /\ [Next]_vars => FetchInv'
<1> SUFFICES ASSUME ControlTyped, CountersTyped, PathInv, IdleInv, FetchInv, [Next]_vars
             PROVE  FetchInv'
  OBVIOUS
<1> USE DEF FetchInv, inputVars, strongVars, debateVars, patchVars, verifyVars, costVars,
            stateVars
<1>1. CASE ComplexityRouter
  BY <1>1, BoundFacts
     DEF ComplexityRouter, Visit, RouteByComplexity, PathInv, IdleInv, CountersTyped, Over
<1>2. CASE DirectResponder
  BY <1>2, BoundFacts DEF DirectResponder, Visit, PathInv, IdleInv, CountersTyped, Over
<1>3. CASE Swarm
  <2>1. complexity = "tool_complex" /\ complexity' = complexity
    BY <1>3, ToolPath DEF Swarm, Visit, ToolNodes
  <2> QED
    BY <1>3, <2>1, BoundFacts DEF Swarm, Visit, CountersTyped
<1>4. CASE Firewall
  <2>1. complexity = "tool_complex" /\ complexity' = complexity
    BY <1>4, ToolPath DEF Firewall, Visit, ToolNodes
  <2> QED
    BY <1>4, <2>1, BoundFacts DEF Firewall, Visit, CountersTyped
<1>5. CASE FrontierArchitect
  BY <1>5, BoundFacts
     DEF FrontierArchitect, Visit, RouteAfterFrontierArchitect, RouteAfterClaudeArchitect,
         PathInv, IdleInv, CountersTyped, Over
<1>6. CASE ClaudeArchitect
  BY <1>6, BoundFacts
     DEF ClaudeArchitect, Visit, RouteAfterClaudeArchitect, PathInv, IdleInv, CountersTyped, Over
<1>7. CASE ClaudeCoder
  <2>1. complexity = "tool_complex" /\ complexity' = complexity
    BY <1>7, ToolPath DEF ClaudeCoder, Visit, ToolNodes
  <2> QED
    BY <1>7, <2>1, BoundFacts DEF ClaudeCoder, Visit, RouteAfterCoder, CountersTyped
<1>8. CASE FrontierCritic
  <2>1. complexity = "tool_complex" /\ complexity' = complexity
    BY <1>8, ToolPath DEF FrontierCritic, Visit, ToolNodes
  <2> QED
    BY <1>8, <2>1, BoundFacts
       DEF FrontierCritic, Visit, RouteAfterFrontierCritic, RouteDebate, RefetchAllowed,
           CountersTyped
<1>9. CASE OpenaiCritic
  <2>1. complexity = "tool_complex" /\ complexity' = complexity
    BY <1>9, ToolPath DEF OpenaiCritic, Visit, ToolNodes
  <2> QED
    BY <1>9, <2>1, BoundFacts DEF OpenaiCritic, Visit, RouteDebate, RefetchAllowed, CountersTyped
<1>10. CASE SmeTiebreaker
  <2>1. complexity = "tool_complex" /\ complexity' = complexity
    BY <1>10, ToolPath DEF SmeTiebreaker, Visit, ToolNodes
  <2> QED
    BY <1>10, <2>1, BoundFacts DEF SmeTiebreaker, Visit, CountersTyped
<1>11. CASE ApplyPatches
  <2>1. complexity = "tool_complex" /\ complexity' = complexity
    BY <1>11, ToolPath DEF ApplyPatches, Visit, ToolNodes
  <2> QED
    BY <1>11, <2>1, BoundFacts
       DEF ApplyPatches, Visit, RouteAfterApplyPatches, SkipPatches, NothingApplied,
           SomeApplied, CountersTyped
<1>12. CASE Verify
  <2>1. complexity = "tool_complex" /\ complexity' = complexity
    BY <1>12, ToolPath DEF Verify, Visit, ToolNodes
  <2> QED
    BY <1>12, <2>1, BoundFacts DEF Verify, Visit, RouteAfterVerify, CountersTyped
<1>13. CASE Finalize
  BY <1>13, BoundFacts DEF Finalize, Visit, PathInv, IdleInv, CountersTyped, Over
<1>14. CASE NodeThrows \/ OutOfSteps \/ ProcessDies \/ Resume
  BY <1>14 DEF NodeThrows, OutOfSteps, ProcessDies, Resume
<1>15. CASE UNCHANGED vars
  BY <1>15 DEF vars
<1> QED
  BY <1>1, <1>2, <1>3, <1>4, <1>5, <1>6, <1>7, <1>8, <1>9, <1>10, <1>11, <1>12, <1>13, <1>14,
         <1>15
     DEF Next, NodeStep, Finished

\* A failed verification returns to the coder only below its cap.
LEMMA VerifyStep == CountersTyped /\ VerifyInv /\ [Next]_vars => VerifyInv'
<1> SUFFICES ASSUME CountersTyped, VerifyInv, [Next]_vars PROVE VerifyInv'
  OBVIOUS
<1> USE DEF VerifyInv, Over, inputVars, strongVars, debateVars, patchVars, verifyVars,
            costVars, stateVars
<1>1. CASE ComplexityRouter
  BY <1>1, BoundFacts DEF ComplexityRouter, Visit, RouteByComplexity, CountersTyped
<1>2. CASE DirectResponder
  BY <1>2, BoundFacts DEF DirectResponder, Visit, CountersTyped
<1>3. CASE Swarm
  BY <1>3, BoundFacts DEF Swarm, Visit, CountersTyped
<1>4. CASE Firewall
  BY <1>4, BoundFacts DEF Firewall, Visit, CountersTyped
<1>5. CASE FrontierArchitect
  BY <1>5, BoundFacts
     DEF FrontierArchitect, Visit, RouteAfterFrontierArchitect, RouteAfterClaudeArchitect,
         CountersTyped
<1>6. CASE ClaudeArchitect
  BY <1>6, BoundFacts DEF ClaudeArchitect, Visit, RouteAfterClaudeArchitect, CountersTyped
<1>7. CASE ClaudeCoder
  BY <1>7, BoundFacts DEF ClaudeCoder, Visit, RouteAfterCoder, CountersTyped
<1>8. CASE FrontierCritic
  BY <1>8, BoundFacts
     DEF FrontierCritic, Visit, RouteAfterFrontierCritic, RouteDebate, RefetchAllowed,
         CountersTyped
<1>9. CASE OpenaiCritic
  BY <1>9, BoundFacts DEF OpenaiCritic, Visit, RouteDebate, RefetchAllowed, CountersTyped
<1>10. CASE SmeTiebreaker
  BY <1>10, BoundFacts DEF SmeTiebreaker, Visit, CountersTyped
<1>11. CASE ApplyPatches
  BY <1>11, BoundFacts
     DEF ApplyPatches, Visit, RouteAfterApplyPatches, SkipPatches, NothingApplied,
         SomeApplied, CountersTyped
<1>12. CASE Verify
  BY <1>12, BoundFacts DEF Verify, Visit, RouteAfterVerify, CountersTyped
<1>13. CASE Finalize
  BY <1>13, BoundFacts DEF Finalize, Visit, CountersTyped
<1>14. CASE NodeThrows \/ OutOfSteps \/ ProcessDies \/ Resume
  BY <1>14 DEF NodeThrows, OutOfSteps, ProcessDies, Resume
<1>15. CASE UNCHANGED vars
  BY <1>15 DEF vars
<1> QED
  BY <1>1, <1>2, <1>3, <1>4, <1>5, <1>6, <1>7, <1>8, <1>9, <1>10, <1>11, <1>12, <1>13, <1>14,
         <1>15
     DEF Next, NodeStep, Finished

\* A reformat returns to the coder only below its cap.
LEMMA FormatStep == CountersTyped /\ FormatInv /\ [Next]_vars => FormatInv'
<1> SUFFICES ASSUME CountersTyped, FormatInv, [Next]_vars PROVE FormatInv'
  OBVIOUS
<1> USE DEF FormatInv, Over, inputVars, strongVars, debateVars, patchVars, verifyVars,
            costVars, stateVars
<1>1. CASE ComplexityRouter
  BY <1>1, BoundFacts DEF ComplexityRouter, Visit, RouteByComplexity, CountersTyped
<1>2. CASE DirectResponder
  BY <1>2, BoundFacts DEF DirectResponder, Visit, CountersTyped
<1>3. CASE Swarm
  BY <1>3, BoundFacts DEF Swarm, Visit, CountersTyped
<1>4. CASE Firewall
  BY <1>4, BoundFacts DEF Firewall, Visit, CountersTyped
<1>5. CASE FrontierArchitect
  BY <1>5, BoundFacts
     DEF FrontierArchitect, Visit, RouteAfterFrontierArchitect, RouteAfterClaudeArchitect,
         CountersTyped
<1>6. CASE ClaudeArchitect
  BY <1>6, BoundFacts DEF ClaudeArchitect, Visit, RouteAfterClaudeArchitect, CountersTyped
<1>7. CASE ClaudeCoder
  BY <1>7, BoundFacts DEF ClaudeCoder, Visit, RouteAfterCoder, CountersTyped
<1>8. CASE FrontierCritic
  BY <1>8, BoundFacts
     DEF FrontierCritic, Visit, RouteAfterFrontierCritic, RouteDebate, RefetchAllowed,
         CountersTyped
<1>9. CASE OpenaiCritic
  BY <1>9, BoundFacts DEF OpenaiCritic, Visit, RouteDebate, RefetchAllowed, CountersTyped
<1>10. CASE SmeTiebreaker
  BY <1>10, BoundFacts DEF SmeTiebreaker, Visit, CountersTyped
<1>11. CASE ApplyPatches
  BY <1>11, BoundFacts
     DEF ApplyPatches, Visit, RouteAfterApplyPatches, SkipPatches, NothingApplied,
         SomeApplied, CountersTyped
<1>12. CASE Verify
  BY <1>12, BoundFacts DEF Verify, Visit, RouteAfterVerify, CountersTyped
<1>13. CASE Finalize
  BY <1>13, BoundFacts DEF Finalize, Visit, CountersTyped
<1>14. CASE NodeThrows \/ OutOfSteps \/ ProcessDies \/ Resume
  BY <1>14 DEF NodeThrows, OutOfSteps, ProcessDies, Resume
<1>15. CASE UNCHANGED vars
  BY <1>15 DEF vars
<1> QED
  BY <1>1, <1>2, <1>3, <1>4, <1>5, <1>6, <1>7, <1>8, <1>9, <1>10, <1>11, <1>12, <1>13, <1>14,
         <1>15
     DEF Next, NodeStep, Finished

\* Each critique beyond the debate cap is owed to a refetch or to a failed verification.
LEMMA DebateStep ==
    ControlTyped /\ CountersTyped /\ FlowInv /\ FetchInv /\ VerifyInv /\ DebateInv /\ [Next]_vars
        => DebateInv'
<1> SUFFICES ASSUME ControlTyped, CountersTyped, FlowInv, FetchInv, VerifyInv, DebateInv,
                    [Next]_vars
             PROVE  DebateInv'
  OBVIOUS
<1> USE DEF DebateInv, BeforeCritique, inputVars, strongVars, debateVars, patchVars,
            verifyVars, costVars, stateVars
<1>1. CASE ComplexityRouter
  BY <1>1, BoundFacts
     DEF ComplexityRouter, Visit, RouteByComplexity, FlowInv, PathInv, IdleInv,
         CountersTyped, Over, VerifyInv, FetchInv
<1>2. CASE DirectResponder
  BY <1>2, BoundFacts
     DEF DirectResponder, Visit, FlowInv, PathInv, IdleInv, CountersTyped, Over, VerifyInv,
         FetchInv
<1>3. CASE Swarm
  <2>1. complexity = "tool_complex" /\ complexity' = complexity
    BY <1>3, ToolPath DEF FlowInv, Swarm, Visit, ToolNodes
  <2> QED
    BY <1>3, <2>1, BoundFacts
       DEF Swarm, Visit, CountersTyped, FetchInv, VerifyInv, DebateBound, Over, FlowInv,
           PathInv, ReformatInv
<1>4. CASE Firewall
  <2>1. complexity = "tool_complex" /\ complexity' = complexity
    BY <1>4, ToolPath DEF FlowInv, Firewall, Visit, ToolNodes
  <2> QED
    BY <1>4, <2>1, BoundFacts
       DEF Firewall, Visit, CountersTyped, FetchInv, VerifyInv, DebateBound, Over, FlowInv,
           PathInv, ReformatInv
<1>5. CASE FrontierArchitect
  BY <1>5, BoundFacts
     DEF FrontierArchitect, Visit, RouteAfterFrontierArchitect, RouteAfterClaudeArchitect,
         FlowInv, PathInv, IdleInv, CountersTyped, Over, VerifyInv, FetchInv
<1>6. CASE ClaudeArchitect
  BY <1>6, BoundFacts
     DEF ClaudeArchitect, Visit, RouteAfterClaudeArchitect, FlowInv, PathInv, IdleInv,
         CountersTyped, Over, VerifyInv, FetchInv
<1>7. CASE ClaudeCoder
  <2>1. complexity = "tool_complex" /\ complexity' = complexity
    BY <1>7, ToolPath DEF FlowInv, ClaudeCoder, Visit, ToolNodes
  <2> QED
    BY <1>7, <2>1, BoundFacts
       DEF ClaudeCoder, Visit, RouteAfterCoder, CountersTyped, FetchInv, VerifyInv,
           DebateBound, Over, FlowInv, PathInv, ReformatInv
<1>8. CASE FrontierCritic
  <2>1. complexity = "tool_complex" /\ complexity' = complexity
    BY <1>8, ToolPath DEF FlowInv, FrontierCritic, Visit, ToolNodes
  <2> QED
    BY <1>8, <2>1, BoundFacts
       DEF FrontierCritic, Visit, RouteAfterFrontierCritic, RouteDebate, RefetchAllowed,
           CountersTyped, FetchInv, VerifyInv, DebateBound, Over, FlowInv, PathInv, ReformatInv
<1>9. CASE OpenaiCritic
  <2>1. complexity = "tool_complex" /\ complexity' = complexity
    BY <1>9, ToolPath DEF FlowInv, OpenaiCritic, Visit, ToolNodes
  <2> QED
    BY <1>9, <2>1, BoundFacts
       DEF OpenaiCritic, Visit, RouteDebate, RefetchAllowed, CountersTyped, FetchInv,
           VerifyInv, DebateBound, Over, FlowInv, PathInv, ReformatInv
<1>10. CASE SmeTiebreaker
  <2>1. complexity = "tool_complex" /\ complexity' = complexity
    BY <1>10, ToolPath DEF FlowInv, SmeTiebreaker, Visit, ToolNodes
  <2> QED
    BY <1>10, <2>1, BoundFacts
       DEF SmeTiebreaker, Visit, CountersTyped, FetchInv, VerifyInv, DebateBound, Over,
           FlowInv, PathInv, ReformatInv
<1>11. CASE ApplyPatches
  <2>1. complexity = "tool_complex" /\ complexity' = complexity
    BY <1>11, ToolPath DEF FlowInv, ApplyPatches, Visit, ToolNodes
  <2> QED
    BY <1>11, <2>1, BoundFacts
       DEF ApplyPatches, Visit, RouteAfterApplyPatches, SkipPatches, NothingApplied,
           SomeApplied, CountersTyped, FetchInv, VerifyInv, DebateBound, Over, FlowInv, PathInv,
           ReformatInv
<1>12. CASE Verify
  <2>1. complexity = "tool_complex" /\ complexity' = complexity
    BY <1>12, ToolPath DEF FlowInv, Verify, Visit, ToolNodes
  <2> QED
    BY <1>12, <2>1, BoundFacts
       DEF Verify, Visit, RouteAfterVerify, CountersTyped, FetchInv, VerifyInv,
           DebateBound, Over, FlowInv, PathInv, ReformatInv
<1>13. CASE Finalize
  BY <1>13, BoundFacts
     DEF Finalize, Visit, FlowInv, PathInv, IdleInv, CountersTyped, Over, VerifyInv, FetchInv
<1>14. CASE NodeThrows \/ OutOfSteps \/ ProcessDies \/ Resume
  BY <1>14 DEF NodeThrows, OutOfSteps, ProcessDies, Resume
<1>15. CASE UNCHANGED vars
  BY <1>15 DEF vars
<1> QED
  BY <1>1, <1>2, <1>3, <1>4, <1>5, <1>6, <1>7, <1>8, <1>9, <1>10, <1>11, <1>12, <1>13, <1>14,
         <1>15
     DEF Next, NodeStep, Finished

-----------------------------------------------------------------------------
(* The superstep count. *)

\* A fresh invocation owes nothing, wherever it re-enters the graph.
LEMMA PaidEnough ==
    ASSUME ControlTyped, CountersTyped, FlowInv, FetchInv
    PROVE  Paid \in Nat /\ Offset(next) \in Int /\ 0 <= Offset(next) + Paid
<1>1. Paid \in Nat /\ (contextFetches >= 1 => Paid >= 4)
  BY DEF Paid, CountersTyped
<1>2. Offset(next) \in Int /\ Offset(next) >= -2
  BY DEF Offset
<1>3. CASE next = "firewall"
  <2>1. complexity = "tool_complex"
    BY <1>3, ToolPath DEF FlowInv, ToolNodes
  <2> QED
    BY <1>1, <1>2, <1>3, <2>1 DEF FetchInv
<1>4. CASE next = "frontierArchitect"
  <2>1. complexity \in {"pure_reasoning", "tool_complex"}
    BY <1>4 DEF FlowInv, PathInv, ControlTyped, Complexities, Over
  <2> QED
    BY <1>1, <1>2, <1>4, <2>1 DEF FetchInv, Offset
<1>5. CASE next \notin {"firewall", "frontierArchitect"}
  <2>1. Offset(next) >= 0
    BY <1>5 DEF Offset
  <2> QED
    BY <1>1, <1>2, <2>1
<1> QED
  BY <1>3, <1>4, <1>5

\* A superstep either moves no further from the last counted event or counts a new one.
LEMMA StepsStep ==
    ControlTyped /\ CountersTyped /\ FlowInv /\ FetchInv /\ DebateInv /\ StepsInv /\ [Next]_vars
        => StepsInv'
<1> SUFFICES ASSUME ControlTyped, CountersTyped, FlowInv, FetchInv, DebateInv, StepsInv, [Next]_vars
             PROVE  StepsInv'
  OBVIOUS
<1> USE DEF StepsInv, inputVars, strongVars, debateVars, patchVars, verifyVars, costVars,
            stateVars
<1>1. CASE ComplexityRouter
  BY <1>1, BoundFacts
     DEF ComplexityRouter, Visit, RouteByComplexity, FlowInv, PathInv, IdleInv,
         CountersTyped, Over, Offset, Paid
<1>2. CASE DirectResponder
  BY <1>2, BoundFacts
     DEF DirectResponder, Visit, FlowInv, PathInv, IdleInv, CountersTyped, Over, Offset, Paid
<1>3. CASE Swarm
  <2>1. complexity = "tool_complex" /\ complexity' = complexity
    BY <1>3, ToolPath DEF FlowInv, Swarm, Visit, ToolNodes
  <2> QED
    BY <1>3, <2>1, BoundFacts
       DEF Swarm, Visit, CountersTyped, Offset, Paid, FlowInv, PathInv, ReformatInv
<1>4. CASE Firewall
  <2>1. complexity = "tool_complex" /\ complexity' = complexity
    BY <1>4, ToolPath DEF FlowInv, Firewall, Visit, ToolNodes
  <2> QED
    BY <1>4, <2>1, BoundFacts
       DEF Firewall, Visit, CountersTyped, Offset, Paid, FlowInv, PathInv, ReformatInv
<1>5. CASE FrontierArchitect
  <2>1. complexity \in {"pure_reasoning", "tool_complex"} /\ next = "frontierArchitect"
    BY <1>5 DEF FrontierArchitect, Visit, FlowInv, PathInv, ControlTyped, Complexities, Over
  <2>2. /\ complexity = "pure_reasoning" => next' # "claudeCoder"
        /\ next' \in {"finalize", "claudeArchitect", "claudeCoder"}
    BY <1>5 DEF FrontierArchitect, Visit, RouteAfterFrontierArchitect, RouteAfterClaudeArchitect
  <2>3. steps' = steps + 1 /\ UNCHANGED <<Paid, complexity>>
    BY <1>5 DEF FrontierArchitect, Visit, Paid
  <2>4. Offset(next)' >= Offset(next) + 1 /\ Offset(next) \in Int /\ Offset(next)' \in Int
    BY <2>1, <2>2, <2>3 DEF Offset
  <2> QED
    BY <2>3, <2>4, PaidEnough DEF CountersTyped
<1>6. CASE ClaudeArchitect
  <2>1. complexity \in {"pure_reasoning", "tool_complex"} /\ next = "claudeArchitect"
    BY <1>6 DEF ClaudeArchitect, Visit, FlowInv, PathInv, ControlTyped, Complexities, Over
  <2>2. /\ complexity = "pure_reasoning" => next' # "claudeCoder"
        /\ next' \in {"finalize", "claudeCoder"}
    BY <1>6 DEF ClaudeArchitect, Visit, RouteAfterClaudeArchitect
  <2>3. steps' = steps + 1 /\ UNCHANGED <<Paid, complexity>>
    BY <1>6 DEF ClaudeArchitect, Visit, Paid
  <2>4. Offset(next)' >= Offset(next) + 1 /\ Offset(next) \in Int /\ Offset(next)' \in Int
    BY <2>1, <2>2, <2>3 DEF Offset
  <2> QED
    BY <2>3, <2>4, PaidEnough DEF CountersTyped
<1>7. CASE ClaudeCoder
  <2>1. complexity = "tool_complex" /\ complexity' = complexity
    BY <1>7, ToolPath DEF FlowInv, ClaudeCoder, Visit, ToolNodes
  <2> QED
    BY <1>7, <2>1, BoundFacts
       DEF ClaudeCoder, Visit, RouteAfterCoder, CountersTyped, Offset, Paid, FlowInv,
           PathInv, ReformatInv
<1>8. CASE FrontierCritic
  <2>1. complexity = "tool_complex" /\ complexity' = complexity
    BY <1>8, ToolPath DEF FlowInv, FrontierCritic, Visit, ToolNodes
  <2> QED
    BY <1>8, <2>1, BoundFacts
       DEF FrontierCritic, Visit, RouteAfterFrontierCritic, RouteDebate, RefetchAllowed,
           CountersTyped, Offset, Paid, FlowInv, PathInv, ReformatInv
<1>9. CASE OpenaiCritic
  <2>1. complexity = "tool_complex" /\ complexity' = complexity
    BY <1>9, ToolPath DEF FlowInv, OpenaiCritic, Visit, ToolNodes
  <2> QED
    BY <1>9, <2>1, BoundFacts
       DEF OpenaiCritic, Visit, RouteDebate, RefetchAllowed, CountersTyped, Offset, Paid,
           FlowInv, PathInv, ReformatInv
<1>10. CASE SmeTiebreaker
  <2>1. complexity = "tool_complex" /\ complexity' = complexity
    BY <1>10, ToolPath DEF FlowInv, SmeTiebreaker, Visit, ToolNodes
  <2> QED
    BY <1>10, <2>1, BoundFacts
       DEF SmeTiebreaker, Visit, CountersTyped, Offset, Paid, FlowInv, PathInv, ReformatInv
<1>11. CASE ApplyPatches
  <2>1. complexity = "tool_complex" /\ complexity' = complexity
    BY <1>11, ToolPath DEF FlowInv, ApplyPatches, Visit, ToolNodes
  <2> QED
    BY <1>11, <2>1, BoundFacts
       DEF ApplyPatches, Visit, RouteAfterApplyPatches, SkipPatches, NothingApplied,
           SomeApplied, CountersTyped, Offset, Paid, FlowInv, PathInv, ReformatInv
<1>12. CASE Verify
  <2>1. complexity = "tool_complex" /\ complexity' = complexity
    BY <1>12, ToolPath DEF FlowInv, Verify, Visit, ToolNodes
  <2> QED
    BY <1>12, <2>1, BoundFacts
       DEF Verify, Visit, RouteAfterVerify, CountersTyped, Offset, Paid, FlowInv, PathInv,
           ReformatInv
<1>13. CASE Finalize
  <2>1. next = "finalize" /\ next' = "END" /\ steps' = steps + 1 /\ UNCHANGED <<Paid, complexity>>
    BY <1>13 DEF Finalize, Visit, Paid
  <2>2. Offset(next)' = Offset(next) + 1 /\ Offset(next) \in Int
    BY <2>1 DEF Offset
  <2> QED
    BY <2>1, <2>2, PaidEnough DEF CountersTyped
<1>14. CASE NodeThrows \/ OutOfSteps \/ ProcessDies \/ Resume
  <2>1. (steps' = steps \/ steps' = 0) /\ UNCHANGED <<Offset(next), Paid>>
    BY <1>14 DEF NodeThrows, OutOfSteps, ProcessDies, Resume, Offset, Paid
  <2> QED
    BY <2>1, PaidEnough DEF CountersTyped
<1>15. CASE UNCHANGED vars
  BY <1>15 DEF vars, Offset, Paid
<1> QED
  BY <1>1, <1>2, <1>3, <1>4, <1>5, <1>6, <1>7, <1>8, <1>9, <1>10, <1>11, <1>12, <1>13, <1>14,
         <1>15
     DEF Next, NodeStep, Finished

-----------------------------------------------------------------------------
(* Idempotency keys. *)

\* Between two verifications there is a critique, which changes the key.
LEMMA KeysStep ==
    ControlTyped /\ CountersTyped /\ FlowInv /\ KeysInv /\ [Next]_vars => KeysInv'
<1> SUFFICES ASSUME ControlTyped, CountersTyped, FlowInv, KeysInv, [Next]_vars
             PROVE  KeysInv'
  OBVIOUS
<1> USE DEF KeysInv, inputVars, strongVars, debateVars, patchVars, verifyVars, costVars, stateVars
<1>1. CASE ComplexityRouter
  BY <1>1
     DEF ComplexityRouter, Visit, RouteByComplexity, FlowInv, PathInv, IdleInv,
         ReformatInv, CountersTyped, Over
<1>2. CASE DirectResponder
  BY <1>2 DEF DirectResponder, Visit, FlowInv, PathInv, IdleInv, ReformatInv, CountersTyped, Over
<1>3. CASE Swarm
  <2>1. complexity = "tool_complex" /\ complexity' = complexity
    BY <1>3, ToolPath DEF FlowInv, Swarm, Visit, ToolNodes
  <2> QED
    BY <1>3, <2>1 DEF Swarm, Visit, CountersTyped, FlowInv, ReformatInv, Over
<1>4. CASE Firewall
  <2>1. complexity = "tool_complex" /\ complexity' = complexity
    BY <1>4, ToolPath DEF FlowInv, Firewall, Visit, ToolNodes
  <2> QED
    BY <1>4, <2>1 DEF Firewall, Visit, CountersTyped, FlowInv, ReformatInv, Over
<1>5. CASE FrontierArchitect
  BY <1>5
     DEF FrontierArchitect, Visit, RouteAfterFrontierArchitect, RouteAfterClaudeArchitect,
         FlowInv, PathInv, IdleInv, ReformatInv, CountersTyped, Over
<1>6. CASE ClaudeArchitect
  BY <1>6
     DEF ClaudeArchitect, Visit, RouteAfterClaudeArchitect, FlowInv, PathInv, IdleInv,
         ReformatInv, CountersTyped, Over
<1>7. CASE ClaudeCoder
  <2>1. complexity = "tool_complex" /\ complexity' = complexity
    BY <1>7, ToolPath DEF FlowInv, ClaudeCoder, Visit, ToolNodes
  <2> QED
    BY <1>7, <2>1
       DEF ClaudeCoder, Visit, RouteAfterCoder, CountersTyped, FlowInv, ReformatInv, Over
<1>8. CASE FrontierCritic
  <2>1. complexity = "tool_complex" /\ complexity' = complexity
    BY <1>8, ToolPath DEF FlowInv, FrontierCritic, Visit, ToolNodes
  <2> QED
    BY <1>8, <2>1
       DEF FrontierCritic, Visit, RouteAfterFrontierCritic, RouteDebate, RefetchAllowed,
           CountersTyped, FlowInv, ReformatInv, Over
<1>9. CASE OpenaiCritic
  <2>1. complexity = "tool_complex" /\ complexity' = complexity
    BY <1>9, ToolPath DEF FlowInv, OpenaiCritic, Visit, ToolNodes
  <2> QED
    BY <1>9, <2>1
       DEF OpenaiCritic, Visit, RouteDebate, RefetchAllowed, CountersTyped, FlowInv,
           ReformatInv, Over
<1>10. CASE SmeTiebreaker
  <2>1. complexity = "tool_complex" /\ complexity' = complexity
    BY <1>10, ToolPath DEF FlowInv, SmeTiebreaker, Visit, ToolNodes
  <2> QED
    BY <1>10, <2>1 DEF SmeTiebreaker, Visit, CountersTyped, FlowInv, ReformatInv, Over
<1>11. CASE ApplyPatches
  <2>1. complexity = "tool_complex" /\ complexity' = complexity
    BY <1>11, ToolPath DEF FlowInv, ApplyPatches, Visit, ToolNodes
  <2> QED
    BY <1>11, <2>1
       DEF ApplyPatches, Visit, RouteAfterApplyPatches, SkipPatches, NothingApplied,
           SomeApplied, CountersTyped, FlowInv, ReformatInv, Over
<1>12. CASE Verify
  <2>1. complexity = "tool_complex" /\ complexity' = complexity
    BY <1>12, ToolPath DEF FlowInv, Verify, Visit, ToolNodes
  <2>2. ~awaitingPatchReformat' /\ next' \in {"finalize", "claudeCoder"}
    BY <1>12 DEF Verify, Visit, RouteAfterVerify, FlowInv, ReformatInv, Over
  <2>3. usedKeys' = usedKeys \cup {debateIterations} /\ debateIterations' = debateIterations
    BY <1>12, <2>1 DEF Verify
  <2> QED
    BY <2>2, <2>3 DEF CountersTyped
<1>13. CASE Finalize
  BY <1>13 DEF Finalize, Visit, FlowInv, PathInv, IdleInv, ReformatInv, CountersTyped, Over
<1>14. CASE NodeThrows \/ OutOfSteps \/ ProcessDies \/ Resume
  BY <1>14 DEF NodeThrows, OutOfSteps, ProcessDies, Resume
<1>15. CASE UNCHANGED vars
  BY <1>15 DEF vars
<1> QED
  BY <1>1, <1>2, <1>3, <1>4, <1>5, <1>6, <1>7, <1>8, <1>9, <1>10, <1>11, <1>12, <1>13, <1>14,
         <1>15
     DEF Next, NodeStep, Finished

-----------------------------------------------------------------------------
(* Drafts. *)

\* No step brings an unreviewed coder draft to applyPatches, a reformatted one apart.
LEMMA ReviewedStep ==
    ReformatInv /\ UnreviewedOnlyToReformat /\ [Next]_vars => UnreviewedOnlyToReformat'
<1> SUFFICES ASSUME ReformatInv, UnreviewedOnlyToReformat, [Next]_vars
             PROVE  UnreviewedOnlyToReformat'
  OBVIOUS
<1> USE DEF UnreviewedOnlyToReformat, ReformatInv, Over, inputVars, strongVars, debateVars,
            patchVars, verifyVars, costVars, stateVars
<1>1. CASE ComplexityRouter
  BY <1>1 DEF ComplexityRouter, Visit, RouteByComplexity
<1>2. CASE DirectResponder
  BY <1>2 DEF DirectResponder, Visit
<1>3. CASE Swarm
  BY <1>3 DEF Swarm, Visit
<1>4. CASE Firewall
  BY <1>4 DEF Firewall, Visit
<1>5. CASE FrontierArchitect
  BY <1>5 DEF FrontierArchitect, Visit, RouteAfterFrontierArchitect, RouteAfterClaudeArchitect
<1>6. CASE ClaudeArchitect
  BY <1>6 DEF ClaudeArchitect, Visit, RouteAfterClaudeArchitect
<1>7. CASE ClaudeCoder
  BY <1>7 DEF ClaudeCoder, Visit, RouteAfterCoder
<1>8. CASE FrontierCritic
  BY <1>8 DEF FrontierCritic, Visit, RouteAfterFrontierCritic, RouteDebate, RefetchAllowed
<1>9. CASE OpenaiCritic
  BY <1>9 DEF OpenaiCritic, Visit, RouteDebate, RefetchAllowed
<1>10. CASE SmeTiebreaker
  BY <1>10 DEF SmeTiebreaker, Visit
<1>11. CASE ApplyPatches
  BY <1>11
     DEF ApplyPatches, Visit, RouteAfterApplyPatches, SkipPatches, NothingApplied, SomeApplied
<1>12. CASE Verify
  BY <1>12 DEF Verify, Visit, RouteAfterVerify
<1>13. CASE Finalize
  BY <1>13 DEF Finalize, Visit
<1>14. CASE NodeThrows \/ OutOfSteps \/ ProcessDies \/ Resume
  BY <1>14 DEF NodeThrows, OutOfSteps, ProcessDies, Resume
<1>15. CASE UNCHANGED vars
  BY <1>15 DEF vars
<1> QED
  BY <1>1, <1>2, <1>3, <1>4, <1>5, <1>6, <1>7, <1>8, <1>9, <1>10, <1>11, <1>12, <1>13, <1>14,
         <1>15
     DEF Next, NodeStep, Finished

-----------------------------------------------------------------------------
(* The theorems. *)

\* The induction hypothesis of the loops.
LInv == TypeOK /\ LoopsPaidFor

\* A fresh run owes nothing.
LEMMA LoopsInit == Init => LInv /\ MoneyInv
<1> SUFFICES ASSUME Init PROVE LInv /\ MoneyInv
  OBVIOUS
<1>1. FlowInv /\ KeysInv
  BY DEF Init, FlowInv, PathInv, IdleInv, ReformatInv, KeysInv, Over
<1>2. FetchInv /\ VerifyInv /\ FormatInv
  BY BoundFacts DEF Init, FetchInv, VerifyInv, FormatInv, Over
<1>3. DebateInv
  BY BoundFacts DEF Init, DebateInv, DebateBound
<1>4. StepsInv
  BY DEF Init, StepsInv, Offset, Paid
<1>5. MoneyInv
  BY DEF Init, MoneyInv
<1> QED
  BY <1>1, <1>2, <1>3, <1>4, <1>5, TypeInit DEF LInv, LoopsPaidFor, CountInv

\* Every step preserves the bookkeeping of the loops.
LEMMA LoopsStep == LInv /\ [Next]_vars => LInv'
<1> SUFFICES ASSUME LInv, [Next]_vars PROVE LInv'
  OBVIOUS
<1>1. /\ ControlTyped /\ FlagsTyped /\ CountersTyped
      /\ FlowInv /\ PathInv /\ IdleInv /\ ReformatInv
      /\ FetchInv /\ VerifyInv /\ FormatInv /\ DebateInv /\ StepsInv /\ KeysInv
  BY DEF LInv, TypeOK, LoopsPaidFor, FlowInv, CountInv
<1>2. TypeOK'
  BY <1>1, ControlStep, FlagsStep, CountersStep DEF TypeOK
<1>3. FlowInv'
  BY <1>1, PathStep, IdleStep, ReformatStep DEF FlowInv
<1>4. CountInv'
  BY <1>1, FetchStep, VerifyStep, FormatStep, DebateStep DEF CountInv
<1>5. StepsInv' /\ KeysInv'
  BY <1>1, StepsStep, KeysStep
<1> QED
  BY <1>2, <1>3, <1>4, <1>5 DEF LInv, LoopsPaidFor

\* The bookkeeping of the loops is an invariant: every superstep is paid for.
THEOREM LoopsAccounted == Spec => [](TypeOK /\ LoopsPaidFor)
<1>1. Init => LInv
  BY LoopsInit
<1> QED
  BY <1>1, LoopsStep, PTL DEF Spec, LInv

\* Every loop of the graph stays within the bound its caps imply, for any caps.
THEOREM LoopCaps == Spec => []LoopsCapped
<1>1. LoopsPaidFor => LoopsCapped
  BY DEF LoopsPaidFor, CountInv, FetchInv, VerifyInv, FormatInv, DebateInv, LoopsCapped
<1> QED
  BY <1>1, LoopsAccounted, PTL

\* The bookkeeping bounds the supersteps, and leaves room for one more until the run is over.
LEMMA StepsWithinBound ==
    ASSUME TypeOK, LoopsPaidFor
    PROVE  steps <= StepBound /\ (status = "running" => steps < StepBound)
<1>1. /\ steps \in Nat /\ debateIterations \in Nat /\ contextFetches \in Nat
      /\ patchFormatRetries \in Nat /\ verifyAttempts \in Nat
  BY DEF TypeOK, CountersTyped
<1>2. /\ contextFetches <= FetchBound /\ debateIterations <= DebateBound
      /\ verifyAttempts <= VerifyBound /\ patchFormatRetries <= FormatBound
      /\ next \notin Over => verifyAttempts < VerifyBound /\ patchFormatRetries < FormatBound
      /\ complexity # "tool_complex" =>
            /\ contextFetches = 0 /\ debateIterations = 0
            /\ verifyAttempts = 0 /\ patchFormatRetries = 0
  BY DEF LoopsPaidFor, CountInv, FetchInv, VerifyInv, FormatInv, DebateInv, FlowInv, IdleInv
<1>3. DebateBound \in Int /\ DebateBound >= 1
  BY BoundFacts DEF DebateBound
<1>4. steps <= Offset(next) + 4 * contextFetches + 3 * debateIterations
               + 3 * verifyAttempts + 2 * patchFormatRetries
  BY <1>1 DEF LoopsPaidFor, StepsInv, Paid, Offset
<1>5. status = "running" => next # "END"
  BY DEF LoopsPaidFor, FlowInv, PathInv
<1>6. CASE next \notin Over
  <2>1. Offset(next) \in Int /\ Offset(next) <= 3
    BY <1>6 DEF Offset, Over, TypeOK, ControlTyped, Nodes, LlmNodes
  <2> QED
    BY <1>1, <1>2, <1>3, <1>4, <1>6, <2>1, BoundFacts DEF StepBound
<1>7. CASE next = "finalize"
  <2>1. /\ complexity = "tool_complex" => Offset(next) = 1
        /\ complexity # "tool_complex" => Offset(next) = 3
    BY <1>7 DEF Offset
  <2> QED
    BY <1>1, <1>2, <1>3, <1>4, <2>1, BoundFacts DEF StepBound
<1>8. CASE next = "END"
  <2>1. /\ complexity = "tool_complex" => Offset(next) = 2
        /\ complexity # "tool_complex" => Offset(next) = 4
    BY <1>8 DEF Offset
  <2> QED
    BY <1>1, <1>2, <1>3, <1>4, <1>5, <1>8, <2>1, BoundFacts DEF StepBound
<1> QED
  BY <1>6, <1>7, <1>8 DEF Over

\* One invocation of the graph takes at most StepBound supersteps, for any caps.
THEOREM StepsAreBounded == Spec => []StepsBounded
<1>1. TypeOK /\ LoopsPaidFor => StepsBounded
  BY StepsWithinBound DEF StepsBounded
<1> QED
  BY <1>1, LoopsAccounted, PTL

\* A recursion limit of at least StepBound is never the reason a run stops.
THEOREM RecursionLimitSuffices ==
    ASSUME StepBound <= RecursionLimit
    PROVE  Spec => []NeverOutOfSteps
<1>1. StepBound \in Int
  BY BoundFacts DEF StepBound, DebateBound
<1>2. TypeOK /\ LoopsPaidFor => NeverOutOfSteps
  BY <1>1, StepsWithinBound, CapsAssumption DEF NeverOutOfSteps, TypeOK, CountersTyped
<1> QED
  BY <1>2, LoopsAccounted, PTL

\* No two verifications of a run, resumed or not, share an idempotency key.
THEOREM VerifyKeysDistinct == Spec => []VerifyKeysFresh
<1>1. LoopsPaidFor => VerifyKeysFresh
  BY DEF LoopsPaidFor, KeysInv, VerifyKeysFresh
<1> QED
  BY <1>1, LoopsAccounted, PTL

\* Reasoning and trivial tasks never fetch, patch or verify anything.
THEOREM ReasoningIsolated == Spec => []ReasoningTouchesNothing
<1>1. LoopsPaidFor => ReasoningTouchesNothing
  BY DEF LoopsPaidFor, FlowInv, IdleInv, ReasoningTouchesNothing
<1> QED
  BY <1>1, LoopsAccounted, PTL

\* Only reformatted drafts skip the critics, for any caps, budgets and charges.
THEOREM DraftsAreReviewed == Spec => []UnreviewedOnlyToReformat
<1>1. Init => UnreviewedOnlyToReformat
  BY DEF Init, UnreviewedOnlyToReformat
<1>2. TypeOK /\ LoopsPaidFor /\ UnreviewedOnlyToReformat /\ [Next]_vars => UnreviewedOnlyToReformat'
  BY ReviewedStep DEF TypeOK, LoopsPaidFor, FlowInv
<1> QED
  BY <1>1, <1>2, LoopsAccounted, PTL DEF Spec

=============================================================================
