------------------------ MODULE MainGraphBudgetProofs ------------------------
(***************************************************************************)
(* Proofs about money in MainGraph: what the budget gates guarantee, for   *)
(* every budget, every charge and every projection.                        *)
(***************************************************************************)
EXTENDS MainGraphProofs

-----------------------------------------------------------------------------
(* Facts about the soft guard. *)

\* What an affordable step leaves room for.
LEMMA GateLeavesRoom ==
    ASSUME NEW b \in Int, NEW t \in Nat, NEW p \in Nat, CanSpend(b, t, p)
    PROVE  Limited(b) => BelowCeiling(b, t + p)
BY DEF CanSpend, IsCostBudgetNear

\* Paying c out of the room for p leaves room for every q with c + q <= p.
LEMMA PayFromRoom ==
    ASSUME NEW b \in Int, NEW t \in Nat, NEW c \in Nat, NEW p \in Nat, NEW q \in Nat,
           c + q <= p, Limited(b) => BelowCeiling(b, t + p)
    PROVE  Limited(b) => BelowCeiling(b, (t + c) + q)
<1>1. 100 * (t + p) < 95 * b => 100 * ((t + c) + q) < 95 * b
  OBVIOUS
<1> QED
  BY <1>1 DEF BelowCeiling, SoftCeilingPercent

\* What cannot be paid for now cannot be paid for later, nor can anything dearer.
LEMMA NearStaysNear ==
    ASSUME NEW b \in Int, NEW t \in Nat, NEW c \in Nat, NEW p \in Nat, NEW q \in Nat,
           p <= q, IsCostBudgetNear(b, t, p)
    PROVE  IsCostBudgetNear(b, t + c, q)
<1>1. 100 * ((t + c) + q) < 95 * b => 100 * (t + p) < 95 * b
  OBVIOUS
<1>2. b - t <= MinRemaining => b - (t + c) <= MinRemaining
  BY MinRemainingAssumption
<1> QED
  BY <1>1, <1>2 DEF IsCostBudgetNear, BelowCeiling, SoftCeilingPercent

\* What is too dear now makes anything dearer too dear.
LEMMA NearAndDearer ==
    ASSUME NEW b \in Int, NEW t \in Nat, NEW p \in Nat, NEW q \in Nat, p <= q,
           IsCostBudgetNear(b, t, p)
    PROVE  IsCostBudgetNear(b, t, q)
<1>1. 100 * (t + q) < 95 * b => 100 * (t + p) < 95 * b
  OBVIOUS
<1> QED
  BY <1>1 DEF IsCostBudgetNear, BelowCeiling, SoftCeilingPercent

-----------------------------------------------------------------------------
(* The gates of the graph. *)

\* The numbers the gates work with.
LEMMA MoneyTypes ==
    ASSUME ControlTyped, CountersTyped
    PROVE  /\ budget \in Int /\ totalCost \in Nat /\ opening \in Nat /\ debateIterations \in Nat
           /\ ProjRefetch \in Nat /\ ProjStrongArchitect \in Nat /\ ProjCoderReview \in Nat
           /\ ProjStrongCritic \in Nat /\ ProjSme \in Nat
           /\ \A n \in LlmNodes : Charge[n] # {} /\ \A c \in Charge[n] : c \in Nat
BY CostAssumption DEF ControlTyped, CountersTyped

\* With conservative projections no step breaks what the gates have left room for.
LEMMA MoneyStep ==
    ASSUME ConservativeProjections
    PROVE  ControlTyped /\ CountersTyped /\ FlowInv /\ MoneyInv /\ [Next]_vars => MoneyInv'
<1> SUFFICES ASSUME ControlTyped, CountersTyped, FlowInv, MoneyInv, [Next]_vars
             PROVE  MoneyInv'
  OBVIOUS
<1> USE DEF inputVars, strongVars, debateVars, patchVars, verifyVars, costVars, stateVars
<1>a. /\ budget \in Int /\ totalCost \in Nat /\ opening \in Nat /\ debateIterations \in Nat
      /\ ProjRefetch \in Nat /\ ProjStrongArchitect \in Nat /\ ProjCoderReview \in Nat
      /\ ProjStrongCritic \in Nat /\ ProjSme \in Nat
      /\ \A n \in LlmNodes : Charge[n] # {} /\ \A c \in Charge[n] : c \in Nat
  BY MoneyTypes
<1>b. ASSUME NEW p \in Nat, Affordable(p)', budget' = budget, totalCost' \in Nat
      PROVE  Room(p)'
  BY <1>a, <1>b, GateLeavesRoom DEF Affordable, Room
<1>c. ASSUME NEW p \in Nat, Room(p), NEW c \in Nat, NEW q \in Nat, c + q <= p,
             totalCost' = totalCost + c, budget' = budget
      PROVE  Room(q)'
  BY <1>a, <1>c, PayFromRoom DEF Room
<1>d. ASSUME NEW p \in Nat, Room(p)', budget' = budget, totalCost' \in Nat
      PROVE  Room(0)'
  <2>1. (totalCost' + 0) + 0 = totalCost' + 0 /\ 0 + 0 <= p /\ budget' \in Int
    BY <1>a, <1>d
  <2> QED
    BY <1>d, <2>1, PayFromRoom DEF Room
<1>e. ASSUME NEW p \in Nat, ~Near(p)' PROVE Affordable(p)'
  BY <1>e DEF Near, Affordable, CanSpend
<1>1. CASE ComplexityRouter
  <2>1. opening' = totalCost' /\ debateIterations' = 0
    BY <1>1 DEF ComplexityRouter, Visit, Bill, OpeningNodes, MoneyInv
  <2>2. next' \in {"directResponder", "frontierArchitect", "swarm"}
    BY <1>1 DEF ComplexityRouter, RouteByComplexity
  <2>3. totalCost' \in Nat
    BY <1>1, BillFacts DEF ComplexityRouter, LlmNodes
  <2> QED
    BY <2>1, <2>2, <2>3 DEF MoneyInv
<1>2. CASE DirectResponder
  <2>1. opening' = totalCost' /\ next' = "finalize"
    BY <1>2 DEF DirectResponder, Visit, Bill, OpeningNodes, MoneyInv
  <2>2. totalCost' \in Nat
    BY <1>2, BillFacts DEF DirectResponder, LlmNodes
  <2> QED
    BY <2>1, <2>2 DEF MoneyInv
<1>3. CASE Swarm
  <2>1. PICK s \in Charge["swarm"] : totalCost' = totalCost + s
    BY <1>3 DEF Swarm, Bill
  <2>2. /\ s \in Nat /\ totalCost' \in Nat /\ budget' = budget /\ next = "swarm"
        /\ debateIterations' = debateIterations /\ next' = "firewall"
    BY <1>3, <1>a, <2>1 DEF Swarm, Visit, LlmNodes
  <2>3. CASE debateIterations = 0
    <3>1. opening' = totalCost'
      BY <1>3, <2>3 DEF Swarm, Bill, OpeningNodes
    <3> QED
      BY <2>2, <2>3, <3>1 DEF MoneyInv
  <2>4. CASE debateIterations > 0
    <3>1. Room(ProjRefetch)
      BY <2>2, <2>4 DEF MoneyInv
    <3>2. \A a \in Charge["frontierArchitect"] : a \in Nat /\ s + a <= ProjRefetch
      BY <1>a, <2>2, ConservativeProjections DEF ConservativeProjections, LlmNodes
    <3>3. \A a \in Charge["frontierArchitect"] : Room(a)'
      BY <1>a, <1>c, <2>1, <2>2, <3>1, <3>2
    <3>4. PICK a \in Charge["frontierArchitect"] : TRUE
      BY <1>a DEF LlmNodes
    <3>5. Room(0)'
      BY <1>d, <2>2, <3>2, <3>3, <3>4
    <3> QED
      BY <2>2, <3>3, <3>5 DEF MoneyInv
  <2> QED
    BY <1>a, <2>3, <2>4
<1>4. CASE Firewall
  <2>1. /\ UNCHANGED <<budget, totalCost, opening, debateIterations>>
        /\ next = "firewall" /\ next' = "frontierArchitect"
    BY <1>4 DEF Firewall, Visit
  <2> QED
    BY <2>1 DEF MoneyInv, Room
<1>5. CASE FrontierArchitect
  <2>1. PICK a \in Charge["frontierArchitect"] : totalCost' = totalCost + a
    BY <1>5 DEF FrontierArchitect, Bill
  <2>2. /\ a \in Nat /\ totalCost' \in Nat /\ budget' = budget /\ next = "frontierArchitect"
        /\ debateIterations' = debateIterations /\ complexity' = complexity
    BY <1>5, <1>a, <2>1 DEF FrontierArchitect, Visit, LlmNodes
  <2>3. totalCost' > opening' => Room(0)'
    <3>1. CASE debateIterations = 0
      <4>1. opening' = totalCost'
        BY <1>5, <3>1 DEF FrontierArchitect, Bill, OpeningNodes
      <4> QED
        BY <2>2, <4>1
    <3>2. CASE debateIterations > 0
      <4>1. Room(a)
        BY <2>1, <2>2, <3>2 DEF MoneyInv
      <4> QED
        BY <1>c, <2>1, <2>2, <4>1
    <3> QED
      BY <1>a, <3>1, <3>2
  <2>4. next' = "claudeCoder" => Room(ProjCoderReview)'
    <3>1. next' = "claudeCoder" => ~Near(ProjCoderReview)'
      BY <1>5 DEF FrontierArchitect, RouteAfterFrontierArchitect
    <3> QED
      BY <1>a, <1>b, <1>e, <2>2, <3>1
  <2>5. next' = "claudeArchitect" =>
           Room(ProjStrongArchitect + (IF complexity = "pure_reasoning" THEN 0
                                      ELSE ProjCoderReview))'
    <3>1. CASE complexity = "pure_reasoning"
      <4>1. next' = "claudeArchitect" => Affordable(ProjStrongArchitect)'
        BY <1>5, <2>2, <3>1 DEF FrontierArchitect, RouteAfterFrontierArchitect
      <4>2. ProjStrongArchitect + 0 = ProjStrongArchitect
        BY <1>a
      <4>3. next' = "claudeArchitect" => Room(ProjStrongArchitect)'
        BY <1>a, <1>b, <2>2, <4>1
      <4> QED
        BY <2>2, <3>1, <4>2, <4>3
    <3>2. CASE complexity # "pure_reasoning"
      <4>1. next' = "claudeArchitect" => Affordable(ProjStrongArchitect + ProjCoderReview)'
        BY <1>5, <2>2, <3>2 DEF FrontierArchitect, RouteAfterFrontierArchitect
      <4>2. ProjStrongArchitect + ProjCoderReview \in Nat
        BY <1>a
      <4>3. next' = "claudeArchitect" => Room(ProjStrongArchitect + ProjCoderReview)'
        BY <1>b, <2>2, <4>1, <4>2
      <4> QED
        BY <2>2, <3>2, <4>3
    <3> QED
      BY <3>1, <3>2
  <2>6. next' \in {"finalize", "claudeArchitect", "claudeCoder"}
    BY <1>5 DEF FrontierArchitect, RouteAfterFrontierArchitect, RouteAfterClaudeArchitect
  <2> QED
    BY <2>2, <2>3, <2>4, <2>5, <2>6 DEF MoneyInv
<1>6. CASE ClaudeArchitect
  <2>1. PICK c \in Charge["claudeArchitect"] : totalCost' = totalCost + c
    BY <1>6 DEF ClaudeArchitect, Bill
  <2>2. /\ c \in Nat /\ totalCost' \in Nat /\ budget' = budget /\ next = "claudeArchitect"
        /\ c <= ProjStrongArchitect
    BY <1>6, <1>a, <2>1, ConservativeProjections
       DEF ClaudeArchitect, Visit, LlmNodes, ConservativeProjections
  <2>3. CASE complexity = "pure_reasoning"
    <3>1. next' = "finalize"
      BY <1>6, <2>3 DEF ClaudeArchitect, RouteAfterClaudeArchitect
    <3>2. Room(ProjStrongArchitect)
      <4>1. Room(ProjStrongArchitect + 0) /\ ProjStrongArchitect + 0 = ProjStrongArchitect
        BY <1>a, <2>2, <2>3 DEF MoneyInv
      <4> QED
        BY <4>1
    <3>3. Room(0)'
      BY <1>a, <1>c, <2>1, <2>2, <3>2
    <3> QED
      BY <3>1, <3>3 DEF MoneyInv
  <2>4. CASE complexity # "pure_reasoning"
    <3>1. next' = "claudeCoder"
      BY <1>6, <2>4 DEF ClaudeArchitect, RouteAfterClaudeArchitect
    <3>2. Room(ProjStrongArchitect + ProjCoderReview)
      BY <2>2, <2>4 DEF MoneyInv
    <3>3. Room(ProjCoderReview)'
      BY <1>a, <1>c, <2>1, <2>2, <3>2
    <3>4. Room(0)'
      BY <1>a, <1>d, <2>2, <3>3
    <3> QED
      BY <3>1, <3>3, <3>4 DEF MoneyInv
  <2> QED
    BY <2>3, <2>4
<1>7. CASE ClaudeCoder
  <2>1. PICK c \in Charge["claudeCoder"] : totalCost' = totalCost + c
    BY <1>7 DEF ClaudeCoder, Bill
  <2>2. /\ c \in Nat /\ totalCost' \in Nat /\ budget' = budget /\ next = "claudeCoder"
        /\ next' \in {"applyPatches", "frontierCritic"}
    BY <1>7, <1>a, <2>1 DEF ClaudeCoder, Visit, LlmNodes, RouteAfterCoder
  <2>3. Room(ProjCoderReview)
    BY <2>2 DEF MoneyInv
  <2>4. \A r \in Charge["frontierCritic"] : r \in Nat /\ c + r <= ProjCoderReview
    BY <1>a, ConservativeProjections DEF LlmNodes, ConservativeProjections
  <2>5. \A r \in Charge["frontierCritic"] : Room(r)'
    BY <1>a, <1>c, <2>1, <2>2, <2>3, <2>4
  <2>6. PICK r \in Charge["frontierCritic"] : TRUE
    BY <1>a DEF LlmNodes
  <2>7. Room(0)'
    BY <1>d, <2>2, <2>4, <2>5, <2>6
  <2> QED
    BY <2>2, <2>5, <2>7 DEF MoneyInv
<1>f. ASSUME next' = RouteDebate', Room(0)', budget' = budget, totalCost' \in Nat
      PROVE  MoneyInv'
  <2>1. next' \in {"applyPatches", "swarm", "smeTiebreaker", "claudeCoder"}
    BY <1>f DEF RouteDebate
  <2>2. next' = "swarm" => Affordable(ProjRefetch)'
    BY <1>f DEF RouteDebate, RefetchAllowed
  <2>3. next' = "smeTiebreaker" => Affordable(ProjSme)'
    BY <1>f DEF RouteDebate
  <2>4. next' = "claudeCoder" => Affordable(ProjCoderReview)'
    BY <1>f DEF RouteDebate
  <2>5. /\ next' = "swarm" => Room(ProjRefetch)'
        /\ next' = "smeTiebreaker" => Room(ProjSme)'
        /\ next' = "claudeCoder" => Room(ProjCoderReview)'
    BY <1>a, <1>b, <1>f, <2>2, <2>3, <2>4
  <2> QED
    BY <1>f, <2>1, <2>5 DEF MoneyInv
<1>8. CASE FrontierCritic
  <2>1. PICK r \in Charge["frontierCritic"] : totalCost' = totalCost + r
    BY <1>8 DEF FrontierCritic, Bill
  <2>2. r \in Nat /\ totalCost' \in Nat /\ budget' = budget /\ next = "frontierCritic"
    BY <1>8, <1>a, <2>1 DEF FrontierCritic, Visit, LlmNodes
  <2>3. Room(r)
    BY <2>1, <2>2 DEF MoneyInv
  <2>4. Room(0)'
    BY <1>c, <2>1, <2>2, <2>3
  <2>5. CASE next' = RouteDebate'
    BY <1>f, <2>2, <2>4, <2>5
  <2>6. CASE next' = "openaiCritic" /\ Affordable(ProjStrongCritic)'
    <3>1. Room(ProjStrongCritic)'
      BY <1>a, <1>b, <2>2, <2>6
    <3> QED
      BY <2>4, <2>6, <3>1 DEF MoneyInv
  <2> QED
    BY <1>8, <2>5, <2>6 DEF FrontierCritic, RouteAfterFrontierCritic
<1>9. CASE OpenaiCritic
  <2>1. PICK c \in Charge["openaiCritic"] : totalCost' = totalCost + c
    BY <1>9 DEF OpenaiCritic, Bill
  <2>2. /\ c \in Nat /\ totalCost' \in Nat /\ budget' = budget /\ next = "openaiCritic"
        /\ c <= ProjStrongCritic
    BY <1>9, <1>a, <2>1, ConservativeProjections
       DEF OpenaiCritic, Visit, LlmNodes, ConservativeProjections
  <2>3. Room(ProjStrongCritic)
    BY <2>2 DEF MoneyInv
  <2>4. Room(0)'
    BY <1>a, <1>c, <2>1, <2>2, <2>3
  <2> QED
    BY <1>9, <1>f, <2>2, <2>4 DEF OpenaiCritic
<1>10. CASE SmeTiebreaker
  <2>1. PICK c \in Charge["smeTiebreaker"] : totalCost' = totalCost + c
    BY <1>10 DEF SmeTiebreaker, Bill
  <2>2. /\ c \in Nat /\ totalCost' \in Nat /\ budget' = budget /\ next = "smeTiebreaker"
        /\ c <= ProjSme /\ next' = "applyPatches"
    BY <1>10, <1>a, <2>1, ConservativeProjections
       DEF SmeTiebreaker, Visit, LlmNodes, ConservativeProjections
  <2>3. Room(ProjSme)
    BY <2>2 DEF MoneyInv
  <2>4. Room(0)'
    BY <1>a, <1>c, <2>1, <2>2, <2>3
  <2> QED
    BY <2>2, <2>4 DEF MoneyInv
<1>g. ASSUME UNCHANGED <<budget, totalCost, opening>>,
             next' \in {"verify", "finalize", "END", "claudeCoder"},
             next' = "claudeCoder" => ~Near(ProjCoderReview)'
      PROVE  MoneyInv'
  <2>1. next' = "claudeCoder" => Room(ProjCoderReview)'
    BY <1>a, <1>b, <1>e, <1>g
  <2>2. totalCost' > opening' => Room(0)'
    BY <1>g DEF MoneyInv, Room
  <2> QED
    BY <1>g, <2>1, <2>2 DEF MoneyInv
<1>11. CASE ApplyPatches
  BY <1>11, <1>g DEF ApplyPatches, RouteAfterApplyPatches
<1>12. CASE Verify
  BY <1>12, <1>g DEF Verify, RouteAfterVerify
<1>13. CASE Finalize
  BY <1>13, <1>g DEF Finalize
<1>14. CASE NodeThrows \/ OutOfSteps \/ ProcessDies \/ Resume \/ UNCHANGED vars
  <2>1. UNCHANGED <<next, stateVars>>
    BY <1>14 DEF NodeThrows, OutOfSteps, ProcessDies, Resume, vars
  <2> QED
    BY <2>1 DEF MoneyInv, Room
<1> QED
  BY <1>1, <1>2, <1>3, <1>4, <1>5, <1>6, <1>7, <1>8, <1>9, <1>10, <1>11, <1>12, <1>13, <1>14
     DEF Next, NodeStep, Finished

\* A strong review that could not be paid for cannot be paid for later.
LEMMA StrongReviewStep ==
    ControlTyped /\ CountersTyped /\ StrongReviewSkippedOnlyForBudget /\ [Next]_vars
        => StrongReviewSkippedOnlyForBudget'
<1> SUFFICES ASSUME ControlTyped, CountersTyped, StrongReviewSkippedOnlyForBudget, [Next]_vars
             PROVE  StrongReviewSkippedOnlyForBudget'
  OBVIOUS
<1> USE DEF StrongReviewSkippedOnlyForBudget, inputVars, strongVars, debateVars, patchVars,
            verifyVars, costVars, stateVars
<1>a. \A n \in LlmNodes : \A c \in Charge[n] : c \in Nat
  BY MoneyTypes
<1>b. ASSUME UNCHANGED <<budget, strongCriticRequired>>, next # "openaiCritic",
             NEW c \in Nat, totalCost' = totalCost + c
      PROVE  StrongReviewSkippedOnlyForBudget'
  BY <1>b, MoneyTypes, NearStaysNear DEF Affordable, CanSpend
<1>1. CASE ComplexityRouter
  <2>1. /\ UNCHANGED <<budget, strongCriticRequired>> /\ next # "openaiCritic"
        /\ \E c \in Nat : totalCost' = totalCost + c
    BY <1>1, <1>a DEF ComplexityRouter, Visit, Bill, LlmNodes
  <2> QED
    BY <1>b, <2>1
<1>2. CASE DirectResponder
  <2>1. /\ UNCHANGED <<budget, strongCriticRequired>> /\ next # "openaiCritic"
        /\ \E c \in Nat : totalCost' = totalCost + c
    BY <1>2, <1>a DEF DirectResponder, Visit, Bill, LlmNodes
  <2> QED
    BY <1>b, <2>1
<1>3. CASE Swarm
  <2>1. /\ UNCHANGED <<budget, strongCriticRequired>> /\ next # "openaiCritic"
        /\ \E c \in Nat : totalCost' = totalCost + c
    BY <1>3, <1>a DEF Swarm, Visit, Bill, LlmNodes
  <2> QED
    BY <1>b, <2>1
<1>4. CASE Firewall
  <2>1. UNCHANGED <<budget, totalCost, strongCriticRequired>> /\ next # "openaiCritic"
    BY <1>4 DEF Firewall, Visit
  <2> QED
    BY <2>1 DEF Affordable
<1>5. CASE FrontierArchitect
  <2>1. /\ UNCHANGED <<budget, strongCriticRequired>> /\ next # "openaiCritic"
        /\ \E c \in Nat : totalCost' = totalCost + c
    BY <1>5, <1>a DEF FrontierArchitect, Visit, Bill, LlmNodes
  <2> QED
    BY <1>b, <2>1
<1>6. CASE ClaudeArchitect
  <2>1. /\ UNCHANGED <<budget, strongCriticRequired>> /\ next # "openaiCritic"
        /\ \E c \in Nat : totalCost' = totalCost + c
    BY <1>6, <1>a DEF ClaudeArchitect, Visit, Bill, LlmNodes
  <2> QED
    BY <1>b, <2>1
<1>7. CASE ClaudeCoder
  <2>1. /\ UNCHANGED <<budget, strongCriticRequired>> /\ next # "openaiCritic"
        /\ \E c \in Nat : totalCost' = totalCost + c
    BY <1>7, <1>a DEF ClaudeCoder, Visit, Bill, LlmNodes
  <2> QED
    BY <1>b, <2>1
<1>8. CASE FrontierCritic
  <2>1. /\ budget' = budget
        /\ strongCriticRequired' /\ next' # "openaiCritic" => ~Affordable(ProjStrongCritic)'
    BY <1>8 DEF FrontierCritic, RouteAfterFrontierCritic, RouteDebate
  <2> QED
    BY <2>1
<1>9. CASE OpenaiCritic
  BY <1>9 DEF OpenaiCritic
<1>10. CASE SmeTiebreaker
  <2>1. /\ UNCHANGED <<budget, strongCriticRequired>> /\ next # "openaiCritic"
        /\ \E c \in Nat : totalCost' = totalCost + c
    BY <1>10, <1>a DEF SmeTiebreaker, Visit, Bill, LlmNodes
  <2> QED
    BY <1>b, <2>1
<1>11. CASE ApplyPatches
  <2>1. UNCHANGED <<budget, totalCost, strongCriticRequired>> /\ next # "openaiCritic"
    BY <1>11 DEF ApplyPatches, Visit
  <2> QED
    BY <2>1 DEF Affordable
<1>12. CASE Verify
  <2>1. UNCHANGED <<budget, totalCost, strongCriticRequired>> /\ next # "openaiCritic"
    BY <1>12 DEF Verify, Visit
  <2> QED
    BY <2>1 DEF Affordable
<1>13. CASE Finalize
  <2>1. UNCHANGED <<budget, totalCost, strongCriticRequired>> /\ next # "openaiCritic"
    BY <1>13 DEF Finalize, Visit
  <2> QED
    BY <2>1 DEF Affordable
<1>14. CASE NodeThrows \/ OutOfSteps \/ ProcessDies \/ Resume
  BY <1>14 DEF NodeThrows, OutOfSteps, ProcessDies, Resume, Affordable
<1>15. CASE UNCHANGED vars
  BY <1>15 DEF vars, Affordable
<1> QED
  BY <1>1, <1>2, <1>3, <1>4, <1>5, <1>6, <1>7, <1>8, <1>9, <1>10, <1>11, <1>12, <1>13, <1>14,
         <1>15
     DEF Next, NodeStep, Finished

\* A step hands over a rejected draft only if neither way to settle it can be paid for.
LEMMA RejectedStep ==
    ControlTyped /\ CountersTyped /\ RejectedDraftOnlyWhenBroke /\ [Next]_vars
        => RejectedDraftOnlyWhenBroke'
<1> SUFFICES ASSUME ControlTyped, CountersTyped, RejectedDraftOnlyWhenBroke, [Next]_vars
             PROVE  RejectedDraftOnlyWhenBroke'
  OBVIOUS
<1>a. ASSUME budget' = budget, totalCost' \in Nat, Near(0)'
      PROVE  ~Affordable(ProjSme)' /\ ~Affordable(ProjCoderReview)'
  <2>1. budget' \in Int /\ \A p \in {ProjSme, ProjCoderReview} : p \in Nat /\ 0 <= p
    BY <1>a, MoneyTypes
  <2>2. \A p \in {ProjSme, ProjCoderReview} : Near(p)'
    BY <1>a, <2>1, NearAndDearer DEF Near
  <2> QED
    BY <2>2 DEF Near, Affordable, CanSpend
<1> USE DEF RejectedDraftOnlyWhenBroke, inputVars, strongVars, debateVars, patchVars,
            verifyVars, costVars, stateVars
<1>1. CASE ComplexityRouter
  <2>1. next' # "applyPatches"
    BY <1>1 DEF ComplexityRouter, RouteByComplexity
  <2> QED
    BY <2>1
<1>2. CASE DirectResponder
  <2>1. next' # "applyPatches"
    BY <1>2 DEF DirectResponder
  <2> QED
    BY <2>1
<1>3. CASE Swarm
  <2>1. next' # "applyPatches"
    BY <1>3 DEF Swarm
  <2> QED
    BY <2>1
<1>4. CASE Firewall
  <2>1. next' # "applyPatches"
    BY <1>4 DEF Firewall
  <2> QED
    BY <2>1
<1>5. CASE FrontierArchitect
  <2>1. next' # "applyPatches"
    BY <1>5 DEF FrontierArchitect, RouteAfterFrontierArchitect, RouteAfterClaudeArchitect
  <2> QED
    BY <2>1
<1>6. CASE ClaudeArchitect
  <2>1. next' # "applyPatches"
    BY <1>6 DEF ClaudeArchitect, RouteAfterClaudeArchitect
  <2> QED
    BY <2>1
<1>7. CASE ClaudeCoder
  <2>1. next' = "applyPatches" => awaitingPatchReformat'
    BY <1>7 DEF ClaudeCoder, RouteAfterCoder
  <2> QED
    BY <2>1
<1>8. CASE FrontierCritic
  <2>1. PICK c \in Nat : totalCost' = totalCost + c
    BY <1>8, MoneyTypes DEF FrontierCritic, Bill, LlmNodes
  <2>2. budget' = budget /\ totalCost' \in Nat /\ (next' = RouteDebate' \/ next' = "openaiCritic")
    BY <1>8, <2>1, MoneyTypes DEF FrontierCritic, RouteAfterFrontierCritic
  <2>3. next' = "applyPatches" /\ ~consensusReached' =>
           \/ Near(0)'
           \/ debateIterations' >= MaxDebateIterations /\ ~Affordable(ProjSme)'
           \/ ~(debateIterations' >= MaxDebateIterations) /\ ~Affordable(ProjCoderReview)'
    BY <2>2 DEF RouteDebate
  <2>4. Near(0)' => ~Affordable(ProjSme)' /\ ~Affordable(ProjCoderReview)'
    BY <1>a, <2>2
  <2> QED
    BY <2>3, <2>4
<1>9. CASE OpenaiCritic
  <2>1. PICK c \in Nat : totalCost' = totalCost + c
    BY <1>9, MoneyTypes DEF OpenaiCritic, Bill, LlmNodes
  <2>2. budget' = budget /\ totalCost' \in Nat /\ (next' = RouteDebate')
    BY <1>9, <2>1, MoneyTypes DEF OpenaiCritic, RouteAfterFrontierCritic
  <2>3. next' = "applyPatches" /\ ~consensusReached' =>
           \/ Near(0)'
           \/ debateIterations' >= MaxDebateIterations /\ ~Affordable(ProjSme)'
           \/ ~(debateIterations' >= MaxDebateIterations) /\ ~Affordable(ProjCoderReview)'
    BY <2>2 DEF RouteDebate
  <2>4. Near(0)' => ~Affordable(ProjSme)' /\ ~Affordable(ProjCoderReview)'
    BY <1>a, <2>2
  <2> QED
    BY <2>3, <2>4
<1>10. CASE SmeTiebreaker
  <2>1. consensusReached'
    BY <1>10 DEF SmeTiebreaker
  <2> QED
    BY <2>1
<1>11. CASE ApplyPatches
  <2>1. next' # "applyPatches"
    BY <1>11 DEF ApplyPatches, RouteAfterApplyPatches
  <2> QED
    BY <2>1
<1>12. CASE Verify
  <2>1. next' # "applyPatches"
    BY <1>12 DEF Verify, RouteAfterVerify
  <2> QED
    BY <2>1
<1>13. CASE Finalize
  <2>1. next' # "applyPatches"
    BY <1>13 DEF Finalize
  <2> QED
    BY <2>1
<1>14. CASE NodeThrows \/ OutOfSteps \/ ProcessDies \/ Resume
  BY <1>14 DEF NodeThrows, OutOfSteps, ProcessDies, Resume, Affordable
<1>15. CASE UNCHANGED vars
  BY <1>15 DEF vars, Affordable
<1> QED
  BY <1>1, <1>2, <1>3, <1>4, <1>5, <1>6, <1>7, <1>8, <1>9, <1>10, <1>11, <1>12, <1>13, <1>14,
         <1>15
     DEF Next, NodeStep, Finished

-----------------------------------------------------------------------------
(* The theorems. *)

\* Conservative projections keep every chosen expense below the soft ceiling.
THEOREM CeilingHolds ==
    ASSUME ConservativeProjections
    PROVE  Spec => []SpendingStopsAtCeiling
<1>1. Init => MoneyInv
  BY LoopsInit
<1>2. TypeOK /\ LoopsPaidFor /\ MoneyInv /\ [Next]_vars => MoneyInv'
  BY MoneyStep, ConservativeProjections DEF TypeOK, LoopsPaidFor
<1>3. TypeOK /\ MoneyInv => SpendingStopsAtCeiling
  <2> SUFFICES ASSUME TypeOK, MoneyInv PROVE SpendingStopsAtCeiling
    OBVIOUS
  <2>1. totalCost + 0 = totalCost
    BY DEF TypeOK, CountersTyped
  <2> QED
    BY <2>1 DEF MoneyInv, SpendingStopsAtCeiling, Room
<1> QED
  BY <1>1, <1>2, <1>3, LoopsAccounted, PTL DEF Spec

\* A strong review that was called for is dropped only for want of money.
THEOREM StrongReviewHeld == Spec => []StrongReviewSkippedOnlyForBudget
<1>1. Init => StrongReviewSkippedOnlyForBudget
  BY DEF Init, StrongReviewSkippedOnlyForBudget
<1>2. TypeOK /\ StrongReviewSkippedOnlyForBudget /\ [Next]_vars
        => StrongReviewSkippedOnlyForBudget'
  BY StrongReviewStep DEF TypeOK
<1> QED
  BY <1>1, <1>2, TypeCorrect, PTL DEF Spec

\* A rejected draft is applied only for want of money.
THEOREM RejectedDraftHeld == Spec => []RejectedDraftOnlyWhenBroke
<1>1. Init => RejectedDraftOnlyWhenBroke
  BY DEF Init, RejectedDraftOnlyWhenBroke
<1>2. TypeOK /\ RejectedDraftOnlyWhenBroke /\ [Next]_vars
        => RejectedDraftOnlyWhenBroke'
  BY RejectedStep DEF TypeOK
<1> QED
  BY <1>1, <1>2, TypeCorrect, PTL DEF Spec

=============================================================================
