-------------------------- MODULE MainGraphInvariant --------------------------
(***************************************************************************)
(* Why the properties of MainGraph hold: inductive strengthenings, checked *)
(* by TLC here and used as the induction hypotheses of MainGraphProofs.    *)
(***************************************************************************)
EXTENDS MainGraph

Over == {"finalize", "END"}

\* The part of the graph a task's complexity leaves open.
PathInv ==
    /\ complexity = "none" <=> next = "complexityRouter"
    /\ complexity = "trivial" => next \in {"directResponder"} \cup Over
    /\ complexity = "pure_reasoning" => next \in {"frontierArchitect", "claudeArchitect"} \cup Over
    /\ complexity = "tool_complex" => next # "directResponder"
    /\ status = "done" <=> next = "END"
    /\ next = "openaiCritic" => strongCriticRequired

\* Outside the tool path nothing is fetched, debated, patched or verified.
IdleInv ==
    complexity # "tool_complex" =>
        /\ debateIterations = 0 /\ contextFetches = 0 /\ verifyAttempts = 0
        /\ patchFormatRetries = 0 /\ ~patchApplied /\ usedKeys = {}
        /\ ~awaitingPatchReformat /\ draft.author \in {"none", "direct"}

\* A draft is being reformatted only between a failed application and the next one.
ReformatInv ==
    awaitingPatchReformat =>
        patchApplicationFailed /\ next \in {"claudeCoder", "applyPatches"} \cup Over

FlowInv == PathInv /\ IdleInv /\ ReformatInv

\* A critique may still be due: the debate counter has not used up its allowance.
BeforeCritique ==
    \/ next \in {"firewall", "frontierArchitect", "claudeArchitect", "frontierCritic"}
    \/ next = "claudeCoder" /\ ~awaitingPatchReformat

\* What the four loop counters owe to the caps and to each other.
FetchInv ==
    /\ contextFetches <= FetchBound
    /\ next = "swarm" => contextFetches < FetchBound
    /\ complexity = "tool_complex" /\ next # "swarm" => contextFetches >= 1

VerifyInv ==
    /\ verifyAttempts <= VerifyBound
    /\ next \notin Over => verifyAttempts < VerifyBound

FormatInv ==
    /\ patchFormatRetries <= FormatBound
    /\ next \notin Over => patchFormatRetries < FormatBound

DebateInv ==
    /\ debateIterations <= DebateBound
    /\ complexity = "tool_complex" =>
          debateIterations <= AtLeastOnce(MaxDebateIterations) + verifyAttempts + contextFetches
                              - (IF BeforeCritique THEN 2 ELSE 1)
    /\ next = "openaiCritic" => debateIterations >= 1

CountInv == FetchInv /\ VerifyInv /\ FormatInv /\ DebateInv

\* How far a node lies from the last counted event of its loop.
Offset(n) ==
    CASE n = "complexityRouter" -> 0
      [] n \in {"swarm", "directResponder", "claudeCoder", "smeTiebreaker"} -> 1
      [] n = "firewall" -> -2
      [] n = "frontierArchitect" -> IF complexity = "pure_reasoning" THEN 1 ELSE -1
      [] n = "claudeArchitect" -> IF complexity = "pure_reasoning" THEN 2 ELSE 0
      [] n \in {"frontierCritic", "applyPatches"} -> 2
      [] n = "openaiCritic" -> 0
      [] n = "verify" -> 3
      [] n = "finalize" -> IF complexity = "tool_complex" THEN 1 ELSE 3
      [] OTHER -> IF complexity = "tool_complex" THEN 2 ELSE 4

\* What the counters have paid for.
Paid == 4 * contextFetches + 3 * debateIterations + 3 * verifyAttempts + 2 * patchFormatRetries

\* Every superstep is paid for by one of the counted events.
StepsInv == steps <= Offset(next) + Paid

\* No verification has been sent under the key the next one will use.
KeysInv ==
    /\ \A k \in usedKeys : k <= debateIterations
    /\ \/ next \in {"openaiCritic", "smeTiebreaker", "applyPatches", "verify"}
       \/ next = "claudeCoder" /\ awaitingPatchReformat
       => debateIterations \notin usedKeys

\* Spending p more keeps a limited run below its soft ceiling.
Room(p) == Limited(budget) => BelowCeiling(budget, totalCost + p)

\* What the gate in front of a node has left for it, and for the cycle it opens.
MoneyInv ==
    /\ totalCost > opening => Room(0)
    /\ next = "complexityRouter" => debateIterations = 0
    /\ next = "directResponder" => debateIterations = 0
    /\ next = "claudeArchitect" =>
          Room(ProjStrongArchitect + (IF complexity = "pure_reasoning" THEN 0 ELSE ProjCoderReview))
    /\ next = "claudeCoder" => Room(ProjCoderReview)
    /\ next = "frontierCritic" => \A r \in Charge["frontierCritic"] : Room(r)
    /\ next = "openaiCritic" => Room(ProjStrongCritic)
    /\ next = "smeTiebreaker" => Room(ProjSme)
    /\ next = "swarm" /\ debateIterations > 0 => Room(ProjRefetch)
    /\ next \in {"firewall", "frontierArchitect"} /\ debateIterations > 0 =>
          \A a \in Charge["frontierArchitect"] : Room(a)

(***************************************************************************)
(* The bookkeeping behind the loop bounds: each superstep of an invocation *)
(* is accounted for by a context fetch, a critique, a verification or a    *)
(* reformat retry, and the debate counter runs past its own cap only by    *)
(* what refetches and failed verifications have added to it                *)
(* (routing.ts:46-101; the counters of graph-state.ts:78-96).              *)
(***************************************************************************)
LoopsPaidFor == FlowInv /\ CountInv /\ StepsInv /\ KeysInv

=============================================================================
