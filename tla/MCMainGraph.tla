----------------------------- MODULE MCMainGraph -----------------------------
(* Small instances of MainGraph for TLC. *)
EXTENDS MainGraphInvariant

\* No cost at all: the loops are limited by their caps alone.
FreeCharge == [n \in LlmNodes |-> {0}]
NoBudget == {0}

\* Charges of nothing or of the most the conservative projections allow (projections
\* 16, 10, 12, 10 and 10 units of $0.005, halved), so that the gates fall everywhere.
PricedCharge ==
    [n \in LlmNodes |->
        CASE n \in {"claudeCoder", "frontierCritic"} -> {0, 3}
          [] n \in {"swarm", "frontierArchitect"} -> {1, 4}
          [] n \in {"claudeArchitect", "openaiCritic", "smeTiebreaker"} -> {5}
          [] OTHER -> {1}]

TightBudgets == {5, 12, 20, 30}

ASSUME PricedConservatively == ConservativeProjections
=============================================================================
