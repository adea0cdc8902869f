------------------------------- MODULE Budget -------------------------------
(***************************************************************************)
(* The soft USD guard of src/graph/budget.ts.  Money is counted in whole   *)
(* units; one unit stands for $0.005 (COST_BUDGET_MIN_REMAINING_USD) in    *)
(* the runs.  The guard is a predicate on the run's budget, the cost       *)
(* already spent and the projected cost of the step it gates.              *)
(***************************************************************************)
EXTENDS Integers

CONSTANT MinRemaining   \* COST_BUDGET_MIN_REMAINING_USD, in units

ASSUME MinRemainingAssumption == MinRemaining \in Nat

\* COST_BUDGET_SOFT_CEILING_RATIO, as a percentage.
SoftCeilingPercent == 95

\* readCostBudgetUsd: a budget that is not a positive number is no budget.
Limited(budget) == budget > 0

\* A cost strictly below the soft ceiling of the budget.
BelowCeiling(budget, cost) == 100 * cost < SoftCeilingPercent * budget

IsCostBudgetNear(budget, spent, projected) ==
    /\ Limited(budget)
    /\ \/ ~BelowCeiling(budget, spent + projected)
       \/ budget - spent <= MinRemaining

CanSpend(budget, spent, projected) ==
    ~IsCostBudgetNear(budget, spent, projected)

=============================================================================
