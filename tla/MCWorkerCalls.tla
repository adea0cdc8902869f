---------------------------- MODULE MCWorkerCalls ----------------------------
(***************************************************************************)
(* Small instances of WorkerCalls for TLC: a worker bound to each          *)
(* transport and provider, two planner steps, one retry.                   *)
(***************************************************************************)
EXTENDS WorkerCalls

\* A planner asks for JSON and sends no schema.
PlannerCall(transport, provider, class, thinking, temperature, effort) ==
    [transport |-> transport, provider |-> provider, class |-> class, thinking |-> thinking,
     temperature |-> temperature, effort |-> effort, format |-> TRUE, schema |-> FALSE]

\* The gateway's worker of the default profile, and direct ones a profile may bind.
Bound ==
    {PlannerCall("openclaw", "deepseek", "plain", "disabled", TRUE, FALSE),
     PlannerCall("fake", "deepseek", "plain", "disabled", TRUE, FALSE),
     PlannerCall("direct", "deepseek", "plain", "adaptive", FALSE, TRUE),
     PlannerCall("direct", "openai", "plain", "absent", TRUE, TRUE),
     PlannerCall("direct", "anthropic", "fixedSampling", "adaptive", TRUE, TRUE),
     PlannerCall("direct", "anthropic", "plain", "enabled", TRUE, TRUE),
     PlannerCall("direct", "anthropic", "alwaysThinking", "disabled", TRUE, TRUE)}

\* Nothing cached, something read from the cache, something written to it.
Counts ==
    {[miss |-> 3, hit |-> 0, write5m |-> 0, write1h |-> 0, out |-> 2],
     [miss |-> 2, hit |-> 5, write5m |-> 0, write1h |-> 0, out |-> 1],
     [miss |-> 1, hit |-> 4, write5m |-> 3, write1h |-> 2, out |-> 1]}

\* Ratios of consts/pricing; the gateway's price list is the providers' own.
PriceList ==
    [provider \in Providers |->
        CASE provider = "anthropic" ->
               [input |-> 20, hit |-> 2, write5m |-> 25, write1h |-> 40, output |-> 100]
          [] provider = "openai" -> [input |-> 10, hit |-> 1, output |-> 60]
          [] provider = "deepseek" -> [input |-> 14, miss |-> 14, hit |-> 3, output |-> 28]]
=============================================================================
