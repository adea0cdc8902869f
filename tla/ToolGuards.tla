------------------------------ MODULE ToolGuards ------------------------------
(***************************************************************************)
(* The two guards a planner's tool call passes: the registry's validation, *)
(* which builds new arguments from the proposed ones (src/tools/registry.ts*)
(* and the descriptors), and the checks the tool repeats when it is        *)
(* invoked (src/tools/local-tools.ts, web-search.ts).  Pure functions.     *)
(* Arguments are reduced to the fields that carry text, whether the        *)
(* command is allowlisted and the path inside the workspace.               *)
(***************************************************************************)
EXTENDS Integers, FiniteSets

ToolNames == {"find_files", "grep_code", "ast_read", "shell_exec", "web_lookup", "run_tests"}
Kinds == {"code_explorer", "infra_ops", "web_researcher"}

WorkerTools(kind) ==
    CASE kind = "code_explorer" -> {"find_files", "grep_code", "ast_read"}
      [] kind = "infra_ops" -> {"shell_exec", "find_files", "grep_code", "ast_read"}
      [] kind = "web_researcher" -> {"web_lookup"}

\* Answered in the agent's own process, by a child process, by the gateway.
InProcess == {"ast_read"}
ByChild == {"find_files", "grep_code", "shell_exec", "run_tests"}
OverGateway == {"web_lookup"}

\* The active bindings; requiresGateway of the providers behind them.
Catalog == InProcess \cup ByChild \cup OverGateway
AllowedAliases(kind) == WorkerTools(kind) \cap Catalog

Fields == {"pattern", "query", "path", "command", "subtask"}

\* What a planner may propose; fields that are absent or blank are left out.
ProposedArgs ==
    [fields : {F \in SUBSET Fields : Cardinality(F) <= 1}, safe : BOOLEAN, inside : BOOLEAN,
     confirm : BOOLEAN]

-----------------------------------------------------------------------------
(* validate *)

Given(args, names) == args.fields \cap names # {}

\* A path that is not given is the workspace itself.
PathInside(args) == "path" \in args.fields => args.inside

ValidArgs(alias, args) ==
    CASE alias = "find_files" -> TRUE
      [] alias = "grep_code" -> Given(args, {"pattern", "query"})
      [] alias = "ast_read" -> Given(args, {"path", "subtask"})
      [] alias = "shell_exec" -> Given(args, {"command"}) /\ args.safe
      [] alias = "run_tests" -> Given(args, {"command"}) => args.safe
      [] alias = "web_lookup" -> Given(args, {"query", "subtask"})

\* Mutated: the planner's own arguments are passed on.
SanitizedVerbatim(alias, args) == args

\* The arguments the descriptor builds; nothing else of the proposal is kept.
Sanitized(alias, args) ==
    [fields |->
        CASE alias \in {"find_files", "grep_code"} -> {"path", "pattern"}
          [] alias = "ast_read" -> {"path"}
          [] alias \in {"shell_exec", "run_tests"} -> {"command"}
          [] alias = "web_lookup" -> {"query"},
     safe |-> "command" \in args.fields => args.safe,
     inside |-> IF alias = "ast_read" THEN args.inside ELSE PathInside(args),
     confirm |-> FALSE]

Validated(kind, alias, args) == alias \in AllowedAliases(kind) /\ ValidArgs(alias, args)

-----------------------------------------------------------------------------
(* invoke *)

\* The kind of ToolError thrown before the tool does anything, or "none".
Refusal(alias, args) ==
    CASE args.confirm -> "policy"
      [] ~args.confirm /\ \/ alias = "grep_code" /\ ~Given(args, {"pattern", "query", "subtask"})
                          \/ alias = "ast_read" /\ ~Given(args, {"path", "subtask"})
                          \/ alias = "shell_exec" /\ ~Given(args, {"command", "subtask"})
                          \/ alias = "web_lookup" /\ ~Given(args, {"query", "subtask"})
         -> "validation"
      [] OTHER ->
           IF \/ alias = "shell_exec" /\ ~args.safe
              \/ alias = "run_tests" /\ Given(args, {"command"}) /\ ~args.safe
           THEN "policy"
           ELSE IF \/ alias = "ast_read" /\ ~args.inside
                   \/ alias \in {"find_files", "grep_code"} /\ ~PathInside(args)
           THEN "execution"
           ELSE "none"

\* Escalated to the operator, or counted against the worker.
ClassifyToolError(kind) ==
    IF kind \in {"environment", "provider_unavailable", "timeout"} THEN "environment"
    ELSE "reasoning"

=============================================================================
