------------------------------ MODULE ModelWire ------------------------------
(***************************************************************************)
(* What goes over the wire in a model call: which parameters of a binding  *)
(* each transport puts into the request (src/models/providers), and how    *)
(* the usage a provider reports is read back and priced                    *)
(* (src/tools/pricing.ts).  Pure functions; a request is a record of the   *)
(* parameters it carries, usage a function on the fields it reports.       *)
(***************************************************************************)
EXTENDS Integers, Sequences, FiniteSetsExt

Providers == {"anthropic", "openai", "deepseek"}
ThinkingModes == {"absent", "disabled", "adaptive", "enabled"}

CallShapes ==
    [transport : {"openclaw", "direct", "fake"}, provider : Providers,
     class : {"plain", "fixedSampling", "alwaysThinking"}, thinking : ThinkingModes,
     temperature : BOOLEAN, effort : BOOLEAN, format : BOOLEAN, schema : BOOLEAN]

\* How the Anthropic API treats a model; the classes are id prefixes in consts/models.ts.
AlwaysThinking(call) == call.class = "alwaysThinking"
FixedSampling(call) == call.class \in {"alwaysThinking", "fixedSampling"}

Active(thinking) == thinking \notin {"absent", "disabled"}
Coerced(thinking) == IF thinking = "adaptive" THEN "enabled" ELSE thinking

-----------------------------------------------------------------------------
(* Requests of the direct transport. *)

\* Mutated: temperature is sent along with active thinking.
AnthropicRequestWarm(call) ==
    LET thinking == IF call.thinking = "disabled" /\ AlwaysThinking(call) THEN "absent"
                    ELSE call.thinking
    IN  [temperature |-> call.temperature /\ ~FixedSampling(call),
         thinking |-> thinking, effort |-> Active(thinking) /\ call.effort,
         format |-> FALSE, schema |-> call.schema]

AnthropicRequest(call) ==
    LET thinking == IF call.thinking = "disabled" /\ AlwaysThinking(call) THEN "absent"
                    ELSE call.thinking
    IN  [temperature |-> call.temperature /\ ~Active(thinking) /\ ~FixedSampling(call),
         thinking |-> thinking, effort |-> Active(thinking) /\ call.effort,
         format |-> FALSE, schema |-> call.schema]

\* A schema supersedes the JSON mode.
OpenAiRequest(call) ==
    [temperature |-> call.temperature, thinking |-> "absent", effort |-> call.effort,
     format |-> call.format /\ ~call.schema, schema |-> call.schema]

\* No native schema: the call stays on JSON mode.
DeepSeekRequest(call) ==
    [temperature |-> call.temperature, thinking |-> Coerced(call.thinking),
     effort |-> call.effort, format |-> call.format, schema |-> FALSE]

DirectRequest(call) ==
    CASE call.provider = "anthropic" -> AnthropicRequest(call)
      [] call.provider = "openai" -> OpenAiRequest(call)
      [] call.provider = "deepseek" -> DeepSeekRequest(call)

(* The gateway takes either mapping and drops what a model refuses. *)
OpenClawRequest(call) ==
    LET anthropic == call.provider = "anthropic"
    IN  [temperature |-> call.temperature,
         thinking |-> IF anthropic THEN call.thinking ELSE Coerced(call.thinking),
         effort |-> call.effort /\ (anthropic => Active(call.thinking)),
         format |-> call.format, schema |-> FALSE]

(* What the provider APIs are known to refuse, as the comments of direct.ts state it.  *)
(* What the API makes of "enabled" and of a rung of the effort ladder is left to it:   *)
(* they are passed on, and a request that carries them may get a 400, or an answer.    *)
Refuses(call, request) ==
    \/ /\ call.provider = "anthropic"
       /\ \/ request.temperature /\ (Active(request.thinking) \/ FixedSampling(call))
          \/ request.thinking = "disabled" /\ AlwaysThinking(call)
    \/ call.provider = "openai" /\ request.format /\ request.schema
    \/ call.provider = "deepseek" /\ (request.schema \/ request.thinking = "adaptive")

-----------------------------------------------------------------------------
(* Reading usage back. *)

\* The first of the named fields that is there.
FirstOf(u, names, default) ==
    LET there == {i \in DOMAIN names : names[i] \in DOMAIN u}
    IN  IF there = {} THEN default ELSE u[names[Min(there)]]

Field(u, name) == FirstOf(u, <<name>>, 0)
AtLeast0(n) == IF n < 0 THEN 0 ELSE n
Has(u, name) == name \in DOMAIN u

Hit == "prompt_cache_hit_tokens"
Miss == "prompt_cache_miss_tokens"
Write5m == "ephemeral_5m_input_tokens"
Write1h == "ephemeral_1h_input_tokens"
Flat == "cache_creation_input_tokens"

DetailedWrites(u) == Field(u, Write5m) + Field(u, Write1h)
CacheWrites(u) == IF DetailedWrites(u) # 0 THEN DetailedWrites(u) ELSE Field(u, Flat)
HasAnthropicCacheUsage(u) == Has(u, "cache_read_input_tokens") \/ CacheWrites(u) > 0

PromptTokens(u) ==
    FirstOf(u, <<"prompt_tokens", "input_tokens", "uncached_input_tokens">>,
            Field(u, Hit) + Field(u, Miss))
OutputTokens(u) == FirstOf(u, <<"completion_tokens", "output_tokens">>, 0)
CachedTokens(u) == FirstOf(u, <<Hit, "cached_tokens", "cache_read_input_tokens">>, 0)

\* Mutated: Anthropic's input_tokens is taken to include what was read from the cache.
RawInputAlwaysIncludesCacheRead(u) == TRUE

RawInputIncludesCacheRead(u) ==
    \/ Has(u, "prompt_tokens") \/ Has(u, "cached_tokens")
    \/ /\ Has(u, "input_tokens") /\ Has(u, "total_tokens")
       /\ u["total_tokens"] <= u["input_tokens"] + OutputTokens(u)

CacheMissTokens(u) ==
    LET raw == FirstOf(u, <<"input_tokens", "prompt_tokens">>, PromptTokens(u))
        uncached == FirstOf(u, <<"uncached_input_tokens">>,
                            IF RawInputIncludesCacheRead(u) THEN AtLeast0(raw - CachedTokens(u))
                            ELSE raw)
    IN  FirstOf(u, <<Miss>>, IF HasAnthropicCacheUsage(u) THEN uncached
                             ELSE AtLeast0(PromptTokens(u) - CachedTokens(u)))

InputTokens(u) ==
    IF HasAnthropicCacheUsage(u) THEN CacheMissTokens(u) + CachedTokens(u) + CacheWrites(u)
    ELSE PromptTokens(u)

TotalTokens(u) ==
    LET computed == InputTokens(u) + OutputTokens(u)
    IN  IF HasAnthropicCacheUsage(u) THEN Max({Field(u, "total_tokens"), computed})
        ELSE FirstOf(u, <<"total_tokens">>, computed)

\* Prices per token; optional ones fall back along the chain the code names.
InputCost(u, price) ==
    LET hit == FirstOf(price, <<"hit", "input">>, 0)
        miss == FirstOf(price, <<"miss", "input">>, 0)
        write5m == FirstOf(price, <<"write5m", "write", "input">>, 0)
        write1h == FirstOf(price, <<"write1h", "write", "input">>, 0)
        flat == FirstOf(price, <<"write", "write5m", "input">>, 0)
        missed == FirstOf(u, <<Miss>>, AtLeast0(PromptTokens(u) - Field(u, Hit)))
    IN  CASE Has(u, Hit) \/ Has(u, Miss) ->
               Field(u, Hit) * hit + missed * miss
               + AtLeast0(PromptTokens(u) - Field(u, Hit) - missed) * price.input
          [] ~(Has(u, Hit) \/ Has(u, Miss)) /\ HasAnthropicCacheUsage(u) ->
               CacheMissTokens(u) * price.input + CachedTokens(u) * hit
               + Field(u, Write5m) * write5m + Field(u, Write1h) * write1h
               + AtLeast0(Field(u, Flat) - DetailedWrites(u)) * flat
          [] OTHER ->
               IF CachedTokens(u) > 0
               THEN CachedTokens(u) * hit + AtLeast0(PromptTokens(u) - CachedTokens(u)) * miss
               ELSE PromptTokens(u) * price.input

\* A model without a price costs nothing; assertPricingEntries lets no profile bind one.
CalculateUsage(u, price) ==
    [tokens |-> TotalTokens(u), input |-> InputTokens(u),
     cost |-> InputCost(u, price) + OutputTokens(u) * price.output]

-----------------------------------------------------------------------------
(* What a provider bills, and how it reports it.  The tokens of a request  *)
(* are its true counts: missed, hit, written for 5 minutes or an hour, and *)
(* the answer's.                                                           *)

Bill(t, price) ==
    [tokens |-> t.miss + t.hit + t.write5m + t.write1h + t.out,
     input |-> t.miss + t.hit + t.write5m + t.write1h,
     cost |-> t.miss * price.input
              + (IF t.hit = 0 THEN 0 ELSE t.hit * price.hit)
              + (IF t.write5m = 0 THEN 0 ELSE t.write5m * price.write5m)
              + (IF t.write1h = 0 THEN 0 ELSE t.write1h * price.write1h)
              + t.out * price.output]

\* Only Anthropic bills cache writes.
Billable(call, t) ==
    call.provider # "anthropic" \/ call.transport # "direct" => t.write5m = 0 /\ t.write1h = 0

OpenAiUsage(t) ==
    [prompt_tokens |-> t.miss + t.hit, completion_tokens |-> t.out,
     total_tokens |-> t.miss + t.hit + t.out, cached_tokens |-> t.hit]

\* The gateway answers in the chat-completions shape whatever the model.
Reported(call, t) ==
    CASE call.transport # "direct" \/ call.provider = "openai" -> OpenAiUsage(t)
      [] call.transport = "direct" /\ call.provider = "anthropic" ->
           [input_tokens |-> t.miss, output_tokens |-> t.out,
            cache_read_input_tokens |-> t.hit,
            cache_creation_input_tokens |-> t.write5m + t.write1h,
            ephemeral_5m_input_tokens |-> t.write5m, ephemeral_1h_input_tokens |-> t.write1h]
      [] call.transport = "direct" /\ call.provider = "deepseek" ->
           [prompt_tokens |-> t.miss + t.hit, completion_tokens |-> t.out,
            total_tokens |-> t.miss + t.hit + t.out,
            prompt_cache_hit_tokens |-> t.hit, prompt_cache_miss_tokens |-> t.miss]

\* extractDirectUsage: the raw usage, or LangChain's copy of it, which keeps less.
ExtractDirectUsage(call, t, hasRaw) ==
    IF hasRaw \/ call.provider # "openai" THEN Reported(call, t)
    ELSE IF t.hit > 0 THEN OpenAiUsage(t)
    ELSE [prompt_tokens |-> t.miss, completion_tokens |-> t.out, total_tokens |-> t.miss + t.out]

=============================================================================
