--------------------------- MODULE MCRunLifecycle ---------------------------
(* Model checking of RunLifecycle: a command line and a bench, profiles of every kind. *)
EXTENDS RunLifecycle

Binding(model, transport) == [model |-> model, transport |-> transport]

Profile(name, transport, tier, frontier, roles) ==
    [name |-> name, transport |-> transport,
     tiers |-> [t \in Tiers |-> IF t = "frontier" THEN frontier ELSE tier],
     roles |-> roles]

NoRoles == [r \in {} |-> Absent]   \* no overrides

MCPriced == {"plain", "a/prefixed"}
MCPrefixed == {"a/prefixed", "a/unpriced"}

MCContents ==
    [\* direct, but for one role
     default |-> Profile("default", "direct", Binding("plain", Absent), Binding("plain", Absent),
                         [r \in {"critic", "sme"} |->
                            IF r = "sme" THEN [tier |-> "adviser"]
                                         ELSE Binding("a/prefixed", "openclaw")]),
     \* a file given by its path, with another file's name in it
     mine |-> Profile("default", "direct", Binding("plain", Absent), Binding("plain", Absent), NoRoles),
     slashed |-> Profile("slashed", "openclaw", Binding("a/prefixed", "direct"),
                         Binding("plain", Absent), NoRoles),
     unpriced |-> Profile("unpriced", "openclaw", Binding("plain", Absent),
                          Binding("plain", Absent), [r \in {"coder"} |-> Binding("a/unpriced", Absent)])]

MCFiles == DOMAIN MCContents
MCShipped == {"default"}

\* A command line needs the gateway whatever its profile says.
MCChoices == [h \in Hosts |-> IF h \in Embedding THEN MCFiles ELSE MCFiles \ {"mine"}]

\* Two files in profiles/, of the same content.
MCPlainContents ==
    [f \in {"default", "cheap"} |->
        Profile(f, "direct", Binding("plain", Absent), Binding("plain", Absent), NoRoles)]

MCPlainFiles == DOMAIN MCPlainContents
MCPlainChoices == [h \in Hosts |-> MCPlainFiles]
=============================================================================
