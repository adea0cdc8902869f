------------------------------ MODULE Profiles ------------------------------
(***************************************************************************)
(* Profiles: what src/models/profile.ts accepts and how                    *)
(* src/models/resolve.ts finds the binding of a role.  A profile binds the *)
(* four tiers to models; a role has its default tier unless the profile    *)
(* reassigns it or overrides its binding altogether.                       *)
(*                                                                         *)
(* A binding is a model with a transport, which may be Absent.  Sampling   *)
(* parameters are left out.                                                *)
(***************************************************************************)
EXTENDS FiniteSets

CONSTANTS
    Priced,       \* models with an entry in model-pricing.json
    Prefixed      \* models written "provider/model"

Absent == "absent"

Tiers == {"frontier", "adviser", "skilled", "worker"}
Roles == {"router", "firewall", "worker", "coder", "reasoner", "architect", "critic", "sme"}
Transports == {"direct", "openclaw", "fake"}

DefaultTier ==
    [r \in Roles |->
        CASE r \in {"router", "firewall", "worker"} -> "worker"
          [] r = "coder" -> "skilled"
          [] r \in {"reasoner", "architect", "critic"} -> "adviser"
          [] r = "sme" -> "frontier"]

\* A profile: name, transport, tiers \in [Tiers -> Binding] and roles, a function on the
\* overridden roles; an override is a reassignment [tier] or a full binding [model, transport].
Overridden(profile) == DOMAIN profile.roles

IsFullBinding(override) == "tier" \notin DOMAIN override

Bindings(profile) ==
    {profile.tiers[t] : t \in Tiers}
        \cup {profile.roles[r] : r \in {q \in Overridden(profile) : IsFullBinding(profile.roles[q])}}

TransportOf(binding, profile) ==
    IF binding.transport # Absent THEN binding.transport ELSE profile.transport

PricingEntries(profile) == \A b \in Bindings(profile) : b.model \in Priced

DirectModelIds(profile) ==
    \A b \in Bindings(profile) :
        TransportOf(b, profile) = "direct" => b.model \notin Prefixed

\* parseProfile: what it accepts of the profiles with this shape.
Accepted(profile) == PricingEntries(profile) /\ DirectModelIds(profile)

ResolveBinding(role, profile) ==
    IF role \notin Overridden(profile) THEN profile.tiers[DefaultTier[role]]
    ELSE LET override == profile.roles[role] IN
         IF IsFullBinding(override) THEN override ELSE profile.tiers[override.tier]

\* Mutated: the overridden roles are forgotten.
EffectiveTransportsOfTiers(profile) ==
    {TransportOf(profile.tiers[DefaultTier[r]], profile) : r \in Roles}

EffectiveTransports(profile) ==
    {TransportOf(ResolveBinding(r, profile), profile) : r \in Roles}

\* The role can be served: what it is billed under exists, a direct call carries an id
\* the provider knows, and nobody waits at a gateway that was not asked for.
Served(role, profile, gatewayAsked) ==
    LET binding == ResolveBinding(role, profile) IN
    /\ binding.model \in Priced
    /\ TransportOf(binding, profile) = "direct" => binding.model \notin Prefixed
    /\ TransportOf(binding, profile) = "openclaw" => gatewayAsked
=============================================================================
