------------------------------ MODULE Resolution ------------------------------
(***************************************************************************)
(* The lazy configuration of OpenRouterParetoCallback: every request and   *)
(* every failure hook calls _resolve_rules first, which resolves the       *)
(* rules, the telemetry client and the cooldown memory once each, in this  *)
(* order, and raises at the first configuration that is invalid, keeping   *)
(* what it resolved before.  The operator may change the settings between  *)
(* two calls; a call itself does not suspend.                              *)
(***************************************************************************)
CONSTANTS
    Injections, \* which parts __init__ can have been given
    Settings    \* what the operator's settings can be

Sources == {"rules", "telemetry", "allowlist", "cooldown"}
Parts   == {"rules", "client", "memory"}

\* A setting or its variable: unset, an empty mapping, valid or invalid.
Value   == {"none", "empty", "valid", "invalid"}
Setting == [Sources -> [attr : Value, env : Value]]

\* Which object is in use: __init__'s default, the caller's, or one built from
\* the settings.
Origin == {"default", "explicit", "configured"}

\* What an instance assumes of its constants.
ConfigurationOK ==
    /\ Injections \subseteq [Parts -> BOOLEAN]
    /\ Settings \subseteq Setting

VARIABLES
    injected, \* _explicit_rules, _explicit_telemetry and an explicit cooldown
    settings, \* the litellm_settings attributes and the environment
    rules,    \* _rules
    client,   \* _telemetry: its origin, and the rules it was built for
    memory,   \* _cooldown
    resolved, \* _rules_resolved, _telemetry_resolved, _cooldown_resolved
    served,   \* history: a call has returned without raising
    seen      \* history: what the settings of each part were at some call

configVars == <<injected, settings, rules, client, memory, resolved, served, seen>>

-----------------------------------------------------------------------------
(* The loaders.                                                            *)

\* Mutant of Effective: the environment wins.
EffectiveEnv(s, src) == IF s[src].env # "none" THEN s[src].env ELSE s[src].attr

\* The attribute wins over the environment variable.
Effective(s, src) == IF s[src].attr # "none" THEN s[src].attr ELSE s[src].env

\* No rule at all is invalid; the other mappings may leave every field out.
Raises(s, src) ==
    \/ Effective(s, src) = "invalid"
    \/ src = "rules" /\ Effective(s, src) = "empty"

Loaded(s, src) == Effective(s, src) # "none" /\ ~Raises(s, src)

SourcesOf == [rules |-> {"rules"}, client |-> {"telemetry", "allowlist"}, memory |-> {"cooldown"}]

\* What the settings s say of a part.
Says(s, p) ==
    CASE \E src \in SourcesOf[p] : Raises(s, src) -> "invalid"
      [] \A src \in SourcesOf[p] : Effective(s, src) = "none" -> "none"
      [] OTHER -> "valid"

-----------------------------------------------------------------------------

Init ==
    /\ injected \in Injections
    /\ settings \in Settings
    /\ rules = IF injected["rules"] THEN "explicit" ELSE "default"
    /\ client = [origin |-> IF injected["client"] THEN "explicit" ELSE "default", for |-> rules]
    /\ memory = IF injected["memory"] THEN "explicit" ELSE "default"
    /\ resolved = injected
    /\ served = FALSE
    /\ seen = [p \in Parts |-> {}]

\* The operator edits the settings, which nothing reads once all is resolved.
Configure ==
    /\ \E p \in Parts : ~resolved[p]
    /\ settings' \in Settings \ {settings}
    /\ UNCHANGED <<injected, rules, client, memory, resolved, served, seen>>

\* Mutant of RulesPass: marked resolved before it is loaded.
RulesPassMarked == TRUE

\* How far a call comes before a loader raises.
RulesPass  == resolved["rules"] \/ ~Raises(settings, "rules")
ClientPass ==
    /\ RulesPass
    /\ resolved["client"] \/ \A src \in {"telemetry", "allowlist"} : ~Raises(settings, src)
MemoryPass == ClientPass /\ (resolved["memory"] \/ ~Raises(settings, "cooldown"))

RulesChanged == ~resolved["rules"] /\ Loaded(settings, "rules")

\* Mutant of ResolveClient: the rebuild does not wait for a first resolution.
ResolveClientAlways ==
    client' = IF ClientPass /\ (Loaded(settings, "telemetry") \/ ~resolved["client"])
                THEN [origin |-> "configured", for |-> rules']
                ELSE client

\* The client is rebuilt when this call loaded rules, or for its own settings.
ResolveClient ==
    LET rebuild == \/ RulesChanged
                   \/ \E src \in {"telemetry", "allowlist"} : Loaded(settings, src)
    IN  client' = IF ClientPass /\ ~resolved["client"] /\ rebuild
                    THEN [origin |-> "configured", for |-> rules']
                    ELSE client

\* A call of _resolve_rules; it raises if MemoryPass is false.
Resolve ==
    /\ rules' = IF RulesPass /\ RulesChanged THEN "configured" ELSE rules
    /\ ResolveClient
    /\ memory' = IF MemoryPass /\ ~resolved["memory"] /\ Loaded(settings, "cooldown")
                   THEN "configured" ELSE memory
    /\ resolved' = [rules  |-> RulesPass,
                    client |-> resolved["client"] \/ ClientPass,
                    memory |-> resolved["memory"] \/ MemoryPass]
    /\ served' = (served \/ MemoryPass)
    /\ seen' = [p \in Parts |-> IF resolved[p] THEN seen[p] ELSE seen[p] \cup {Says(settings, p)}]
    /\ UNCHANGED <<injected, settings>>

Next == Configure \/ Resolve

Spec == Init /\ [][Next]_configVars

-----------------------------------------------------------------------------
(* Properties.                                                             *)

TypeOK ==
    /\ injected \in Injections
    /\ settings \in Settings
    /\ rules \in Origin
    /\ client \in [origin : Origin, for : Origin]
    /\ memory \in Origin
    /\ resolved \in [Parts -> BOOLEAN]
    /\ served \in BOOLEAN
    /\ seen \in [Parts -> SUBSET {"none", "valid", "invalid"}]

\* The origin of each part in use.
Used == [rules |-> rules, client |-> client.origin, memory |-> memory]

\* Mistakes raise until they are corrected, never "silently falling back to
\* defaults" (README): once a call was served, a part is the default one only
\* if its settings were absent at some call, and a configured one only if they
\* were valid at some call (the client's, or the rules it is built for).
NoSilentDefaults ==
    served =>
        \A p \in Parts :
            /\ Used[p] = "default" => "none" \in seen[p]
            /\ Used[p] = "configured" =>
                  "valid" \in seen[p] \/ (p = "client" /\ rules = "configured")

\* What one request was served with serves all later ones: no later call
\* replaces the rules, the telemetry client or the cooldown memory, so no
\* refresh in flight, discovered allowlist or recorded failure is lost.  What
\* the caller injected is never replaced at all.
ServedAlike ==
    [][/\ served => UNCHANGED <<rules, client, memory>>
       /\ injected["rules"] => UNCHANGED rules
       /\ injected["client"] => UNCHANGED client
       /\ injected["memory"] => UNCHANGED memory]_configVars

\* A client built here is built for the rules in force: "rebuild the telemetry
\* client only when something actually changed: a newly loaded rule set, or an
\* explicit telemetry/allowlist config; with neither, the default client built
\* in __init__ is correct" (_resolve_rules).  A client that does not know a
\* rule's model answers every request for it with nothing.
ClientKnowsTheRules ==
    served /\ client.origin # "explicit" => client.for = rules
=============================================================================
