---------------------------- MODULE FailuresProofs ----------------------------
(***************************************************************************)
(* Proofs about the failure hooks, for every set of requests, providers,   *)
(* failures and settings.  Every step of the composition is a step of the  *)
(* memory (Cooldown) and of the configuration (Resolution) or leaves them  *)
(* alone, so what is proved of these holds of their composition: the       *)
(* memory's theorems are cited from CooldownProofs, and those of the       *)
(* configuration (Config!) are proved here where its properties are stated.*)
(*                                                                         *)
(* DueInv says whose failures the memory holds: each hit, mark and pending *)
(* call belongs to a request of its own that a hook heard once, and is     *)
(* charged to the provider it was pinned to, or whose deployment it was    *)
(* sent to unpinned; the hits through an injective choice of their         *)
(* requests.  TellInv says the converse, that a failure which names its    *)
(* provider is recorded or underway.                                       *)
(***************************************************************************)
EXTENDS Failures, FiniteSetTheorems, TLAPS

MemoryProofs == INSTANCE CooldownProofs
    WITH Threads <- Requests \cup {Router},
         UsedOps <- Records \cup {"is_input_capped", "is_broken"}

-----------------------------------------------------------------------------
(* Types.                                                                  *)

\* A request that is owed a hook has failed.
FailuresTyped ==
    /\ failed \in [Requests -> Failure \cup {NotYet}]
    /\ owed \in [Requests -> SUBSET Hooks]
    /\ \A r \in Requests : owed[r] # {} => failed[r] \in Failure

\* A failure is charged to a provider or to a generated id.
LEMMA ChargedKeys ==
    ASSUME NEW f \in Failure, NEW h \in Hooks, NEW slug \in Charged(f, h)
    PROVE  slug \subseteq Keys
  <1>1. f.wire \in Pins /\ NoPin \in Pins
    BY DEF Failure, Pins
  <1>2. \A p \in Pins : p.slugs \subseteq Slugs /\ Named(p) \subseteq Slugs
    <2> SUFFICES ASSUME NEW p \in Pins PROVE p.slugs \subseteq Slugs /\ Named(p) \subseteq Slugs
      OBVIOUS
    <2>1. p.slugs \subseteq Slugs
      <3>1. CASE p = NoPin
        BY <3>1 DEF NoPin
      <3>2. CASE p \in [only : {TRUE}, slugs : SUBSET Slugs]
        BY <3>2
      <3> QED
        BY <3>1, <3>2 DEF Pins
    <2>2. Named(p) \in {p.slugs, {}}
      BY DEF Named
    <2> QED
      BY <2>1, <2>2
  <1>3. CASE h = "log"
    <2>1. PICK s \in CallDetails(f) : slug = SlugFromKwargs(s)
      BY <1>3 DEF Charged
    <2>2. /\ s.extra_body \in Pins /\ s.optional_params \in Pins /\ s.litellm_params \in Pins
          /\ s.id = {f.id}
      BY <1>1, <2>1 DEF CallDetails
    <2>3. s.id \subseteq Keys
      BY <2>2 DEF Failure
    <2> QED
      BY <1>2, <2>1, <2>2, <2>3 DEF SlugFromKwargs, SlugFromDeployment, Keys
  <1>4. CASE h # "log"
    <2>1. PICK s \in RequestData(f) : slug = SlugFromRequestData(s)
      BY <1>4 DEF Charged
    <2>2. /\ s.provider \in Pins /\ s.extra_body \in Pins /\ s.optional_params \in Pins
          /\ s.litellm_params \in Pins /\ s.id = {}
      BY <1>1, <2>1 DEF RequestData
    <2> QED
      BY <1>2, <2>1, <2>2 DEF SlugFromRequestData, SlugFromKwargs, SlugFromDeployment, Keys
  <1> QED
    BY <1>3, <1>4

LEMMA SignalRecords ==
    ASSUME NEW rule, NEW f
    PROVE  Signal(rule, f) \subseteq Records
  BY DEF Signal, Records

LEMMA TypesKept == FailuresTyped /\ [Next]_vars => FailuresTyped'
  <1> SUFFICES ASSUME FailuresTyped, [Next]_vars PROVE FailuresTyped'
    OBVIOUS
  <1> USE DEF FailuresTyped
  <1>1. ASSUME NEW r \in Requests, Fail(r) PROVE FailuresTyped'
    BY <1>1, FailuresAssumption DEF Fail, Hooks
  <1>2. ASSUME NEW r \in Requests, NEW h \in Hooks, Fire(r, h) PROVE FailuresTyped'
    BY <1>2 DEF Fire
  <1>3. CASE UNCHANGED <<failed, owed>>
    BY <1>3
  <1> QED
    BY <1>1, <1>2, <1>3
    DEF Next, HookReturns, HookStops, HookLearns, HookRecords, Route, Configure, Tick,
        failureVars, vars

-----------------------------------------------------------------------------
(* The memory.                                                             *)

\* What a hook learns is a clock read of the memory, or nothing.
LEMMA LearningBegins ==
    ASSUME FailuresTyped, NEW r \in Requests, NEW h \in Hooks, HookLearns(r, h)
    PROVE  \/ UNCHANGED memoryVars
           \/ \E op \in Records, k \in Keys : Memory!Begin(r, op, k)
  <1>1. failed[r] \in Failure
    BY DEF HookLearns, Fire, FailuresTyped
  <1>2. PICK slug \in Charged(failed[r], h) :
            IF slug = {} \/ Signal(RuleOf[rules'], failed[r]) = {}
              THEN UNCHANGED memoryVars
              ELSE \E k \in slug, op \in Signal(RuleOf[rules'], failed[r]) : Memory!Begin(r, op, k)
    BY DEF HookLearns
  <1>3. slug \subseteq Keys
    BY <1>1, <1>2, ChargedKeys
  <1> QED
    BY <1>2, <1>3, SignalRecords

\* The memory has no other clients, and each uses it as its threads do.
LEMMA MemorySteps ==
    ASSUME FailuresTyped, [Next]_vars
    PROVE  [MemoryProofs!Next]_(MemoryProofs!vars)
  <1>1. ASSUME UNCHANGED memoryVars PROVE UNCHANGED MemoryProofs!vars
    BY <1>1 DEF memoryVars, MemoryProofs!vars
  <1>2. ASSUME NEW t \in Requests \cup {Router}, NEW k \in Keys,
               NEW op \in Records \cup {"is_input_capped", "is_broken"}, Memory!Begin(t, op, k)
        PROVE  MemoryProofs!Next
    <2>1. MemoryProofs!Begin(t, op, k)
      BY <1>2 DEF Memory!Begin, MemoryProofs!Begin, Memory!Idle, MemoryProofs!Idle
    <2> QED
      BY <2>1 DEF MemoryProofs!Next
  <1>3. ASSUME NEW r \in Requests, HookRecords(r) PROVE MemoryProofs!Next
    <2>1. CASE Memory!Record(r)
      <3>1. MemoryProofs!Record(r)
        BY <2>1
        DEF Memory!Record, MemoryProofs!Record, Memory!Recent, MemoryProofs!Recent,
            Memory!Evict, MemoryProofs!Evict, Memory!LastHitSince, MemoryProofs!LastHitSince,
            Memory!Return, MemoryProofs!Return, Memory!Idle, MemoryProofs!Idle
      <3> QED
        BY <3>1 DEF MemoryProofs!Next
    <2>2. ASSUME NEW st \in Memory!Stores, Memory!Report(r, st) PROVE MemoryProofs!Next
      <3>1. MemoryProofs!Report(r, st)
        BY <2>2
        DEF Memory!Report, MemoryProofs!Report, Memory!ReportOp, MemoryProofs!ReportOp,
            Memory!Ttl, MemoryProofs!Ttl, Memory!Return, MemoryProofs!Return,
            Memory!Idle, MemoryProofs!Idle, Memory!Stores
      <3> QED
        BY <3>1 DEF MemoryProofs!Next, Memory!Stores, MemoryProofs!Stores
    <2> QED
      BY <1>3, <2>1, <2>2 DEF HookRecords
  <1>4. ASSUME Route PROVE MemoryProofs!Next \/ UNCHANGED memoryVars
    <2>1. ASSUME NEW st \in Memory!Stores, Memory!Read(Router, st) PROVE MemoryProofs!Next
      <3>1. MemoryProofs!Read(Router, st)
        BY <2>1
        DEF Memory!Read, MemoryProofs!Read, Memory!ReadOp, MemoryProofs!ReadOp,
            Memory!IsLive, MemoryProofs!IsLive, Memory!Return, MemoryProofs!Return,
            Memory!Idle, MemoryProofs!Idle, Memory!Stores
      <3> QED
        BY <3>1 DEF MemoryProofs!Next, Memory!Stores, MemoryProofs!Stores
    <2>2. ASSUME NEW st \in Memory!Stores, NEW k \in Slugs,
                 Memory!Begin(Router, Memory!ReadOp[st], k)
          PROVE  MemoryProofs!Next
      <3>1. Memory!ReadOp[st] \in {"is_input_capped", "is_broken"}
        BY DEF Memory!ReadOp, Memory!Stores
      <3> QED
        BY <1>2, <2>2, <3>1 DEF Keys
    <2> QED
      BY <1>4, <2>1, <2>2 DEF Route
  <1>5. ASSUME Tick PROVE MemoryProofs!Next
    BY <1>5
    DEF Tick, Memory!Tick, MemoryProofs!Tick, MemoryProofs!Next, Memory!Idle, MemoryProofs!Idle
  <1>6. ASSUME NEW r \in Requests, NEW h \in Hooks, HookLearns(r, h)
        PROVE  MemoryProofs!Next \/ UNCHANGED memoryVars
    BY <1>2, <1>6, LearningBegins
  <1> QED
    BY <1>1, <1>3, <1>4, <1>5, <1>6
    DEF Next, vars, Fail, HookReturns, HookStops, Configure

LEMMA MemoryStarts == Init => MemoryProofs!Init
  BY DEF Init, Memory!Init, MemoryProofs!Init, Memory!Stores, MemoryProofs!Stores,
         Memory!Idle, MemoryProofs!Idle

LEMMA TypesHold == Spec => []FailuresTyped
  <1>1. Init => FailuresTyped
    BY DEF Init, FailuresTyped
  <1> QED
    BY <1>1, TypesKept, PTL DEF Spec

LEMMA MemoryBehaves == Spec => MemoryProofs!Spec
  BY MemoryStarts, MemorySteps, TypesHold, PTL DEF Spec, MemoryProofs!Spec

\* The memory keeps its promise under the calls the hooks and the routing make:
\* RateLimitCooldown behind _apply_rate_limit_signal and the eligibility checks.
THEOREM MemoryKeepsItsPromiseHolds == ASSUME Lag = 0 PROVE Spec => MemoryKeepsItsPromise
  <1>1. MemoryProofs!Spec => MemoryProofs!ImplementsPromise
    BY FailuresAssumption, MemoryProofs!CooldownImplementsPromise
    DEF MemoryProofs!Ops, Keys, Records
  <1>2. /\ MemoryProofs!visibleHits = Memory!visibleHits
        /\ MemoryProofs!visibleSkips = Memory!visibleSkips
    BY DEF MemoryProofs!visibleHits, Memory!visibleHits, MemoryProofs!Recent, Memory!Recent,
           MemoryProofs!visibleSkips, Memory!visibleSkips, MemoryProofs!Stores, Memory!Stores,
           MemoryProofs!IsLive, Memory!IsLive
  <1>3. MemoryProofs!Promise!Init => Memory!Promise!Init
    BY <1>2 DEF MemoryProofs!Promise!Init, Memory!Promise!Init,
                MemoryProofs!Promise!Kinds, Memory!Promise!Kinds
  <1>4. MemoryProofs!Promise!vars = Memory!Promise!vars
    BY <1>2 DEF MemoryProofs!Promise!vars, Memory!Promise!vars
  <1>5. /\ MemoryProofs!visibleHits' = Memory!visibleHits'
        /\ MemoryProofs!visibleSkips' = Memory!visibleSkips'
    BY DEF MemoryProofs!visibleHits, Memory!visibleHits, MemoryProofs!Recent, Memory!Recent,
           MemoryProofs!visibleSkips, Memory!visibleSkips, MemoryProofs!Stores, Memory!Stores,
           MemoryProofs!IsLive, Memory!IsLive
  <1>6. [MemoryProofs!Promise!Next]_(MemoryProofs!Promise!vars)
          => [Memory!Promise!Next]_(Memory!Promise!vars)
    <2>1. ASSUME NEW k \in Keys, MemoryProofs!Promise!Fail(k) PROVE Memory!Promise!Fail(k)
      BY <1>2, <1>5, <2>1 DEF MemoryProofs!Promise!Fail, Memory!Promise!Fail
    <2>2. ASSUME NEW kind \in Memory!Promise!Kinds, NEW k \in Keys,
                 MemoryProofs!Promise!Block(kind, k)
          PROVE  Memory!Promise!Block(kind, k)
      BY <1>2, <1>5, <2>2
      DEF MemoryProofs!Promise!Block, Memory!Promise!Block, MemoryProofs!Promise!SkipTtl,
          Memory!Promise!SkipTtl, MemoryProofs!Promise!Pending, Memory!Promise!Pending
    <2>3. MemoryProofs!Promise!Pass => Memory!Promise!Pass
      BY <1>2, <1>5
      DEF MemoryProofs!Promise!Pass, Memory!Promise!Pass, MemoryProofs!Promise!Kinds,
          Memory!Promise!Kinds, MemoryProofs!Promise!Pending, Memory!Promise!Pending
    <2>4. UNCHANGED MemoryProofs!Promise!vars => UNCHANGED Memory!Promise!vars
      BY <1>2, <1>5 DEF MemoryProofs!Promise!vars, Memory!Promise!vars
    <2> QED
      BY <2>1, <2>2, <2>3, <2>4
      DEF MemoryProofs!Promise!Next, Memory!Promise!Next, MemoryProofs!Promise!Kinds,
          Memory!Promise!Kinds
  <1> QED
    BY <1>1, <1>3, <1>6, MemoryBehaves, PTL
    DEF MemoryKeepsItsPromise, Memory!ImplementsPromise, MemoryProofs!ImplementsPromise,
        Memory!Promise!Spec, MemoryProofs!Promise!Spec

-----------------------------------------------------------------------------
(* The configuration.                                                      *)

\* What part p has been resolved from.
ResolvedFrom(p) ==
    /\ Config!Used[p] = "default" => "none" \in seen[p]
    /\ Config!Used[p] = "configured" => "valid" \in seen[p] \/ (p = "client" /\ rules = "configured")

RInv ==
    /\ Config!TypeOK
    /\ served => \A p \in Config!Parts : resolved[p]
    /\ \A p \in Config!Parts : injected[p] => resolved[p]
    /\ \A p \in Config!Parts : Config!Used[p] = "explicit" <=> injected[p]
    /\ \A p \in Config!Parts : ~resolved[p] => Config!Used[p] = "default"
    /\ \A p \in Config!Parts : resolved[p] => ResolvedFrom(p)

\* The settings of a part that do not raise say that it is unset or valid.
LEMMA SaysOfSettings ==
    ASSUME NEW s, NEW p \in Config!Parts,
           \A src \in Config!SourcesOf[p] : ~Config!Raises(s, src)
    PROVE  Config!Says(s, p) = IF \E src \in Config!SourcesOf[p] : Config!Loaded(s, src) THEN "valid" ELSE "none"
  <1>1. \A src \in Config!SourcesOf[p] : Config!Loaded(s, src) <=> Config!Effective(s, src) # "none"
    BY DEF Config!Loaded
  <1> QED
    BY <1>1 DEF Config!Says

LEMMA SaysType ==
    ASSUME NEW s, NEW p \in Config!Parts
    PROVE  Config!Says(s, p) \in {"none", "valid", "invalid"}
  BY DEF Config!Says

LEMMA ConfigInit == Config!ConfigurationOK /\ Config!Init => RInv
  <1> SUFFICES ASSUME Config!ConfigurationOK, Config!Init PROVE RInv
    OBVIOUS
  <1>1. injected \in [Config!Parts -> BOOLEAN]
    BY DEF Config!Init, Config!ConfigurationOK
  <1>2. Config!TypeOK
    BY <1>1 DEF Config!Init, Config!TypeOK, Config!Origin, Config!Parts
  <1>3. \A p \in Config!Parts : Config!Used[p] = IF injected[p] THEN "explicit" ELSE "default"
    BY DEF Config!Init, Config!Used, Config!Parts
  <1> QED
    BY <1>1, <1>2, <1>3 DEF RInv, Config!Init, ResolvedFrom

LEMMA ResolveKeeps == RInv /\ Config!Resolve => RInv'
  <1> SUFFICES ASSUME RInv, Config!Resolve PROVE RInv'
    OBVIOUS
  <1> USE DEF RInv
  <1>1. /\ resolved' = [rules  |-> Config!RulesPass,
                        client |-> resolved["client"] \/ Config!ClientPass,
                        memory |-> resolved["memory"] \/ Config!MemoryPass]
        /\ UNCHANGED <<injected, settings>>
        /\ \A p \in Config!Parts : resolved[p] \in BOOLEAN
        /\ rules \in Config!Origin /\ memory \in Config!Origin /\ client \in [origin : Config!Origin, for : Config!Origin]
    BY DEF Config!Resolve, Config!TypeOK
  <1>0. /\ Config!RulesPass \in BOOLEAN /\ Config!ClientPass \in BOOLEAN /\ Config!MemoryPass \in BOOLEAN
        /\ resolved["rules"] \in BOOLEAN /\ resolved["client"] \in BOOLEAN
        /\ resolved["memory"] \in BOOLEAN
    BY <1>1 DEF Config!RulesPass, Config!ClientPass, Config!MemoryPass, Config!Raises, Config!Parts
  <1>2. \A p \in Config!Parts : resolved[p] => resolved'[p]
    BY <1>0, <1>1 DEF Config!Parts, Config!RulesPass
  <1>3. /\ resolved["rules"] => rules' = rules
        /\ resolved["client"] => client' = client
        /\ resolved["memory"] => memory' = memory
    BY DEF Config!Resolve, Config!RulesChanged, Config!ResolveClient
  <1>4. \A p \in Config!Parts :
            seen'[p] = IF resolved[p] THEN seen[p] ELSE seen[p] \cup {Config!Says(settings, p)}
    BY DEF Config!Resolve
  <1>5. Config!TypeOK'
    <2>1. rules' \in Config!Origin /\ memory' \in Config!Origin /\ client' \in [origin : Config!Origin, for : Config!Origin]
      BY <1>1 DEF Config!Resolve, Config!ResolveClient, Config!Origin
    <2>2. resolved' \in [Config!Parts -> BOOLEAN]
      BY <1>0, <1>1 DEF Config!Parts
    <2>3. seen' \in [Config!Parts -> SUBSET {"none", "valid", "invalid"}]
      BY SaysType DEF Config!Resolve, Config!TypeOK
    <2>4. served' \in BOOLEAN
      BY <1>0 DEF Config!Resolve, Config!TypeOK
    <2> QED
      BY <1>1, <2>1, <2>2, <2>3, <2>4 DEF Config!TypeOK
  <1>6. served' => \A p \in Config!Parts : resolved'[p]
    <2>1. CASE served
      BY <1>2, <2>1
    <2>2. CASE Config!MemoryPass
      <3>1. Config!RulesPass /\ Config!ClientPass
        BY <2>2 DEF Config!MemoryPass, Config!ClientPass
      <3>2. resolved'["rules"] /\ resolved'["client"] /\ resolved'["memory"]
        BY <1>0, <1>1, <2>2, <3>1
      <3> QED
        BY <3>2 DEF Config!Parts
    <2> QED
      BY <2>1, <2>2 DEF Config!Resolve
  <1>7. \A p \in Config!Parts : injected'[p] => resolved'[p]
    BY <1>1, <1>2
  <1>8. ASSUME NEW p \in Config!Parts
        PROVE  /\ Config!Used'[p] = "explicit" <=> injected'[p]
               /\ ~resolved'[p] => Config!Used'[p] = "default"
               /\ resolved'[p] => ResolvedFrom(p)'
    <2>1. CASE p = "rules"
      <3>1. Config!Used[p] = rules /\ Config!Used'[p] = rules'
        BY <2>1 DEF Config!Used
      <3>2. CASE resolved[p]
        BY <1>1, <1>2, <1>3, <1>4, <2>1, <3>1, <3>2 DEF ResolvedFrom
      <3>3. CASE ~resolved[p] /\ ~Config!RulesPass
        BY <1>1, <2>1, <3>1, <3>3 DEF Config!Resolve
      <3>4. CASE ~resolved[p] /\ Config!RulesPass
        <4>1. Config!Says(settings, p) = IF Config!Loaded(settings, "rules") THEN "valid" ELSE "none"
          BY <2>1, <3>4, SaysOfSettings DEF Config!SourcesOf, Config!RulesPass
        <4>2. rules' = IF Config!Loaded(settings, "rules") THEN "configured" ELSE "default"
          BY <2>1, <3>1, <3>4 DEF Config!Resolve, Config!RulesChanged
        <4>3. ~injected'[p]
          BY <1>1, <3>4
        <4> QED
          BY <1>1, <1>4, <2>1, <3>1, <3>4, <4>1, <4>2, <4>3 DEF ResolvedFrom
      <3> QED
        BY <3>2, <3>3, <3>4
    <2>2. CASE p = "client"
      <3>1. Config!Used[p] = client.origin /\ Config!Used'[p] = client'.origin
        BY <2>2 DEF Config!Used
      <3>2. CASE resolved[p]
        <4>1. rules = "configured" => rules' = "configured"
          BY <1>1 DEF Config!Resolve, Config!Origin
        <4> QED
          BY <1>1, <1>2, <1>3, <1>4, <2>2, <3>1, <3>2, <4>1 DEF ResolvedFrom
      <3>3. CASE ~resolved[p] /\ ~Config!ClientPass
        BY <1>1, <2>2, <3>1, <3>3 DEF Config!Resolve, Config!ResolveClient
      <3>4. CASE ~resolved[p] /\ Config!ClientPass
        <4>1. Config!Says(settings, p) =
                IF \E src \in {"telemetry", "allowlist"} : Config!Loaded(settings, src) THEN "valid" ELSE "none"
          BY <2>2, <3>4, SaysOfSettings DEF Config!SourcesOf, Config!ClientPass
        <4>2. client'.origin =
                IF Config!RulesChanged \/ \E src \in {"telemetry", "allowlist"} : Config!Loaded(settings, src)
                  THEN "configured" ELSE "default"
          BY <2>2, <3>1, <3>4 DEF Config!Resolve, Config!ResolveClient
        <4>3. Config!RulesChanged => rules' = "configured"
          BY <3>4 DEF Config!Resolve, Config!ClientPass
        <4>4. ~injected'[p]
          BY <1>1, <3>4
        <4> QED
          BY <1>1, <1>4, <2>2, <3>1, <3>4, <4>1, <4>2, <4>3, <4>4 DEF ResolvedFrom
      <3> QED
        BY <3>2, <3>3, <3>4
    <2>3. CASE p = "memory"
      <3>1. Config!Used[p] = memory /\ Config!Used'[p] = memory'
        BY <2>3 DEF Config!Used
      <3>2. CASE resolved[p]
        BY <1>1, <1>2, <1>3, <1>4, <2>3, <3>1, <3>2 DEF ResolvedFrom
      <3>3. CASE ~resolved[p] /\ ~Config!MemoryPass
        BY <1>1, <2>3, <3>1, <3>3 DEF Config!Resolve
      <3>4. CASE ~resolved[p] /\ Config!MemoryPass
        <4>1. Config!Says(settings, p) = IF Config!Loaded(settings, "cooldown") THEN "valid" ELSE "none"
          BY <2>3, <3>4, SaysOfSettings DEF Config!SourcesOf, Config!MemoryPass
        <4>2. memory' = IF Config!Loaded(settings, "cooldown") THEN "configured" ELSE "default"
          BY <2>3, <3>1, <3>4 DEF Config!Resolve
        <4>3. ~injected'[p]
          BY <1>1, <3>4
        <4> QED
          BY <1>1, <1>4, <2>3, <3>1, <3>4, <4>1, <4>2, <4>3 DEF ResolvedFrom
      <3> QED
        BY <3>2, <3>3, <3>4
    <2> QED
      BY <2>1, <2>2, <2>3 DEF Config!Parts
  <1> QED
    BY <1>5, <1>6, <1>7, <1>8

LEMMA ConfigKeeps == RInv /\ [Config!Next]_(Config!configVars) => RInv'
  <1> SUFFICES ASSUME RInv, [Config!Next]_(Config!configVars) PROVE RInv'
    OBVIOUS
  <1>1. CASE Config!Resolve
    BY <1>1, ResolveKeeps
  <1>2. CASE Config!Configure
    BY <1>2 DEF Config!Configure, RInv, Config!TypeOK, Config!Used, ResolvedFrom
  <1>3. CASE UNCHANGED Config!configVars
    BY <1>3 DEF Config!configVars, RInv, Config!TypeOK, Config!Used, ResolvedFrom
  <1> QED
    BY <1>1, <1>2, <1>3 DEF Config!Next

\* Every part of the configuration goes back to settings that some call saw.
THEOREM ConfigInvariance == ASSUME Config!ConfigurationOK PROVE Config!Spec => []RInv
  BY ConfigInit, ConfigKeeps, PTL DEF Config!Spec

\* A configuration mistake is never passed over for the defaults: what a served
\* request used was absent, or valid, at some call (_resolve_rules).
THEOREM ConfigNoSilentDefaults == ASSUME Config!ConfigurationOK PROVE Config!Spec => []Config!NoSilentDefaults
  <1>1. RInv => Config!NoSilentDefaults
    BY DEF RInv, Config!NoSilentDefaults, ResolvedFrom
  <1> QED
    BY <1>1, ConfigInvariance, PTL

\* Nothing replaces the rules, the client or the memory a request was served
\* with, or that the caller injected (_resolve_rules).
THEOREM ConfigServedAlike == ASSUME Config!ConfigurationOK PROVE Config!Spec => Config!ServedAlike
  <1> DEFINE Kept == /\ served => UNCHANGED <<rules, client, memory>>
                     /\ injected["rules"] => UNCHANGED rules
                     /\ injected["client"] => UNCHANGED client
                     /\ injected["memory"] => UNCHANGED memory
  <1>1. RInv /\ [Config!Next]_(Config!configVars) => [Kept]_(Config!configVars)
    <2> SUFFICES ASSUME RInv, [Config!Next]_(Config!configVars) PROVE Kept \/ UNCHANGED Config!configVars
      OBVIOUS
    <2>1. CASE Config!Resolve
      <3>1. /\ resolved["rules"] => rules' = rules
            /\ resolved["client"] => client' = client
            /\ resolved["memory"] => memory' = memory
        BY <2>1 DEF Config!Resolve, Config!RulesChanged, Config!ResolveClient
      <3> QED
        BY <3>1 DEF RInv, Config!Parts
    <2>2. CASE Config!Configure
      BY <2>2 DEF Config!Configure
    <2>3. CASE UNCHANGED Config!configVars
      BY <2>3
    <2> QED
      BY <2>1, <2>2, <2>3 DEF Config!Next
  <1> QED
    BY <1>1, ConfigInvariance, PTL DEF Config!Spec, Config!ServedAlike

\* The hooks and the routing resolve the configuration as its calls do.
LEMMA ConfigBehaves == Spec => Config!Spec
  <1>1. Init => Config!Init
    BY DEF Init
  <1>2. [Next]_vars => [Config!Next]_(Config!configVars)
    <2>1. UNCHANGED configVars => UNCHANGED Config!configVars
      BY DEF configVars, Config!configVars
    <2> QED
      BY <2>1
      DEF Next, Fail, HookReturns, HookStops, HookLearns, HookRecords, Route, Configure, Tick,
          vars, Config!Next
  <1> QED
    BY <1>1, <1>2, PTL DEF Spec, Config!Spec

\* No failure hook and no routing decision passes a mistake over for defaults
\* (_resolve_rules, called by every hook).
THEOREM NoSilentDefaultsHolds == Spec => []NoSilentDefaults
  <1>1. Config!Spec => []Config!NoSilentDefaults
    BY FailuresAssumption, ConfigNoSilentDefaults
  <1> QED
    BY <1>1, ConfigBehaves, PTL DEF NoSilentDefaults

\* What one request was served with serves all later ones, and is what the
\* failure hooks write to (_resolve_rules).
THEOREM ServedAlikeHolds == Spec => ServedAlike
  <1>1. Config!Spec => Config!ServedAlike
    BY FailuresAssumption, ConfigServedAlike
  <1> QED
    BY <1>1, ConfigBehaves, PTL DEF ServedAlike

-----------------------------------------------------------------------------
(* Whose failures the memory holds.                                        *)

\* A hook that is to count r's failure may still come.
Open(r) ==
    \/ failed[r] = NotYet
    \/ "log" \in owed[r]
    \/ owed[r] # {} /\ failed[r].path # "completion"

\* A request is heard of once, and only then calls the memory.
HeardOnce ==
    /\ heard \in [Requests -> Int]
    /\ \A r \in Requests :
          /\ "log" \in owed[r] => failed[r].path = "completion"
          /\ failed[r] = NotYet => owed[r] = {}
          /\ Open(r) => heard[r] = -1 /\ call[r] = Memory!Idle

\* Whether r's failure calls for this record against k.
CallsFor(r, op, k) ==
    /\ ~Open(r)
    /\ heard[r] # -1
    /\ failed[r] \in Failure
    /\ op \in Signal(RuleOf[rules], failed[r])
    /\ k \in Slugs => Blamable(r, k)

CallsAreDue ==
    \A r \in Requests : call[r] # Memory!Idle =>
        /\ served
        /\ call[r].ts = heard[r]
        /\ CallsFor(r, call[r].op, call[r].key)

MarksAreDue ==
    \A st \in Memory!Stores, k \in Slugs : until[st][k] # 0 =>
        /\ served
        /\ \E r \in Requests : /\ until[st][k] = heard[r] + Memory!Ttl(st, k)
                               /\ CallsFor(r, Memory!ReportOp[st], k)

\* Whether every hit of the memory is the one of its own request.
HitsOf(own) ==
    /\ \A m, n \in 0 .. recorded - 1 : own[m] = own[n] => m = n
    /\ \A n \in 0 .. recorded - 1 : ~Open(own[n]) /\ call[own[n]] = Memory!Idle
    /\ \A k \in Slugs : \A g \in log[k] :
          /\ g.n \in 0 .. recorded - 1
          /\ served
          /\ g.ts = heard[own[g.n]]
          /\ CallsFor(own[g.n], "record", k)

HitsAreDue == \E own \in [0 .. recorded - 1 -> Requests] : HitsOf(own)

DueInv ==
    /\ FailuresTyped
    /\ HeardOnce
    /\ CallsAreDue
    /\ MarksAreDue
    /\ HitsAreDue

\* A provider a hook charges is the one the request was pinned to, or the one whose
\* id the deployment of a completion goes by that was not pinned to one.
LEMMA ChargedIsBlamable ==
    ASSUME NEW f \in Failure, NEW h \in Hooks, NEW slug \in Charged(f, h), NEW k \in slug,
           k \in Slugs, h = "log" <=> f.path = "completion"
    PROVE  \/ f.wire.slugs = {k}
           \/ f.path = "completion" /\ Cardinality(f.wire.slugs) # 1 /\ f.id = k
  <1>1. f.wire \in Pins /\ NoPin \in Pins
    BY DEF Failure, Pins
  <1>2. \A p \in Pins : k \in Named(p) => p.slugs = {k}
    <2> SUFFICES ASSUME NEW p \in Pins, k \in Named(p) PROVE p.slugs = {k}
      OBVIOUS
    <2>1. Cardinality(p.slugs) = 1 /\ k \in p.slugs
      BY DEF Named
    <2>2. p.slugs \subseteq Slugs
      <3>1. CASE p = NoPin
        BY <3>1 DEF NoPin
      <3>2. CASE p \in [only : {TRUE}, slugs : SUBSET Slugs]
        BY <3>2
      <3> QED
        BY <3>1, <3>2 DEF Pins
    <2>3. IsFiniteSet(p.slugs)
      BY <2>2, FailuresAssumption, FS_Subset
    <2>4. PICK x : p.slugs = {x}
      BY <2>1, <2>3, FS_Singleton
    <2> QED
      BY <2>1, <2>4
  <1>3. k \notin Named(NoPin)
    BY <1>1, <1>2 DEF NoPin
  <1>4. CASE h = "log"
    <2>1. PICK s \in CallDetails(f) : slug = SlugFromKwargs(s)
      BY <1>4 DEF Charged
    <2>2. /\ s.extra_body \in {f.wire, NoPin} /\ s.optional_params = f.wire
          /\ s.litellm_params \in {f.wire, NoPin} /\ s.id = {f.id}
      BY <2>1 DEF CallDetails
    <2>3. CASE k \in Named(f.wire)
      BY <1>1, <1>2, <2>3
    <2>4. CASE k \notin Named(f.wire)
      <3>1. Named(f.wire) = {} /\ k = f.id
        BY <1>3, <2>1, <2>2, <2>4 DEF SlugFromKwargs, SlugFromDeployment, Named
      <3>2. Cardinality(f.wire.slugs) # 1
        <4> SUFFICES ASSUME Cardinality(f.wire.slugs) = 1 PROVE FALSE
          OBVIOUS
        <4>1. f.wire.slugs = {}
          BY <3>1 DEF Named
        <4> QED
          BY <4>1, FS_EmptySet
      <3> QED
        BY <1>4, <3>1, <3>2
    <2> QED
      BY <2>3, <2>4
  <1>5. CASE h # "log"
    <2>1. PICK s \in RequestData(f) : slug = SlugFromRequestData(s)
      BY <1>5 DEF Charged
    <2>2. /\ s.provider \in {f.wire, NoPin} /\ s.litellm_params = NoPin /\ s.id = {}
          /\ ~s.provider.only => /\ s.extra_body \in {f.wire, NoPin}
                                 /\ s.optional_params \in {f.wire, NoPin}
      BY <2>1 DEF RequestData
    <2>3. k \in Named(f.wire) \/ k \in Named(NoPin)
      BY <2>1, <2>2 DEF SlugFromRequestData, SlugFromKwargs, SlugFromDeployment
    <2> QED
      BY <1>1, <1>2, <1>3, <2>3
  <1> QED
    BY <1>4, <1>5

\* A hook that learns is the one that is to count the failure.
LEMMA LearnerIsOpen ==
    ASSUME FailuresTyped, HeardOnce, NEW r \in Requests, NEW h \in Hooks,
           h \in owed[r], ~Guarded(r, h)
    PROVE  Open(r) /\ (h = "log" <=> failed[r].path = "completion")
  BY DEF Open, HeardOnce, Guarded, Hooks

\* Once no counting hook is owed, none ever is, and what was heard stays.
LEMMA Settles ==
    ASSUME FailuresTyped, HeardOnce, [Next]_vars, NEW r \in Requests, ~Open(r)
    PROVE  ~Open(r)' /\ failed'[r] = failed[r] /\ heard'[r] = heard[r]
  <1> USE DEF FailuresTyped
  <1>1. ASSUME NEW q \in Requests, Fail(q)
        PROVE  ~Open(r)' /\ failed'[r] = failed[r] /\ heard'[r] = heard[r]
    BY <1>1 DEF Fail, Open
  <1>2. ASSUME NEW q \in Requests, NEW h \in Hooks, Fire(q, h)
        PROVE  ~Open(r)' /\ failed'[r] = failed[r]
    BY <1>2 DEF Fire, Open
  <1>3. ASSUME NEW q \in Requests, NEW h \in Hooks, HookLearns(q, h)
        PROVE  heard'[r] = heard[r]
    <2>1. q # r
      BY <1>3, LearnerIsOpen DEF HookLearns, Fire
    <2> QED
      BY <1>3, <2>1 DEF HookLearns, Hear, HeardOnce
  <1>4. UNCHANGED <<failed, owed, heard>>
          => ~Open(r)' /\ failed'[r] = failed[r] /\ heard'[r] = heard[r]
    BY DEF Open
  <1> QED
    BY <1>1, <1>2, <1>3, <1>4
    DEF Next, HookReturns, Guarded, Hear, HookStops, HookLearns, HookRecords,
        Route, Configure, Tick, failureVars, vars

\* The rules a request was served with stay.
LEMMA RulesStay ==
    ASSUME RInv, [Next]_vars, served
    PROVE  served' /\ rules' = rules
  <1>1. resolved["rules"]
    BY DEF RInv, Config!Parts
  <1>2. Config!Resolve => served' /\ rules' = rules
    BY <1>1 DEF Config!Resolve, Config!RulesChanged
  <1>3. UNCHANGED <<rules, served>> => served' /\ rules' = rules
    OBVIOUS
  <1> QED
    BY <1>2, <1>3
    DEF Next, Fail, HookReturns, HookStops, HookLearns, HookRecords, Route, Configure, Tick,
        Config!Configure, configVars, vars

LEMMA CallsForKept ==
    ASSUME FailuresTyped, HeardOnce, RInv, [Next]_vars, served,
           NEW r \in Requests, NEW op, NEW k, CallsFor(r, op, k)
    PROVE  CallsFor(r, op, k)' /\ heard'[r] = heard[r]
  <1>1. ~Open(r)' /\ failed'[r] = failed[r] /\ heard'[r] = heard[r]
    BY Settles DEF CallsFor
  <1>2. rules' = rules
    BY RulesStay
  <1> QED
    BY <1>1, <1>2 DEF CallsFor, Blamable

\* What a hook that learns begins is what its failure calls for.
LEMMA LearnsDue ==
    ASSUME FailuresTyped, HeardOnce, MemoryProofs!IInv, NEW r \in Requests, NEW h \in Hooks,
           HookLearns(r, h)
    PROVE  /\ Open(r) /\ ~Open(r)' /\ call[r] = Memory!Idle
           /\ heard' = [heard EXCEPT ![r] = now]
           /\ \/ UNCHANGED memoryVars
              \/ \E op \in Records, k \in Keys :
                    /\ Memory!Begin(r, op, k)
                    /\ served'
                    /\ CallsFor(r, op, k)'
  <1>1. h \in owed[r] /\ ~Guarded(r, h) /\ failed' = failed /\ owed' = [owed EXCEPT ![r] = @ \ {h}]
    BY DEF HookLearns, Fire
  <1>2. failed[r] \in Failure
    BY <1>1 DEF FailuresTyped
  <1>3. Open(r) /\ (h = "log" <=> failed[r].path = "completion")
    BY <1>1, LearnerIsOpen
  <1>4. heard' = [heard EXCEPT ![r] = now]
    BY <1>3 DEF HookLearns, Hear, Hooks
  <1>5. failed[r] # NotYet
    BY <1>1 DEF HeardOnce
  <1>6. owed'[r] = owed[r] \ {h}
    BY <1>1 DEF FailuresTyped
  <1>7. ~Open(r)'
    BY <1>1, <1>3, <1>5, <1>6 DEF Open, HeardOnce, FailuresTyped, Hooks
  <1>8. heard'[r] # -1
    BY <1>4 DEF HeardOnce, MemoryProofs!IInv, MemoryProofs!TypeOK
  <1>9. PICK slug \in Charged(failed[r], h) :
            IF slug = {} \/ Signal(RuleOf[rules'], failed[r]) = {}
              THEN UNCHANGED memoryVars
              ELSE \E k \in slug, op \in Signal(RuleOf[rules'], failed[r]) : Memory!Begin(r, op, k)
    BY DEF HookLearns
  <1>10. CASE UNCHANGED memoryVars
    BY <1>3, <1>4, <1>7, <1>10 DEF HeardOnce
  <1>11. CASE ~UNCHANGED memoryVars
    <2>1. PICK k \in slug, op \in Signal(RuleOf[rules'], failed[r]) : Memory!Begin(r, op, k)
      BY <1>9, <1>11
    <2>2. k \in Keys /\ op \in Records
      BY <1>2, ChargedKeys, SignalRecords
    <2>3. served'
      BY DEF HookLearns, Config!Resolve
    <2>4. k \in Slugs => Blamable(r, k)
      BY <1>2, <1>3, ChargedIsBlamable DEF Blamable
    <2>5. CallsFor(r, op, k)'
      BY <1>1, <1>2, <1>7, <1>8, <2>4 DEF CallsFor, Blamable
    <2> QED
      BY <1>3, <1>4, <1>7, <2>1, <2>2, <2>3, <2>5 DEF HeardOnce
  <1> QED
    BY <1>10, <1>11

\* The hits and the calls of the requests as they are, the marks too or reaped.
OthersStep ==
    /\ UNCHANGED <<log, recorded>>
    /\ \A r \in Requests : call'[r] = call[r]
    /\ \A st \in Memory!Stores, k \in Slugs : until'[st][k] \in {until[st][k], 0}

LearnStep(r) ==
    \E op \in Records, k \in Keys : Memory!Begin(r, op, k) /\ served' /\ CallsFor(r, op, k)'

\* What a step can do to the memory.
LEMMA MemoryCases ==
    ASSUME FailuresTyped, HeardOnce, MemoryProofs!IInv, [Next]_vars
    PROVE  \/ OthersStep
           \/ \E r \in Requests : Open(r) /\ heard'[r] = now /\ LearnStep(r)
           \/ \E r \in Requests : Memory!Record(r) /\ UNCHANGED <<failureVars, configVars>>
           \/ \E r \in Requests, st \in Memory!Stores :
                 Memory!Report(r, st) /\ UNCHANGED <<failureVars, configVars>>
  <1>0. /\ call \in [Requests \cup {Router} -> MemoryProofs!Call \cup {MemoryProofs!Idle}]
        /\ until \in [Memory!Stores -> [Keys -> Nat]]
    BY DEF MemoryProofs!IInv, MemoryProofs!TypeOK, MemoryProofs!Stores, Memory!Stores
  <1>1. UNCHANGED memoryVars => OthersStep
    BY DEF memoryVars, OthersStep
  <1>2. ASSUME NEW r \in Requests, NEW h \in Hooks, HookLearns(r, h)
        PROVE  OthersStep \/ (Open(r) /\ heard'[r] = now /\ LearnStep(r))
    BY <1>1, <1>2, LearnsDue DEF LearnStep, HeardOnce
  <1>3. ASSUME Route PROVE OthersStep
    <2>1. ASSUME NEW op, NEW k \in Slugs, Memory!Begin(Router, op, k) PROVE OthersStep
      BY <1>0, <2>1, FailuresAssumption DEF Memory!Begin, OthersStep
    <2>2. ASSUME NEW st \in Memory!Stores, Memory!Read(Router, st) PROVE OthersStep
      <3>1. \A r \in Requests : call'[r] = call[r]
        BY <1>0, <2>2, FailuresAssumption DEF Memory!Read, Memory!Return
      <3>2. \A s \in Memory!Stores, k \in Slugs : until'[s][k] \in {until[s][k], 0}
        BY <1>0, <2>2 DEF Memory!Read, Keys
      <3> QED
        BY <2>2, <3>1, <3>2 DEF Memory!Read, OthersStep
    <2> QED
      BY <1>1, <1>3, <2>1, <2>2 DEF Route
  <1>4. Tick => OthersStep
    BY DEF Tick, Memory!Tick, OthersStep
  <1> QED
    BY <1>1, <1>2, <1>3, <1>4
    DEF Next, Fail, HookReturns, HookStops, HookRecords, Configure, vars

LEMMA HeardOnceKept ==
    ASSUME FailuresTyped, HeardOnce, MemoryProofs!IInv, [Next]_vars
    PROVE  HeardOnce'
  <1>1. heard' \in [Requests -> Int]
    <2>1. now \in Int
      BY DEF MemoryProofs!IInv, MemoryProofs!TypeOK
    <2>2. ASSUME NEW r \in Requests, NEW h \in Hooks, HookLearns(r, h)
          PROVE  heard' \in [Requests -> Int]
      BY <2>1, <2>2, LearnsDue DEF HeardOnce
    <2> QED
      BY <2>2
      DEF HeardOnce, Next, Fail, HookReturns, Guarded, Hear, HookStops, HookRecords,
          Route, Configure, Tick, failureVars, vars
  <1>2. ASSUME NEW r \in Requests
        PROVE  /\ "log" \in owed'[r] => failed'[r].path = "completion"
               /\ failed'[r] = NotYet => owed'[r] = {}
    <2>1. ASSUME NEW q \in Requests, Fail(q)
          PROVE  /\ "log" \in owed'[r] => failed'[r].path = "completion"
                 /\ failed'[r] = NotYet => owed'[r] = {}
      <3>1. PICK f \in UsedFailures :
                /\ failed' = [failed EXCEPT ![q] = f]
                /\ owed' = [owed EXCEPT ![q] = IF f.path = "completion" THEN Hooks ELSE {"post"}]
        BY <2>1 DEF Fail
      <3>2. f # NotYet
        BY FailuresAssumption DEF Failure, NotYet, Paths
      <3> QED
        BY <3>1, <3>2 DEF HeardOnce, FailuresTyped
    <2>2. ASSUME NEW q \in Requests, NEW h \in Hooks, Fire(q, h)
          PROVE  /\ "log" \in owed'[r] => failed'[r].path = "completion"
                 /\ failed'[r] = NotYet => owed'[r] = {}
      BY <2>2 DEF Fire, HeardOnce, FailuresTyped
    <2> QED
      BY <2>1, <2>2
      DEF HeardOnce, Next, HookReturns, HookStops, HookLearns, HookRecords, Route, Configure,
          Tick, failureVars, vars
  <1>3. ASSUME NEW r \in Requests, Open(r)'
        PROVE  heard'[r] = -1 /\ call'[r] = Memory!Idle
    <2>1. Open(r) /\ heard[r] = -1 /\ call[r] = Memory!Idle
      BY <1>3, Settles DEF HeardOnce
    <2>2. heard'[r] = -1
      <3>1. ASSUME NEW q \in Requests, NEW h \in Hooks, HookLearns(q, h) PROVE heard'[r] = -1
        BY <1>3, <2>1, <3>1, LearnsDue DEF HeardOnce
      <3> QED
        BY <2>1, <3>1
        DEF Next, Fail, HookReturns, Guarded, Hear, HookStops, HookRecords,
            Route, Configure, Tick, failureVars, vars
    <2>3. call \in [Requests \cup {Router} -> MemoryProofs!Call \cup {MemoryProofs!Idle}]
      BY DEF MemoryProofs!IInv, MemoryProofs!TypeOK
    <2>4. ASSUME NEW q \in Requests, LearnStep(q) PROVE call'[r] = Memory!Idle
      <3>1. ~Open(q)'
        BY <2>4 DEF LearnStep, CallsFor
      <3> QED
        BY <1>3, <2>1, <2>3, <2>4, <3>1 DEF LearnStep, Memory!Begin
    <2>5. ASSUME NEW q \in Requests, Memory!Record(q) PROVE call'[r] = Memory!Idle
      BY <2>1, <2>3, <2>5 DEF Memory!Record, Memory!Return
    <2>6. ASSUME NEW q \in Requests, NEW st \in Memory!Stores, Memory!Report(q, st)
          PROVE  call'[r] = Memory!Idle
      BY <2>1, <2>3, <2>6 DEF Memory!Report, Memory!Return
    <2>7. OthersStep => call'[r] = Memory!Idle
      BY <2>1 DEF OthersStep
    <2> QED
      BY <2>2, <2>4, <2>5, <2>6, <2>7, MemoryCases
  <1> QED
    BY <1>1, <1>2, <1>3 DEF HeardOnce, Memory!Idle

LEMMA CallsAreDueKept ==
    ASSUME DueInv, RInv, MemoryProofs!IInv, [Next]_vars
    PROVE  CallsAreDue'
  <1> SUFFICES ASSUME NEW r \in Requests, call'[r] # Memory!Idle
               PROVE  /\ served'
                      /\ call'[r].ts = heard'[r]
                      /\ CallsFor(r, call[r].op, call[r].key)'
    BY DEF CallsAreDue, Memory!Idle
  <1> USE DEF DueInv
  <1>0. call \in [Requests \cup {Router} -> MemoryProofs!Call \cup {MemoryProofs!Idle}]
    BY DEF MemoryProofs!IInv, MemoryProofs!TypeOK
  <1>1. CASE call'[r] = call[r]
    <2>1. served /\ call[r].ts = heard[r] /\ CallsFor(r, call[r].op, call[r].key)
      BY <1>1 DEF CallsAreDue
    <2>2. CallsFor(r, call[r].op, call[r].key)' /\ heard'[r] = heard[r]
      <3> DEFINE op == call[r].op  k == call[r].key
      <3>1. CallsFor(r, op, k)
        BY <2>1
      <3> HIDE DEF op, k
      <3>2. ~Open(r)' /\ failed'[r] = failed[r] /\ heard'[r] = heard[r]
        BY <3>1, Settles DEF CallsFor
      <3>3. rules' = rules
        BY <2>1, RulesStay
      <3> QED
        BY <1>1, <3>1, <3>2, <3>3 DEF CallsFor, Blamable, op, k
    <2> QED
      BY <1>1, <2>1, <2>2, RulesStay
  <1>2. CASE call'[r] # call[r]
    <2>1. PICK q \in Requests : Open(q) /\ heard'[q] = now /\ LearnStep(q)
      <3>1. ~OthersStep
        BY <1>2 DEF OthersStep
      <3>2. ASSUME NEW q \in Requests, Memory!Record(q) PROVE FALSE
        BY <1>0, <1>2, <3>2 DEF Memory!Record, Memory!Return
      <3>3. ASSUME NEW q \in Requests, NEW st \in Memory!Stores, Memory!Report(q, st) PROVE FALSE
        BY <1>0, <1>2, <3>3 DEF Memory!Report, Memory!Return
      <3> QED
        BY <3>1, <3>2, <3>3, MemoryCases
    <2>2. PICK op \in Records, k \in Keys :
              Memory!Begin(q, op, k) /\ served' /\ CallsFor(q, op, k)'
      BY <2>1 DEF LearnStep
    <2>3. q = r /\ call'[r] = [op |-> op, key |-> k, ts |-> now]
      BY <1>0, <1>2, <2>2 DEF Memory!Begin
    <2>4. call'[r].op = op /\ call'[r].key = k /\ call'[r].ts = now
      BY <2>3
    <2>5. CallsFor(r, call[r].op, call[r].key)'
      BY <2>2, <2>3, <2>4 DEF CallsFor, Blamable
    <2> QED
      BY <2>1, <2>2, <2>3, <2>4, <2>5
  <1> QED
    BY <1>1, <1>2

LEMMA MarksAreDueKept ==
    ASSUME DueInv, RInv, MemoryProofs!IInv, [Next]_vars
    PROVE  MarksAreDue'
  <1> SUFFICES ASSUME NEW st \in Memory!Stores, NEW k \in Slugs, until'[st][k] # 0
               PROVE  /\ served'
                      /\ \E r \in Requests :
                            /\ until'[st][k] = heard'[r] + Memory!Ttl(st, k)
                            /\ CallsFor(r, Memory!ReportOp[st], k)'
    BY DEF MarksAreDue, Memory!Stores, Memory!Ttl, Memory!ReportOp, CallsFor, Blamable
  <1> USE DEF DueInv
  <1>0. until \in [Memory!Stores -> [Keys -> Nat]] /\ k \in Keys
    BY DEF MemoryProofs!IInv, MemoryProofs!TypeOK, MemoryProofs!Stores, Memory!Stores, Keys
  <1>1. CASE until'[st][k] = until[st][k]
    <2>1. PICK r \in Requests : /\ until[st][k] = heard[r] + Memory!Ttl(st, k)
                                /\ CallsFor(r, Memory!ReportOp[st], k)
      BY <1>1 DEF MarksAreDue
    <2>2. served
      BY <1>1 DEF MarksAreDue
    <2>3. CallsFor(r, Memory!ReportOp[st], k)' /\ heard'[r] = heard[r]
      <3> DEFINE op == Memory!ReportOp[st]
      <3>1. CallsFor(r, op, k)
        BY <2>1
      <3> HIDE DEF op
      <3>2. CallsFor(r, op, k)' /\ heard'[r] = heard[r]
        BY <2>2, <3>1, CallsForKept
      <3> QED
        BY <3>2 DEF op
    <2> QED
      BY <1>1, <2>1, <2>2, <2>3, RulesStay
  <1>2. CASE until'[st][k] # until[st][k]
    <2>1. PICK r \in Requests, s \in Memory!Stores :
              Memory!Report(r, s) /\ UNCHANGED <<failureVars, configVars>>
      BY <1>2, MemoryCases DEF OthersStep, LearnStep, Memory!Begin, Memory!Record
    <2>2. /\ call[r].op = Memory!ReportOp[s] /\ call[r] # Memory!Idle
          /\ until' = [until EXCEPT ![s][call[r].key] = call[r].ts + Memory!Ttl(s, call[r].key)]
      BY <2>1 DEF Memory!Report, Memory!Idle, Memory!ReportOp, Memory!Stores
    <2>3. s = st /\ call[r].key = k
      BY <1>0, <1>2, <2>2
    <2>4. until'[st][k] = call[r].ts + Memory!Ttl(st, k)
      BY <1>0, <2>2, <2>3
    <2>5. /\ served /\ call[r].ts = heard[r]
          /\ CallsFor(r, call[r].op, call[r].key)
      BY <2>2 DEF CallsAreDue
    <2>6. CallsFor(r, Memory!ReportOp[st], k)
      BY <2>2, <2>3, <2>5
    <2>7. /\ UNCHANGED <<failed, owed, heard, rules, served>>
      BY <2>1 DEF failureVars, configVars
    <2>8. CallsFor(r, Memory!ReportOp[st], k)'
      BY <2>6, <2>7 DEF CallsFor, Blamable, Open, Memory!ReportOp
    <2> QED
      BY <2>4, <2>5, <2>7, <2>8
  <1> QED
    BY <1>1, <1>2

LEMMA HitsAreDueKept ==
    ASSUME DueInv, RInv, MemoryProofs!IInv, [Next]_vars
    PROVE  HitsAreDue'
  <1> USE DEF DueInv
  <1>0. /\ call \in [Requests \cup {Router} -> MemoryProofs!Call \cup {MemoryProofs!Idle}]
        /\ recorded \in Nat
        /\ log \in [Keys -> SUBSET MemoryProofs!Hit]
    BY DEF MemoryProofs!IInv, MemoryProofs!TypeOK
  <1>1. PICK own \in [0 .. recorded - 1 -> Requests] : HitsOf(own)
    BY DEF HitsAreDue
  <1>2. \A n \in 0 .. recorded - 1 :
            ~Open(own[n])' /\ heard'[own[n]] = heard[own[n]] /\ own[n] \in Requests
    BY <1>1, Settles DEF HitsOf
  <1>3. ASSUME NEW k \in Slugs, NEW g \in log[k]
        PROVE  /\ g.n \in 0 .. recorded - 1
               /\ served'
               /\ g.ts = heard'[own[g.n]]
               /\ CallsFor(own[g.n], "record", k)'
    <2>1. /\ g.n \in 0 .. recorded - 1 /\ served /\ g.ts = heard[own[g.n]]
          /\ CallsFor(own[g.n], "record", k)
      BY <1>1 DEF HitsOf
    <2> DEFINE r == own[g.n]
    <2>2. r \in Requests /\ CallsFor(r, "record", k)
      BY <1>2, <2>1
    <2>3. ~Open(r)' /\ failed'[r] = failed[r] /\ heard'[r] = heard[r] /\ rules' = rules /\ served'
      BY <2>1, <2>2, Settles, RulesStay DEF CallsFor
    <2> QED
      BY <2>1, <2>2, <2>3 DEF CallsFor, Blamable
  <1>4. CASE UNCHANGED <<log, recorded>>
    <2>1. ASSUME NEW n \in 0 .. recorded - 1 PROVE call'[own[n]] = Memory!Idle
      <3>1. own[n] \in Requests /\ call[own[n]] = Memory!Idle /\ ~Open(own[n])
        BY <1>1, <1>2 DEF HitsOf
      <3>2. OthersStep => call'[own[n]] = Memory!Idle
        BY <3>1 DEF OthersStep
      <3>3. ASSUME NEW q \in Requests, Open(q), LearnStep(q) PROVE call'[own[n]] = Memory!Idle
        BY <1>0, <3>1, <3>3 DEF LearnStep, Memory!Begin
      <3>4. ASSUME NEW q \in Requests, Memory!Record(q) PROVE call'[own[n]] = Memory!Idle
        BY <1>0, <3>1, <3>4 DEF Memory!Record, Memory!Return
      <3>5. ASSUME NEW q \in Requests, NEW st \in Memory!Stores, Memory!Report(q, st)
            PROVE  call'[own[n]] = Memory!Idle
        BY <1>0, <3>1, <3>5 DEF Memory!Report, Memory!Return
      <3> QED
        BY <3>2, <3>3, <3>4, <3>5, MemoryCases
    <2>2. HitsOf(own)'
      BY <1>1, <1>2, <1>3, <1>4, <2>1 DEF HitsOf, Memory!Idle
    <2> QED
      BY <1>4, <2>2 DEF HitsAreDue
  <1>5. CASE ~UNCHANGED <<log, recorded>>
    <2>1. PICK q \in Requests : Memory!Record(q) /\ UNCHANGED <<failureVars, configVars>>
      BY <1>5, MemoryCases DEF OthersStep, LearnStep, Memory!Begin, Memory!Report
    <2> DEFINE new == [n |-> recorded, ts |-> call[q].ts]
    <2>2. /\ call[q].op = "record" /\ call[q] # Memory!Idle
          /\ recorded' = recorded + 1
          /\ log' = [log EXCEPT ![call[q].key] = @ \cup {new}]
          /\ call' = [call EXCEPT ![q] = Memory!Idle]
      BY <2>1 DEF Memory!Record, Memory!Return, Memory!Idle
    <2>3. /\ served /\ call[q].ts = heard[q]
          /\ CallsFor(q, "record", call[q].key)
      BY <2>2 DEF CallsAreDue
    <2>4. /\ UNCHANGED <<failed, owed, heard, rules, served>>
      BY <2>1 DEF failureVars, configVars
    <2>5. ASSUME NEW k \in Slugs, k = call[q].key PROVE CallsFor(q, "record", k)'
      BY <2>3, <2>4, <2>5 DEF CallsFor, Blamable, Open
    <2>6. ~Open(q)' /\ q \in Requests
      BY <2>3, <2>4 DEF CallsFor, Open
    <2>7. \A n \in 0 .. recorded - 1 : own[n] # q
      BY <1>1, <2>2 DEF HitsOf
    <2>8. PICK last : last = recorded
      OBVIOUS
    <2>9. PICK more : more = [n \in 0 .. last |-> IF n = last THEN q ELSE own[n]]
      OBVIOUS
    <2>10. /\ last = recorded' - 1 /\ last \in 0 .. last
           /\ \A n \in 0 .. recorded - 1 : n \in 0 .. last /\ more[n] = own[n]
           /\ \A n \in 0 .. last : n = last \/ n \in 0 .. recorded - 1
           /\ more \in [0 .. last -> Requests] /\ more[last] = q
      BY <1>0, <1>1, <2>2, <2>8, <2>9
    <2>11. \A m, n \in 0 .. last : more[m] = more[n] => m = n
      BY <1>1, <2>7, <2>10 DEF HitsOf
    <2>12. \A n \in 0 .. last : ~Open(more[n])' /\ call'[more[n]] = Memory!Idle
      <3>1. more[last] = q /\ call'[q] = Memory!Idle
        BY <1>0, <2>2, <2>10
      <3>2. ~Open(more[last])'
        BY <2>4, <2>6, <2>10 DEF Open
      <3>3. ASSUME NEW n \in 0 .. recorded - 1
            PROVE  ~Open(more[n])' /\ call'[more[n]] = Memory!Idle
        <4>1. more[n] = own[n] /\ call[own[n]] = Memory!Idle /\ ~Open(own[n])
          BY <1>1, <2>10 DEF HitsOf
        <4>2. call'[more[n]] = Memory!Idle
          BY <1>0, <1>2, <2>2, <4>1
        <4> QED
          BY <2>4, <4>1, <4>2 DEF Open
      <3> QED
        BY <2>10, <3>1, <3>2, <3>3
    <2>13. ASSUME NEW k \in Slugs, NEW g \in log'[k]
           PROVE  /\ g.n \in 0 .. last
                  /\ served'
                  /\ g.ts = heard'[more[g.n]]
                  /\ CallsFor(more[g.n], "record", k)'
      <3>1. CASE g \in log[k]
        <4>1. /\ g.n \in 0 .. recorded - 1 /\ served' /\ g.ts = heard'[own[g.n]]
              /\ CallsFor(own[g.n], "record", k)'
          BY <1>3, <3>1
        <4> QED
          BY <2>10, <4>1 DEF CallsFor, Blamable, Open
      <3>2. CASE g \notin log[k]
        <4>1. k = call[q].key /\ g = new
          BY <1>0, <2>2, <3>2 DEF Keys
        <4>2. g.n = recorded /\ g.ts = call[q].ts
          BY <4>1
        <4>3. CallsFor(q, "record", k)' /\ more[g.n] = q
          BY <2>5, <2>8, <2>10, <4>1, <4>2
        <4> QED
          BY <2>3, <2>4, <2>8, <2>10, <4>2, <4>3 DEF CallsFor, Blamable, Open
      <3> QED
        BY <3>1, <3>2
    <2>14. HitsOf(more)'
      BY <2>10, <2>11, <2>12, <2>13 DEF HitsOf, Memory!Idle
    <2> QED
      BY <2>10, <2>14 DEF HitsAreDue
  <1> QED
    BY <1>4, <1>5

LEMMA DueStarts == Init => DueInv
  <1> SUFFICES ASSUME Init PROVE DueInv
    OBVIOUS
  <1>1. FailuresTyped /\ HeardOnce
    BY DEF Init, FailuresTyped, HeardOnce, Memory!Init
  <1>2. CallsAreDue
    BY DEF Init, CallsAreDue, Memory!Init
  <1>3. MarksAreDue
    BY DEF Init, MarksAreDue, Memory!Init, Keys
  <1>4. HitsAreDue
    <2>1. 0 .. recorded - 1 = {} /\ \A k \in Slugs : log[k] = {}
      BY DEF Init, Memory!Init, Keys
    <2> DEFINE none == [n \in 0 .. recorded - 1 |-> CHOOSE r \in Requests : TRUE]
    <2>2. none \in [0 .. recorded - 1 -> Requests] /\ HitsOf(none)
      BY <2>1 DEF HitsOf
    <2> QED
      BY <2>2 DEF HitsAreDue
  <1> QED
    BY <1>1, <1>2, <1>3, <1>4 DEF DueInv

LEMMA MemoryInvariance == Spec => []MemoryProofs!IInv
  <1>1. MemoryProofs!Spec => []MemoryProofs!IInv
    BY FailuresAssumption, MemoryProofs!Invariance DEF MemoryProofs!Ops, Keys, Records
  <1> QED
    BY <1>1, MemoryBehaves, PTL

LEMMA ResolutionInvariance == Spec => []RInv
  <1>1. Config!Spec => []RInv
    BY FailuresAssumption, ConfigInvariance
  <1> QED
    BY <1>1, ConfigBehaves, PTL

\* The variables of the hooks keep their types.
THEOREM TypeCorrect == Spec => []TypeOK
  <1> DEFINE HeardTyped == /\ heard \in [Requests -> Nat \cup {-1}]
                           /\ allowed \in Lists \cup {NoList}
  <1>1. Init => HeardTyped
    BY DEF Init
  <1>2. HeardTyped /\ FailuresTyped /\ MemoryProofs!IInv /\ [Next]_vars => HeardTyped'
    <2> SUFFICES ASSUME HeardTyped, FailuresTyped, MemoryProofs!IInv, [Next]_vars
                 PROVE  HeardTyped'
      OBVIOUS
    <2>1. ASSUME NEW r \in Requests, NEW h \in Hooks, HookLearns(r, h) PROVE HeardTyped'
      <3>1. now \in Nat
        BY DEF MemoryProofs!IInv, MemoryProofs!TypeOK
      <3>2. heard' \in {heard, [heard EXCEPT ![r] = now]}
        BY <2>1 DEF HookLearns, Hear
      <3>3. failed[r] \in Failure
        BY <2>1 DEF HookLearns, Fire, FailuresTyped
      <3>4. allowed' \in {failed[r].answer.list, allowed}
        BY <2>1 DEF HookLearns
      <3>5. failed[r].answer.list \in Lists \cup {NoList}
        BY <3>3 DEF Failure, Answer
      <3> QED
        BY <3>1, <3>2, <3>4, <3>5
    <2>2. CASE UNCHANGED <<heard, allowed>>
      BY <2>2
    <2> QED
      BY <2>1, <2>2
      DEF Next, Fail, HookReturns, Guarded, Hear, HookStops, HookRecords,
          Route, Configure, Tick, failureVars, vars
  <1>3. FailuresTyped /\ HeardTyped => TypeOK
    BY DEF FailuresTyped, TypeOK
  <1> QED
    BY <1>1, <1>2, <1>3, TypesHold, MemoryInvariance, PTL DEF Spec

\* Whatever the memory holds, or is about to, is a failure of its own request:
\* heard of once, and charged to the provider it was pinned to, or whose
\* deployment it was sent to unpinned.
THEOREM Invariance == Spec => []DueInv
  <1>1. DueInv /\ RInv /\ MemoryProofs!IInv /\ [Next]_vars => DueInv'
    BY TypesKept, HeardOnceKept, CallsAreDueKept, MarksAreDueKept, HitsAreDueKept DEF DueInv
  <1> QED
    BY <1>1, DueStarts, MemoryInvariance, ResolutionInvariance, PTL DEF Spec

\* A mark goes back to a failure that says so and that may be held against the
\* provider (Blamable); a body that says both never marks its provider broken
\* (_apply_rate_limit_signal).
THEOREM MarksAreEarnedHolds == Spec => []MarksAreEarned
  <1>1. DueInv /\ MemoryProofs!IInv => MarksAreEarned
    <2> SUFFICES ASSUME DueInv, MemoryProofs!IInv, NEW k \in Slugs, NEW st \in Memory!Stores,
                        Memory!IsLive(st, k, now)
                 PROVE  \E r \in Told(k, 400, Since(st, k)) :
                            IF st = "input_cap" THEN "input_cap" \in Reads(r)
                                                ELSE Reads(r) = {"broken"}
      BY DEF MarksAreEarned, Memory!Stores
    <2>1. /\ now \in Nat /\ until[st][k] \in Nat /\ Memory!Ttl(st, k) \in Nat
      BY FailuresAssumption
      DEF MemoryProofs!IInv, MemoryProofs!TypeOK, MemoryProofs!Stores, Memory!Stores, Keys,
          Memory!Ttl
    <2>2. until[st][k] > now
      BY DEF Memory!IsLive
    <2>3. PICK r \in Requests : /\ until[st][k] = heard[r] + Memory!Ttl(st, k)
                                /\ CallsFor(r, Memory!ReportOp[st], k)
      BY <2>1, <2>2 DEF DueInv, MarksAreDue
    <2>4. heard[r] # -1 /\ heard[r] >= Since(st, k)
      BY <2>1, <2>2, <2>3 DEF CallsFor, Since, DueInv, HeardOnce
    <2> DEFINE f == failed[r]  rule == RuleOf[rules]
    <2>5. Memory!ReportOp[st] \in Signal(rule, f) /\ Blamable(r, k) /\ f \in Failure
      BY <2>3 DEF CallsFor
    <2>6. f.answer.says \subseteq {"input_cap", "broken"}
      BY <2>5 DEF Failure, Answer
    <2>7. Reads(r) = {kind \in f.answer.says : rule[kind] /\ Readable(f)}
      BY DEF Reads
    <2> HIDE DEF f, rule
    <2>8. /\ f.answer.status = 400
          /\ IF st = "input_cap" THEN Matches(rule, f, "input_cap")
                                 ELSE Matches(rule, f, "broken") /\ ~Matches(rule, f, "input_cap")
      BY <2>5 DEF Memory!ReportOp, Memory!Stores, Signal, Matches
    <2>9. IF st = "input_cap" THEN "input_cap" \in Reads(r) ELSE Reads(r) = {"broken"}
      BY <2>6, <2>7, <2>8 DEF Matches, Memory!Stores
    <2> QED
      BY <2>4, <2>5, <2>8, <2>9 DEF Told, f
  <1> QED
    BY <1>1, Invariance, MemoryInvariance, PTL

\* A provider is hot only if as many distinct requests as the threshold asks
\* for, pinned to it or sent unpinned on its deployment, were rate limited within
\* the window: the two hooks of one failure are not two failures.
THEOREM HotIsEarnedHolds == Spec => []HotIsEarned
  <1>1. DueInv /\ MemoryProofs!IInv => HotIsEarned
    <2> SUFFICES ASSUME DueInv, MemoryProofs!IInv, NEW k \in Slugs, Memory!IsHot(k, now)
                 PROVE  Cardinality(Told(k, 429, now - Window)) >= Threshold
      BY DEF HotIsEarned
    <2> DEFINE recent == Memory!Recent(hits[k], now)
               told   == Told(k, 429, now - Window)
    <2>1. hits[k] \subseteq log[k] /\ log[k] \subseteq MemoryProofs!Hit
      BY DEF MemoryProofs!IInv, MemoryProofs!TypeOK, MemoryProofs!HitsStored, Keys
    <2>2. PICK own \in [0 .. recorded - 1 -> Requests] : HitsOf(own)
      BY DEF DueInv, HitsAreDue
    <2>3. ASSUME NEW g \in recent PROVE own[g.n] \in told
      <3>1. /\ g \in log[k] /\ g.ts >= now - Window
        BY <2>1, <2>3 DEF Memory!Recent
      <3>2. /\ g.n \in 0 .. recorded - 1 /\ g.ts = heard[own[g.n]]
            /\ CallsFor(own[g.n], "record", k)
        BY <2>2, <3>1 DEF HitsOf
      <3>3. failed[own[g.n]].answer.status = 429
        BY <3>2 DEF CallsFor, Signal
      <3> QED
        BY <2>2, <3>1, <3>2, <3>3 DEF Told, CallsFor
    <2>4. ASSUME NEW g \in recent, NEW h \in recent, own[g.n] = own[h.n] PROVE g = h
      <3>1. /\ g \in log[k] /\ h \in log[k]
        BY <2>1, <2>4 DEF Memory!Recent
      <3>2. g.n = h.n /\ g.ts = h.ts
        BY <2>2, <2>4, <3>1 DEF HitsOf
      <3> QED
        BY <2>1, <3>1, <3>2 DEF MemoryProofs!Hit
    <2> DEFINE whose == [g \in recent |-> own[g.n]]
    <2>5. whose \in Injection(recent, told)
      BY <2>3, <2>4 DEF Injection, IsInjective
    <2>6. IsFiniteSet(told)
      BY FailuresAssumption, FS_Subset DEF Told
    <2>7. Cardinality(recent) <= Cardinality(told) /\ IsFiniteSet(recent)
      BY <2>5, <2>6, FS_Injection
    <2>8. Cardinality(recent) \in Nat /\ Cardinality(told) \in Nat
      BY <2>6, <2>7, FS_CardinalityType
    <2>9. Cardinality(recent) >= Threshold
      BY DEF Memory!IsHot, Memory!Cardinality, Cardinality
    <2> QED
      BY <2>7, <2>8, <2>9, FailuresAssumption
  <1> QED
    BY <1>1, Invariance, MemoryInvariance, PTL

-----------------------------------------------------------------------------
(* That no failure is lost.                                                *)

\* Whether r's failure, that only k can have served, called for this record.
Owes(r, op, k) ==
    /\ heard[r] # -1
    /\ failed[r].wire.slugs = {k}
    /\ op \in Signal(RuleOf[rules], failed[r])

\* While its record is not in the memory, it is on its way to k.
Underway ==
    \A r \in Requests : heard[r] # -1 =>
        /\ served
        /\ heard[r] <= now
        /\ \A k \in Slugs, op \in Records :
              Owes(r, op, k) /\ call[r] # Memory!Idle => call[r].key = k

MarksArrive ==
    \A r \in Requests, k \in Slugs, st \in Memory!Stores :
        Owes(r, Memory!ReportOp[st], k) /\ call[r] = Memory!Idle =>
            heard[r] + Memory!Ttl(st, k) <= promised[st][k]

\* Every request that owed a 429 has its own hit.
HitsArriveAt(pos) ==
    /\ \A r \in Requests, k \in Slugs :
          Owes(r, "record", k) /\ call[r] = Memory!Idle =>
              [n |-> pos[r], ts |-> heard[r]] \in log[k] /\ pos[r] < recorded
    /\ \A q, r \in Requests : \A j, k \in Slugs :
          /\ Owes(q, "record", j) /\ call[q] = Memory!Idle
          /\ Owes(r, "record", k) /\ call[r] = Memory!Idle
          /\ pos[q] = pos[r]
          => q = r

HitsArrive == \E pos \in [Requests -> Nat] : HitsArriveAt(pos)

TellInv ==
    /\ Underway
    /\ MarksArrive
    /\ HitsArrive
    /\ AllowlistIsTheLatest

\* A hook charges a failure that only k can have served to k, wherever the pin is.
LEMMA ChargedExactly ==
    ASSUME NEW f \in Failure, NEW h \in Hooks, NEW slug \in Charged(f, h), NEW k \in Slugs,
           f.wire.slugs = {k}
    PROVE  slug = {k}
  <1>1. Named(f.wire) = {k} /\ Named(NoPin) = {}
    BY FS_Singleton, FS_EmptySet DEF Named, NoPin
  <1>2. f.wire.only = TRUE /\ NoPin.only = FALSE
    <2>1. f.wire \in [only : {TRUE}, slugs : SUBSET Slugs]
      <3>1. f.wire \in Pins
        BY DEF Failure
      <3>2. f.wire # NoPin
        BY DEF NoPin
      <3> QED
        BY <3>1, <3>2 DEF Pins
    <2> QED
      BY <2>1 DEF NoPin
  <1>3. CASE h = "log"
    <2>1. PICK s \in CallDetails(f) : slug = SlugFromKwargs(s)
      BY <1>3 DEF Charged
    <2>2. s.extra_body \in {f.wire, NoPin} /\ s.optional_params = f.wire
      BY <2>1 DEF CallDetails
    <2> QED
      BY <1>1, <2>1, <2>2 DEF SlugFromKwargs
  <1>4. CASE h # "log"
    <2>1. PICK s \in RequestData(f) : slug = SlugFromRequestData(s)
      BY <1>4 DEF Charged
    <2>2. /\ s.provider \in {f.wire, NoPin}
          /\ ~s.provider.only =>
                \/ s.extra_body = f.wire /\ s.optional_params = NoPin
                \/ s.extra_body = NoPin /\ s.optional_params = f.wire
      BY <2>1 DEF RequestData
    <2>3. CASE s.provider.only
      BY <1>1, <1>2, <2>1, <2>2, <2>3 DEF SlugFromRequestData
    <2>4. CASE ~s.provider.only
      BY <1>1, <2>1, <2>2, <2>4 DEF SlugFromRequestData, SlugFromKwargs
    <2> QED
      BY <2>3, <2>4
  <1> QED
    BY <1>3, <1>4

\* A hook that learns of a failure only k can have served calls the memory for k.
LEMMA LearnsTells ==
    ASSUME FailuresTyped, HeardOnce, MemoryProofs!IInv, NEW r \in Requests, NEW h \in Hooks,
           HookLearns(r, h), NEW k \in Slugs, NEW op \in Records, Owes(r, op, k)'
    PROVE  call'[r] # Memory!Idle /\ call'[r].key = k
  <1>1. h \in owed[r] /\ failed' = failed
    BY DEF HookLearns, Fire
  <1>2. failed[r] \in Failure
    BY <1>1 DEF FailuresTyped
  <1>3. PICK slug \in Charged(failed[r], h) :
            IF slug = {} \/ Signal(RuleOf[rules'], failed[r]) = {}
              THEN UNCHANGED memoryVars
              ELSE \E j \in slug, o \in Signal(RuleOf[rules'], failed[r]) : Memory!Begin(r, o, j)
    BY DEF HookLearns
  <1>4. slug = {k} /\ op \in Signal(RuleOf[rules'], failed[r])
    BY <1>1, <1>2, <1>3, ChargedExactly DEF Owes
  <1>5. PICK o \in Records : Memory!Begin(r, o, k)
    BY <1>3, <1>4, SignalRecords
  <1>6. call'[r] = [op |-> o, key |-> k, ts |-> now]
    BY <1>5 DEF Memory!Begin, MemoryProofs!IInv, MemoryProofs!TypeOK
  <1> QED
    BY <1>6 DEF Memory!Idle, Records

LEMMA SignalIsOne ==
    ASSUME NEW rule, NEW f, NEW o, NEW p, o \in Signal(rule, f), p \in Signal(rule, f)
    PROVE  o = p
  BY DEF Signal

\* The history of the memory only grows.
LEMMA MemoryGrows ==
    ASSUME MemoryProofs!IInv, [Next]_vars
    PROVE  /\ now <= now' /\ recorded <= recorded'
           /\ \A k \in Slugs : log[k] \subseteq log'[k]
           /\ \A st \in Memory!Stores, k \in Slugs : promised[st][k] <= promised'[st][k]
  <1>0. /\ now \in Nat /\ recorded \in Nat /\ log \in [Keys -> SUBSET MemoryProofs!Hit]
        /\ promised \in [Memory!Stores -> [Keys -> Nat]]
        /\ \A k \in Slugs : k \in Keys
    BY DEF MemoryProofs!IInv, MemoryProofs!TypeOK, MemoryProofs!Stores, Memory!Stores, Keys
  <1> DEFINE Grows == /\ now <= now' /\ recorded <= recorded'
                      /\ \A k \in Slugs : log[k] \subseteq log'[k]
                      /\ \A st \in Memory!Stores, k \in Slugs : promised[st][k] <= promised'[st][k]
  <1>1. UNCHANGED <<now, recorded, log, promised>> => Grows
    BY <1>0
  <1>2. ASSUME NEW r \in Requests, Memory!Record(r) PROVE Grows
    BY <1>0, <1>2 DEF Memory!Record
  <1>3. ASSUME NEW r \in Requests, NEW st \in Memory!Stores, Memory!Report(r, st) PROVE Grows
    <2> DEFINE exp == call[r].ts + Memory!Ttl(st, call[r].key)
    <2>1. promised' = [promised EXCEPT ![st][call[r].key] = IF exp > @ THEN exp ELSE @]
      BY <1>3 DEF Memory!Report
    <2>2. call[r].ts \in Nat /\ Memory!Ttl(st, call[r].key) \in Nat
      <3>1. call[r] \in MemoryProofs!Call
        BY <1>3 DEF Memory!Report, Memory!ReportOp, Memory!Stores, MemoryProofs!Idle,
                    MemoryProofs!IInv, MemoryProofs!TypeOK
      <3> QED
        BY <3>1, FailuresAssumption DEF MemoryProofs!Call, Memory!Ttl
    <2>3. exp \in Nat
      BY <2>2
    <2> HIDE DEF exp
    <2>4. \A s \in Memory!Stores, k \in Slugs : promised[s][k] <= promised'[s][k]
      BY <1>0, <2>1, <2>3
    <2> QED
      BY <1>0, <1>3, <2>4 DEF Memory!Report
  <1>4. ASSUME NEW t, NEW op, NEW k, Memory!Begin(t, op, k) PROVE Grows
    BY <1>1, <1>4 DEF Memory!Begin
  <1>5. ASSUME NEW st, Memory!Read(Router, st) PROVE Grows
    BY <1>1, <1>5 DEF Memory!Read
  <1>6. Memory!Tick => Grows
    BY <1>0 DEF Memory!Tick
  <1>7. ASSUME NEW r \in Requests, NEW h \in Hooks, HookLearns(r, h) PROVE Grows
    <2>1. UNCHANGED memoryVars \/ \E op, k : Memory!Begin(r, op, k)
      BY <1>7 DEF HookLearns
    <2> QED
      BY <1>1, <1>4, <2>1 DEF memoryVars
  <1> QED
    BY <1>1, <1>2, <1>3, <1>4, <1>5, <1>6, <1>7
    DEF Next, Fail, HookReturns, HookStops, HookRecords, Route, Configure, Tick, memoryVars, vars

\* A request is heard of by learning.
LEMMA HeardByLearning ==
    ASSUME FailuresTyped, HeardOnce, [Next]_vars, NEW r \in Requests,
           heard[r] = -1, heard'[r] # -1
    PROVE  \E h \in Hooks : HookLearns(r, h)
  <1>1. ASSUME NEW q \in Requests, NEW h \in Hooks, HookLearns(q, h), q # r PROVE FALSE
    BY <1>1 DEF HookLearns, Hear, HeardOnce
  <1> QED
    BY <1>1
    DEF Next, Fail, HookReturns, Guarded, Hear, HookStops, HookRecords,
        Route, Configure, Tick, failureVars, vars

LEMMA OwesKept ==
    ASSUME DueInv, RInv, Underway, [Next]_vars, NEW r \in Requests, heard[r] # -1
    PROVE  /\ served' /\ heard'[r] = heard[r] /\ ~Open(r)
           /\ \A op \in Records, k \in Slugs : Owes(r, op, k)' <=> Owes(r, op, k)
  <1>1. ~Open(r)
    BY DEF DueInv, HeardOnce
  <1>2. failed'[r] = failed[r] /\ heard'[r] = heard[r]
    BY <1>1, Settles DEF DueInv
  <1>3. served' /\ rules' = rules
    BY RulesStay DEF Underway
  <1> QED
    BY <1>1, <1>2, <1>3 DEF Owes

\* A request that was heard of begins no other call.
LEMMA CallsEnd ==
    ASSUME DueInv, MemoryProofs!IInv, [Next]_vars, NEW r \in Requests, ~Open(r)
    PROVE  \/ call'[r] = call[r]
           \/ call'[r] = Memory!Idle /\ (\/ Memory!Record(r)
                                         \/ \E st \in Memory!Stores : Memory!Report(r, st))
  <1>0. call \in [Requests \cup {Router} -> MemoryProofs!Call \cup {MemoryProofs!Idle}]
    BY DEF MemoryProofs!IInv, MemoryProofs!TypeOK
  <1>1. OthersStep => call'[r] = call[r]
    BY DEF OthersStep
  <1>2. ASSUME NEW q \in Requests, Open(q), LearnStep(q) PROVE call'[r] = call[r]
    BY <1>0, <1>2 DEF LearnStep, Memory!Begin
  <1>3. ASSUME NEW q \in Requests, Memory!Record(q)
        PROVE  IF q = r THEN call'[r] = Memory!Idle ELSE call'[r] = call[r]
    BY <1>0, <1>3 DEF Memory!Record, Memory!Return
  <1>4. ASSUME NEW q \in Requests, NEW st \in Memory!Stores, Memory!Report(q, st)
        PROVE  IF q = r THEN call'[r] = Memory!Idle ELSE call'[r] = call[r]
    BY <1>0, <1>4 DEF Memory!Report, Memory!Return
  <1> QED
    BY <1>1, <1>2, <1>3, <1>4, MemoryCases DEF DueInv

LEMMA UnderwayKept ==
    ASSUME DueInv, RInv, MemoryProofs!IInv, Underway, [Next]_vars
    PROVE  Underway'
  <1> SUFFICES ASSUME NEW r \in Requests, heard'[r] # -1
               PROVE  /\ served'
                      /\ heard'[r] <= now'
                      /\ \A k \in Slugs, op \in Records :
                            Owes(r, op, k)' /\ call'[r] # Memory!Idle => call'[r].key = k
    BY DEF Underway, Memory!Idle
  <1>0. heard[r] \in Int /\ now \in Int /\ now' \in Int
    <2>1. Lag \in Nat /\ now \in Nat
      BY FailuresAssumption DEF MemoryProofs!IInv, MemoryProofs!TypeOK
    <2>2. now' = now \/ now' = now + 1
      BY DEF Next, Fail, HookReturns, HookStops, HookLearns, HookRecords, Route, Configure, Tick,
             memoryVars, vars, Memory!Begin, Memory!Record, Memory!Report, Memory!Read, Memory!Tick
    <2> QED
      BY <2>1, <2>2 DEF DueInv, HeardOnce
  <1>1. CASE heard[r] = -1
    <2>1. PICK h \in Hooks : HookLearns(r, h)
      BY <1>1, HeardByLearning DEF DueInv
    <2>2. served'
      BY <2>1 DEF HookLearns, Config!Resolve
    <2>3. heard'[r] = now
      BY <2>1, LearnsDue DEF DueInv, HeardOnce
    <2> QED
      BY <1>0, <2>1, <2>2, <2>3, LearnsTells, MemoryGrows DEF DueInv
  <1>2. CASE heard[r] # -1
    <2>1. /\ served' /\ heard'[r] = heard[r] /\ ~Open(r)
          /\ \A op \in Records, k \in Slugs : Owes(r, op, k)' <=> Owes(r, op, k)
      BY <1>2, OwesKept
    <2>2. call'[r] = call[r] \/ call'[r] = Memory!Idle
      BY <2>1, CallsEnd
    <2>3. heard'[r] <= now'
      BY <1>0, <1>2, <2>1, MemoryGrows DEF Underway
    <2> QED
      BY <1>2, <2>1, <2>2, <2>3 DEF Underway
  <1> QED
    BY <1>1, <1>2

LEMMA MarksArriveKept ==
    ASSUME DueInv, RInv, MemoryProofs!IInv, MemoryProofs!IInv', Underway,
           MarksArrive, [Next]_vars
    PROVE  MarksArrive'
  <1> SUFFICES ASSUME NEW r \in Requests, NEW k \in Slugs, NEW st \in Memory!Stores,
                      Owes(r, Memory!ReportOp[st], k)', call'[r] = Memory!Idle
               PROVE  heard'[r] + Memory!Ttl(st, k) <= promised'[st][k]
    BY DEF MarksArrive, Memory!Stores, Memory!Idle, Memory!Ttl, Memory!ReportOp, Owes
  <1>0. Memory!ReportOp[st] \in Records
    BY DEF Memory!ReportOp, Memory!Stores, Records
  <1> DEFINE op == Memory!ReportOp[st]
  <1>1. Owes(r, op, k)' /\ op \in Records
    BY <1>0
  <1> HIDE DEF op
  <1>2. heard[r] # -1
    <2>1. ASSUME heard[r] = -1 PROVE FALSE
      <3>1. PICK h \in Hooks : HookLearns(r, h)
        BY <1>1, <2>1, HeardByLearning DEF DueInv, Owes
      <3> QED
        BY <1>1, <3>1, LearnsTells DEF DueInv
    <2> QED
      BY <2>1
  <1>3. heard'[r] = heard[r] /\ ~Open(r) /\ Owes(r, op, k)
    BY <1>1, <1>2, OwesKept
  <1>4. /\ promised \in [Memory!Stores -> [Keys -> Nat]] /\ k \in Keys
        /\ promised[st][k] <= promised'[st][k]
        /\ promised'[st][k] \in Int /\ Memory!Ttl(st, k) \in Nat /\ heard[r] \in Int
    <2>1. promised \in [Memory!Stores -> [Keys -> Nat]] /\ k \in Keys
      BY DEF MemoryProofs!IInv, MemoryProofs!TypeOK, MemoryProofs!Stores, Memory!Stores, Keys
    <2>2. Memory!Ttl(st, k) \in Nat /\ heard[r] \in Int
      BY <2>1, FailuresAssumption DEF Memory!Ttl, DueInv, HeardOnce
    <2>3. promised'[st][k] \in Nat
      BY <2>1 DEF MemoryProofs!IInv, MemoryProofs!TypeOK, MemoryProofs!Stores, Memory!Stores
    <2> QED
      BY <2>1, <2>2, <2>3, MemoryGrows
  <1>5. CASE call[r] = Memory!Idle
    BY <1>3, <1>4, <1>5 DEF MarksArrive, op
  <1>6. CASE call[r] # Memory!Idle
    <2>1. /\ call[r].ts = heard[r] /\ call[r].key = k
          /\ call[r].op \in Signal(RuleOf[rules], failed[r])
      BY <1>1, <1>2, <1>3, <1>6 DEF DueInv, CallsAreDue, CallsFor, Underway
    <2>2. call[r].op = op
      BY <1>3, <2>1, SignalIsOne DEF Owes
    <2>3. PICK s \in Memory!Stores : Memory!Report(r, s)
      <3>1. Memory!Record(r) \/ \E s \in Memory!Stores : Memory!Report(r, s)
        BY <1>3, <1>6, CallsEnd
      <3>2. ~Memory!Record(r)
        BY <2>2 DEF Memory!Record, op, Memory!ReportOp, Memory!Stores
      <3> QED
        BY <3>1, <3>2
    <2>4. s = st
      BY <2>2, <2>3 DEF Memory!Report, Memory!ReportOp, Memory!Stores, op
    <2> DEFINE exp == heard[r] + Memory!Ttl(st, k)
    <2>5. promised' = [promised EXCEPT ![st][k] = IF exp > @ THEN exp ELSE @]
      BY <2>1, <2>3, <2>4 DEF Memory!Report
    <2>6. exp \in Int /\ promised[st][k] \in Nat
      BY <1>4
    <2> HIDE DEF exp
    <2>7. exp <= promised'[st][k]
      BY <1>4, <2>5, <2>6
    <2> QED
      BY <1>3, <2>7 DEF exp
  <1> QED
    BY <1>5, <1>6

LEMMA HitsArriveKept ==
    ASSUME DueInv, RInv, MemoryProofs!IInv, Underway, HitsArrive, [Next]_vars
    PROVE  HitsArrive'
  <1> DEFINE Arrived(r, k)  == Owes(r, "record", k) /\ call[r] = Memory!Idle
             Arrives(r, k)  == Owes(r, "record", k)' /\ call'[r] = Memory!Idle
  <1>1. PICK pos \in [Requests -> Nat] : HitsArriveAt(pos)
    BY DEF HitsArrive
  <1>2. ASSUME NEW r \in Requests, NEW k \in Slugs, Arrives(r, k)
        PROVE  /\ Owes(r, "record", k) /\ heard'[r] = heard[r]
               /\ Arrived(r, k) \/ (Memory!Record(r) /\ call[r].key = k /\ call[r].ts = heard[r])
    <2>0. "record" \in Records
      BY DEF Records
    <2>1. heard[r] # -1
      <3>1. ASSUME heard[r] = -1 PROVE FALSE
        <4>1. PICK h \in Hooks : HookLearns(r, h)
          BY <1>2, <3>1, HeardByLearning DEF DueInv, Owes
        <4> QED
          BY <1>2, <2>0, <4>1, LearnsTells DEF DueInv
      <3> QED
        BY <3>1
    <2>2. heard'[r] = heard[r] /\ ~Open(r) /\ Owes(r, "record", k)
      BY <1>2, <2>0, <2>1, OwesKept
    <2>3. CASE call[r] = Memory!Idle
      BY <2>2, <2>3
    <2>4. CASE call[r] # Memory!Idle
      <3>1. /\ call[r].ts = heard[r] /\ call[r].key = k
            /\ call[r].op \in Signal(RuleOf[rules], failed[r])
        BY <2>0, <2>1, <2>2, <2>4 DEF DueInv, CallsAreDue, CallsFor, Underway
      <3>2. call[r].op = "record"
        BY <2>2, <3>1, SignalIsOne DEF Owes
      <3>3. Memory!Record(r) \/ \E s \in Memory!Stores : Memory!Report(r, s)
        BY <1>2, <2>2, <2>4, CallsEnd
      <3>4. \A s \in Memory!Stores : ~Memory!Report(r, s)
        BY <3>2 DEF Memory!Report, Memory!ReportOp, Memory!Stores
      <3> QED
        BY <2>2, <3>1, <3>3, <3>4
    <2> QED
      BY <2>3, <2>4
  <1>3. /\ recorded \in Nat /\ recorded' \in Int /\ recorded <= recorded'
        /\ \A k \in Slugs : log[k] \subseteq log'[k]
    <2>1. recorded \in Nat
      BY DEF MemoryProofs!IInv, MemoryProofs!TypeOK
    <2>2. recorded' = recorded \/ recorded' = recorded + 1
      BY MemoryCases DEF DueInv, OthersStep, LearnStep, Memory!Begin, Memory!Record, Memory!Report
    <2> QED
      BY <2>1, <2>2, MemoryGrows
  <1>4. CASE \A r \in Requests : ~Memory!Record(r)
    <2>1. ASSUME NEW r \in Requests, NEW k \in Slugs, Arrives(r, k)
          PROVE  Arrived(r, k) /\ heard'[r] = heard[r]
      BY <1>2, <1>4, <2>1
    <2> HIDE DEF Arrived
    <2>2. HitsArriveAt(pos)'
      <3>1. ASSUME NEW r \in Requests, NEW k \in Slugs, Arrives(r, k)
            PROVE  [n |-> pos[r], ts |-> heard'[r]] \in log'[k] /\ pos[r] < recorded'
        BY <1>1, <1>3, <2>1, <3>1 DEF HitsArriveAt, Arrived
      <3>2. ASSUME NEW q \in Requests, NEW r \in Requests, NEW j \in Slugs, NEW k \in Slugs,
                   Arrives(q, j), Arrives(r, k), pos[q] = pos[r]
            PROVE  q = r
        BY <1>1, <2>1, <3>2 DEF HitsArriveAt, Arrived
      <3> QED
        BY <3>1, <3>2 DEF HitsArriveAt, Memory!Idle
    <2> QED
      BY <2>2 DEF HitsArrive
  <1>5. ASSUME NEW w \in Requests, Memory!Record(w) PROVE HitsArrive'
    <2>1. PICK last : last = recorded
      OBVIOUS
    <2>2. PICK at : at = [pos EXCEPT ![w] = last]
      OBVIOUS
    <2>3. /\ recorded' = recorded + 1
          /\ log' = [log EXCEPT ![call[w].key] = @ \cup {[n |-> last, ts |-> call[w].ts]}]
          /\ call[w].op = "record"
      BY <1>5, <2>1 DEF Memory!Record
    <2>4. /\ at \in [Requests -> Nat] /\ at[w] = last
          /\ \A r \in Requests : r # w => at[r] = pos[r]
      BY <1>3, <2>1, <2>2
    <2>5. ASSUME NEW r \in Requests, NEW k \in Slugs, Arrives(r, k), r # w
          PROVE  Arrived(r, k) /\ heard'[r] = heard[r] /\ pos[r] < last
      <3>1. ASSUME Memory!Record(r) PROVE FALSE
        <4>1. call' = [call EXCEPT ![w] = Memory!Idle] /\ call' = [call EXCEPT ![r] = Memory!Idle]
          BY <1>5, <3>1 DEF Memory!Record, Memory!Return
        <4>2. call[r].op = "record" /\ r \in DOMAIN call /\ w \in DOMAIN call
          BY <3>1 DEF Memory!Record, MemoryProofs!IInv, MemoryProofs!TypeOK
        <4> QED
          BY <2>5, <4>1, <4>2 DEF Memory!Idle
      <3>2. Arrived(r, k) /\ heard'[r] = heard[r]
        BY <1>2, <2>5, <3>1
      <3> QED
        BY <1>1, <2>1, <3>2 DEF HitsArriveAt
    <2>6. ASSUME NEW k \in Slugs, Arrives(w, k)
          PROVE  call[w].key = k /\ call[w].ts = heard'[w]
      <3>1. call[w] # Memory!Idle
        BY <2>3 DEF Memory!Idle
      <3> QED
        BY <1>2, <2>6, <3>1
    <2> HIDE DEF Arrived
    <2>7. HitsArriveAt(at)'
      <3>1. ASSUME NEW r \in Requests, NEW k \in Slugs, Arrives(r, k)
            PROVE  [n |-> at[r], ts |-> heard'[r]] \in log'[k] /\ at[r] < recorded'
        <4>1. CASE r = w
          <5>1. k \in DOMAIN log
            BY DEF MemoryProofs!IInv, MemoryProofs!TypeOK, Keys
          <5>2. call[w].key = k /\ call[w].ts = heard'[w]
            BY <2>6, <3>1, <4>1
          <5>3. [n |-> last, ts |-> call[w].ts] \in log'[k]
            BY <2>3, <5>1, <5>2
          <5> QED
            BY <1>3, <2>1, <2>3, <2>4, <4>1, <5>2, <5>3
        <4>2. CASE r # w
          <5>1. Arrived(r, k) /\ heard'[r] = heard[r] /\ pos[r] < last
            BY <2>5, <3>1, <4>2
          <5>2. [n |-> pos[r], ts |-> heard[r]] \in log[k]
            BY <1>1, <5>1 DEF HitsArriveAt, Arrived
          <5> QED
            BY <1>1, <1>3, <2>1, <2>3, <2>4, <4>2, <5>1, <5>2
        <4> QED
          BY <4>1, <4>2
      <3>2. ASSUME NEW q \in Requests, NEW r \in Requests, NEW j \in Slugs, NEW k \in Slugs,
                   Arrives(q, j), Arrives(r, k), at[q] = at[r]
            PROVE  q = r
        <4>1. q # w => at[q] = pos[q] /\ pos[q] \in Nat /\ pos[q] < last /\ Arrived(q, j)
          BY <1>1, <2>4, <2>5, <3>2
        <4>2. r # w => at[r] = pos[r] /\ pos[r] \in Nat /\ pos[r] < last /\ Arrived(r, k)
          BY <1>1, <2>4, <2>5, <3>2
        <4>3. CASE q = w \/ r = w
          BY <1>3, <2>1, <2>4, <3>2, <4>1, <4>2, <4>3
        <4>4. CASE q # w /\ r # w
          BY <1>1, <3>2, <4>1, <4>2, <4>4 DEF HitsArriveAt, Arrived
        <4> QED
          BY <4>3, <4>4
      <3> QED
        BY <3>1, <3>2 DEF HitsArriveAt, Memory!Idle
    <2> QED
      BY <2>4, <2>7 DEF HitsArrive
  <1> QED
    BY <1>4, <1>5

\* The requests heard of whose answers name the account's providers.
Naming == {r \in Requests : heard[r] # -1 /\ Discovers(failed[r])}
Latest == {r \in Naming : \A s \in Naming : heard[s] <= heard[r]}

LEMMA AllowlistOfLatest ==
    ASSUME FailuresTyped, HeardOnce
    PROVE  AllowlistIsTheLatest <=>
               allowed \in IF Naming = {} THEN {NoList} ELSE {failed[r].answer.list : r \in Latest}
  BY DEF AllowlistIsTheLatest, Naming, Latest, Discovers, Readable

LEMMA AllowlistKept ==
    ASSUME DueInv, RInv, MemoryProofs!IInv, Underway, DueInv',
           AllowlistIsTheLatest, [Next]_vars
    PROVE  AllowlistIsTheLatest'
  <1>0. /\ FailuresTyped /\ HeardOnce /\ FailuresTyped' /\ HeardOnce'
        /\ heard \in [Requests -> Int] /\ now \in Int
    BY DEF DueInv, HeardOnce, MemoryProofs!IInv, MemoryProofs!TypeOK
  <1>1. allowed \in IF Naming = {} THEN {NoList} ELSE {failed[r].answer.list : r \in Latest}
    BY <1>0, AllowlistOfLatest
  <1>2. \A r \in Requests : heard[r] # -1 => failed'[r] = failed[r] /\ heard'[r] = heard[r]
    BY Settles DEF DueInv, HeardOnce
  <1>3. CASE \E r \in Requests, h \in Hooks : HookLearns(r, h)
    <2>1. PICK r \in Requests, h \in Hooks : HookLearns(r, h)
      BY <1>3
    <2>2. /\ heard[r] = -1 /\ heard' = [heard EXCEPT ![r] = now] /\ failed' = failed
          /\ heard'[r] # -1
          /\ allowed' = IF Discovers(failed[r]) THEN failed[r].answer.list ELSE allowed
      <3>1. Open(r) /\ heard' = [heard EXCEPT ![r] = now]
        BY <1>0, <2>1, LearnsDue
      <3>2. now \in Nat
        BY DEF MemoryProofs!IInv, MemoryProofs!TypeOK
      <3>3. /\ failed' = failed
            /\ allowed' = IF Discovers(failed[r]) THEN failed[r].answer.list ELSE allowed
        BY <2>1 DEF HookLearns, Fire
      <3> QED
        BY <1>0, <3>1, <3>2, <3>3 DEF HeardOnce
    <2>3. CASE Discovers(failed[r])
      <3>1. Naming' = Naming \cup {r} /\ r \in Latest'
        <4>1. \A s \in Naming : heard[s] <= now
          BY DEF Naming, Underway
        <4>2. Naming' = Naming \cup {r}
          BY <1>0, <2>2, <2>3 DEF Naming, Discovers, Readable
        <4>3. heard'[r] = now /\ \A s \in Requests : s # r => heard'[s] = heard[s]
          BY <1>0, <2>2
        <4> QED
          BY <1>0, <4>1, <4>2, <4>3 DEF Latest, Naming
      <3>2. allowed' \in {failed'[q].answer.list : q \in Latest'} /\ Naming' # {}
        BY <2>2, <2>3, <3>1
      <3> QED
        BY <1>0, <3>2 DEF AllowlistIsTheLatest, Naming, Latest, Discovers, Readable
    <2>4. CASE ~Discovers(failed[r])
      <3>1. Naming' = Naming /\ \A s \in Naming : heard'[s] = heard[s]
        BY <1>0, <2>2, <2>4 DEF Naming, Discovers, Readable
      <3>2. Latest' = Latest
        BY <3>1 DEF Latest
      <3>3. allowed' \in IF Naming' = {} THEN {NoList} ELSE {failed'[q].answer.list : q \in Latest'}
        BY <1>1, <2>2, <2>4, <3>1, <3>2
      <3> QED
        BY <3>3 DEF AllowlistIsTheLatest, Naming, Latest, Discovers, Readable
    <2> QED
      BY <2>3, <2>4
  <1>4. CASE ~\E r \in Requests, h \in Hooks : HookLearns(r, h)
    <2>1. heard' = heard /\ allowed' = allowed
      BY <1>4
      DEF Next, Fail, HookReturns, Guarded, Hear, HookStops, HookRecords,
          Route, Configure, Tick, failureVars, vars
    <2>2. Naming' = Naming /\ \A s \in Naming : failed'[s] = failed[s] /\ heard'[s] = heard[s]
      BY <1>2, <2>1 DEF Naming, Discovers, Readable
    <2>3. Latest' = Latest /\ Latest \subseteq Naming
      BY <2>2 DEF Latest
    <2>4. allowed' \in IF Naming' = {} THEN {NoList} ELSE {failed'[q].answer.list : q \in Latest'}
      BY <1>1, <2>1, <2>2, <2>3
    <2> QED
      BY <2>4 DEF AllowlistIsTheLatest, Naming, Latest, Discovers, Readable
  <1> QED
    BY <1>3, <1>4

LEMMA TellStarts == Init => TellInv
  <1> SUFFICES ASSUME Init PROVE TellInv
    OBVIOUS
  <1>1. \A r \in Requests : heard[r] = -1
    BY DEF Init
  <1>2. Underway /\ MarksArrive /\ AllowlistIsTheLatest
    BY <1>1 DEF Init, Underway, MarksArrive, Owes, AllowlistIsTheLatest
  <1>3. HitsArrive
    <2> DEFINE zero == [r \in Requests |-> 0]
    <2>1. zero \in [Requests -> Nat] /\ HitsArriveAt(zero)
      BY <1>1 DEF HitsArriveAt, Owes
    <2> QED
      BY <2>1 DEF HitsArrive
  <1> QED
    BY <1>2, <1>3 DEF TellInv

LEMMA TellHolds == Spec => []TellInv
  <1>1. /\ DueInv /\ DueInv' /\ RInv /\ MemoryProofs!IInv /\ MemoryProofs!IInv'
        /\ TellInv /\ [Next]_vars
        => TellInv'
    BY UnderwayKept, MarksArriveKept, HitsArriveKept, AllowlistKept DEF TellInv
  <1> QED
    BY <1>1, TellStarts, Invariance, MemoryInvariance, ResolutionInvariance, PTL DEF Spec

\* No failure that names its provider is lost, on whichever path the request
\* came and wherever its pin was left, and the account's list is the latest
\* (_apply_rate_limit_signal, _slug_from_kwargs, _slug_from_request_data).
THEOREM FailuresTellHolds == ASSUME Lag = 0 PROVE Spec => []FailuresTell
  <1>1. ASSUME DueInv, TellInv, MemoryProofs!IInv, MemoryProofs!HotWhenDue,
               MemoryProofs!SkipHonoured
        PROVE  FailuresTell
    <2>0. /\ now \in Nat /\ log \in [Keys -> SUBSET MemoryProofs!Hit]
          /\ heard \in [Requests -> Int] /\ \A k \in Slugs : k \in Keys
      BY <1>1 DEF MemoryProofs!IInv, MemoryProofs!TypeOK, DueInv, HeardOnce, Keys
    <2>1. ASSUME NEW k \in Slugs, Cardinality(Known(k, 429, now - Window)) >= Threshold
          PROVE  Memory!IsHot(k, now)
      <3> DEFINE known  == Known(k, 429, now - Window)
                 recent == MemoryProofs!Recent(log[k], now + Lag)
      <3>1. PICK pos \in [Requests -> Nat] : HitsArriveAt(pos)
        BY <1>1 DEF TellInv, HitsArrive
      <3>2. ASSUME NEW r \in known
            PROVE  /\ r \in Requests /\ Owes(r, "record", k) /\ call[r] = Memory!Idle
                   /\ heard[r] >= now - Window
        <4>1. /\ r \in Requests /\ heard[r] # -1 /\ heard[r] >= now - Window
              /\ failed[r].answer.status = 429 /\ failed[r].wire.slugs = {k}
              /\ call[r] = Memory!Idle
          BY DEF Known, Told
        <4>2. "record" \in Signal(RuleOf[rules], failed[r])
          BY <4>1 DEF Signal, Matches
        <4> QED
          BY <4>1, <4>2 DEF Owes
      <3> DEFINE hit == [r \in known |-> [n |-> pos[r], ts |-> heard[r]]]
      <3>3. \A r \in known : hit[r] \in recent
        <4> SUFFICES ASSUME NEW r \in known PROVE hit[r] \in recent
          OBVIOUS
        <4>1. hit[r] = [n |-> pos[r], ts |-> heard[r]] /\ hit[r] \in log[k] /\ hit[r].ts = heard[r]
          BY <3>1, <3>2 DEF HitsArriveAt
        <4> QED
          BY <2>0, <3>2, <4>1 DEF MemoryProofs!Recent
      <3>4. \A q, r \in known : hit[q] = hit[r] => q = r
        <4> SUFFICES ASSUME NEW q \in known, NEW r \in known, hit[q] = hit[r] PROVE q = r
          OBVIOUS
        <4>1. pos[q] = pos[r]
          OBVIOUS
        <4> QED
          BY <3>1, <3>2, <4>1 DEF HitsArriveAt
      <3>5. hit \in Injection(known, recent)
        BY <3>3, <3>4 DEF Injection, IsInjective
      <3>6. IsFiniteSet(recent)
        <4>1. MemoryProofs!IsFiniteSet(log[k])
          BY <1>1, <2>0 DEF MemoryProofs!IInv, MemoryProofs!HitsStored
        <4>2. IsFiniteSet(log[k])
          BY <4>1 DEF MemoryProofs!IsFiniteSet, IsFiniteSet
        <4>3. recent \subseteq log[k]
          BY DEF MemoryProofs!Recent
        <4> QED
          BY <4>2, <4>3, FS_Subset
      <3>7. Cardinality(known) <= Cardinality(recent) /\ IsFiniteSet(known)
        BY <3>5, <3>6, FS_Injection
      <3>8. Cardinality(recent) >= Threshold
        BY <2>1, <3>6, <3>7, FS_CardinalityType, FailuresAssumption
      <3>9. MemoryProofs!IsHot(k, now)
        BY <1>1, <2>0, <3>8 DEF MemoryProofs!HotWhenDue, MemoryProofs!Cardinality, Cardinality
      <3> QED
        BY <3>9 DEF MemoryProofs!IsHot, Memory!IsHot, MemoryProofs!Recent, Memory!Recent,
                    MemoryProofs!Cardinality, Memory!Cardinality
    <2>2. ASSUME NEW k \in Slugs, NEW st \in Memory!Stores, NEW r \in Known(k, 400, Since(st, k)),
                 IF st = "input_cap" THEN "input_cap" \in Reads(r) ELSE Reads(r) = {"broken"}
          PROVE  Memory!IsLive(st, k, now)
      <3>1. /\ r \in Requests /\ heard[r] # -1 /\ heard[r] >= Since(st, k)
            /\ failed[r].answer.status = 400 /\ failed[r].wire.slugs = {k}
            /\ call[r] = Memory!Idle
        BY <2>2 DEF Known, Told
      <3> DEFINE f == failed[r]  rule == RuleOf[rules]
      <3>2. f \in Failure /\ rule = RuleOf[rules]
        BY <1>1, <3>1 DEF DueInv, FailuresTyped, HeardOnce, Open
      <3>3. Reads(r) = {kind \in f.answer.says : rule[kind] /\ Readable(f)}
        BY DEF Reads
      <3> HIDE DEF f, rule
      <3>4. IF st = "input_cap" THEN Matches(rule, f, "input_cap")
              ELSE Matches(rule, f, "broken") /\ ~Matches(rule, f, "input_cap")
        BY <2>2, <3>1, <3>3 DEF Matches, f
      <3>5. Memory!ReportOp[st] \in Signal(rule, f)
        BY <3>1, <3>4 DEF Memory!ReportOp, Memory!Stores, Signal, f
      <3>6. Owes(r, Memory!ReportOp[st], k)
        BY <3>1, <3>5 DEF Owes, f, rule
      <3>7. heard[r] + Memory!Ttl(st, k) <= promised[st][k]
        BY <1>1, <3>1, <3>6 DEF TellInv, MarksArrive
      <3>8. Memory!Ttl(st, k) \in Nat /\ promised[st][k] \in Nat
        BY <1>1, FailuresAssumption
        DEF MemoryProofs!IInv, MemoryProofs!TypeOK, MemoryProofs!Stores, Memory!Stores, Keys,
            Memory!Ttl
      <3>9. now + Lag < promised[st][k]
        BY <2>0, <3>1, <3>7, <3>8 DEF Since
      <3>10. MemoryProofs!IsLive(st, k, now)
        BY <1>1, <2>0, <3>9 DEF MemoryProofs!SkipHonoured, MemoryProofs!Stores, Memory!Stores
      <3> QED
        BY <3>10 DEF MemoryProofs!IsLive, Memory!IsLive
    <2> QED
      BY <1>1, <2>1, <2>2 DEF FailuresTell, TellInv, Memory!Stores
  <1>2. MemoryProofs!Spec => []MemoryProofs!HotWhenDue /\ []MemoryProofs!SkipHonoured
    BY FailuresAssumption, MemoryProofs!HotWhenDueHolds, MemoryProofs!SkipHonouredHolds
    DEF MemoryProofs!Ops, Keys, Records
  <1> QED
    BY <1>1, <1>2, Invariance, TellHolds, MemoryInvariance, MemoryBehaves, PTL
=============================================================================
