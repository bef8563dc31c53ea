------------------------------- MODULE Failures -------------------------------
(***************************************************************************)
(* What the callback learns from failed requests: the two failure hooks    *)
(* LiteLLM fires, in any order, and what they write to the cooldown memory *)
(* and to the account allowlist (plugin.py).                               *)
(*                                                                         *)
(* A failed completion fires async_log_failure_event and the post-call     *)
(* hook; a failed pass-through request fires the post-call hook only.  The *)
(* hooks find the provider to blame in whatever the request left behind.   *)
(* A hook may come late, or never.  Each request is one thread of the      *)
(* memory (Cooldown), and every hook resolves the configuration first      *)
(* (Resolution).                                                           *)
(***************************************************************************)
EXTENDS Integers, FiniteSets

CONSTANTS
    Requests,     \* requests that fail
    Router,       \* the routing decisions, as one more thread of the memory
    Slugs,        \* provider slugs
    Hash,         \* what a generated deployment id looks like: no provider's slug
    Lists,        \* account settings: the providers the account allows
    NoList,       \* _allowed_providers is None
    UsedFailures, \* the failures that happen
    RuleOf,       \* the model's rule in the explicit, default and configured rules
    Window, Threshold, InputCapTtl, BrokenTtl, Lag, MaxTime, MaxHits, \* of Cooldown
    Injections, Settings                                              \* of Resolution

NoPin == [only |-> FALSE, slugs |-> {}]
Pins  == {NoPin} \cup [only : {TRUE}, slugs : SUBSET Slugs]

\* How the request was sent: by a completion, or passed through, as a stream or not.
Paths == {"completion", "passthrough", "streaming"}
Hooks == {"log", "post"}

\* A failure: its status, the signatures its body matches, the list it names.
Answer == [status : {400, 404, 429, 500}, says : SUBSET {"input_cap", "broken"},
           list : Lists \cup {NoList}]

Keys == Slugs \cup {Hash}

\* A failed request: its path, the pin OpenRouter was sent (by the plugin or by the
\* client), the id its deployment goes by, what came back.
Failure == [path : Paths, wire : Pins, id : Keys, answer : Answer]
NotYet  == [path |-> "none"]

\* Whether the model is managed, and which patterns its rule looks for.
Rule == [managed : BOOLEAN, input_cap : BOOLEAN, broken : BOOLEAN]

VARIABLES
    failed,  \* each request's failure (NotYet before it)
    owed,    \* the hooks LiteLLM has still to fire for it
    heard,   \* history: when the hook that was to count it ran (-1: has not)
    allowed, \* _allowed_providers of the telemetry client
    now, hits, until, call, recorded, log, promised,            \* Cooldown
    injected, settings, rules, client, memory, resolved, served, seen \* Resolution

Records == {"record", "record_input_cap", "record_broken"}

Memory == INSTANCE CooldownRefinement
    WITH Threads <- Requests \cup {Router},
         UsedOps <- Records \cup {"is_input_capped", "is_broken"}

Config == INSTANCE Resolution

ASSUME FailuresAssumption ==
    /\ IsFiniteSet(Requests)
    /\ IsFiniteSet(Slugs)
    /\ Router \notin Requests
    /\ Hash \notin Slugs
    /\ UsedFailures \subseteq Failure
    /\ RuleOf \in [Config!Origin -> Rule]
    /\ Window \in Nat
    /\ Threshold \in Nat \ {0}
    /\ InputCapTtl \in Nat
    /\ BrokenTtl \in [Keys -> Nat]
    /\ Lag \in Nat
    /\ MaxTime \in Nat
    /\ MaxHits \in Nat
    /\ Config!ConfigurationOK

failureVars == <<failed, owed, heard, allowed>>
memoryVars  == <<now, hits, until, call, recorded, log, promised>>
configVars  == <<injected, settings, rules, client, memory, resolved, served, seen>>
vars == <<failureVars, memoryVars, configVars>>

-----------------------------------------------------------------------------
(* Which provider a failure is charged to: a set of at most one key.       *)

\* What a provider.only list names, if it names one provider.
Named(pin) == IF Cardinality(pin.slugs) = 1 THEN pin.slugs ELSE {}

\* _slugs_from_params: the copy in litellm_params if there is one, else the id of the
\* deployment.
SlugFromDeployment(s) == IF s.litellm_params.only THEN Named(s.litellm_params) ELSE s.id

\* _slug_from_kwargs: the top-level copy, the one in optional_params, then what the
\* deployment says.  A copy that names several providers is passed over.
SlugFromKwargs(s) ==
    CASE Named(s.extra_body) # {} -> Named(s.extra_body)
      [] Named(s.extra_body) = {} /\ Named(s.optional_params) # {} -> Named(s.optional_params)
      [] OTHER -> SlugFromDeployment(s)

\* Mutant of SlugFromRequestData: only the body's own field is looked at.
SlugFromBody(s) == Named(s.provider)

\* _slug_from_request_data: the body's own field decides if it is there at all.
SlugFromRequestData(s) == IF s.provider.only THEN Named(s.provider) ELSE SlugFromKwargs(s)

\* model_call_details of a completion: the pin in optional_params, with or without
\* its copies, and the deployment's id.
CallDetails(f) ==
    [extra_body : {f.wire, NoPin}, optional_params : {f.wire}, litellm_params : {f.wire, NoPin},
     id : {{f.id}}]

\* request_data of a pass-through request: the pin is the body's field, whatever
\* copies there are beside it, or one of the copies.
RequestData(f) ==
    {s \in [provider : {f.wire, NoPin}, extra_body : Pins, optional_params : Pins,
            litellm_params : {NoPin}, id : {{}}] :
        ~s.provider.only => <<s.extra_body, s.optional_params>> \in
                                {<<f.wire, NoPin>>, <<NoPin, f.wire>>}}

\* The keys a hook may charge the failure f to; {} stands for none.
Charged(f, h) ==
    IF h = "log" THEN {SlugFromKwargs(s) : s \in CallDetails(f)}
                 ELSE {SlugFromRequestData(s) : s \in RequestData(f)}

-----------------------------------------------------------------------------
(* What a failure says.                                                    *)

\* _upstream_message: a streamed failure reaches the hook without its body.
Readable(f) == f.path # "streaming"

\* matches_400 under the rule's patterns.
Matches(rule, f, kind) ==
    /\ f.answer.status = 400
    /\ rule[kind]
    /\ Readable(f)
    /\ kind \in f.answer.says

\* Mutant of Signal: a broken provider is looked for first.
SignalBrokenFirst(rule, f) ==
    CASE f.answer.status = 429 -> {"record"}
      [] Matches(rule, f, "broken") -> {"record_broken"}
      [] Matches(rule, f, "input_cap") -> {"record_input_cap"}
      [] OTHER -> {}

\* The record the failure calls for: an input cap before a broken provider.
Signal(rule, f) ==
    CASE f.answer.status = 429 -> {"record"}
      [] Matches(rule, f, "input_cap") -> {"record_input_cap"}
      [] Matches(rule, f, "broken") /\ ~Matches(rule, f, "input_cap") -> {"record_broken"}
      [] OTHER -> {}

\* A 404 that names the account's providers.
Discovers(f) == f.answer.status = 404 /\ Readable(f) /\ f.answer.list # NoList

-----------------------------------------------------------------------------

Init ==
    /\ failed = [r \in Requests |-> NotYet]
    /\ owed = [r \in Requests |-> {}]
    /\ heard = [r \in Requests |-> -1]
    /\ allowed = NoList
    /\ Memory!Init
    /\ Config!Init

\* A request fails: LiteLLM owes its hooks.
Fail(r) ==
    /\ failed[r] = NotYet
    /\ \E f \in UsedFailures :
          /\ failed' = [failed EXCEPT ![r] = f]
          /\ owed' = [owed EXCEPT ![r] = IF f.path = "completion" THEN Hooks ELSE {"post"}]
    /\ UNCHANGED <<heard, allowed, memoryVars, configVars>>

\* Mutant of Guarded: the call type is not looked at.
GuardedNever(r, h) == FALSE

\* The post-call hook leaves every path but the pass-through to the other hook.
Guarded(r, h) == h = "post" /\ failed[r].path = "completion"

\* LiteLLM fires one of the hooks it owes.
Fire(r, h) ==
    /\ h \in owed[r]
    /\ owed' = [owed EXCEPT ![r] = @ \ {h}]
    /\ UNCHANGED failed

\* The hook that is to count a failure, of the two a completion fires, hears it,
\* whatever it makes of it.
Hear(r, h) ==
    heard' = IF failed[r].path = "completion" /\ h = "post"
               THEN heard ELSE [heard EXCEPT ![r] = now]

HookReturns(r, h) ==
    /\ Fire(r, h)
    /\ Guarded(r, h)
    /\ Hear(r, h)
    /\ UNCHANGED <<allowed, memoryVars, configVars>>

\* The configuration raises, the model is not managed, or the log hook is given no
\* exception to read.
HookStops(r, h) ==
    /\ Fire(r, h)
    /\ ~Guarded(r, h)
    /\ Config!Resolve
    /\ h = "log" \/ (Config!MemoryPass => ~RuleOf[rules'].managed)
    /\ UNCHANGED <<heard, allowed, memoryVars>>

\* _apply_rate_limit_signal, up to the lock of the memory.
HookLearns(r, h) ==
    LET f == failed[r]
    IN  /\ Fire(r, h)
        /\ ~Guarded(r, h)
        /\ Config!Resolve
        /\ Config!MemoryPass
        /\ RuleOf[rules'].managed
        /\ allowed' = IF Discovers(f) THEN f.answer.list ELSE allowed
        /\ Hear(r, h)
        /\ \E slug \in Charged(f, h) :
              IF slug = {} \/ Signal(RuleOf[rules'], f) = {}
                THEN UNCHANGED memoryVars
                ELSE \E k \in slug, op \in Signal(RuleOf[rules'], f) : Memory!Begin(r, op, k)

\* The rest of the hook, in the memory.
HookRecords(r) ==
    /\ Memory!Record(r) \/ \E st \in Memory!Stores : Memory!Report(r, st)
    /\ UNCHANGED <<failureVars, configVars>>

\* A routing decision resolves the configuration; once it could, it looks at
\* the marks, which reaps the expired ones.
Route ==
    \/ Config!Resolve /\ UNCHANGED <<failureVars, memoryVars>>
    \/ /\ served
       /\ \/ \E st \in Memory!Stores, k \in Slugs : Memory!Begin(Router, Memory!ReadOp[st], k)
          \/ \E st \in Memory!Stores : Memory!Read(Router, st)
       /\ UNCHANGED <<failureVars, configVars>>

Configure == Config!Configure /\ UNCHANGED <<failureVars, memoryVars>>

Tick == Memory!Tick /\ UNCHANGED <<failureVars, configVars>>

Next ==
    \/ \E r \in Requests :
          \/ Fail(r)
          \/ \E h \in Hooks : HookReturns(r, h) \/ HookStops(r, h) \/ HookLearns(r, h)
          \/ HookRecords(r)
    \/ Route
    \/ Configure
    \/ Tick

Spec == Init /\ [][Next]_vars

-----------------------------------------------------------------------------
(* Properties.                                                             *)

\* Every variable of the hooks has its type.
TypeOK ==
    /\ failed \in [Requests -> Failure \cup {NotYet}]
    /\ owed \in [Requests -> SUBSET Hooks]
    /\ heard \in [Requests -> Nat \cup {-1}]
    /\ allowed \in Lists \cup {NoList}

\* Whether r's failure may be held against k: the request was pinned to k alone, or
\* it is a completion that was not pinned to one provider, on a deployment that goes
\* by k.  (If the client sent a list without k, k cannot have served it: the code
\* charges k all the same.)
Blamable(r, k) ==
    \/ failed[r].wire.slugs = {k}
    \/ /\ failed[r].path = "completion"
       /\ Cardinality(failed[r].wire.slugs) # 1
       /\ failed[r].id = k

\* The requests that may be held against k, of this status, heard of since t.
Told(k, status, t) ==
    {r \in Requests : /\ heard[r] # -1
                      /\ heard[r] >= t
                      /\ failed[r].answer.status = status
                      /\ Blamable(r, k)}

\* Those among them that only k can have served, their record in the memory.
Known(k, status, t) ==
    {r \in Told(k, status, t) : failed[r].wire.slugs = {k} /\ call[r] = Memory!Idle}

\* What the hooks can read in a body, as far as the rule in force looks for it.
Reads(r) == IF Readable(failed[r]) THEN {kind \in failed[r].answer.says : RuleOf[rules][kind]} ELSE {}

\* When a mark that still counts can have been reported.
Since(st, k) == now - Memory!Ttl(st, k) + 1

\* A provider is hot only if that many distinct requests that were pinned to it, or
\* sent unpinned on its deployment, were rate limited within the window: two hooks
\* for one failure do not count it twice, and a request pinned to another provider
\* alone, or passed through, never counts by its deployment's id.
HotIsEarned ==
    \A k \in Slugs :
        Memory!IsHot(k, now) => Cardinality(Told(k, 429, now - Window)) >= Threshold

\* Marks go back to failures that say so in a body the hooks can read, under
\* the rule in force: a body that says both is an input cap, the soft skip,
\* and never marks its provider broken.
MarksAreEarned ==
    \A k \in Slugs :
        /\ Memory!IsLive("input_cap", k, now) =>
              \E r \in Told(k, 400, Since("input_cap", k)) : "input_cap" \in Reads(r)
        /\ Memory!IsLive("broken", k, now) =>
              \E r \in Told(k, 400, Since("broken", k)) : Reads(r) = {"broken"}

\* The account's list is one that the last answer to name any named, whichever
\* hook heard it; a streamed answer, whose body is gone, names none.
AllowlistIsTheLatest ==
    LET naming == {r \in Requests : /\ heard[r] # -1
                                    /\ failed[r].path # "streaming"
                                    /\ failed[r].answer.status = 404
                                    /\ failed[r].answer.list # NoList}
        latest == {r \in naming : \A s \in naming : heard[s] <= heard[r]}
    IN  allowed \in IF naming = {} THEN {NoList} ELSE {failed[r].answer.list : r \in latest}

\* No failure that names its provider is lost once the hook that is to count it has
\* come, on whichever path and wherever the pin was left: neither hook leaves it to
\* the other, enough of them make the provider hot, and one that says so marks it;
\* nor is what an answer says of the account.
FailuresTell ==
    /\ \A k \in Slugs :
          /\ Cardinality(Known(k, 429, now - Window)) >= Threshold => Memory!IsHot(k, now)
          /\ (\E r \in Known(k, 400, Since("input_cap", k)) : "input_cap" \in Reads(r))
                => Memory!IsLive("input_cap", k, now)
          /\ (\E r \in Known(k, 400, Since("broken", k)) : Reads(r) = {"broken"})
                => Memory!IsLive("broken", k, now)
    /\ AllowlistIsTheLatest

\* The configuration the hooks and the routing decisions resolve (Resolution).
NoSilentDefaults == Config!NoSilentDefaults
ServedAlike      == Config!ServedAlike

\* The memory keeps its promise (CooldownPromise) under the calls of these hooks and routings.
MemoryKeepsItsPromise == Memory!ImplementsPromise
=============================================================================
