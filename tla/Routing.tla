------------------------------- MODULE Routing -------------------------------
(***************************************************************************)
(* The deployment filter of one managed model (plugin.py): what a request  *)
(* is routed to, given the cached entry, the account allowlist and the     *)
(* cooldown memory as they are when telemetry.get returns.  From there the *)
(* code decides without suspending, so a decision is one action; refreshes,*)
(* failures and expiries come between decisions in any order.              *)
(*                                                                         *)
(* The cooldown is read through its three predicates only: a provider is   *)
(* hot, input-capped or broken, and stops being so at some time            *)
(* (CooldownPromise says when).  A deployment is known by the slugs of its *)
(* provider.only, which it sends, else by its model_info.id, which leaves  *)
(* the choice to OpenRouter; by no slug when neither can be read.  Entries *)
(* without points and rules with an empty slug, which no writer produces,  *)
(* are left out.                                                           *)
(***************************************************************************)
EXTENDS Selection

CONSTANTS
    Polls,       \* what the polls can return: sets of rows
    Lists,       \* the allowlists the account can have
    Deployments, \* the deployments of the model (pinned mode)
    Fallback,    \* cold_start_fallback
    Modes,       \* the values of wildcard a rule may carry
    Strict,      \* strict_provider
    Policies,    \* the unverified_region_policy values a rule may carry
    Damped,      \* whether promotion_polls can hold back a new winner
    NoEntry,     \* telemetry has no entry
    NoDecision   \* nothing has been decided

\* A row of a poll. Prices and throughputs are whole numbers (ValueWalk).
Row == [slug : Slugs, fit : BOOLEAN, price : Nat, tps : Nat, geo : Geography]

\* slugs: slugs_of(deployment); sent: its provider.only lists them.
Deployment == [slugs : SUBSET Slugs, sent : BOOLEAN]

\* A fit row has a positive price and throughput (_to_candidate).
ASSUME RouteAssumption ==
    /\ \A poll \in Polls : poll \subseteq Row /\ IsFiniteSet(poll)
    /\ \A poll \in Polls : \A r \in poll : r.fit => Walkable(r)
    /\ Lists \subseteq (SUBSET Orgs) \ {{}}
    /\ Deployments \subseteq Deployment
    /\ \A d \in Deployments : IF d.sent THEN d.slugs # {} ELSE \A s, t \in d.slugs : s = t
    /\ Fallback \in Seq(Slugs)
    /\ Modes \subseteq BOOLEAN
    /\ Strict \in BOOLEAN
    /\ Policies \subseteq {"no_route", "unpinned", "trust_fallback"}
    /\ Damped \in BOOLEAN

VARIABLES
    wildcard,  \* the rule's wildcard
    policy,    \* the rule's unverified_region_policy
    entry,     \* what telemetry.get returns
    allowlist, \* what telemetry.get_allowed_providers returns
    hot,       \* slugs with enough recent 429s
    capped,    \* slugs that refused the size of an input
    broken,    \* slugs a broken_provider_pattern matched
    decision   \* the last decision

rule     == <<wildcard, policy>>
cooldown == <<hot, capped, broken>>

vars == <<rule, entry, allowlist, cooldown, decision>>

\* Every selection a poll can lead to, under every allowlist.
Selections == [poll \in Polls |-> [list \in Lists \cup {NoList} |-> Select(poll, list)]]

\* The rankings of what is left of each selection's points.
Ranking ==
    [points \in {Selections[poll][list].points : poll \in Polls, list \in Lists \cup {NoList}} |->
        Rankings(points, Tolerance)]

AnyProvider == Slugs

\* What a deployment, as the operator configured it, lets OpenRouter choose from.
Wire(d) == IF d.sent THEN d.slugs ELSE AnyProvider

\* A deployment of wildcard mode, which names nobody.
Anonymous == [slugs |-> {}, sent |-> FALSE]

\* The first of some slugs in a list that names one of them.
FirstOf(slugs, some) == slugs[SelectInSeq(slugs, LAMBDA s : s \in some)]

-----------------------------------------------------------------------------
(* What a slug is worth now.                                               *)

\* Mutant of Refused: what is broken is left to the soft skips.
RefusedUnlessBroken(s) ==
    s \in hot \/ ~AllowlistAllows(s, allowlist) \/ ProviderExcluded(s)

\* Mutant of Refused: an input cap is a hard skip.
RefusedWhenCapped(s) ==
    s \in hot \cup broken \cup capped \/ ~AllowlistAllows(s, allowlist) \/ ProviderExcluded(s)

\* The hard skips.
Refused(s) ==
    s \in hot \cup broken \/ ~AllowlistAllows(s, allowlist) \/ ProviderExcluded(s)

\* The region policy's verdict on one slug.
RegionVerdict(s, e) ==
    IF Excluded = {} THEN "allowed"
    ELSE IF e = NoEntry
           THEN IF policy = "trust_fallback" THEN "allowed" ELSE "unknown"
           ELSE IF OrgOf[s] \in e.excluded THEN "excluded"
           ELSE IF OrgOf[s] \in e.allowed \/ AllowUnknown THEN "allowed"
           ELSE "unknown"

RegionAllows(s, e) == RegionVerdict(s, e) = "allowed"

\* The verdict logged when nothing is routed, read off the fallback list.
DeclineRegion(e) ==
    LET verdicts == {RegionVerdict(s, e) : s \in Range(Fallback)}
    IN  IF Excluded # {} /\ verdicts = {"excluded"} THEN "excluded"
        ELSE IF Excluded # {} /\ verdicts = {"unknown"} THEN "unknown"
        ELSE "-"

EntrySlugs(e) == {p.slug : p \in e.points}

\* A winner can be routed to.
Warm(e) == e # NoEntry /\ ~e.stale /\ e.winner # NoSlug

\* Mutant of OrderedCandidates: cheapest first.
OrderedCandidatesCheapest(e, refused) ==
    LET points == CheapFirst({p \in e.points : p.slug \notin refused})
    IN  [i \in DOMAIN points |-> points[i].slug]

\* The walk over what an entry offers and is not refused.
OrderedCandidates(e, refused) == Ranking[e.points][{p \in e.points : p.slug \notin refused}]

PickReason(s, e) ==
    IF s = e.winner THEN "winner" ELSE IF e.winner \in broken THEN "provider_broken" ELSE "safe_set"

-----------------------------------------------------------------------------
(* Decisions.                                                              *)

\* wire: what each deployment handed back lets OpenRouter choose from; seen
\* and healthy: history, the entry and the deployments decided on.
Decide(slug, reason, region, wire, e, healthy) ==
    /\ decision' = [slug |-> slug, reason |-> reason, region |-> region, wire |-> wire,
                    seen |-> e, healthy |-> healthy]
    /\ UNCHANGED <<rule, entry, allowlist, cooldown>>

\* Copies that name no other provider.
WithProviderOnly(deployments, s) == [d \in deployments |-> {s}]

\* The deployments as they are.
AsSent(deployments) == [d \in deployments |-> Wire(d)]

\* Mutant of PinWinner: one deployment pinned to the slug is enough.
PinWinnerOnce(match, s) ==
    IF \E d \in match : d.slugs = {s} THEN AsSent(match) ELSE WithProviderOnly(match, s)

\* Deployments known by this slug alone go back untouched, also those that
\* send no provider.only.
PinWinner(match, s) ==
    IF \A d \in match : d.slugs = {s} THEN AsSent(match) ELSE WithProviderOnly(match, s)

\* One provider is decided on.
Pin(s, reason, wire, e, healthy) ==
    Decide(s, reason, IF Excluded = {} THEN "-" ELSE RegionVerdict(s, e), wire, e, healthy)

Decline(reason, region, e, healthy) == Decide(NoSlug, reason, region, <<>>, e, healthy)

\* OpenRouter picks the provider.
Cede(e, healthy) ==
    Decide(NoSlug, "unpinned", "-", [d \in healthy |-> AnyProvider], e, healthy)

PassThrough(deployments, e, healthy) ==
    Decide(NoSlug, "pass_through", "-", AsSent(deployments), e, healthy)

\* The caller's own provider.only on a strict rule: telemetry is not asked.
RefuseStrict == Strict /\ Decline("declined", "-", NoDecision, {})

(* Wildcard mode.                                                          *)

Inject(s, reason, e) == Pin(s, reason, WithProviderOnly({Anonymous}, s), e, {Anonymous})

Refuse(reason, region, e) == Decline(reason, region, e, {Anonymous})

\* An input cap is a preference: these go first.
Uncapped(slugs) == {s \in slugs : s \notin capped}

InjectWinner(e) ==
    LET ranked   == OrderedCandidates(e, {s \in EntrySlugs(e) : Refused(s)})
        usable   == Range(ranked)
        first    == FirstOf(ranked, Uncapped(usable))
    IN  /\ Warm(e)
        /\ \/ usable = {} /\ Refuse("all_hot", DeclineRegion(e), e)
           \/ Uncapped(usable) # {} /\ Inject(first, PickReason(first, e), e)
           \/ /\ usable # {} /\ Uncapped(usable) = {}
              /\ Inject(IF e.winner \in usable THEN e.winner ELSE Head(ranked), "input_cap", e)

\* The fallbacks the account, the rule and the region policy permit.
FallbackEligible(e) ==
    {s \in Range(Fallback) : AllowlistAllows(s, allowlist) /\ ~ProviderExcluded(s) /\ RegionAllows(s, e)}

WildcardFallback(e) ==
    LET permitted == FallbackEligible(e)
        eligible  == permitted \ (hot \cup broken)
        uncapped  == Uncapped(eligible)
    IN  /\ ~Warm(e)
        /\ \/ uncapped # {} /\ Inject(FirstOf(Fallback, uncapped), "cold_start", e)
           \/ eligible # {} /\ uncapped = {} /\ Inject(FirstOf(Fallback, eligible), "input_cap", e)
           \/ eligible = {} /\ permitted # {} /\ Refuse("all_hot", "-", e)
           \/ /\ permitted = {}
              /\ \/ Excluded # {} /\ policy = "unpinned" /\ Cede(e, {Anonymous})
                 \/ ~(Excluded # {} /\ policy = "unpinned") /\ Refuse("declined", DeclineRegion(e), e)

(* Pinned mode.                                                            *)

Skipped(s) == s \in hot \cup capped \cup broken

UsableDeployment(d) == d.slugs # {} /\ \A s \in d.slugs : ~Skipped(s) /\ ~ProviderExcluded(s)

\* Mutant of DeploymentRegionOk: one authorised provider is looked at.
DeploymentRegionOkOnce(d, e) ==
    IF d.slugs = {} THEN AllowUnknown ELSE \E s \in d.slugs : RegionAllows(s, e)

DeploymentRegionOk(d, e) ==
    IF d.slugs = {} THEN AllowUnknown ELSE \A s \in d.slugs : RegionAllows(s, e)

\* The healthy deployments the region policy permits.
RegionEligible(e, healthy) ==
    IF Excluded = {} THEN healthy
    ELSE IF e # NoEntry THEN {d \in healthy : DeploymentRegionOk(d, e)}
    ELSE IF policy = "trust_fallback"
           THEN {d \in healthy : UsableDeployment(d) /\ d.slugs \subseteq Range(Fallback)}
    ELSE {}

\* Mutant of Preferred: an input cap does not count.
PreferredCapped(e) == OrderedCandidates(e, {s \in EntrySlugs(e) : Refused(s)})

\* The slugs to look for among the deployments, best first.
Preferred(e) == OrderedCandidates(e, {s \in EntrySlugs(e) : Refused(s) \/ s \in capped})

\* The deployments known by a slug, alone or among others.
Offering(deployments, s) == {d \in deployments : s \in d.slugs}

Narrow(e, healthy) ==
    LET permitted == RegionEligible(e, healthy)
        matching  == {s \in Range(Preferred(e)) : Offering(permitted, s) # {}}
        match     == FirstOf(Preferred(e), matching)
        reach     == /\ AllowlistAllows(e.winner, allowlist)
                     /\ ~ProviderExcluded(e.winner)
                     /\ Offering(permitted, e.winner) # {}
        Choose(s, reason) == Pin(s, reason, PinWinner(Offering(permitted, s), s), e, healthy)
    IN  \/ /\ Excluded # {} /\ permitted = {}
           /\ IF policy = "unpinned" THEN Cede(e, healthy) ELSE Decline("declined", DeclineRegion(e), e, healthy)
        \/ /\ Excluded = {} \/ permitted # {}
           /\ \/ ~Warm(e) /\ PassThrough(permitted, e, healthy)
              \/ /\ Warm(e)
                 /\ \/ matching # {} /\ Choose(match, PickReason(match, e))
                    \/ matching = {} /\ reach /\ Choose(e.winner, "safe_set")
                    \/ matching = {} /\ ~reach /\ PassThrough(permitted, e, healthy)

-----------------------------------------------------------------------------
(* The filter and everything it races with.                                *)

Init ==
    /\ wildcard \in Modes
    /\ policy \in Policies
    /\ entry = NoEntry
    /\ allowlist = NoList
    /\ hot = {}
    /\ capped = {}
    /\ broken = {}
    /\ decision = NoDecision

\* async_filter_deployments: telemetry.get returns its entry, or raises.
FilterDeployments ==
    /\ decision = NoDecision
    /\ \/ RefuseStrict
       \/ \E e \in {entry, NoEntry} :
             \/ wildcard /\ InjectWinner(e)
             \/ wildcard /\ WildcardFallback(e)
             \/ ~wildcard /\ \E healthy \in (SUBSET Deployments) \ {{}} : Narrow(e, healthy)

Conclude ==
    /\ decision # NoDecision
    /\ decision' = NoDecision
    /\ UNCHANGED <<rule, entry, allowlist, cooldown>>

\* The winner damping may hold on to.
Incumbents(points) ==
    IF Damped /\ entry # NoEntry THEN {entry.winner} \cap {p.slug : p \in points} ELSE {}

\* A refresh replaces the entry (_apply_promotion): the selection's winner, or
\* the incumbent if damping holds it and it is still safe; the regions'
\* evidence alone if nothing qualifies; a stale entry if there is none.
Refresh(poll) ==
    LET selection == Selections[poll][allowlist]
        outdated  == IF entry = NoEntry THEN NoEntry ELSE [entry EXCEPT !.stale = TRUE]
    IN  /\ decision = NoDecision
        /\ IF selection.winner = NoSlug /\ (Excluded = {} \/ poll = {})
             THEN entry' = outdated
             ELSE \E w \in {selection.winner} \cup Incumbents(selection.points) :
                     entry' = [winner |-> w, points |-> selection.points, excluded |-> selection.excluded,
                               allowed |-> selection.allowed, stale |-> FALSE]
        /\ UNCHANGED <<rule, allowlist, cooldown, decision>>

RefreshFails ==
    /\ decision = NoDecision
    /\ entry # NoEntry
    /\ entry' = [entry EXCEPT !.stale = TRUE]
    /\ UNCHANGED <<rule, allowlist, cooldown, decision>>

\* A 404 names the account's allowlist, or it outlives its TTL.
AllowlistChanges ==
    /\ decision = NoDecision
    /\ \E list \in Lists \cup {NoList} : allowlist' = list
    /\ UNCHANGED <<rule, entry, cooldown, decision>>

\* A failure is recorded or its skip runs out.
HotChanges ==
    /\ decision = NoDecision
    /\ \E s \in Slugs : hot' \in {hot \cup {s}, hot \ {s}}
    /\ UNCHANGED <<rule, entry, allowlist, capped, broken, decision>>

CappedChanges ==
    /\ decision = NoDecision
    /\ \E s \in Slugs : capped' \in {capped \cup {s}, capped \ {s}}
    /\ UNCHANGED <<rule, entry, allowlist, hot, broken, decision>>

BrokenChanges ==
    /\ decision = NoDecision
    /\ \E s \in Slugs : broken' \in {broken \cup {s}, broken \ {s}}
    /\ UNCHANGED <<rule, entry, allowlist, hot, capped, decision>>

Next ==
    \/ FilterDeployments
    \/ Conclude
    \/ \E poll \in Polls : Refresh(poll)
    \/ RefreshFails
    \/ AllowlistChanges
    \/ HotChanges
    \/ CappedChanges
    \/ BrokenChanges

Spec == Init /\ [][Next]_vars

-----------------------------------------------------------------------------
(* Properties.                                                             *)

Decided == decision # NoDecision

Pinned == Decided /\ decision.slug # NoSlug

\* A hard skip, in the words of the exception raised for it.
Unusable(s) ==
    \/ s \in hot \cup broken
    \/ allowlist # NoList /\ OrgOf[s] \notin allowlist
    \/ {s, OrgOf[s]} \cap Banned # {}

\* What the decision could choose from: the entry's providers or the
\* fallbacks the region policy permits, and in pinned mode only those that a
\* permitted deployment authorises.
Options ==
    LET e == decision.seen
        offered(s) == \E d \in decision.healthy : s \in d.slugs /\ DeploymentRegionOk(d, e)
    IN  IF ~wildcard THEN {s \in EntrySlugs(e) : offered(s)}
        ELSE IF Warm(e) THEN EntrySlugs(e)
        ELSE {s \in Range(Fallback) : RegionAllows(s, e)}

\* Wildcard mode never pins a provider that is hot, broken, off the account's
\* allowlist or excluded by the rule, whichever path chose it and however old
\* the selection is (_inject_winner, _wildcard_fallback, README on the 429
\* walk and on exclude_providers).
RoutedIsUsable == wildcard /\ Pinned => ~Unusable(decision.slug)

\* The region evidence of the decision clears every one of some providers:
\* the entry verifies them, or with no entry the operator's fallbacks hold them.
Verified(set) ==
    IF decision.seen = NoEntry
      THEN policy = "trust_fallback" /\ set \subseteq Range(Fallback)
      ELSE \A s \in set : /\ OrgOf[s] \notin decision.seen.excluded
                          /\ AllowUnknown \/ OrgOf[s] \in decision.seen.allowed

\* Unless the policy cedes to OpenRouter, every provider on the wire of every
\* deployment is verified: not waived by a selection under an older allowlist,
\* by a sibling in a deployment, or during an outage.  The one gap is a pinned
\* deployment without a provider.only, handed back as it is: then the provider
\* its id names is verified, not what OpenRouter makes of it
\* (_region_eligible, _pin_winner, _wildcard_fallback, README on regions).
RegionHonoured ==
    Decided /\ Excluded # {} /\ decision.reason # "unpinned" =>
        \A d \in DOMAIN decision.wire :
            \/ Verified(decision.wire[d])
            \/ /\ ~wildcard /\ ~d.sent /\ decision.wire[d] = Wire(d)
               /\ IF d.slugs = {} THEN AllowUnknown /\ decision.seen # NoEntry ELSE Verified(d.slugs)

\* Wildcard mode refuses a request only when no choice was usable (or the rule
\* is strict), and raises only when a hard skip is to blame: input caps and
\* region policy never do (AllProvidersOnCooldown).
RefusalsAreEarned ==
    /\ wildcard /\ Decided /\ decision.reason \in {"all_hot", "declined"} =>
           decision.seen = NoDecision \/ \A s \in Options : Unusable(s)
    /\ wildcard /\ Decided /\ decision.reason = "all_hot" =>
           \E s \in Options : Unusable(s)

\* A provider under any skip is pinned only when no choice is free of one: an
\* input cap is a preference on every path, and pinned mode reaches back for
\* the winner last (_inject_winner, _wildcard_fallback, _narrow).
SkippedIsLastResort ==
    Pinned /\ Skipped(decision.slug) => \A s \in Options : Unusable(s) \/ s \in capped

\* Pinned mode narrows what the operator's deployments let OpenRouter choose
\* from and never adds to it, unless the policy cedes.  A pin goes to deployments
\* known by the slug, and every one that could be served by a sibling is rewritten;
\* only where all are known by the slug alone does one that sends no
\* provider.only stay unpinned (_pin_winner, _narrow).
NeverWidened ==
    ~wildcard /\ Decided /\ decision.reason # "unpinned" =>
        \A d \in DOMAIN decision.wire :
            /\ d \in decision.healthy
            /\ decision.wire[d] \subseteq Wire(d)
            /\ Pinned => \/ /\ decision.wire[d] = {decision.slug}
                            /\ decision.slug \in d.slugs
                         \/ ~d.sent /\ \A x \in DOMAIN decision.wire : x.slugs = {decision.slug}

\* The points of an entry for some slugs that no skip is on.
Free(some, e) == {p \in e.points : p.slug \in some /\ ~Unusable(p.slug) /\ p.slug \notin capped}

\* As long as there is an entry with a winner, the provider pinned is well
\* chosen among those that no skip and no deployment rules out: the walk is the
\* rule's again, over what is left, and what it finds first is what is pinned
\* (_ordered_candidates, _inject_winner, _narrow).
PinnedIsWellChosen ==
    Pinned /\ Warm(decision.seen) =>
        \E w \in decision.seen.points :
            w.slug = decision.slug /\ WellChosen(w, Free(Options, decision.seen), Tolerance)

\* README 305-307 of a broken provider: "a broken one is never tried".
BrokenNeverTried == Pinned => decision.slug \notin broken

\* _ordered_candidates: "the cached value-walk winner first", which is what
\* makes promotion_polls damp the routing (README on promotion_polls).
CachedWinnerFirst ==
    Pinned /\ Warm(decision.seen) =>
        LET winner == decision.seen.winner
        IN  winner \in Options /\ ~Unusable(winner) /\ winner \notin capped => decision.slug = winner

=============================================================================
