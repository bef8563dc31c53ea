------------------------------ MODULE Selection ------------------------------
(***************************************************************************)
(* One selection (scorer.select_candidates): which of the polled rows a    *)
(* rule admits, the verdict of the region policy on every organisation,    *)
(* and the winner and points the value walk makes of the rest.             *)
(*                                                                         *)
(* What else a row must pass (quantization, context, retention, uptime,    *)
(* sample size, finite numbers) is one Boolean of the row, as is what the  *)
(* price of zero or the missing field would do: the row is dropped.        *)
(***************************************************************************)
EXTENDS ValueWalk, FiniteSets

CONSTANTS
    Slugs,      \* provider slugs, numbered in alphabetical order
    OrgOf,      \* the organisation (base) of each slug
    Regions,    \* the locations rows report
    Blank,      \* a location that is absent or empty
    Excluded,   \* exclude_regions
    AllowUnknown, \* allow_unknown_region
    Banned,     \* exclude_providers: slugs and organisations
    MaxPrice,   \* max_price
    Tolerance,  \* value_regression_tolerance, in percent
    NoList,     \* no account allowlist known
    NoSlug      \* no winner (None)

Orgs == {OrgOf[s] : s \in Slugs}

\* Where an endpoint is based and serves from, as provider_info reports it.
Geography == [hq : Regions \cup {Blank}, dcs : SUBSET (Regions \cup {Blank})]

ASSUME RuleAssumption ==
    /\ Slugs \subseteq Nat \ {0}
    /\ DOMAIN OrgOf = Slugs
    /\ Blank \notin Regions
    /\ Excluded \subseteq Regions
    /\ AllowUnknown \in BOOLEAN
    /\ Banned \subseteq Slugs \cup Orgs
    /\ MaxPrice \in Nat
    /\ Tolerance \in Nat
    /\ \A list \in SUBSET Orgs : NoList # list
    /\ NoSlug \notin Slugs

-----------------------------------------------------------------------------
(* The region policy.                                                      *)

\* Mutant of Verdict: a known headquarters is enough.
VerdictOfBase(geo) ==
    IF ({geo.hq} \cup geo.dcs) \cap Excluded # {} THEN "excluded"
    ELSE IF geo.hq # Blank THEN "allowed" ELSE "unknown"

\* One excluded location rejects; approving takes both dimensions.
Verdict(geo) ==
    IF ({geo.hq} \cup geo.dcs) \cap Excluded # {} THEN "excluded"
    ELSE IF geo.hq # Blank /\ geo.dcs # {} /\ Blank \notin geo.dcs THEN "allowed"
    ELSE "unknown"

VerdictsOn(rows, org) == {Verdict(r.geo) : r \in {r \in rows : OrgOf[r.slug] = org}}

Polled(rows) == {OrgOf[r.slug] : r \in rows}

\* Mutant of ExcludedBases: an organisation goes when all its endpoints do.
ExcludedByAll(rows) ==
    IF Excluded = {} THEN {}
    ELSE LET drop == IF AllowUnknown THEN {"excluded"} ELSE {"excluded", "unknown"}
         IN  {org \in Polled(rows) : VerdictsOn(rows, org) \subseteq drop}

\* The organisations dropped: one endpoint of theirs is enough.
ExcludedBases(rows) ==
    IF Excluded = {} THEN {}
    ELSE LET drop == IF AllowUnknown THEN {"excluded"} ELSE {"excluded", "unknown"}
         IN  {org \in Polled(rows) : VerdictsOn(rows, org) \cap drop # {}}

\* The organisations every endpoint of which is eligible.
AllowedBases(rows) ==
    IF Excluded = {} THEN {}
    ELSE LET ok == IF AllowUnknown THEN {"allowed", "unknown"} ELSE {"allowed"}
         IN  {org \in Polled(rows) : VerdictsOn(rows, org) \subseteq ok}

-----------------------------------------------------------------------------
(* Candidates and the winner.                                              *)

ProviderExcluded(s) == {s, OrgOf[s]} \cap Banned # {}

AllowlistAllows(s, list) == list # NoList => OrgOf[s] \in list

\* _stage1: the rows no filter drops.
Candidates(rows, list) ==
    {r \in rows : /\ r.fit
                  /\ r.price <= MaxPrice
                  /\ OrgOf[r.slug] \notin ExcludedBases(rows)
                  /\ ~ProviderExcluded(r.slug)
                  /\ AllowlistAllows(r.slug, list)}

\* The fastest candidate of every slug, the cheaper of two.
Deduped(candidates) ==
    LET point(r) == [slug |-> r.slug, price |-> r.price, tps |-> r.tps]
        points   == {point(r) : r \in candidates}
    IN  {p \in points : ~\E q \in points : q.slug = p.slug /\ Better(q, p)}

\* Mutant of Select: rows are collapsed before they are filtered.
SelectCollapsed(rows, list) ==
    LET points == Deduped(Candidates({r \in rows : ~\E q \in rows : q.slug = r.slug /\ Better(q, r)}, list))
    IN  [winner   |-> IF points = {} THEN NoSlug ELSE Terminal(points, Tolerance).slug,
         points   |-> points,
         excluded |-> ExcludedBases(rows),
         allowed  |-> AllowedBases(rows)]

Select(rows, list) ==
    LET points == Deduped(Candidates(rows, list))
    IN  [winner   |-> IF points = {} THEN NoSlug ELSE Terminal(points, Tolerance).slug,
         points   |-> points,
         excluded |-> ExcludedBases(rows),
         allowed  |-> AllowedBases(rows)]
=============================================================================
