-------------------------------- MODULE Scorer --------------------------------
(***************************************************************************)
(* Polls that reach the scorer: rows arrive in any number and with any     *)
(* geography, an account allowlist may be known, and select_candidates     *)
(* judges them (telemetry._refresh calls it once a poll).                  *)
(***************************************************************************)
EXTENDS Selection

CONSTANTS
    Prices,      \* input prices
    Speeds,      \* median throughputs
    Geographies, \* the geographies rows report
    Lists,       \* the allowlists the account can have
    MaxRows      \* bound on the rows of a poll

Row == [slug : Slugs, fit : BOOLEAN, price : Prices, tps : Speeds, geo : Geographies]

NoSelection == [winner |-> NoSlug, points |-> {}, excluded |-> {}, allowed |-> {}]

ASSUME PollAssumption ==
    /\ Prices \subseteq Nat \ {0}
    /\ Speeds \subseteq Nat \ {0}
    /\ Geographies \subseteq Geography
    /\ Lists \subseteq (SUBSET Orgs) \ {{}}
    /\ MaxRows \in Nat

VARIABLES
    rows,     \* the rows of the poll
    list,     \* the account allowlist
    selected, \* whether the poll has been judged
    selection \* the judgement

vars == <<rows, list, selected, selection>>

Init ==
    /\ rows = {}
    /\ list \in Lists \cup {NoList}
    /\ selected = FALSE
    /\ selection = NoSelection

Report(r) ==
    /\ ~selected
    /\ Cardinality(rows) < MaxRows
    /\ rows' = rows \cup {r}
    /\ UNCHANGED <<list, selected, selection>>

SelectCandidates ==
    /\ ~selected
    /\ selected' = TRUE
    /\ selection' = Select(rows, list)
    /\ UNCHANGED <<rows, list>>

Next ==
    \/ \E r \in Row : Report(r)
    \/ SelectCandidates

Spec == Init /\ [][Next]_vars

-----------------------------------------------------------------------------
(* Properties.                                                             *)

\* Every variable has its type, and a slug has one point at most.
TypeOK ==
    /\ rows \subseteq Row
    /\ list \in Lists \cup {NoList}
    /\ selected \in BOOLEAN
    /\ selection.points \subseteq [slug : Slugs, price : Prices, tps : Speeds]
    /\ \A p, q \in selection.points : p.slug = q.slug => p = q
    /\ selection.excluded \subseteq Orgs
    /\ selection.allowed \subseteq Orgs

\* One endpoint is enough to lose an organisation: a provider that can be
\* chosen has no endpoint, chosen or not, with an excluded location, and
\* unless unknown geography is allowed all of them report both dimensions
\* (_region_verdict, _excluded_bases, README on exclude_regions).
OnlyVerified ==
    \A p \in selection.points : \A r \in rows :
        OrgOf[r.slug] = OrgOf[p.slug] =>
            /\ r.geo.hq \notin Excluded
            /\ r.geo.dcs \cap Excluded = {}
            /\ Excluded = {} \/ AllowUnknown
                 \/ (r.geo.hq # Blank /\ r.geo.dcs # {} /\ Blank \notin r.geo.dcs)

\* The two lists a request is judged by later agree: under a region policy
\* every organisation polled is on exactly one of them, and what the walk
\* may choose is on the list of the allowed (plugin._region_verdict reads one
\* list after the other, _excluded_bases and _allowed_bases build them apart).
VerdictsPartition ==
    selected /\ Excluded # {} =>
        /\ selection.excluded \cap selection.allowed = {}
        /\ selection.excluded \cup selection.allowed = Polled(rows)
        /\ \A p \in selection.points : OrgOf[p.slug] \in selection.allowed

\* A slug with several rows competes with the fastest row it could serve
\* from: a row that the filters drop neither competes nor hides the rows that
\* pass, and no slug with a row that passes is lost (_stage1 runs before
\* _dedupe_by_slug).
FastestAdmitted ==
    selected =>
        \A s \in Slugs :
            LET could  == {r \in rows : r.slug = s /\ r.fit /\ r.price <= MaxPrice}
                points == {p \in selection.points : p.slug = s}
            IN  /\ \A p \in points :
                      /\ \E r \in could : r.price = p.price /\ r.tps = p.tps
                      /\ \A r \in could : r.tps <= p.tps
                /\ points = {} =>
                      \/ could = {}
                      \/ Excluded # {} /\ OrgOf[s] \notin selection.allowed
                      \/ ProviderExcluded(s)
                      \/ ~AllowlistAllows(s, list)
=============================================================================
