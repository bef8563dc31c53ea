---------------------------- MODULE RoutingProofs ----------------------------
(***************************************************************************)
(* Proofs about Routing, for every rule, every set of polls, deployments   *)
(* and fallbacks, and every history of refreshes and failures.             *)
(*                                                                         *)
(* The inductive invariant is about the entry: it holds what one selection *)
(* made of one poll under one allowlist, not necessarily the current one,  *)
(* with a winner that is one of its points.  A decision is taken in one    *)
(* step and nothing moves until it is concluded, so each property is shown *)
(* of the decision the step takes.  What the walk offers rests on          *)
(* RankingsComplete: a ranking names the points it is made of; what it     *)
(* offers first rests on RankingsChooseWell.                               *)
(***************************************************************************)
EXTENDS Routing, ValueWalkProofs

-----------------------------------------------------------------------------
(* What a selection holds.                                                 *)

LEMMA SelectionOf ==
    ASSUME NEW poll \in Polls, NEW list \in Lists \cup {NoList}
    PROVE  Selections[poll][list] = Select(poll, list)
BY DEF Selections

LEMMA CandidatePoint ==
    ASSUME NEW poll, NEW list, NEW p \in Select(poll, list).points
    PROVE  \E r \in Candidates(poll, list) : p = [slug |-> r.slug, price |-> r.price, tps |-> r.tps]
BY DEF Select, Deduped

\* The points of a selection are finitely many, and points of the rule's slugs.
LEMMA SelectionPoints ==
    ASSUME NEW poll \in Polls, NEW list, NEW points, points = Select(poll, list).points
    PROVE  /\ IsFiniteSet(points)
           /\ points \subseteq PointLike
           /\ SlugsOf(points) \subseteq Slugs
<1> DEFINE point(r) == [slug |-> r.slug, price |-> r.price, tps |-> r.tps]
<1>1. IsFiniteSet(poll) /\ poll \subseteq Row
  BY RouteAssumption
<1>2. IsFiniteSet({point(r) : r \in poll})
  <2> DEFINE image == [r \in poll |-> point(r)]
  <2>1. image \in Surjection(poll, {point(r) : r \in poll})
    BY DEF Surjection
  <2> HIDE DEF point, image
  <2> QED BY <1>1, <2>1, FS_Surjection
<1>3. points \subseteq {point(r) : r \in poll}
  <2> SUFFICES ASSUME NEW p \in Select(poll, list).points PROVE p \in {point(r) : r \in poll}
    OBVIOUS
  <2>1. PICK r \in Candidates(poll, list) : p = point(r)
    BY CandidatePoint
  <2>2. r \in poll
    BY DEF Candidates
  <2> QED BY <2>1, <2>2
<1>4. ASSUME NEW r \in poll PROVE point(r) \in PointLike /\ r.slug \in Slugs
  <2>1. r.slug \in Slugs /\ r.price \in Nat /\ r.tps \in Nat
    BY <1>1 DEF Row
  <2>2. \A s \in Slugs : s \in Nat
    BY RuleAssumption
  <2> QED BY <2>1, <2>2 DEF PointLike
<1>5. IsFiniteSet(points)
  <2> HIDE DEF point
  <2> QED BY <1>2, <1>3, FS_Subset
<1>6. \A p \in points : p \in PointLike /\ p.slug \in Slugs
  BY <1>3, <1>4
<1> QED BY <1>5, <1>6 DEF SlugsOf

\* The walk can divide by every point of a selection, and no two share a slug:
\* Better orders any two that differ (_to_candidate, _dedupe_by_slug).
LEMMA SelectionWalkable ==
    ASSUME NEW poll \in Polls, NEW list, NEW points, points = Select(poll, list).points
    PROVE  Usable(points) /\ OnePerSlug(points)
<1> DEFINE candidates == Candidates(poll, list)
           point(r)   == [slug |-> r.slug, price |-> r.price, tps |-> r.tps]
<1>1. points = Deduped(candidates)
  BY DEF Select
<1>2. ASSUME NEW p \in points
      PROVE  p \in PointLike /\ Walkable(p) /\ p \in [slug : Nat, price : Nat, tps : Nat]
  <2>1. PICK r \in candidates : p = point(r)
    BY CandidatePoint
  <2>2. r \in poll /\ r.fit /\ Walkable(r) /\ r \in Row
    BY RouteAssumption DEF Candidates
  <2>3. r.slug \in Nat /\ r.price \in Nat /\ r.tps \in Nat
    BY <2>2, RuleAssumption DEF Row
  <2>4. r.price > 0 /\ r.tps > 0
    BY <2>2 DEF Walkable
  <2> QED BY <2>1, <2>3, <2>4 DEF PointLike, Walkable
<1>3. ASSUME NEW p \in points, NEW q \in points, p.slug = q.slug
      PROVE  p = q
  <2>1. ~Better(p, q) /\ ~Better(q, p)
    BY <1>1, <1>3 DEF Deduped
  <2>2. /\ p \in [slug : Nat, price : Nat, tps : Nat]
        /\ q \in [slug : Nat, price : Nat, tps : Nat]
    BY <1>2
  <2>3. p.tps = q.tps /\ p.price = q.price
    BY <2>1, <2>2 DEF Better
  <2> QED BY <1>3, <2>2, <2>3
<1> QED BY <1>2, <1>3 DEF Usable, OnePerSlug

\* A selection's winner is one of its points.
LEMMA SelectionWinner ==
    ASSUME NEW poll \in Polls, NEW list
    PROVE  LET selection == Select(poll, list)
           IN  selection.winner \in SlugsOf(selection.points) \cup {NoSlug}
<1> DEFINE points == Select(poll, list).points
           winner == Select(poll, list).winner
<1>1. winner = IF points = {} THEN NoSlug ELSE Terminal(points, Tolerance).slug
  BY DEF Select
<1>2. IsFiniteSet(points) /\ points \subseteq PointLike
  BY SelectionPoints
<1>3. points # {} => Terminal(points, Tolerance) \in points
  <2> HIDE DEF points
  <2> QED BY <1>2, TerminalIn
<1> HIDE DEF points, winner
<1>4. winner \in SlugsOf(points) \cup {NoSlug}
  BY <1>1, <1>3 DEF SlugsOf
<1> QED BY <1>4 DEF points, winner

\* Under a region policy what is chosen is not excluded, and it is verified
\* unless unknown geography is allowed.
LEMMA SelectionRegions ==
    ASSUME NEW poll, NEW list, NEW p \in Select(poll, list).points, Excluded # {}
    PROVE  /\ OrgOf[p.slug] \notin Select(poll, list).excluded
           /\ OrgOf[p.slug] \in Select(poll, list).allowed
<1> DEFINE drop == IF AllowUnknown THEN {"excluded"} ELSE {"excluded", "unknown"}
           ok   == IF AllowUnknown THEN {"allowed", "unknown"} ELSE {"allowed"}
<1>1. PICK r \in Candidates(poll, list) : p = [slug |-> r.slug, price |-> r.price, tps |-> r.tps]
  BY CandidatePoint
<1> DEFINE org == OrgOf[r.slug]
<1>2. org \notin ExcludedBases(poll) /\ org \in Polled(poll)
  BY DEF Candidates, Polled
<1>3. VerdictsOn(poll, org) \subseteq {"excluded", "allowed", "unknown"}
  BY DEF VerdictsOn, Verdict
<1>4. VerdictsOn(poll, org) \cap drop = {}
  BY <1>2 DEF ExcludedBases
<1>5. VerdictsOn(poll, org) \subseteq ok
  BY <1>3, <1>4
<1>6. org \in AllowedBases(poll)
  BY <1>2, <1>5 DEF AllowedBases
<1> QED BY <1>1, <1>2, <1>6 DEF Select

-----------------------------------------------------------------------------
(* The inductive invariant.                                                *)

\* What an entry can hold of one selection: the winner it had, or another of
\* its points.
EntryOf(selection) ==
    [winner : SlugsOf(selection.points) \cup {NoSlug}, points : {selection.points},
     excluded : {selection.excluded}, allowed : {selection.allowed}, stale : BOOLEAN]

Entry == UNION {EntryOf(Select(poll, list)) : poll \in Polls, list \in Lists \cup {NoList}}

Inputs ==
    /\ wildcard \in BOOLEAN
    /\ policy \in Policies
    /\ entry \in Entry \cup {NoEntry}
    /\ allowlist \in Lists \cup {NoList}
    /\ hot \subseteq Slugs
    /\ capped \subseteq Slugs
    /\ broken \subseteq Slugs

\* How an entry came about.
LEMMA EntryMade ==
    ASSUME NEW e \in Entry
    PROVE  \E poll \in Polls, list \in Lists \cup {NoList} :
              /\ e.points = Select(poll, list).points
              /\ e.excluded = Select(poll, list).excluded
              /\ e.allowed = Select(poll, list).allowed
              /\ e.winner \in SlugsOf(e.points) \cup {NoSlug}
              /\ e.stale \in BOOLEAN
<1>1. PICK poll \in Polls, list \in Lists \cup {NoList} : e \in EntryOf(Select(poll, list))
  BY DEF Entry
<1>2. /\ e.points = Select(poll, list).points
      /\ e.excluded = Select(poll, list).excluded
      /\ e.allowed = Select(poll, list).allowed
      /\ e.winner \in SlugsOf(Select(poll, list).points) \cup {NoSlug}
      /\ e.stale \in BOOLEAN
  BY <1>1 DEF EntryOf
<1> QED BY <1>2

LEMMA StaleEntry ==
    ASSUME NEW e \in Entry
    PROVE  [e EXCEPT !.stale = TRUE] \in Entry
<1>1. PICK poll \in Polls, list \in Lists \cup {NoList} : e \in EntryOf(Select(poll, list))
  BY DEF Entry
<1>2. [e EXCEPT !.stale = TRUE] \in EntryOf(Select(poll, list))
  BY <1>1 DEF EntryOf
<1> QED BY <1>2 DEF Entry

\* A refresh leaves an entry that one selection made.
LEMMA RefreshStep ==
    ASSUME Inputs, NEW poll \in Polls, Refresh(poll)
    PROVE  entry' \in Entry \cup {NoEntry}
<1> DEFINE selection == Select(poll, allowlist)
<1>1. Selections[poll][allowlist] = selection /\ allowlist \in Lists \cup {NoList}
  BY SelectionOf DEF Inputs
<1>2. CASE entry' = IF entry = NoEntry THEN NoEntry ELSE [entry EXCEPT !.stale = TRUE]
  BY <1>2, StaleEntry DEF Inputs
<1>3. CASE \E w \in {selection.winner} \cup Incumbents(selection.points) :
              entry' = [winner |-> w, points |-> selection.points, excluded |-> selection.excluded,
                        allowed |-> selection.allowed, stale |-> FALSE]
  <2>1. PICK w \in {selection.winner} \cup Incumbents(selection.points) :
              entry' = [winner |-> w, points |-> selection.points, excluded |-> selection.excluded,
                        allowed |-> selection.allowed, stale |-> FALSE]
    BY <1>3
  <2>2. Incumbents(selection.points) \subseteq SlugsOf(selection.points)
    BY DEF Incumbents, SlugsOf
  <2>3. selection.winner \in SlugsOf(selection.points) \cup {NoSlug}
    BY SelectionWinner
  <2>4. w \in SlugsOf(selection.points) \cup {NoSlug}
    BY <2>2, <2>3
  <2>5. entry' \in EntryOf(selection)
    <3> HIDE DEF selection
    <3> QED BY <2>1, <2>4 DEF EntryOf
  <2> QED BY <1>1, <2>5 DEF Entry
<1> QED BY <1>1, <1>2, <1>3 DEF Refresh

\* A decision changes nothing it is taken on.
LEMMA DecideKeeps ==
    ASSUME FilterDeployments
    PROVE  UNCHANGED <<rule, entry, allowlist, cooldown>>
<1>1. ASSUME RefuseStrict PROVE UNCHANGED <<rule, entry, allowlist, cooldown>>
  BY <1>1 DEF RefuseStrict, Decline, Decide
<1>2. ASSUME NEW e, InjectWinner(e) PROVE UNCHANGED <<rule, entry, allowlist, cooldown>>
  BY <1>2 DEF InjectWinner, Refuse, Inject, Decline, Pin, Decide
<1>3. ASSUME NEW e, WildcardFallback(e) PROVE UNCHANGED <<rule, entry, allowlist, cooldown>>
  BY <1>3 DEF WildcardFallback, Refuse, Inject, Decline, Pin, Cede, Decide
<1>4. ASSUME NEW e, NEW healthy, Narrow(e, healthy)
      PROVE  UNCHANGED <<rule, entry, allowlist, cooldown>>
  BY <1>4 DEF Narrow, Decline, Pin, Cede, PassThrough, Decide
<1> QED BY <1>1, <1>2, <1>3, <1>4 DEF FilterDeployments

THEOREM InputsInvariance == Spec => []Inputs
<1>1. Init => Inputs
  BY RouteAssumption DEF Init, Inputs
<1>2. Inputs /\ [Next]_vars => Inputs'
  <2> SUFFICES ASSUME Inputs, [Next]_vars PROVE Inputs'
    OBVIOUS
  <2>1. CASE FilterDeployments
    BY <2>1, DecideKeeps DEF Inputs, rule, cooldown
  <2>2. CASE Conclude
    BY <2>2 DEF Conclude, Inputs, rule, cooldown
  <2>3. ASSUME NEW poll \in Polls, Refresh(poll) PROVE Inputs'
    <3>1. entry' \in Entry \cup {NoEntry}
      BY <2>3, RefreshStep
    <3> QED BY <2>3, <3>1 DEF Refresh, Inputs, rule, cooldown
  <2>4. CASE RefreshFails
    BY <2>4, StaleEntry DEF RefreshFails, Inputs, rule, cooldown
  <2>5. CASE AllowlistChanges
    BY <2>5 DEF AllowlistChanges, Inputs, rule, cooldown
  <2>6. CASE HotChanges
    BY <2>6 DEF HotChanges, Inputs, rule
  <2>7. CASE CappedChanges
    BY <2>7 DEF CappedChanges, Inputs, rule
  <2>8. CASE BrokenChanges
    BY <2>8 DEF BrokenChanges, Inputs, rule
  <2>9. CASE UNCHANGED vars
    BY <2>9 DEF vars, Inputs, rule, cooldown
  <2> QED BY <2>1, <2>2, <2>3, <2>4, <2>5, <2>6, <2>7, <2>8, <2>9 DEF Next
<1> QED BY <1>1, <1>2, PTL DEF Spec

-----------------------------------------------------------------------------
(* What a decision can choose from.                                        *)

\* What an entry offers comes from one selection.
LEMMA EntryFacts ==
    ASSUME NEW e \in Entry
    PROVE  /\ IsFiniteSet(e.points) /\ e.points \subseteq PointLike
           /\ Usable(e.points) /\ OnePerSlug(e.points)
           /\ EntrySlugs(e) \subseteq Slugs
           /\ Ranking[e.points] = Rankings(e.points, Tolerance)
           /\ e.winner \in EntrySlugs(e) \cup {NoSlug}
           /\ Excluded # {} => \A s \in EntrySlugs(e) :
                  OrgOf[s] \notin e.excluded /\ OrgOf[s] \in e.allowed
<1>1. PICK poll \in Polls, list \in Lists \cup {NoList} :
              /\ e.points = Select(poll, list).points
              /\ e.excluded = Select(poll, list).excluded
              /\ e.allowed = Select(poll, list).allowed
              /\ e.winner \in SlugsOf(e.points) \cup {NoSlug}
              /\ e.stale \in BOOLEAN
  BY EntryMade
<1>2. EntrySlugs(e) = SlugsOf(e.points)
  BY DEF EntrySlugs, SlugsOf
<1>3. /\ IsFiniteSet(e.points) /\ e.points \subseteq PointLike /\ SlugsOf(e.points) \subseteq Slugs
      /\ Usable(e.points) /\ OnePerSlug(e.points)
  BY <1>1, SelectionPoints, SelectionWalkable
<1>4. Ranking[e.points] = Rankings(e.points, Tolerance)
  <2>1. e.points \in {Selections[p][l].points : p \in Polls, l \in Lists \cup {NoList}}
    BY <1>1, SelectionOf
  <2> QED BY <2>1 DEF Ranking
<1>5. ASSUME Excluded # {}, NEW s \in EntrySlugs(e)
      PROVE  OrgOf[s] \notin e.excluded /\ OrgOf[s] \in e.allowed
  <2>1. PICK p \in Select(poll, list).points : s = p.slug
    BY <1>1, <1>5 DEF EntrySlugs
  <2> QED BY <1>1, <1>5, <2>1, SelectionRegions
<1> QED BY <1>1, <1>2, <1>3, <1>4, <1>5

\* The walk goes over what the entry offers and is not refused.
LEMMA CandidatesOf ==
    ASSUME NEW e \in Entry, NEW refused
    PROVE  /\ OrderedCandidates(e, refused) \in Seq(Slugs)
           /\ Range(OrderedCandidates(e, refused)) = EntrySlugs(e) \ refused
<1> DEFINE left == {p \in e.points : p.slug \notin refused}
           ranked == Rankings(e.points, Tolerance)[left]
<1>1. /\ IsFiniteSet(e.points) /\ e.points \subseteq PointLike
      /\ SlugsOf(e.points) \subseteq Slugs
      /\ OrderedCandidates(e, refused) = ranked
  BY EntryFacts DEF OrderedCandidates, EntrySlugs, SlugsOf
<1>2. left \in SUBSET e.points
  OBVIOUS
<1>3. ranked \in Seq(SlugsOf(e.points)) /\ Range(ranked) = SlugsOf(left)
  <2> HIDE DEF left
  <2> QED BY <1>1, <1>2, RankingsComplete
<1>4. SlugsOf(left) = EntrySlugs(e) \ refused
  BY DEF SlugsOf, EntrySlugs
<1>5. ranked \in Seq(Slugs)
  <2> HIDE DEF ranked
  <2> QED BY <1>1, <1>3
<1> HIDE DEF ranked, left
<1> QED BY <1>1, <1>3, <1>4, <1>5

LEMMA MinOf ==
    ASSUME NEW s, s # {}, s \subseteq Nat
    PROVE  Min(s) \in s /\ \A x \in s : Min(s) <= x
<1>1. \E x \in s : \A y \in s : x <= y
  <2>1. PICK x \in s : \A y \in s : <<y, x>> \notin OpToRel(<, Nat)
    BY NatLessThanWellFounded, WFMin
  <2>2. \A y \in s : ~(y < x)
    BY <2>1 DEF OpToRel
  <2> QED BY <2>2
<1> QED BY <1>1 DEF Min

\* The first of some elements of a sequence is one of them, and none stands
\* before it.
LEMMA FirstIsOne ==
    ASSUME NEW A, NEW slugs \in Seq(A), NEW some, some \cap Range(slugs) # {}
    PROVE  /\ FirstOf(slugs, some) \in some \cap Range(slugs)
           /\ \E i \in 1..Len(slugs) : /\ FirstOf(slugs, some) = slugs[i]
                                       /\ \A j \in 1..(i - 1) : slugs[j] \notin some
<1> DEFINE positions == {i \in 1..Len(slugs) : slugs[i] \in some}
           first     == Min(positions)
<1>1. positions # {} /\ positions \subseteq Nat /\ DOMAIN slugs = 1..Len(slugs)
  BY DEF Range
<1>2. first \in positions /\ \A x \in positions : first <= x
  <2> HIDE DEF positions
  <2> QED BY <1>1, MinOf
<1>3. FirstOf(slugs, some) = slugs[first]
  BY <1>1 DEF FirstOf, SelectInSeq
<1> HIDE DEF first
<1>4. ASSUME NEW j \in 1..(first - 1) PROVE slugs[j] \notin some
  BY <1>2
<1> QED BY <1>1, <1>2, <1>3, <1>4 DEF Range

LEMMA FallbackRange == Fallback \in Seq(Slugs) /\ Range(Fallback) \subseteq Slugs
BY RouteAssumption DEF Range

-----------------------------------------------------------------------------
(* What makes a decision right, in the state it is taken in.               *)

\* Options, before the decision.
Choosable(e, healthy) ==
    IF ~wildcard THEN {s \in EntrySlugs(e) : \E d \in healthy : s \in d.slugs /\ DeploymentRegionOk(d, e)}
    ELSE IF Warm(e) THEN EntrySlugs(e)
    ELSE {s \in Range(Fallback) : RegionAllows(s, e)}

\* Verified, before the decision.
Cleared(set, e) ==
    IF e = NoEntry
      THEN policy = "trust_fallback" /\ set \subseteq Range(Fallback)
      ELSE \A s \in set : OrgOf[s] \notin e.excluded /\ (AllowUnknown \/ OrgOf[s] \in e.allowed)

\* Nobody the region policy rejects may be on a deployment's wire.
Permitted(d, set, e) ==
    \/ Cleared(set, e)
    \/ /\ ~wildcard /\ ~d.sent /\ set = Wire(d)
       /\ IF d.slugs = {} THEN AllowUnknown /\ e # NoEntry ELSE Cleared(d.slugs, e)

\* A healthy deployment is narrowed, to the slug if there is one, or left alone.
Authorised(wire, slug, healthy) ==
    \A d \in DOMAIN wire :
        /\ d \in healthy
        /\ wire[d] \subseteq Wire(d)
        /\ slug # NoSlug => \/ /\ wire[d] = {slug}
                               /\ slug \in d.slugs
                            \/ ~d.sent /\ \A x \in DOMAIN wire : x.slugs = {slug}

\* A point of the slug is well chosen among those free of skips.
Best(slug, some, e) == \E w \in e.points : w.slug = slug /\ WellChosen(w, Free(some, e), Tolerance)

Right(slug, reason, wire, e, healthy) ==
    /\ wildcard /\ slug # NoSlug => ~Unusable(slug)
    /\ Excluded # {} /\ reason # "unpinned" => \A d \in DOMAIN wire : Permitted(d, wire[d], e)
    /\ wildcard /\ reason \in {"all_hot", "declined"} =>
           e = NoDecision \/ \A s \in Choosable(e, healthy) : Unusable(s)
    /\ wildcard /\ reason = "all_hot" => \E s \in Choosable(e, healthy) : Unusable(s)
    /\ slug # NoSlug /\ Skipped(slug) => \A s \in Choosable(e, healthy) : Unusable(s) \/ s \in capped
    /\ ~wildcard /\ reason # "unpinned" => Authorised(wire, slug, healthy)
    /\ slug # NoSlug /\ Warm(e) => Best(slug, Choosable(e, healthy), e)

\* The properties the runs check of a decision.
Sound ==
    /\ RoutedIsUsable /\ RegionHonoured /\ RefusalsAreEarned /\ SkippedIsLastResort /\ NeverWidened
    /\ PinnedIsWellChosen

\* A decision that is right when taken is sound.
LEMMA RightIsSound ==
    ASSUME NEW slug, NEW reason, NEW region, NEW wire, NEW e, NEW healthy,
           Decide(slug, reason, region, wire, e, healthy), Right(slug, reason, wire, e, healthy)
    PROVE  Sound'
<1>1. /\ decision'.slug = slug /\ decision'.reason = reason /\ decision'.wire = wire
      /\ decision'.seen = e /\ decision'.healthy = healthy
  BY DEF Decide
<1>2. /\ wildcard' = wildcard /\ policy' = policy /\ entry' = entry /\ allowlist' = allowlist
      /\ hot' = hot /\ capped' = capped /\ broken' = broken
  BY DEF Decide, rule, cooldown
<1>3. \A s : Unusable(s)' <=> Unusable(s)
  BY <1>2 DEF Unusable
<1>4. \A s : Skipped(s)' <=> Skipped(s)
  BY <1>2 DEF Skipped
<1>5. \A s, x : RegionAllows(s, x)' <=> RegionAllows(s, x)
  BY <1>2 DEF RegionAllows, RegionVerdict
<1>6. \A d, x : DeploymentRegionOk(d, x)' <=> DeploymentRegionOk(d, x)
  BY <1>5 DEF DeploymentRegionOk
<1>7. Options' = Choosable(e, healthy)
  BY <1>1, <1>2, <1>5, <1>6 DEF Options, Choosable
<1>8. (Pinned' => slug # NoSlug)
  BY <1>1 DEF Pinned
<1>9. RoutedIsUsable'
  BY <1>1, <1>2, <1>3, <1>8 DEF Right, RoutedIsUsable
<1>10. RegionHonoured'
  BY <1>1, <1>2 DEF Right, RegionHonoured, Verified, Permitted, Cleared
<1>11. RefusalsAreEarned'
  BY <1>1, <1>2, <1>3, <1>7 DEF Right, RefusalsAreEarned
<1>12. SkippedIsLastResort'
  BY <1>1, <1>2, <1>3, <1>4, <1>7, <1>8 DEF Right, SkippedIsLastResort
<1>13. NeverWidened'
  BY <1>1, <1>2 DEF Right, NeverWidened, Authorised, Pinned
<1>14. PinnedIsWellChosen'
  <2>1. Warm(decision.seen)' <=> Warm(e)
    BY <1>1 DEF Warm
  <2>2. \A some, x : Free(some, x)' = Free(some, x)
    BY <1>2, <1>3 DEF Free
  <2>3. Free(Options, decision.seen)' = Free(Choosable(e, healthy), e)
    BY <1>1, <1>7, <2>2
  <2>4. Pinned' => slug # NoSlug
    BY <1>8
  <2> QED BY <1>1, <2>1, <2>3, <2>4 DEF Right, PinnedIsWellChosen, Best
<1> QED BY <1>9, <1>10, <1>11, <1>12, <1>13, <1>14 DEF Sound

\* The hard skips, in the words of the property.
LEMMA RefusedUnusable == \A s : Refused(s) <=> Unusable(s)
BY DEF Refused, Unusable, AllowlistAllows, ProviderExcluded

LEMMA RegionPermits ==
    ASSUME NEW e, NEW s, Excluded # {}, RegionAllows(s, e), e = NoEntry => s \in Range(Fallback)
    PROVE  Cleared({s}, e)
BY DEF Cleared, RegionAllows, RegionVerdict

LEMMA EntryPermits ==
    ASSUME NEW e \in Entry, e # NoEntry, NEW s \in EntrySlugs(e), Excluded # {}
    PROVE  Cleared({s}, e)
BY EntryFacts DEF Cleared

\* Rewritten copies go out to the pinned provider alone.
LEMMA CopiesPermitted ==
    ASSUME NEW deployments, NEW s, NEW e, Cleared({s}, e)
    PROVE  \A d \in DOMAIN WithProviderOnly(deployments, s) :
              Permitted(d, WithProviderOnly(deployments, s)[d], e)
BY DEF WithProviderOnly, Permitted

\* The first wanted slug of a walk is well chosen if everything free of skips
\* was walked over and wanted.
LEMMA FirstIsBest ==
    ASSUME NEW e \in Entry, NEW refused, NEW wanted, NEW some,
           wanted \cap Range(OrderedCandidates(e, refused)) # {},
           \A s \in some \cap EntrySlugs(e) :
              Unusable(s) \/ s \in capped \/ (s \in wanted /\ s \notin refused)
    PROVE  Best(FirstOf(OrderedCandidates(e, refused), wanted), some, e)
<1> DEFINE left   == {p \in e.points : p.slug \notin refused}
           ranked == OrderedCandidates(e, refused)
           first  == FirstOf(ranked, wanted)
<1>1. /\ IsFiniteSet(e.points) /\ Usable(e.points) /\ OnePerSlug(e.points)
      /\ ranked = Rankings(e.points, Tolerance)[left]
  BY EntryFacts DEF OrderedCandidates
<1>2. ranked \in Seq(Slugs) /\ Range(ranked) = EntrySlugs(e) \ refused
  BY CandidatesOf
<1>3. left \in SUBSET e.points /\ Tolerance \in Nat
  BY RuleAssumption
<1>4. \A i \in 1..Len(ranked), w \in left :
         w.slug = ranked[i] => WellChosen(w, Unranked(left, ranked, i), Tolerance)
  <2> HIDE DEF left
  <2> QED BY <1>1, <1>3, RankingsChooseWell
<1> HIDE DEF ranked
<1>5. /\ first \in Range(ranked)
      /\ \E i \in 1..Len(ranked) : first = ranked[i] /\ \A j \in 1..(i - 1) : ranked[j] \notin wanted
  BY <1>2, FirstIsOne DEF ranked
<1>6. PICK i \in 1..Len(ranked) : first = ranked[i] /\ \A j \in 1..(i - 1) : ranked[j] \notin wanted
  BY <1>5
<1>7. PICK w \in left : w.slug = first
  <2> HIDE DEF first
  <2> QED BY <1>2, <1>5 DEF EntrySlugs
<1> HIDE DEF first
<1>8. WellChosen(w, Unranked(left, ranked, i), Tolerance)
  BY <1>4, <1>6, <1>7
<1>9. ASSUME NEW q \in Free(some, e) PROVE q \in Unranked(left, ranked, i)
  <2>1. q \in e.points /\ q.slug \in wanted /\ q.slug \notin refused
    BY DEF Free, EntrySlugs
  <2> QED BY <1>6, <2>1 DEF Unranked
<1>10. WellChosen(w, Free(some, e), Tolerance)
  BY <1>8, <1>9 DEF WellChosen
<1> QED BY <1>7, <1>10 DEF Best, first, ranked

\* A refusal sends nothing.
LEMMA NothingSent == DOMAIN <<>> = {} /\ \A slug, healthy : Authorised(<<>>, slug, healthy)
BY DEF Authorised

\* Where nothing is free of skips, whatever is pinned will do.
LEMMA AnyIsBest ==
    ASSUME NEW e, NEW s \in EntrySlugs(e), NEW some, \A t \in some : Unusable(t) \/ t \in capped
    PROVE  Best(s, some, e)
<1>1. Free(some, e) = {}
  BY DEF Free
<1> QED BY <1>1 DEF Best, WellChosen, EntrySlugs

-----------------------------------------------------------------------------
(* The decisions, one by one.                                              *)

LEMMA StrictStep ==
    ASSUME RefuseStrict
    PROVE  Sound'
<1>1. Decide(NoSlug, "declined", "-", <<>>, NoDecision, {})
  BY DEF RefuseStrict, Decline
<1>2. Right(NoSlug, "declined", <<>>, NoDecision, {})
  BY NothingSent DEF Right
<1> QED BY <1>1, <1>2, RightIsSound

\* A wildcard pin is sound if it may be chosen, is cleared and is the best left.
LEMMA InjectedIsSound ==
    ASSUME wildcard, NEW s, NEW reason, NEW e, Inject(s, reason, e),
           reason \notin {"all_hot", "declined"}, ~Unusable(s),
           Excluded # {} => Cleared({s}, e),
           Skipped(s) => \A t \in Choosable(e, {Anonymous}) : Unusable(t) \/ t \in capped,
           Warm(e) => Best(s, Choosable(e, {Anonymous}), e)
    PROVE  Sound'
<1> DEFINE wire == WithProviderOnly({Anonymous}, s)
<1>1. Excluded # {} => \A d \in DOMAIN wire : Permitted(d, wire[d], e)
  BY CopiesPermitted
<1> HIDE DEF wire
<1>2. Right(s, reason, wire, e, {Anonymous})
  BY <1>1 DEF Right
<1> QED BY <1>2, RightIsSound DEF Inject, Pin, wire

LEMMA RefusedIsSound ==
    ASSUME wildcard, NEW reason, reason \in {"all_hot", "declined"}, NEW region, NEW e,
           Refuse(reason, region, e),
           \A s \in Choosable(e, {Anonymous}) : Unusable(s),
           reason = "all_hot" => Choosable(e, {Anonymous}) # {}
    PROVE  Sound'
<1>1. Right(NoSlug, reason, <<>>, e, {Anonymous})
  BY NothingSent DEF Right
<1> QED BY <1>1, RightIsSound DEF Refuse, Decline

\* Where OpenRouter picks, only the policy is promised.
LEMMA CededIsSound ==
    ASSUME NEW e, NEW healthy, Cede(e, healthy)
    PROVE  Sound'
<1> DEFINE wire == [d \in healthy |-> AnyProvider]
<1> HIDE DEF wire
<1>1. Right(NoSlug, "unpinned", wire, e, healthy)
  BY DEF Right
<1> QED BY <1>1, RightIsSound DEF Cede, wire

LEMMA InjectStep ==
    ASSUME Inputs, wildcard, NEW e \in {entry, NoEntry}, InjectWinner(e)
    PROVE  Sound'
<1> DEFINE ranked == OrderedCandidates(e, {s \in EntrySlugs(e) : Refused(s)})
           usable == Range(ranked)
           first  == FirstOf(ranked, Uncapped(usable))
           last   == IF e.winner \in usable THEN e.winner ELSE Head(ranked)
<1>1. e \in Entry /\ e # NoEntry /\ Warm(e) /\ e.winner # NoSlug
  BY DEF InjectWinner, Warm, Inputs
<1>2. ranked \in Seq(Slugs) /\ usable = {s \in EntrySlugs(e) : ~Refused(s)}
  <2>1. /\ ranked \in Seq(Slugs)
        /\ Range(ranked) = EntrySlugs(e) \ {s \in EntrySlugs(e) : Refused(s)}
    BY <1>1, CandidatesOf
  <2> HIDE DEF ranked
  <2> QED BY <2>1
<1>3. Choosable(e, {Anonymous}) = EntrySlugs(e)
  BY <1>1 DEF Choosable
<1>4. \A s \in EntrySlugs(e) : s \in usable \/ Unusable(s)
  <2> HIDE DEF ranked
  <2> QED BY <1>2, RefusedUnusable
<1>5. ASSUME NEW s \in usable, NEW reason,
             reason \notin {"all_hot", "declined"},
             Skipped(s) => \A t \in EntrySlugs(e) : Unusable(t) \/ t \in capped,
             Best(s, EntrySlugs(e), e),
             Inject(s, reason, e)
      PROVE  Sound'
  <2>1. s \in EntrySlugs(e) /\ ~Unusable(s)
    <3> HIDE DEF ranked
    <3> QED BY <1>2, RefusedUnusable
  <2>2. Excluded # {} => Cleared({s}, e)
    BY <1>1, <2>1, EntryPermits
  <2> QED BY <1>3, <1>5, <2>1, <2>2, InjectedIsSound
<1>6. CASE usable = {} /\ Refuse("all_hot", DeclineRegion(e), e)
  <2>1. \A s \in EntrySlugs(e) : Unusable(s)
    BY <1>4, <1>6
  <2>2. e.winner \in EntrySlugs(e)
    BY <1>1, EntryFacts
  <2> QED BY <1>3, <1>6, <2>1, <2>2, RefusedIsSound
<1>7. CASE Uncapped(usable) # {} /\ Inject(first, PickReason(first, e), e)
  <2>1. first \in Uncapped(usable) /\ first \in usable
    <3>1. Uncapped(usable) \subseteq usable
      BY DEF Uncapped
    <3>2. Uncapped(usable) \cap Range(ranked) # {}
      BY <1>7, <3>1
    <3> HIDE DEF ranked
    <3> QED BY <1>2, <3>1, <3>2, FirstIsOne
  <2>2. ~Skipped(first)
    <3> HIDE DEF ranked, first
    <3> QED BY <1>2, <2>1 DEF Refused, Skipped, Uncapped
  <2>3. PickReason(first, e) \notin {"all_hot", "declined"}
    BY DEF PickReason
  <2>4. Best(first, EntrySlugs(e), e)
    <3>1. \A t \in EntrySlugs(e) :
             Unusable(t) \/ t \in capped
               \/ (t \in Uncapped(usable) /\ t \notin {s \in EntrySlugs(e) : Refused(s)})
      <4> HIDE DEF ranked
      <4> QED BY <1>2, RefusedUnusable DEF Uncapped
    <3>2. Uncapped(usable) \cap Range(ranked) # {}
      BY <1>7 DEF Uncapped
    <3> QED BY <1>1, <3>1, <3>2, FirstIsBest
  <2> HIDE DEF first, usable
  <2> QED BY <1>5, <1>7, <2>1, <2>2, <2>3, <2>4
<1>8. CASE /\ usable # {} /\ Uncapped(usable) = {}
           /\ Inject(last, "input_cap", e)
  <2>1. last \in usable
    <3>1. ranked # <<>>
      BY <1>8 DEF Range
    <3>2. Head(ranked) \in usable
      <4> HIDE DEF ranked
      <4> QED BY <1>2, <3>1 DEF Range
    <3> HIDE DEF ranked, usable
    <3> QED BY <3>2
  <2>2. \A t \in EntrySlugs(e) : Unusable(t) \/ t \in capped
    <3> HIDE DEF usable
    <3> QED BY <1>4, <1>8 DEF Uncapped
  <2>3. Best(last, EntrySlugs(e), e)
    <3>1. last \in EntrySlugs(e)
      <4> HIDE DEF ranked, last
      <4> QED BY <1>2, <2>1
    <3> HIDE DEF last
    <3> QED BY <2>2, <3>1, AnyIsBest
  <2>4. "input_cap" \notin {"all_hot", "declined"}
    OBVIOUS
  <2> HIDE DEF last, usable
  <2> QED BY <1>5, <1>8, <2>1, <2>2, <2>3, <2>4
<1> QED BY <1>6, <1>7, <1>8 DEF InjectWinner

LEMMA FallbackStep ==
    ASSUME Inputs, wildcard, NEW e \in {entry, NoEntry}, WildcardFallback(e)
    PROVE  Sound'
<1> DEFINE permitted == FallbackEligible(e)
           eligible  == permitted \ (hot \cup broken)
           uncapped  == Uncapped(eligible)
<1>1. ~Warm(e)
  BY DEF WildcardFallback
<1>2. Choosable(e, {Anonymous}) = {s \in Range(Fallback) : RegionAllows(s, e)}
  BY <1>1 DEF Choosable
<1>3. /\ permitted \subseteq Choosable(e, {Anonymous})
      /\ \A s \in Choosable(e, {Anonymous}) : s \in permitted \/ Unusable(s)
  BY <1>2 DEF FallbackEligible, Unusable, AllowlistAllows, ProviderExcluded
<1>4. \A s \in permitted : s \in eligible \/ Unusable(s)
  BY DEF Unusable
<1>5. \A s \in eligible : s \in permitted /\ s \notin hot /\ s \notin broken /\ ~Unusable(s)
  BY DEF FallbackEligible, Unusable, AllowlistAllows, ProviderExcluded
<1>6. permitted \subseteq Range(Fallback) /\ \A s \in permitted : RegionAllows(s, e)
  BY DEF FallbackEligible
<1> HIDE DEF permitted, eligible
<1>7. ASSUME NEW s \in eligible, NEW reason,
             reason \notin {"all_hot", "declined"},
             Skipped(s) => \A t \in eligible : t \in capped,
             Inject(s, reason, e)
      PROVE  Sound'
  <2>1. Excluded # {} => Cleared({s}, e)
    BY <1>5, <1>6, <1>7, RegionPermits
  <2>2. Skipped(s) => \A t \in Choosable(e, {Anonymous}) : Unusable(t) \/ t \in capped
    BY <1>3, <1>4, <1>7
  <2> QED BY <1>1, <1>5, <1>7, <2>1, <2>2, InjectedIsSound
<1>8. ASSUME NEW some \in SUBSET eligible, some # {}
      PROVE  FirstOf(Fallback, some) \in some
  <2>1. some \cap Range(Fallback) # {}
    BY <1>5, <1>6, <1>8
  <2> QED BY <2>1, FallbackRange, FirstIsOne
<1>9. CASE uncapped # {} /\ Inject(FirstOf(Fallback, uncapped), "cold_start", e)
  <2> DEFINE first == FirstOf(Fallback, uncapped)
  <2>1. first \in uncapped
    BY <1>8, <1>9 DEF Uncapped
  <2>2. first \in eligible /\ ~Skipped(first)
    <3> HIDE DEF first
    <3> QED BY <1>5, <2>1 DEF Uncapped, Skipped
  <2> HIDE DEF first
  <2> QED BY <1>7, <1>9, <2>2 DEF first
<1>10. CASE eligible # {} /\ uncapped = {} /\ Inject(FirstOf(Fallback, eligible), "input_cap", e)
  <2> DEFINE first == FirstOf(Fallback, eligible)
  <2>1. first \in eligible
    BY <1>8, <1>10
  <2>2. \A t \in eligible : t \in capped
    BY <1>10 DEF Uncapped
  <2>3. "input_cap" \notin {"all_hot", "declined"}
    OBVIOUS
  <2> HIDE DEF first
  <2> QED BY <1>7, <1>10, <2>1, <2>2, <2>3 DEF first
<1>11. CASE eligible = {} /\ permitted # {} /\ Refuse("all_hot", "-", e)
  <2>1. \A s \in Choosable(e, {Anonymous}) : Unusable(s)
    BY <1>3, <1>4, <1>11
  <2>2. Choosable(e, {Anonymous}) # {}
    BY <1>3, <1>11
  <2> QED BY <1>11, <2>1, <2>2, RefusedIsSound
<1>12. CASE Cede(e, {Anonymous})
  BY <1>12, CededIsSound
<1>13. CASE permitted = {} /\ Refuse("declined", DeclineRegion(e), e)
  <2>1. \A s \in Choosable(e, {Anonymous}) : Unusable(s)
    BY <1>3, <1>13
  <2> QED BY <1>13, <2>1, RefusedIsSound
<1> QED BY <1>9, <1>10, <1>11, <1>12, <1>13 DEF WildcardFallback, permitted, eligible

\* What a deployment is known by, it lets OpenRouter choose, and no more if it
\* sends it.
LEMMA Wires ==
    ASSUME NEW d \in Deployments
    PROVE  /\ d.slugs \subseteq Wire(d)
           /\ d.sent \in BOOLEAN
           /\ IF d.sent THEN Wire(d) = d.slugs /\ d.slugs # {} ELSE Wire(d) = AnyProvider
<1>1. d \in Deployment /\ (d.sent => d.slugs # {})
  BY RouteAssumption
<1> QED BY <1>1 DEF Deployment, Wire, AnyProvider

LEMMA NarrowStep ==
    ASSUME Inputs, ~wildcard, NEW e \in {entry, NoEntry},
           NEW healthy \in (SUBSET Deployments) \ {{}}, Narrow(e, healthy)
    PROVE  Sound'
<1> DEFINE permitted == RegionEligible(e, healthy)
           preferred == Preferred(e)
           matching  == {s \in Range(preferred) : Offering(permitted, s) # {}}
           match     == FirstOf(preferred, matching)
<1>1. permitted \subseteq healthy /\ permitted \subseteq Deployments
  BY DEF RegionEligible
<1>2. ASSUME Excluded # {}, NEW d \in permitted
      PROVE  Permitted(d, Wire(d), e)
  <2>1. CASE e = NoEntry
    <3>1. d.slugs # {} /\ Cleared(d.slugs, e)
      BY <1>2, <2>1 DEF RegionEligible, UsableDeployment, Cleared
    <3>2. d \in Deployments /\ ~wildcard
      BY <1>1, <1>2
    <3> HIDE DEF permitted
    <3> QED BY <3>1, <3>2, Wires DEF Permitted
  <2>2. CASE e # NoEntry /\ d.slugs = {}
    <3>1. AllowUnknown /\ ~d.sent
      BY <1>1, <1>2, <2>2, Wires DEF RegionEligible, DeploymentRegionOk
    <3> QED BY <2>2, <3>1 DEF Permitted
  <2>3. CASE e # NoEntry /\ d.slugs # {}
    <3>1. \A s \in d.slugs : RegionAllows(s, e)
      BY <1>2, <2>3 DEF RegionEligible, DeploymentRegionOk
    <3>2. Cleared(d.slugs, e)
      BY <1>2, <2>3, <3>1 DEF Cleared, RegionAllows, RegionVerdict
    <3> QED BY <1>1, <2>3, <3>2, Wires DEF Permitted
  <2> QED BY <2>1, <2>2, <2>3
<1>4. ASSUME Cede(e, healthy) PROVE Sound'
  BY <1>4, CededIsSound
<1>5. ASSUME Decline("declined", DeclineRegion(e), e, healthy) PROVE Sound'
  <2>1. Right(NoSlug, "declined", <<>>, e, healthy)
    BY NothingSent DEF Right
  <2> QED BY <1>5, <2>1, RightIsSound DEF Decline
<1>6. ASSUME PassThrough(permitted, e, healthy) PROVE Sound'
  <2> DEFINE wire == AsSent(permitted)
  <2>1. DOMAIN wire = permitted /\ \A d \in permitted : wire[d] = Wire(d)
    BY DEF AsSent
  <2> HIDE DEF wire
  <2>2. Excluded # {} => \A d \in DOMAIN wire : Permitted(d, wire[d], e)
    BY <1>2, <2>1
  <2>3. Authorised(wire, NoSlug, healthy)
    BY <1>1, <2>1 DEF Authorised
  <2>4. Right(NoSlug, "pass_through", wire, e, healthy)
    BY <2>2, <2>3 DEF Right
  <2> QED BY <1>6, <2>4, RightIsSound DEF PassThrough, wire
<1>7. ASSUME e \in Entry, e # NoEntry, NEW s \in Choosable(e, healthy)
      PROVE  s \in EntrySlugs(e) /\ Offering(permitted, s) # {}
  <2>1. PICK d \in healthy : s \in d.slugs /\ DeploymentRegionOk(d, e)
    BY DEF Choosable
  <2>2. d \in permitted
    BY <1>7, <2>1 DEF RegionEligible
  <2> QED BY <2>1, <2>2 DEF Choosable, Offering
<1>p. ASSUME NEW s \in Slugs, s # NoSlug, NEW reason, Warm(e), reason \notin {"all_hot", "declined"},
             Excluded # {} => Cleared({s}, e),
             Skipped(s) => \A t \in Choosable(e, healthy) : Unusable(t) \/ t \in capped,
             Best(s, Choosable(e, healthy), e),
             Pin(s, reason, PinWinner(Offering(permitted, s), s), e, healthy)
      PROVE  Sound'
  <2> DEFINE those == Offering(permitted, s)
             wire  == PinWinner(those, s)
  <2>1. those \subseteq permitted /\ \A d \in those : s \in d.slugs
    BY DEF Offering
  <2>2. \/ wire = AsSent(those) /\ \A d \in those : d.slugs = {s}
        \/ wire = WithProviderOnly(those, s)
    BY DEF PinWinner
  <2> HIDE DEF those, wire, permitted
  <2>3. DOMAIN wire = those
    BY <2>2 DEF AsSent, WithProviderOnly
  <2>4. ASSUME NEW d \in those PROVE wire[d] = {s} \/ (wire[d] = Wire(d) /\ ~d.sent /\ \A x \in those : x.slugs = {s})
    BY <1>1, <2>1, <2>2, Wires DEF AsSent, WithProviderOnly
  <2>5. Excluded # {} => \A d \in DOMAIN wire : Permitted(d, wire[d], e)
    BY <1>2, <1>p, <2>1, <2>3, <2>4 DEF Permitted
  <2>6. \A d \in those : {s} \subseteq Wire(d)
    BY <1>1, <1>p, <2>1, Wires
  <2>7. Authorised(wire, s, healthy)
    BY <1>1, <2>1, <2>3, <2>4, <2>6 DEF Authorised
  <2>8. Right(s, reason, wire, e, healthy)
    BY <1>p, <2>5, <2>7 DEF Right
  <2> QED BY <1>p, <2>8, RightIsSound DEF Pin, those, wire
<1> HIDE DEF permitted
<1>8. ASSUME Warm(e), matching # {}, Pin(match, PickReason(match, e), PinWinner(Offering(permitted, match), match), e, healthy) PROVE Sound'
  <2>1. e \in Entry /\ e # NoEntry
    BY <1>8 DEF Warm, Inputs
  <2>2. /\ preferred \in Seq(Slugs)
        /\ Range(preferred) = EntrySlugs(e) \ {s \in EntrySlugs(e) : Refused(s) \/ s \in capped}
    BY <2>1, CandidatesOf DEF Preferred
  <2> HIDE DEF preferred
  <2>3. match \in matching
    BY <1>8, <2>2, FirstIsOne
  <2>4. match \in EntrySlugs(e) /\ match \in Slugs /\ ~Skipped(match)
    <3>1. match \in EntrySlugs(e) /\ ~Refused(match) /\ match \notin capped
      BY <2>2, <2>3
    <3> QED BY <2>1, <3>1, EntryFacts DEF Refused, Skipped
  <2>5. PickReason(match, e) \notin {"all_hot", "declined"} /\ match # NoSlug
    BY <2>4, RuleAssumption DEF PickReason
  <2>6. Excluded # {} => Cleared({match}, e)
    BY <2>1, <2>4, EntryPermits
  <2>7. Best(match, Choosable(e, healthy), e)
    <3> DEFINE refused == {s \in EntrySlugs(e) : Refused(s) \/ s \in capped}
    <3>1. \A s \in Choosable(e, healthy) :
             Unusable(s) \/ s \in capped \/ (s \in matching /\ s \notin refused)
      BY <1>7, <2>1, <2>2, RefusedUnusable
    <3>2. preferred = OrderedCandidates(e, refused)
      BY DEF preferred, Preferred
    <3>3. matching \cap Range(preferred) # {}
      BY <1>8
    <3> HIDE DEF matching, refused
    <3> QED BY <2>1, <3>1, <3>2, <3>3, FirstIsBest
  <2> HIDE DEF match
  <2> QED BY <1>p, <1>8, <2>4, <2>5, <2>6, <2>7
<1>9. ASSUME Warm(e), matching = {}, Offering(permitted, e.winner) # {},
             Excluded = {} \/ permitted # {},
             Pin(e.winner, "safe_set", PinWinner(Offering(permitted, e.winner), e.winner), e, healthy)
      PROVE  Sound'
  <2>1. e \in Entry /\ e # NoEntry /\ e.winner # NoSlug
    BY <1>9 DEF Warm, Inputs
  <2>2. e.winner \in EntrySlugs(e) /\ e.winner \in Slugs
    BY <2>1, EntryFacts
  <2>3. Range(preferred) = EntrySlugs(e) \ {s \in EntrySlugs(e) : Refused(s) \/ s \in capped}
    BY <2>1, CandidatesOf DEF Preferred
  <2> HIDE DEF preferred
  <2>4. ASSUME NEW s \in Choosable(e, healthy) PROVE Unusable(s) \/ s \in capped
    <3>1. s \in EntrySlugs(e) /\ Offering(permitted, s) # {}
      BY <1>7, <2>1, <2>4
    <3>2. s \notin Range(preferred)
      BY <1>9, <3>1
    <3> QED BY <2>3, <3>1, <3>2, RefusedUnusable
  <2>6. Excluded # {} => Cleared({e.winner}, e)
    BY <2>1, <2>2, EntryPermits
  <2>7. Best(e.winner, Choosable(e, healthy), e)
    BY <2>2, <2>4, AnyIsBest
  <2> QED BY <1>p, <1>9, <2>1, <2>2, <2>4, <2>6, <2>7
<1> QED BY <1>4, <1>5, <1>6, <1>8, <1>9 DEF Narrow, permitted

-----------------------------------------------------------------------------
(* The theorems.                                                           *)

LEMMA Undecided == ~Decided => Sound
BY DEF Decided, Pinned, Sound, RoutedIsUsable, RegionHonoured, RefusalsAreEarned,
       SkippedIsLastResort, NeverWidened, PinnedIsWellChosen

\* Every decision is sound, whatever came before it.
THEOREM Soundness == Spec => []Sound
<1>1. Init => Sound
  BY Undecided DEF Init, Decided
<1>2. Inputs /\ Sound /\ [Next]_vars => Sound'
  <2> SUFFICES ASSUME Inputs, Sound, [Next]_vars PROVE Sound'
    OBVIOUS
  <2>0. ~Decided' => Sound'
    BY Undecided, PTL
  <2>1. CASE FilterDeployments
    <3>1. CASE RefuseStrict
      BY <3>1, StrictStep
    <3>2. ASSUME NEW e \in {entry, NoEntry}, wildcard, InjectWinner(e) PROVE Sound'
      BY <3>2, InjectStep
    <3>3. ASSUME NEW e \in {entry, NoEntry}, wildcard, WildcardFallback(e) PROVE Sound'
      BY <3>3, FallbackStep
    <3>4. ASSUME NEW e \in {entry, NoEntry}, ~wildcard,
                 NEW healthy \in (SUBSET Deployments) \ {{}}, Narrow(e, healthy)
          PROVE  Sound'
      BY <3>4, NarrowStep
    <3> QED BY <2>1, <3>1, <3>2, <3>3, <3>4 DEF FilterDeployments
  <2>2. CASE UNCHANGED vars
    <3>1. UNCHANGED <<wildcard, policy, allowlist, hot, capped, broken, decision>>
      BY <2>2 DEF vars, rule, cooldown
    <3>2. /\ Decided' = Decided /\ Pinned' = Pinned /\ Options' = Options
          /\ \A s : Unusable(s)' = Unusable(s) /\ Skipped(s)' = Skipped(s)
      BY <3>1 DEF Decided, Pinned, Options, Unusable, Skipped, Warm,
                  RegionAllows, RegionVerdict, DeploymentRegionOk
    <3>3. PinnedIsWellChosen' = PinnedIsWellChosen
      BY <3>1, <3>2 DEF PinnedIsWellChosen, Warm, Best, Free
    <3> QED BY <3>1, <3>2, <3>3 DEF Sound, RoutedIsUsable, RegionHonoured, Verified, RefusalsAreEarned,
                                    SkippedIsLastResort, NeverWidened
  <2>3. CASE \/ Conclude \/ RefreshFails \/ AllowlistChanges \/ HotChanges \/ CappedChanges
             \/ BrokenChanges \/ \E poll \in Polls : Refresh(poll)
    <3>1. decision' = NoDecision
      BY <2>3 DEF Conclude, RefreshFails, AllowlistChanges, HotChanges, CappedChanges,
                  BrokenChanges, Refresh
    <3> QED BY <2>0, <3>1 DEF Decided
  <2> QED BY <2>1, <2>2, <2>3 DEF Next
<1> QED BY <1>1, <1>2, InputsInvariance, PTL DEF Spec

\* RoutedIsUsable holds for every rule and history: a pinned slug comes out of
\* a walk or a fallback list that the hard skips were taken from
\* (_inject_winner, _wildcard_fallback).
THEOREM RoutedIsUsableHolds == Spec => []RoutedIsUsable
<1>1. Sound => RoutedIsUsable
  BY DEF Sound
<1> QED BY <1>1, Soundness, PTL

\* RegionHonoured holds for every rule and history: what an entry offers was
\* verified when its poll was judged, and a deployment or a fallback is held
\* against the same evidence (_region_eligible, _region_verdict).
THEOREM RegionHonouredHolds == Spec => []RegionHonoured
<1>1. Sound => RegionHonoured
  BY DEF Sound
<1> QED BY <1>1, Soundness, PTL

\* RefusalsAreEarned holds for every rule and history: a refusal means that a
\* walk over every provider of the entry, or the whole fallback list, was left
\* with none (_inject_winner, _wildcard_fallback).
THEOREM RefusalsAreEarnedHolds == Spec => []RefusalsAreEarned
<1>1. Sound => RefusalsAreEarned
  BY DEF Sound
<1> QED BY <1>1, Soundness, PTL

\* SkippedIsLastResort holds for every rule and history: a ranking names every
\* provider that is not refused, so one free of skips would have been found
\* (_ordered_candidates, _narrow).
THEOREM SkippedIsLastResortHolds == Spec => []SkippedIsLastResort
<1>1. Sound => SkippedIsLastResort
  BY DEF Sound
<1> QED BY <1>1, Soundness, PTL

\* NeverWidened holds for every rule and history: what pinned mode pins, a
\* permitted deployment authorises (_pin_winner, _narrow).
THEOREM NeverWidenedHolds == Spec => []NeverWidened
<1>1. Sound => NeverWidened
  BY DEF Sound
<1> QED BY <1>1, Soundness, PTL

\* PinnedIsWellChosen holds for every rule and history: the first place of a
\* ranking that is still wanted is well chosen among all that come after it,
\* and what comes before it is refused, capped or nobody's (ranked_order,
\* _ordered_candidates).
THEOREM PinnedIsWellChosenHolds == Spec => []PinnedIsWellChosen
<1>1. Sound => PinnedIsWellChosen
  BY DEF Sound
<1> QED BY <1>1, Soundness, PTL
=============================================================================
