----------------------------- MODULE ScorerProofs -----------------------------
(***************************************************************************)
(* Proofs about Scorer.  The selection stays what Select made of the rows, *)
(* so the properties are facts about Select: those of the region policy    *)
(* are set algebra over the verdicts, and FastestAdmitted rests on a       *)
(* finite set of rows having a best one.  The winner is where the walk     *)
(* ends, of which TerminalChoosesWell speaks.                              *)
(***************************************************************************)
EXTENDS Scorer, ValueWalkProofs

\* What a poll holds, whatever reached it: a finite set of rows, and the
\* judgement of exactly these rows once there is one.
Judged ==
    /\ rows \subseteq Row
    /\ IsFiniteSet(rows)
    /\ selected \in BOOLEAN
    /\ selection = IF selected THEN Select(rows, list) ELSE NoSelection

\* Every poll is judged as a whole, and no row joins it afterwards.
THEOREM Invariance == Spec => []Judged
<1>1. Init => Judged
  BY FS_EmptySet DEF Init, Judged
<1>2. Judged /\ [Next]_vars => Judged'
  <2> SUFFICES ASSUME Judged, [Next]_vars PROVE Judged'
    OBVIOUS
  <2>1. ASSUME NEW r \in Row, Report(r) PROVE Judged'
    BY <2>1, FS_AddElement DEF Judged, Report
  <2>2. CASE SelectCandidates
    BY <2>2 DEF Judged, SelectCandidates
  <2>3. CASE UNCHANGED vars
    BY <2>3 DEF Judged, vars
  <2> QED BY <2>1, <2>2, <2>3 DEF Next
<1> QED BY <1>1, <1>2, PTL DEF Spec

\* The selection has its type, and one point for a slug at most: Better orders
\* any two points of a slug that differ (_dedup_best).
THEOREM TypeCorrect == Spec => []TypeOK
<1> DEFINE Listed == list \in Lists \cup {NoList}
<1>1. Init => Listed
  BY DEF Init
<1>2. Listed /\ [Next]_vars => Listed'
  BY DEF Next, Report, SelectCandidates, vars
<1>3. Judged /\ Listed => TypeOK
  <2> SUFFICES ASSUME Judged, Listed PROVE TypeOK
    OBVIOUS
  <2>1. CASE ~selected
    BY <2>1 DEF Judged, NoSelection, TypeOK
  <2>2. CASE selected
    <3> DEFINE candidates == Candidates(rows, list)
               point(r)   == [slug |-> r.slug, price |-> r.price, tps |-> r.tps]
    <3>1. /\ selection.points = Deduped(candidates)
          /\ selection.excluded = ExcludedBases(rows)
          /\ selection.allowed = AllowedBases(rows)
      BY <2>2 DEF Judged, Select
    <3>2. candidates \subseteq Row
      BY DEF Candidates, Judged
    <3>3. \A r \in Row : point(r) \in [slug : Slugs, price : Prices, tps : Speeds]
      BY DEF Row
    <3>4. selection.points \subseteq [slug : Slugs, price : Prices, tps : Speeds]
      BY <3>1, <3>2, <3>3 DEF Deduped
    <3>5. ASSUME NEW p \in selection.points, NEW q \in selection.points, p.slug = q.slug
          PROVE  p = q
      <4>1. ~Better(p, q) /\ ~Better(q, p)
        BY <3>1, <3>5 DEF Deduped
      <4>2. /\ p \in [slug : Slugs, price : Prices, tps : Speeds]
            /\ q \in [slug : Slugs, price : Prices, tps : Speeds]
        BY <3>4
      <4>3. /\ p.tps \in Nat /\ q.tps \in Nat /\ p.price \in Nat /\ q.price \in Nat
        BY <4>2, PollAssumption
      <4>4. p.tps = q.tps /\ p.price = q.price
        BY <4>1, <4>3 DEF Better
      <4> QED BY <3>5, <4>2, <4>4
    <3>6. Polled(rows) \subseteq Orgs
      BY DEF Polled, Orgs, Judged, Row
    <3>7. selection.excluded \subseteq Orgs /\ selection.allowed \subseteq Orgs
      BY <3>1, <3>6 DEF ExcludedBases, AllowedBases
    <3> QED BY <3>4, <3>5, <3>7 DEF Judged, TypeOK
  <2> QED BY <2>1, <2>2 DEF Judged
<1> QED BY Invariance, <1>1, <1>2, <1>3, PTL DEF Spec

\* A row that belongs to an organisation counts among its verdicts.
LEMMA VerdictCounts ==
    ASSUME NEW r \in rows
    PROVE  Verdict(r.geo) \in VerdictsOn(rows, OrgOf[r.slug])
BY DEF VerdictsOn

\* What is chosen stems from a candidate.
LEMMA ChosenIsCandidate ==
    ASSUME NEW some, NEW l, NEW p \in Select(some, l).points
    PROVE  \E r \in Candidates(some, l) : p = [slug |-> r.slug, price |-> r.price, tps |-> r.tps]
BY DEF Select, Deduped

-----------------------------------------------------------------------------
\* OnlyVerified holds for every rule and every poll: the filter on
\* organisations leaves none with an endpoint that the policy rejects
\* (_excluded_bases, _stage1).
THEOREM OnlyVerifiedHolds == Spec => []OnlyVerified
<1>1. Judged => OnlyVerified
  <2> SUFFICES ASSUME Judged, NEW p \in selection.points, NEW r \in rows,
                      OrgOf[r.slug] = OrgOf[p.slug]
               PROVE  /\ r.geo.hq \notin Excluded
                      /\ r.geo.dcs \cap Excluded = {}
                      /\ Excluded = {} \/ AllowUnknown
                           \/ (r.geo.hq # Blank /\ r.geo.dcs # {} /\ Blank \notin r.geo.dcs)
    BY DEF OnlyVerified
  <2>1. selected /\ p \in Select(rows, list).points
    BY DEF Judged, NoSelection
  <2>2. PICK c \in Candidates(rows, list) : p = [slug |-> c.slug, price |-> c.price, tps |-> c.tps]
    BY <2>1, ChosenIsCandidate
  <2>3. OrgOf[r.slug] \notin ExcludedBases(rows)
    BY <2>2 DEF Candidates
  <2>4. CASE Excluded = {}
    BY <2>4
  <2>5. CASE Excluded # {}
    <3>1. OrgOf[r.slug] \in Polled(rows)
      BY DEF Polled
    <3>2. VerdictsOn(rows, OrgOf[r.slug])
            \cap (IF AllowUnknown THEN {"excluded"} ELSE {"excluded", "unknown"}) = {}
      BY <2>3, <2>5, <3>1 DEF ExcludedBases
    <3>3. Verdict(r.geo) \notin (IF AllowUnknown THEN {"excluded"} ELSE {"excluded", "unknown"})
      BY <3>2, VerdictCounts
    <3>4. Verdict(r.geo) # "excluded"
      BY <3>3
    <3>5. AllowUnknown \/ Verdict(r.geo) # "unknown"
      BY <3>3
    <3> QED BY <3>4, <3>5 DEF Verdict
  <2> QED BY <2>4, <2>5
<1> QED BY <1>1, Invariance, PTL

\* VerdictsPartition holds for every rule and every poll: a verdict is one of
\* three, so what is not dropped by one list is admitted by the other
\* (_excluded_bases, _allowed_bases).
THEOREM VerdictsPartitionHolds == Spec => []VerdictsPartition
<1>1. Judged => VerdictsPartition
  <2> SUFFICES ASSUME Judged, selected, Excluded # {}
               PROVE  /\ selection.excluded \cap selection.allowed = {}
                      /\ selection.excluded \cup selection.allowed = Polled(rows)
                      /\ \A p \in selection.points : OrgOf[p.slug] \in selection.allowed
    BY DEF VerdictsPartition
  <2> DEFINE drop == IF AllowUnknown THEN {"excluded"} ELSE {"excluded", "unknown"}
             ok   == IF AllowUnknown THEN {"allowed", "unknown"} ELSE {"allowed"}
  <2>1. /\ selection = Select(rows, list)
        /\ selection.excluded = {org \in Polled(rows) : VerdictsOn(rows, org) \cap drop # {}}
        /\ selection.allowed = {org \in Polled(rows) : VerdictsOn(rows, org) \subseteq ok}
    BY DEF Judged, Select, ExcludedBases, AllowedBases
  <2>2. \A org : VerdictsOn(rows, org) \subseteq {"excluded", "allowed", "unknown"}
    BY DEF VerdictsOn, Verdict
  <2>3. \A org \in Polled(rows) :
           VerdictsOn(rows, org) \subseteq ok <=> VerdictsOn(rows, org) \cap drop = {}
    <3>1. ok = {"excluded", "allowed", "unknown"} \ drop
      OBVIOUS
    <3> QED BY <2>2, <3>1
  <2>4. \A p \in selection.points : OrgOf[p.slug] \in selection.allowed
    <3> SUFFICES ASSUME NEW p \in selection.points PROVE OrgOf[p.slug] \in selection.allowed
      OBVIOUS
    <3>1. PICK c \in Candidates(rows, list) : p = [slug |-> c.slug, price |-> c.price, tps |-> c.tps]
      BY <2>1, ChosenIsCandidate
    <3>2. OrgOf[p.slug] \in Polled(rows) /\ OrgOf[p.slug] \notin selection.excluded
      BY <2>1, <3>1 DEF Candidates, Polled, Select
    <3> QED BY <2>1, <2>3, <3>2
  <2> QED BY <2>1, <2>3, <2>4
<1> QED BY <1>1, Invariance, PTL

-----------------------------------------------------------------------------
\* A finite set that is not empty has a minimal element under every order.
LEMMA FiniteHasMinimal ==
    ASSUME NEW S, IsFiniteSet(S), S # {}, NEW R,
           \A x \in S : <<x, x>> \notin R,
           \A x, y, z \in S : <<x, y>> \in R /\ <<y, z>> \in R => <<x, z>> \in R
    PROVE  \E x \in S : \A y \in S : <<y, x>> \notin R
<1> DEFINE below(x) == {y \in S : <<y, x>> \in R}
           family   == {below(x) : x \in S}
<1>1. family \subseteq FiniteSubsetsOf(S) /\ family # {}
  <2>1. ASSUME NEW x \in S PROVE below(x) \in SUBSET S /\ IsFiniteSet(below(x))
    <3>1. below(x) \subseteq S
      OBVIOUS
    <3> HIDE DEF below
    <3> QED BY <3>1, FS_Subset
  <2>2. ASSUME NEW f \in family PROVE f \in FiniteSubsetsOf(S)
    <3>1. PICK x \in S : f = below(x)
      OBVIOUS
    <3> QED BY <2>1, <3>1 DEF FiniteSubsetsOf
  <2>3. family # {}
    <3>1. PICK x \in S : TRUE
      OBVIOUS
    <3>2. below(x) \in family
      OBVIOUS
    <3> QED BY <3>2
  <2> QED BY <2>2, <2>3
<1>2. PICK f \in family : \A g \in family : <<g, f>> \notin StrictSubsetOrdering(S)
  <2> HIDE DEF family
  <2> QED BY <1>1, FS_StrictSubsetOrderingWellFounded, WFMin
<1>3. PICK x \in S : f = below(x)
  OBVIOUS
<1>4. ASSUME NEW y \in S, <<y, x>> \in R PROVE FALSE
  <2>1. below(y) \subseteq below(x)
    BY <1>4
  <2>2. y \in below(x) /\ y \notin below(y)
    BY <1>4
  <2>3. <<below(y), below(x)>> \in StrictSubsetOrdering(S)
    BY <2>1, <2>2 DEF StrictSubsetOrdering
  <2>4. below(y) \in family
    OBVIOUS
  <2> QED BY <1>2, <1>3, <2>3, <2>4
<1> QED BY <1>4

\* Of a finite set of rows that is not empty, one is beaten by no other.
LEMMA BestRow ==
    ASSUME NEW S, S \subseteq Row, IsFiniteSet(S), S # {}
    PROVE  \E x \in S : \A y \in S : ~Better(y, x)
<1> DEFINE R == {pair \in S \X S : Better(pair[1], pair[2])}
<1>0. \A x \in S : x.price \in Nat /\ x.tps \in Nat
  BY PollAssumption DEF Row
<1>1. \A x \in S : <<x, x>> \notin R
  BY <1>0 DEF Better
<1>2. \A x, y, z \in S : <<x, y>> \in R /\ <<y, z>> \in R => <<x, z>> \in R
  <2> SUFFICES ASSUME NEW x \in S, NEW y \in S, NEW z \in S, Better(x, y), Better(y, z)
               PROVE  Better(x, z)
    OBVIOUS
  <2> QED BY <1>0 DEF Better
<1>3. PICK x \in S : \A y \in S : <<y, x>> \notin R
  <2> HIDE DEF R
  <2> QED BY <1>1, <1>2, FiniteHasMinimal
<1> QED BY <1>3

\* FastestAdmitted holds for every rule and every finite poll: collapsing
\* keeps a candidate of every slug that has one, and none that is slower
\* (_stage1, then _dedupe_by_slug).
THEOREM FastestAdmittedHolds == Spec => []FastestAdmitted
<1>1. Judged => FastestAdmitted
  <2> SUFFICES
        ASSUME Judged, selected, NEW s \in Slugs
        PROVE  LET could  == {r \in rows : r.slug = s /\ r.fit /\ r.price <= MaxPrice}
                   points == {p \in selection.points : p.slug = s}
               IN  /\ \A p \in points :
                         /\ \E r \in could : r.price = p.price /\ r.tps = p.tps
                         /\ \A r \in could : r.tps <= p.tps
                   /\ points = {} =>
                         \/ could = {}
                         \/ Excluded # {} /\ OrgOf[s] \notin selection.allowed
                         \/ ProviderExcluded(s)
                         \/ ~AllowlistAllows(s, list)
    BY DEF FastestAdmitted
  <2> DEFINE could    == {r \in rows : r.slug = s /\ r.fit /\ r.price <= MaxPrice}
             points   == {p \in selection.points : p.slug = s}
             point(r) == [slug |-> r.slug, price |-> r.price, tps |-> r.tps]
             cands    == Candidates(rows, list)
  <2>1. /\ selection.points = Deduped(cands)
        /\ selection.excluded = ExcludedBases(rows)
        /\ selection.allowed = AllowedBases(rows)
    BY DEF Judged, Select
  <2>2. Deduped(cands) = {p \in {point(r) : r \in cands} :
                             ~\E q \in {point(r) : r \in cands} : q.slug = p.slug /\ Better(q, p)}
    BY DEF Deduped
  <2>3. \A r \in rows : r.slug \in Slugs /\ r.price \in Nat /\ r.tps \in Nat
    BY PollAssumption DEF Judged, Row
  <2>4. ASSUME NEW p \in points, NEW c \in cands, p = point(c) PROVE could \subseteq cands
    BY <2>4 DEF Candidates
  <2>5. ASSUME NEW p \in points
        PROVE  /\ \E r \in could : r.price = p.price /\ r.tps = p.tps
               /\ \A r \in could : r.tps <= p.tps
    <3>1. PICK c \in cands : p = point(c)
      BY <2>1, <2>2
    <3>2. c \in could /\ c.price = p.price /\ c.tps = p.tps /\ p.slug = s
      BY <3>1 DEF Candidates
    <3>3. ASSUME NEW r \in could PROVE r.tps <= p.tps
      <4>1. r \in cands
        BY <2>4, <3>1
      <4>2. ~(point(r).slug = p.slug /\ Better(point(r), p))
        BY <2>1, <2>2, <4>1
      <4>3. point(r).slug = p.slug /\ point(r).tps = r.tps
        BY <3>2
      <4>4. ~(r.tps > p.tps)
        BY <4>2, <4>3 DEF Better
      <4> QED BY <2>3, <3>2, <4>4
    <3> QED BY <3>2, <3>3
  <2>6. ASSUME could # {},
               Excluded = {} \/ OrgOf[s] \in selection.allowed,
               ~ProviderExcluded(s),
               AllowlistAllows(s, list)
        PROVE  points # {}
    <3>1. OrgOf[s] \notin ExcludedBases(rows)
      <4>1. CASE Excluded = {}
        BY <4>1 DEF ExcludedBases
      <4>2. CASE Excluded # {}
        <5>1. /\ OrgOf[s] \in Polled(rows)
              /\ VerdictsOn(rows, OrgOf[s]) \subseteq
                    (IF AllowUnknown THEN {"allowed", "unknown"} ELSE {"allowed"})
          BY <2>1, <2>6, <4>2 DEF AllowedBases
        <5>2. VerdictsOn(rows, OrgOf[s])
                \cap (IF AllowUnknown THEN {"excluded"} ELSE {"excluded", "unknown"}) = {}
          BY <5>1
        <5> QED BY <4>2, <5>2 DEF ExcludedBases
      <4> QED BY <4>1, <4>2
    <3>2. could \subseteq cands
      BY <2>6, <3>1 DEF Candidates
    <3>3. could \subseteq Row /\ IsFiniteSet(could)
      <4>1. could \subseteq rows
        OBVIOUS
      <4> QED BY <4>1, FS_Subset DEF Judged
    <3>4. PICK x \in could : \A y \in could : ~Better(y, x)
      <4> HIDE DEF could
      <4> QED BY <2>6, <3>3, BestRow
    <3>5. point(x) \in {point(r) : r \in cands} /\ point(x).slug = s
      BY <3>2
    <3>6. ASSUME NEW r \in cands, point(r).slug = point(x).slug PROVE ~Better(point(r), point(x))
      <4>1. r \in could
        BY <3>6 DEF Candidates
      <4>2. ~Better(r, x)
        BY <3>4, <4>1
      <4> QED BY <4>2 DEF Better
    <3>7. point(x) \in Deduped(cands)
      BY <2>2, <3>5, <3>6
    <3> QED BY <2>1, <3>5, <3>7
  <2> QED BY <2>5, <2>6
<1> QED BY <1>1, Invariance, PTL
-----------------------------------------------------------------------------
\* A selection has a winner when it has a point, and the winner is one of
\* them that is well chosen.
WinnerIsWellChosen ==
    selected =>
        IF selection.points = {}
          THEN selection.winner = NoSlug
          ELSE \E w \in selection.points :
                  selection.winner = w.slug /\ WellChosen(w, selection.points, Tolerance)

\* The points of a selection are finitely many and usable.
LEMMA PointsUsable ==
    ASSUME Judged, selected
    PROVE  Usable(selection.points) /\ IsFiniteSet(selection.points)
<1> DEFINE point(r) == [slug |-> r.slug, price |-> r.price, tps |-> r.tps]
           points   == {point(r) : r \in rows}
<1>1. selection.points \subseteq points
  <2> SUFFICES ASSUME NEW p \in selection.points PROVE p \in points
    OBVIOUS
  <2>1. PICK c \in Candidates(rows, list) : p = point(c)
    BY ChosenIsCandidate DEF Judged
  <2> QED BY <2>1 DEF Candidates
<1>2. ASSUME NEW r \in rows PROVE point(r) \in PointLike /\ Walkable(point(r))
  <2>1. r.slug \in Nat /\ r.price \in Nat \ {0} /\ r.tps \in Nat \ {0}
    BY PollAssumption, RuleAssumption DEF Judged, Row
  <2> QED BY <2>1 DEF PointLike, Walkable
<1>3. Usable(points)
  BY <1>2 DEF Usable
<1>4. IsFiniteSet(points)
  <2> DEFINE image == [r \in rows |-> point(r)]
  <2>1. image \in Surjection(rows, points)
    BY DEF Surjection
  <2> HIDE DEF point, image, points
  <2> QED BY <2>1, FS_Surjection DEF Judged
<1> HIDE DEF points
<1> QED BY <1>1, <1>3, <1>4, FS_Subset DEF Usable

\* The winner of every poll under every rule is well chosen of the points it
\* is published with: none of them dominates it, none pays for its price, and
\* at a tolerance of zero none has more throughput per price
\* (select_candidates, _value_walk).
THEOREM WinnerIsWellChosenHolds == Spec => []WinnerIsWellChosen
<1>1. Judged => WinnerIsWellChosen
  <2> SUFFICES ASSUME Judged, selected
               PROVE  IF selection.points = {}
                        THEN selection.winner = NoSlug
                        ELSE \E w \in selection.points :
                                selection.winner = w.slug /\ WellChosen(w, selection.points, Tolerance)
    BY DEF WinnerIsWellChosen
  <2> DEFINE points == selection.points
  <2>1. selection.winner = IF points = {} THEN NoSlug ELSE Terminal(points, Tolerance).slug
    BY DEF Judged, Select
  <2>2. Usable(points) /\ IsFiniteSet(points) /\ Tolerance \in Nat
    BY PointsUsable, RuleAssumption
  <2>3. ASSUME points # {}
        PROVE  /\ Terminal(points, Tolerance) \in points
               /\ WellChosen(Terminal(points, Tolerance), points, Tolerance)
    <3> HIDE DEF points
    <3> QED BY <2>2, <2>3, TerminalChoosesWell
  <2> QED BY <2>1, <2>3
<1> QED BY <1>1, Invariance, PTL
=============================================================================
