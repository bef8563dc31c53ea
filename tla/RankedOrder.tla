----------------------------- MODULE RankedOrder -----------------------------
(***************************************************************************)
(* ranked_order (scorer.py), one action per step of its loops: the points  *)
(* are screened one by one, then every round tiers the points still        *)
(* available, reduces the tiers to a frontier, walks the frontier and      *)
(* takes the walk's end.  The first round is what _tier_and_frontier and   *)
(* _value_walk do for a selection.                                         *)
(***************************************************************************)
EXTENDS ValueWalk, FiniteSets

CONSTANTS
    Slugs,    \* provider slugs, numbered in alphabetical order
    Prices,   \* input prices a row can carry, unusable ones included
    Speeds,   \* median throughputs a row can carry, unusable ones included
    Tolerances, \* values of value_regression_tolerance, in percent
    MaxPoints \* bound on the points passed in

Point   == [slug : Slugs, price : Prices, tps : Speeds]
NoPoint == [slug |-> 0, price |-> 0, tps |-> 0]

ASSUME InputAssumption ==
    /\ Slugs \subseteq Nat \ {0}
    /\ IsFiniteSet(Slugs)
    /\ Prices \subseteq Int
    /\ Speeds \subseteq Int
    /\ Tolerances \subseteq Nat
    /\ MaxPoints \in Nat

VARIABLES
    tolerance, \* value_regression_tolerance
    pc,       \* the loop that runs: "screen", "tier", "frontier", "walk" or "done"
    given,    \* the points screened so far
    bySlug,   \* the point kept of each slug
    offered,  \* history: the points left after screening and exclusion
    avail,    \* the points still available
    todo,     \* the available points not tiered yet
    tiers,    \* the tiers of this round
    frontier, \* the frontier of this round
    k,        \* the next tier to reduce, or the next frontier point to visit
    winner,   \* where the walk stands
    order     \* the slugs taken

vars == <<tolerance, pc, given, bySlug, offered, avail, todo, tiers, frontier, k, winner, order>>

roundVars == <<todo, tiers, frontier, k, winner>>

NothingKept == [s \in Slugs |-> NoPoint]

\* Mutant of Screened: a price of zero passes.
ScreenedLoosely(kept, p) ==
    IF ~(p.price >= 0 /\ p.tps > 0) THEN kept
    ELSE [kept EXCEPT ![p.slug] = IF @ = NoPoint \/ Better(p, @) THEN p ELSE @]

\* Mutant of Screened: the last point of a slug is kept.
ScreenedLast(kept, p) == IF Walkable(p) THEN [kept EXCEPT ![p.slug] = p] ELSE kept

\* The points kept, one more point screened.
Screened(kept, p) ==
    IF Walkable(p)
      THEN [kept EXCEPT ![p.slug] = IF @ = NoPoint \/ Better(p, @) THEN p ELSE @]
      ELSE kept

Init ==
    /\ tolerance \in Tolerances
    /\ pc = "screen"
    /\ given = {}
    /\ bySlug = NothingKept
    /\ offered = {}
    /\ avail = {}
    /\ todo = {}
    /\ tiers = <<>>
    /\ frontier = <<>>
    /\ k = 1
    /\ winner = NoPoint
    /\ order = <<>>

-----------------------------------------------------------------------------
\* A round over the points left, if any are.
BeginRound(left) ==
    /\ pc' = IF left = {} THEN "done" ELSE "tier"
    /\ avail' = left
    /\ todo' = left
    /\ tiers' = <<>>
    /\ frontier' = <<>>
    /\ k' = 1
    /\ winner' = NoPoint

Screen(p) ==
    /\ pc = "screen"
    /\ p \notin given
    /\ Cardinality(given) < MaxPoints
    /\ given' = given \cup {p}
    /\ bySlug' = Screened(bySlug, p)
    /\ UNCHANGED <<tolerance, pc, offered, avail, order, roundVars>>

\* The screening ends and the unusable slugs are excluded.
Exclude(unusable) ==
    LET left == {bySlug[s] : s \in Slugs \ unusable} \ {NoPoint}
    IN  /\ pc = "screen"
        /\ offered' = left
        /\ given' = {}
        /\ bySlug' = NothingKept
        /\ BeginRound(left)
        /\ UNCHANGED <<tolerance, order>>

\* A tie between points goes to the first in the tuple passed in: either.
Tier ==
    /\ pc = "tier"
    /\ \E p \in todo :
          /\ \A q \in todo : ~Before(q, p)
          /\ tiers' = AddTier(tiers, p)
          /\ todo' = todo \ {p}
    /\ pc' = IF todo' = {} THEN "frontier" ELSE "tier"
    /\ UNCHANGED <<tolerance, given, bySlug, offered, avail, frontier, k, winner, order>>

Push ==
    /\ pc = "frontier"
    /\ frontier' = PushFrontier(frontier, tiers[k].best)
    /\ IF k < Len(tiers)
         THEN pc' = "frontier" /\ k' = k + 1 /\ UNCHANGED winner
         ELSE pc' = "walk" /\ k' = 2 /\ winner' = Head(frontier')
    /\ UNCHANGED <<tolerance, given, bySlug, offered, avail, todo, tiers, order>>

Visit ==
    /\ pc = "walk"
    /\ k <= Len(frontier)
    /\ winner' = Advance(winner, frontier[k], tolerance)
    /\ k' = k + 1
    /\ UNCHANGED <<tolerance, pc, given, bySlug, offered, avail, todo, tiers, frontier, order>>

\* Mutant of Remaining: told apart by speed, not by slug.
RemainingBySpeed == {p \in avail : p.tps # winner.tps}

\* Mutant of Remaining: the next are taken from the frontier there was.
RemainingFrozen == {p \in Range(frontier) : p.slug # winner.slug}

\* The points available once the walk's end is taken.
Remaining == {p \in avail : p.slug # winner.slug}

Ended == pc = "walk" /\ k > Len(frontier)

Take ==
    /\ Ended
    /\ order' = Append(order, winner.slug)
    /\ BeginRound(Remaining)
    /\ UNCHANGED <<tolerance, given, bySlug, offered>>

Next ==
    \/ \E p \in Point : Screen(p)
    \/ \E unusable \in SUBSET Slugs : Exclude(unusable)
    \/ Tier
    \/ Push
    \/ Visit
    \/ Take

Spec == Init /\ [][Next]_vars

-----------------------------------------------------------------------------
(* Properties.                                                             *)

\* Every variable has its type, and the rounds stay within what was offered.
TypeOK ==
    /\ tolerance \in Tolerances
    /\ pc \in {"screen", "tier", "frontier", "walk", "done"}
    /\ given \subseteq Point
    /\ bySlug \in [Slugs -> Point \cup {NoPoint}]
    /\ offered \subseteq Point
    /\ avail \subseteq offered
    /\ todo \subseteq avail
    /\ tiers \in Seq([price : Prices, best : Point])
    /\ frontier \in Seq(Point)
    /\ k \in Nat \ {0}
    /\ winner \in Point \cup {NoPoint}
    /\ order \in Seq(Slugs)

\* Both coordinates of every point a tier, the frontier or the walk divides
\* by are positive (_sanitized's reason for screening zeroes).
NoZeroDenominator ==
    /\ \A p \in avail : Walkable(p)
    /\ \A i \in DOMAIN tiers : tiers[i].price > 0
    /\ pc = "walk" => Walkable(winner)

\* The provider taken is not dominated: none still available is at least as
\* fast and more than a tier cheaper (_tier_and_frontier, _walk_points).
Undominated == Ended => \A q \in avail : ~Dominates(q, winner)

\* The walk stops nowhere too early: no provider still available is faster by
\* enough to pay for its price, the slack of a tier included (_walk_points
\* visits the frontier only, and a tier hides its slower and cheaper members).
NoBetterBuy == Ended => \A q \in avail : ~BetterBuy(q, winner, tolerance)

\* At a tolerance of zero the provider taken has the best throughput per
\* price of all those available, to a tier's 1% (README: a move happens only
\* when the throughput gain at least matches the price increase).
BestValue == tolerance = 0 /\ Ended => \A q \in avail : ~BetterValue(q, winner)

\* A finished ranking names every slug offered once, and no other.
EachOnce ==
    pc = "done" => IsInjective(order) /\ Range(order) = {p.slug : p \in offered}

\* No two points tie in the order a round takes them.
Untied(points) == \A p, q \in points : p # q => Before(p, q) \/ Before(q, p)

\* The loops compute the ranking that routing is decided by: every pick is the
\* end of a walk over what is left, with nothing of an earlier round in it
\* (ranked_order, which starts each round afresh for that reason).
OrderIsRanking ==
    pc = "done" /\ Untied(offered) => order = Rankings(offered, tolerance)[offered]

\* Screening offers of every slug that is not excluded and has a usable point the
\* fastest of those, the cheapest if they tie, in whatever order the points came;
\* nothing else is offered (_sanitized, ranked_order).
KeepsTheBest ==
    [][\A unusable \in SUBSET Slugs : Exclude(unusable) =>
         /\ \A q \in offered' : q \in given /\ q.slug \notin unusable
         /\ \A p \in given : Walkable(p) /\ p.slug \notin unusable =>
               \E q \in offered' : q.slug = p.slug /\ (q = p \/ Better(q, p))]_vars
=============================================================================
