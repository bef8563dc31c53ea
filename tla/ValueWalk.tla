------------------------------ MODULE ValueWalk ------------------------------
(***************************************************************************)
(* The pareto value walk as operators (scorer.py): the order candidates    *)
(* are sorted in, the price tiers, the frontier, and the acceptance rule   *)
(* that moves the walk up the frontier.  A reduce of the code is a fold.   *)
(*                                                                         *)
(* Prices, throughputs and the tolerance are integers (the tolerance in    *)
(* percent), so each division of the code is multiplied out; what the      *)
(* floats round at an exact boundary is left out.  Slugs are numbered in   *)
(* alphabetical order, the order a selection has its candidates in before  *)
(* the stable sort by price.                                               *)
(***************************************************************************)
EXTENDS Integers, FiniteSets, SequencesExt

\* Cheaper first, the faster of two equal prices first.
Before(p, q) == p.price < q.price \/ (p.price = q.price /\ p.tps > q.tps)

\* The same with its ties as a selection breaks them.
Precedes(p, q) == Before(p, q) \/ (~Before(q, p) /\ p.slug < q.slug)

\* Of two rows of one slug: the faster, then the cheaper.
Better(p, q) == p.tps > q.tps \/ (p.tps = q.tps /\ p.price < q.price)

\* The walk divides by both coordinates.
Walkable(p) == p.price > 0 /\ p.tps > 0

\* A price that opens a tier of its own: more than 1% above the tier's.
BeyondTier(price, tier) == 100 * (price - tier.price) > tier.price

\* Mutant of AddTier: the first point of a tier stays its best.
AddTierCheapest(tiers, p) ==
    IF tiers = <<>> \/ BeyondTier(p.price, Last(tiers))
      THEN Append(tiers, [price |-> p.price, best |-> p])
      ELSE tiers

\* One point, in CheapFirst order, added to the tiers.
AddTier(tiers, p) ==
    IF tiers = <<>> \/ BeyondTier(p.price, Last(tiers))
      THEN Append(tiers, [price |-> p.price, best |-> p])
      ELSE IF p.tps > Last(tiers).best.tps
             THEN [tiers EXCEPT ![Len(tiers)].best = p]
             ELSE tiers

\* Mutant of PushFrontier: an equally fast tier joins.
PushFrontierTied(frontier, best) ==
    IF frontier = <<>> \/ best.tps >= Last(frontier).tps
      THEN Append(frontier, best)
      ELSE frontier

\* The best of a tier joins the frontier if it is faster than all before.
PushFrontier(frontier, best) ==
    IF frontier = <<>> \/ best.tps > Last(frontier).tps
      THEN Append(frontier, best)
      ELSE frontier

\* Mutant of Accepts: the tolerance is forgotten.
AcceptsNoLoss(w, c, tolerance) ==
    (c.tps - w.tps) * w.price >= (c.price - w.price) * w.tps

\* Whether the throughput gained, with the tolerance, covers the price paid:
\* (c.tps - w.tps) / w.tps + tolerance >= (c.price - w.price) / w.price.
Accepts(w, c, tolerance) ==
    100 * (c.tps - w.tps) * w.price + tolerance * w.tps * w.price
        >= 100 * (c.price - w.price) * w.tps

Advance(w, c, tolerance) == IF Accepts(w, c, tolerance) THEN c ELSE w

\* The points sorted by Precedes: a point stands behind those that precede it.
CheapFirst(points) ==
    [i \in 1..Cardinality(points) |->
        CHOOSE p \in points : Cardinality({q \in points : Precedes(q, p)}) = i - 1]

Tiers(points) == FoldLeft(AddTier, <<>>, CheapFirst(points))

Frontier(points) ==
    LET tiers == Tiers(points)
    IN  FoldLeft(PushFrontier, <<>>, [i \in DOMAIN tiers |-> tiers[i].best])

\* The end of the value walk over a nonempty set of points.
Terminal(points, tolerance) ==
    LET frontier      == Frontier(points)
        advance(w, c) == Advance(w, c, tolerance)
    IN  FoldLeft(advance, Head(frontier), Tail(frontier))

\* ranked_order over every subset of a set: take the walk's end, walk again
\* over the rest.
Rankings(points, tolerance) ==
    LET rank[some \in SUBSET points] ==
            IF some = {}
              THEN <<>>
              ELSE LET winner == Terminal(some, tolerance)
                   IN  <<winner.slug>> \o rank[some \ {winner}]
    IN  rank

-----------------------------------------------------------------------------
(* What a choice must not leave behind.                                    *)

\* As fast, and more than a tier cheaper.
Dominates(q, w) == q.tps >= w.tps /\ BeyondTier(w.price, q)

\* Faster by enough to pay for its price, the slack of a tier included.
BetterBuy(q, w, tolerance) ==
    /\ q.tps > w.tps
    /\ 100 * (q.tps - w.tps) * w.price + tolerance * w.tps * w.price
           >= (101 * q.price - 100 * w.price) * w.tps

\* Of more throughput per price, by more than a tier's 1%.
BetterValue(q, w) == 101 * w.tps * q.price < 100 * q.tps * w.price

WellChosen(w, points, tolerance) ==
    \A q \in points : /\ ~Dominates(q, w)
                      /\ ~BetterBuy(q, w, tolerance)
                      /\ tolerance = 0 => ~BetterValue(q, w)
=============================================================================
