-------------------------- MODULE RankedOrderProofs --------------------------
(***************************************************************************)
(* Proofs about RankedOrder, for every set of points and every tolerance.  *)
(* The invariant follows the loops: what screening keeps, what the rounds  *)
(* have taken, that the tiers cover the points added to them, that the     *)
(* frontier climbs and covers the tiers it was made of, and that the walk  *)
(* has turned down every faster point it visited.  The ranking properties  *)
(* are what is left of it when a walk ends.  A second invariant, Following,*)
(* keeps the loops where the folds of ValueWalk stand after as many steps, *)
(* which makes the order they end with the Rankings of the points.         *)
(***************************************************************************)
EXTENDS RankedOrder, ValueWalkProofs, SequenceTheorems

\* A point of every slug at most, fastest and then cheapest of those given.
Screening ==
    /\ given \subseteq Point
    /\ bySlug \in [Slugs -> Point \cup {NoPoint}]
    /\ \A s \in Slugs : bySlug[s] # NoPoint =>
          bySlug[s] \in given /\ bySlug[s].slug = s /\ Walkable(bySlug[s])
    /\ \A p \in given : Walkable(p) =>
          /\ bySlug[p.slug] # NoPoint
          /\ bySlug[p.slug] = p \/ Better(bySlug[p.slug], p)

\* What the rounds have taken and what they have left.
Ranking ==
    /\ offered \subseteq Point
    /\ \A p \in offered : Walkable(p)
    /\ \A p, q \in offered : p.slug = q.slug => p = q
    /\ avail \subseteq offered
    /\ order \in Seq(Slugs)
    /\ IsInjective(order)
    /\ Range(order) = {p.slug : p \in offered \ avail}

\* The tiers hold the points tiered so far, the cheapest of those available.
Tiering ==
    /\ todo \subseteq avail
    /\ Tiered(tiers, avail \ todo)
    /\ \A p \in avail \ todo, q \in todo : p.price <= q.price

\* The tiers reduced so far.
Reduced == IF pc = "walk" THEN Len(tiers) ELSE k - 1

\* The frontier is made of them.
Climbing == Climbs(frontier, tiers, Reduced)

\* The walk stands where the points visited so far have led it.
Walking == Stands(winner, frontier, k - 1, tolerance)

\* Which loop is running.
Control ==
    /\ tolerance \in Nat
    /\ k \in Nat
    /\ pc \in {"screen", "tier", "frontier", "walk", "done"}
    /\ pc \in {"screen", "done"} => avail = {} /\ tiers = <<>>
    /\ pc = "screen" => offered = {} /\ order = <<>>
    /\ pc = "tier" => todo # {}
    /\ pc \in {"frontier", "walk"} => todo = {} /\ tiers # <<>>
    /\ pc \in {"screen", "tier", "done"} => frontier = <<>> /\ k = 1
    /\ pc = "frontier" => k \in 1..Len(tiers)
    /\ pc = "walk" => k \in 2..(Len(frontier) + 1) /\ Walking
    /\ pc # "walk" => winner = NoPoint

\* The inductive invariant.
IInv == Screening /\ Ranking /\ Tiering /\ Climbing /\ Control

-----------------------------------------------------------------------------
(* What the constants and the record types give.                           *)

LEMMA PointType ==
    ASSUME NEW p \in Point
    PROVE  p.slug \in Slugs /\ p.price \in Prices /\ p.price \in Int /\ p.tps \in Int /\ p # NoPoint
<1>1. p.slug \in Slugs /\ p.price \in Prices /\ p.tps \in Speeds
  BY DEF Point
<1>2. p.slug # 0 /\ p.price \in Int /\ p.tps \in Int
  BY <1>1, InputAssumption
<1> QED BY <1>1, <1>2 DEF NoPoint

\* What is still available can be divided by.
LEMMA AvailUsable ==
    ASSUME Ranking
    PROVE  Usable(avail)
<1> SUFFICES ASSUME NEW p \in avail PROVE p \in PointLike /\ Walkable(p)
  BY DEF Usable
<1>1. p \in Point /\ Walkable(p)
  BY DEF Ranking
<1>2. p.slug \in Nat /\ p.price \in Int /\ p.tps \in Int
  BY <1>1, PointType, InputAssumption
<1>3. p = [slug |-> p.slug, price |-> p.price, tps |-> p.tps]
  BY <1>1 DEF Point
<1> QED BY <1>1, <1>2, <1>3 DEF PointLike

\* One more point screened: it takes its slug's place or leaves what is there.
LEMMA ScreenStep ==
    ASSUME IInv, NEW p \in Point, Screen(p)
    PROVE  IInv'
<1>1. Screening'
  <2> DEFINE s == p.slug
  <2>1. given \subseteq Point /\ bySlug \in [Slugs -> Point \cup {NoPoint}] /\ s \in Slugs
    BY PointType DEF IInv, Screening
  <2>2. given' = given \cup {p} /\ bySlug' = Screened(bySlug, p)
    BY DEF Screen
  <2>3. CASE ~Walkable(p)
    BY <2>1, <2>2, <2>3 DEF IInv, Screening, Screened
  <2>4. CASE Walkable(p) /\ bySlug[s] # NoPoint /\ ~Better(p, bySlug[s])
    <3>1. bySlug' = bySlug
      BY <2>1, <2>2, <2>4 DEF Screened
    <3>2. bySlug[s] \in Point /\ bySlug[s].slug = s
      BY <2>1, <2>4 DEF IInv, Screening
    <3>3. bySlug[s] = p \/ Better(bySlug[s], p)
      <4>1. bySlug[s].tps \in Int /\ bySlug[s].price \in Int /\ p.tps \in Int /\ p.price \in Int
        BY <3>2, PointType
      <4>2. bySlug[s].tps = p.tps /\ bySlug[s].price = p.price => bySlug[s] = p
        BY <3>2 DEF Point
      <4> QED BY <2>4, <4>1, <4>2 DEF Better
    <3> QED BY <2>1, <2>2, <2>4, <3>1, <3>3 DEF IInv, Screening
  <2>5. CASE Walkable(p) /\ (bySlug[s] = NoPoint \/ Better(p, bySlug[s]))
    <3>1. bySlug' = [bySlug EXCEPT ![s] = p]
      BY <2>1, <2>2, <2>5 DEF Screened
    <3>2. bySlug' \in [Slugs -> Point \cup {NoPoint}]
      BY <2>1, <3>1
    <3>3. \A t \in Slugs : bySlug'[t] # NoPoint =>
             bySlug'[t] \in given' /\ bySlug'[t].slug = t /\ Walkable(bySlug'[t])
      BY <2>1, <2>2, <2>5, <3>1 DEF IInv, Screening
    <3>4. ASSUME NEW q \in given', Walkable(q)
          PROVE  /\ bySlug'[q.slug] # NoPoint
                 /\ bySlug'[q.slug] = q \/ Better(bySlug'[q.slug], q)
      <4>1. CASE q = p
        BY <2>1, <3>1, <4>1, PointType
      <4>2. CASE q \in given /\ q.slug # s
        BY <2>1, <3>1, <3>4, <4>2, PointType DEF IInv, Screening
      <4>3. CASE q \in given /\ q.slug = s
        <5>1. bySlug[s] # NoPoint /\ (bySlug[s] = q \/ Better(bySlug[s], q))
          BY <3>4, <4>3 DEF IInv, Screening
        <5>2. bySlug[s] \in Point /\ q \in Point
          BY <2>1, <4>3, <5>1
        <5>3. Better(p, bySlug[s])
          BY <2>5, <5>1
        <5>4. Better(p, q)
          BY <5>1, <5>2, <5>3, PointType DEF Better
        <5> QED BY <2>1, <3>1, <4>3, <5>4, PointType
      <4> QED BY <2>2, <4>1, <4>2, <4>3
    <3> QED BY <2>1, <2>2, <3>2, <3>3, <3>4 DEF Screening
  <2> QED BY <2>3, <2>4, <2>5
<1>2. Ranking' /\ Tiering' /\ Climbing' /\ Control'
  BY DEF IInv, Ranking, Tiering, Climbing, Control, Screen, roundVars, Reduced, Walking
<1> QED BY <1>1, <1>2 DEF IInv

-----------------------------------------------------------------------------
\* A round begins over distinct usable points; it keeps nothing of the last.
LEMMA RoundBegins ==
    ASSUME NEW left, left \subseteq Point, BeginRound(left)
    PROVE  /\ Tiering' /\ Climbing'
           /\ avail' = left
           /\ k' = 1 /\ frontier' = <<>> /\ tiers' = <<>> /\ winner' = NoPoint
           /\ pc' \in {"tier", "done"}
           /\ pc' = "tier" => todo' # {}
           /\ pc' = "done" => avail' = {}
<1>1. /\ avail' = left /\ todo' = left /\ tiers' = <<>> /\ frontier' = <<>> /\ k' = 1
      /\ winner' = NoPoint
      /\ pc' = IF left = {} THEN "done" ELSE "tier"
  BY DEF BeginRound
<1>2. Tiering'
  BY <1>1 DEF Tiering, Tiered
<1>3. Climbing'
  BY <1>1 DEF Climbing, Climbs, Reduced
<1> QED BY <1>1, <1>2, <1>3

\* The exclusion leaves at most one point of every slug.
LEMMA ExcludeStep ==
    ASSUME IInv, NEW unusable \in SUBSET Slugs, Exclude(unusable)
    PROVE  IInv'
<1> DEFINE left == {bySlug[s] : s \in Slugs \ unusable} \ {NoPoint}
<1>1. /\ left \subseteq Point
      /\ \A p \in left : Walkable(p) /\ p = bySlug[p.slug]
  BY DEF IInv, Screening
<1>2. /\ pc = "screen" /\ offered' = left /\ given' = {} /\ bySlug' = NothingKept
      /\ BeginRound(left) /\ order' = order /\ tolerance' = tolerance
  BY DEF Exclude
<1>3. order = <<>>
  BY <1>2 DEF IInv, Control
<1> HIDE DEF left
<1>4. Screening'
  BY <1>2 DEF Screening, NothingKept
<1>5. avail' = left
  BY <1>1, <1>2, RoundBegins
<1>6. Ranking'
  <2>1. order' \in Seq(Slugs) /\ IsInjective(order') /\ Range(order') = {}
    BY <1>2, <1>3 DEF IsInjective, Range
  <2>2. {p.slug : p \in offered' \ avail'} = {}
    BY <1>2, <1>5
  <2> QED BY <1>1, <1>2, <1>5, <2>1, <2>2 DEF Ranking
<1>7. Tiering' /\ Climbing' /\ Control'
  <2>1. tolerance' \in Nat
    BY <1>2 DEF IInv, Control
  <2> QED BY <1>1, <1>2, <2>1, RoundBegins DEF Control
<1> QED BY <1>4, <1>6, <1>7 DEF IInv

\* Once the tiers are made they hold every point available.
LEMMA RoundTiered ==
    ASSUME IInv, pc \in {"frontier", "walk"}
    PROVE  /\ Usable(avail) /\ Tiered(tiers, avail)
           /\ Climbs(frontier, tiers, Reduced) /\ Reduced \in 0..Len(tiers)
           /\ pc = "walk" => Reduced = Len(tiers)
<1>1. Usable(avail) /\ todo = {} /\ avail \ {} = avail
  BY AvailUsable DEF IInv, Control
<1>2. Tiered(tiers, avail)
  BY <1>1 DEF IInv, Tiering
<1>3. Len(tiers) \in Nat
  BY <1>2 DEF Tiered
<1> QED BY <1>1, <1>2, <1>3 DEF IInv, Climbing, Reduced, Control

\* The frontier is made of points available.
LEMMA RoundPoints ==
    ASSUME IInv, pc \in {"frontier", "walk"}
    PROVE  frontier \in Seq(avail)
BY RoundTiered, FrontierPoints

\* Taking the walk's end names a slug that was not named before.
LEMMA TakeStep ==
    ASSUME IInv, Take
    PROVE  IInv'
<1>1. /\ pc = "walk"
      /\ order' = Append(order, winner.slug)
      /\ BeginRound(Remaining)
      /\ UNCHANGED <<tolerance, given, bySlug, offered>>
  BY DEF Take, Ended
<1>2. winner \in avail
  <2>1. Usable(avail) /\ Tiered(tiers, avail) /\ Climbs(frontier, tiers, Len(tiers))
    BY <1>1, AvailUsable, RoundTiered
  <2>2. PICK i \in 1..(k - 1) : winner = frontier[i]
    BY <1>1 DEF IInv, Control, Walking, Stands
  <2>3. frontier \in Seq(avail) /\ i \in DOMAIN frontier
    BY <1>1, <2>1, <2>2, RoundPoints DEF IInv, Control
  <2> QED BY <2>2, <2>3
<1>3. Remaining \subseteq Point /\ Remaining = avail \ {winner} /\ Remaining \subseteq avail
  BY <1>2 DEF IInv, Ranking, Remaining
<1>4. avail' = Remaining
  BY <1>1, <1>3, RoundBegins
<1>5. Ranking'
  <2>1. winner \in offered /\ winner.slug \in Slugs
    BY <1>2, PointType DEF IInv, Ranking
  <2>2. \A i \in DOMAIN order : order[i] # winner.slug
    <3> SUFFICES ASSUME NEW i \in DOMAIN order, order[i] = winner.slug PROVE FALSE
      OBVIOUS
    <3>1. winner.slug \in Range(order)
      BY DEF Range
    <3>2. PICK p \in offered \ avail : p.slug = winner.slug
      BY <3>1 DEF IInv, Ranking
    <3> QED BY <1>2, <2>1, <3>2 DEF IInv, Ranking
  <2>3. order' \in Seq(Slugs)
    BY <1>1, <2>1 DEF IInv, Ranking
  <2>4. /\ order \in Seq(Slugs)
        /\ Len(order') = Len(order) + 1
        /\ \A i \in 1..Len(order) : order'[i] = order[i]
        /\ order'[Len(order) + 1] = winner.slug
    BY <1>1, <2>1 DEF IInv, Ranking
  <2>5. DOMAIN order' = DOMAIN order \cup {Len(order) + 1} /\ DOMAIN order = 1..Len(order)
    BY <2>3, <2>4
  <2>6. IsInjective(order')
    BY <2>2, <2>4, <2>5 DEF IInv, Ranking, IsInjective
  <2>7. Range(order') = Range(order) \cup {winner.slug}
    BY <2>4, <2>5 DEF Range
  <2>8. {p.slug : p \in offered \ avail'} = {p.slug : p \in offered \ avail} \cup {winner.slug}
    BY <1>2, <1>3, <1>4, <2>1
  <2> QED BY <1>1, <1>3, <1>4, <2>3, <2>6, <2>7, <2>8 DEF IInv, Ranking
<1>6. Screening'
  BY <1>1 DEF IInv, Screening
<1>7. Tiering' /\ Climbing' /\ Control'
  <2>1. tolerance' \in Nat
    BY <1>1 DEF IInv, Control
  <2> QED BY <1>1, <1>3, <2>1, RoundBegins DEF Control
<1> QED BY <1>5, <1>6, <1>7 DEF IInv

-----------------------------------------------------------------------------
\* The cheapest point left joins the last tier or opens one above it.
LEMMA TierStep ==
    ASSUME IInv, Tier
    PROVE  IInv'
<1>1. PICK p \in todo : /\ \A q \in todo : ~Before(q, p)
                        /\ tiers' = AddTier(tiers, p)
                        /\ todo' = todo \ {p}
  BY DEF Tier
<1>2. /\ pc = "tier" /\ pc' = (IF todo' = {} THEN "frontier" ELSE "tier")
      /\ UNCHANGED <<tolerance, given, bySlug, offered, avail, frontier, k, winner, order>>
  BY DEF Tier
<1>3. Usable(avail) /\ p \in avail /\ todo \subseteq avail /\ Tiered(tiers, avail \ todo)
  BY <1>1, AvailUsable DEF IInv, Tiering
<1>4. p \in PointLike /\ Walkable(p) /\ Usable(avail \ todo)
  BY <1>3 DEF Usable
<1>5. \A q \in todo : p.price <= q.price
  <2> SUFFICES ASSUME NEW q \in todo PROVE p.price <= q.price
    OBVIOUS
  <2>1. q.price \in Int /\ p.price \in Int /\ ~Before(q, p)
    BY <1>1, <1>3, UsableType
  <2> QED BY <2>1 DEF Before
<1>6. \A q \in avail \ todo : q.price <= p.price
  BY <1>1 DEF IInv, Tiering
<1>7. Tiering'
  <2>1. Tiered(AddTier(tiers, p), (avail \ todo) \cup {p})
    BY <1>3, <1>4, <1>6, TieredStep
  <2>2. avail' \ todo' = (avail \ todo) \cup {p}
    BY <1>1, <1>2, <1>3
  <2>3. Tiered(tiers', avail' \ todo')
    BY <1>1, <2>1, <2>2
  <2>4. \A q \in avail' \ todo', r \in todo' : q.price <= r.price
    <3>1. \A q \in avail \ todo, r \in todo : q.price <= r.price
      BY DEF IInv, Tiering
    <3> QED BY <1>1, <1>5, <2>2, <3>1
  <2> QED BY <1>1, <1>2, <1>3, <2>3, <2>4 DEF Tiering
<1>8. tiers' # <<>> /\ tiers' \in Seq(TierOf(avail' \ todo'))
  <2>1. tiers' \in Seq(TierOf(avail' \ todo')) /\ \E q \in avail' \ todo' : TRUE
    BY <1>1, <1>2, <1>3, <1>7 DEF Tiering, Tiered
  <2>2. \E i \in DOMAIN tiers' : TRUE
    BY <1>7, <2>1 DEF Tiering, Tiered
  <2> QED BY <2>1, <2>2
<1>9. frontier = <<>> /\ k = 1
  BY <1>2 DEF IInv, Control
<1>10. Climbing'
  BY <1>2, <1>9 DEF Climbing, Climbs, Reduced
<1>11. Control'
  <2>1. Len(tiers') \in Nat /\ Len(tiers') # 0
    BY <1>8
  <2> QED BY <1>2, <1>8, <1>9, <2>1 DEF IInv, Control
<1>12. Screening' /\ Ranking'
  BY <1>2 DEF IInv, Screening, Ranking
<1> QED BY <1>7, <1>10, <1>11, <1>12 DEF IInv

\* The next tier is reduced; after the last the walk starts at the head.
LEMMA PushStep ==
    ASSUME IInv, Push
    PROVE  IInv'
<1>1. /\ pc = "frontier" /\ frontier' = PushFrontier(frontier, tiers[k].best)
      /\ UNCHANGED <<tolerance, given, bySlug, offered, avail, todo, tiers, order>>
      /\ \/ k < Len(tiers) /\ pc' = "frontier" /\ k' = k + 1 /\ winner' = winner
         \/ ~(k < Len(tiers)) /\ pc' = "walk" /\ k' = 2 /\ winner' = Head(frontier')
  BY DEF Push
<1>2. k \in 1..Len(tiers) /\ Reduced = k - 1 /\ k \in Nat
  BY <1>1 DEF IInv, Control, Reduced
<1>3. Usable(avail) /\ Tiered(tiers, avail) /\ Climbs(frontier, tiers, k - 1)
  BY <1>1, <1>2, RoundTiered
<1>4. Len(tiers) \in Nat
  BY <1>3 DEF Tiered
<1>5. Climbs(frontier', tiers, k)
  BY <1>1, <1>2, <1>3, ClimbsStep
<1>6. frontier' # <<>> /\ frontier' \in Seq(avail)
  <2>1. \E j \in DOMAIN frontier' : TRUE
    BY <1>2, <1>5 DEF Climbs
  <2>2. k \in 0..Len(tiers)
    BY <1>2
  <2>3. frontier' \in Seq(avail)
    BY <1>3, <1>5, <2>2, FrontierPoints
  <2> QED BY <2>1, <2>3
<1>7. Climbing'
  <2>1. Reduced' = k
    BY <1>1, <1>2, <1>4 DEF Reduced
  <2> QED BY <1>1, <1>5, <2>1 DEF Climbing
<1>8. ASSUME pc' = "walk" PROVE k' \in 2..(Len(frontier') + 1) /\ Walking'
  <2>1. k' = 2 /\ winner' = Head(frontier') /\ tolerance' = tolerance
    BY <1>1, <1>8
  <2>2. Stands(winner', frontier', 1, tolerance)
    BY <1>3, <1>6, <2>1, StandsAtHead
  <2>3. Len(frontier') \in Nat /\ Len(frontier') # 0
    BY <1>6
  <2>4. k' - 1 = 1 /\ k' \in 2..(Len(frontier') + 1)
    BY <2>1, <2>3
  <2> QED BY <2>1, <2>2, <2>4 DEF Walking
<1>9. Control'
  BY <1>1, <1>2, <1>4, <1>8 DEF IInv, Control
<1>10. Screening' /\ Ranking' /\ Tiering'
  BY <1>1 DEF IInv, Screening, Ranking, Tiering
<1> QED BY <1>7, <1>9, <1>10 DEF IInv

\* A point visited is walked to or turned down.
LEMMA VisitStep ==
    ASSUME IInv, Visit
    PROVE  IInv'
<1>1. /\ pc = "walk" /\ k <= Len(frontier) /\ k' = k + 1
      /\ winner' = Advance(winner, frontier[k], tolerance)
      /\ UNCHANGED <<tolerance, pc, given, bySlug, offered, avail, todo, tiers, frontier, order>>
  BY DEF Visit
<1>2. /\ k \in 2..(Len(frontier) + 1) /\ tolerance \in Nat
      /\ Stands(winner, frontier, k - 1, tolerance)
  BY <1>1 DEF IInv, Control, Walking
<1>3. Usable(avail) /\ frontier \in Seq(avail)
  BY <1>1, RoundTiered, RoundPoints
<1>4. k \in 2..Len(frontier) /\ (k + 1) - 1 = k /\ k + 1 \in 2..(Len(frontier) + 1)
  BY <1>1, <1>2, <1>3
<1>5. Stands(winner', frontier, k, tolerance)
  BY <1>1, <1>2, <1>3, <1>4, StandsStep
<1>6. Walking'
  BY <1>1, <1>4, <1>5 DEF Walking
<1>7. Control'
  BY <1>1, <1>2, <1>4, <1>6 DEF IInv, Control
<1>8. Climbing'
  BY <1>1 DEF IInv, Climbing, Reduced
<1>9. Screening' /\ Ranking' /\ Tiering'
  BY <1>1 DEF IInv, Screening, Ranking, Tiering
<1> QED BY <1>7, <1>8, <1>9 DEF IInv

\* Every ranking keeps the invariant, whatever the points and the tolerance.
THEOREM Invariance == Spec => []IInv
<1>1. Init => IInv
  <2> SUFFICES ASSUME Init PROVE IInv
    OBVIOUS
  <2>1. Screening
    BY DEF Init, Screening, NothingKept
  <2>2. Ranking
    BY DEF Init, Ranking, IsInjective, Range
  <2>3. Tiering
    BY DEF Init, Tiering, Tiered
  <2>4. Climbing
    BY DEF Init, Climbing, Climbs, Reduced
  <2>5. Control
    BY InputAssumption DEF Init, Control
  <2> QED BY <2>1, <2>2, <2>3, <2>4, <2>5 DEF IInv
<1>2. IInv /\ [Next]_vars => IInv'
  <2> SUFFICES ASSUME IInv, [Next]_vars PROVE IInv'
    OBVIOUS
  <2>1. CASE UNCHANGED vars
    <3>1. Screening'
      BY <2>1 DEF vars, IInv, Screening
    <3>2. Ranking'
      BY <2>1 DEF vars, IInv, Ranking
    <3>3. Tiering'
      BY <2>1 DEF vars, roundVars, IInv, Tiering
    <3>4. Climbing'
      BY <2>1 DEF vars, roundVars, IInv, Climbing, Reduced
    <3>5. Control'
      BY <2>1 DEF vars, roundVars, IInv, Control, Walking
    <3> QED BY <3>1, <3>2, <3>3, <3>4, <3>5 DEF IInv
  <2> QED BY <2>1, ScreenStep, ExcludeStep, TierStep, PushStep, VisitStep, TakeStep DEF Next
<1> QED BY <1>1, <1>2, PTL DEF Spec

\* The variables of a ranking keep their types, and a round stays within what
\* was offered.
THEOREM TypeCorrect == Spec => []TypeOK
<1>1. Init => tolerance \in Tolerances
  BY DEF Init
<1>2. tolerance \in Tolerances /\ [Next]_vars => (tolerance \in Tolerances)'
  BY DEF Next, Screen, Exclude, Tier, Push, Visit, Take, vars
<1>3. IInv /\ tolerance \in Tolerances => TypeOK
  <2> SUFFICES ASSUME IInv, tolerance \in Tolerances PROVE TypeOK
    OBVIOUS
  <2>1. k \in Nat \ {0}
    <3>1. pc = "frontier" => Len(tiers) \in Nat
      BY DEF IInv, Tiering, Tiered
    <3>2. pc = "walk" => Len(frontier) \in Nat
      BY RoundPoints
    <3> QED BY <3>1, <3>2 DEF IInv, Control
  <2>2. frontier \in Seq(Point)
    <3>1. CASE pc \in {"frontier", "walk"}
      <4>1. frontier \in Seq(avail) /\ avail \subseteq Point
        BY <3>1, RoundPoints DEF IInv, Ranking
      <4>2. \A i \in DOMAIN frontier : frontier[i] \in Point
        BY <4>1
      <4> QED BY <4>1, <4>2, SeqOver
    <3>2. CASE frontier = <<>>
      BY <3>2
    <3> QED BY <3>1, <3>2 DEF IInv, Control
  <2>3. tiers \in Seq([price : Prices, best : Point])
    <3>1. tiers \in Seq(TierOf(avail \ todo)) /\ avail \subseteq Point
      BY DEF IInv, Ranking, Tiering, Tiered
    <3>2. ASSUME NEW i \in DOMAIN tiers PROVE tiers[i] \in [price : Prices, best : Point]
      <4>1. tiers[i] \in TierOf(avail \ todo)
        BY <3>1
      <4> QED BY <3>1, <4>1, PointType DEF TierOf
    <3> QED BY <3>1, <3>2, SeqOver
  <2>4. winner \in Point \cup {NoPoint}
    <3>1. CASE pc # "walk"
      BY <3>1 DEF IInv, Control
    <3>2. CASE pc = "walk"
      <4>1. frontier \in Seq(Point) /\ k \in 2 .. (Len(frontier) + 1)
        BY <2>2, <3>2 DEF IInv, Control
      <4>2. PICK i \in 1..(k - 1) : winner = frontier[i]
        BY <3>2 DEF IInv, Control, Walking, Stands
      <4>3. i \in 1..Len(frontier)
        BY <4>1
      <4> QED BY <4>1, <4>2, <4>3
    <3> QED BY <3>1, <3>2
  <2> QED BY <2>1, <2>2, <2>3, <2>4 DEF IInv, Screening, Ranking, Tiering, Control, TypeOK
<1> QED BY Invariance, <1>1, <1>2, <1>3, PTL DEF Spec

-----------------------------------------------------------------------------
\* A walk that has ended stands on a point that is well chosen.
LEMMA EndsWell ==
    ASSUME IInv, Ended
    PROVE  winner \in avail /\ WellChosen(winner, avail, tolerance)
<1>1. pc = "walk" /\ k > Len(frontier)
  BY DEF Ended
<1>2. /\ Usable(avail) /\ Tiered(tiers, avail) /\ Climbs(frontier, tiers, Len(tiers))
      /\ frontier \in Seq(avail)
  BY <1>1, RoundTiered, RoundPoints
<1>3. k - 1 = Len(frontier) /\ tolerance \in Nat
  <2>1. Len(frontier) \in Nat
    BY <1>2
  <2> QED BY <1>1, <2>1 DEF IInv, Control
<1>4. Stands(winner, frontier, Len(frontier), tolerance)
  BY <1>1, <1>3 DEF IInv, Control, Walking
<1> QED BY <1>2, <1>3, <1>4, WalkEnds

\* NoZeroDenominator holds for every set of points, unusable ones included
\* (_sanitized).
THEOREM NoZeroDenominatorHolds == Spec => []NoZeroDenominator
<1>1. IInv => NoZeroDenominator
  <2> SUFFICES ASSUME IInv PROVE NoZeroDenominator
    OBVIOUS
  <2>1. Usable(avail)
    BY AvailUsable DEF IInv
  <2>2. ASSUME NEW i \in DOMAIN tiers PROVE tiers[i].price > 0
    <3>1. Usable(avail \ todo) /\ tiers \in Seq(TierOf(avail \ todo))
      BY <2>1 DEF IInv, Tiering, Tiered, Usable
    <3> QED BY <2>2, <3>1, TierFields
  <2>3. pc = "walk" => Walkable(winner)
    <3> SUFFICES ASSUME pc = "walk" PROVE Walkable(winner)
      OBVIOUS
    <3>1. PICK i \in 1..(k - 1) : winner = frontier[i]
      BY DEF IInv, Control, Walking, Stands
    <3>2. frontier \in Seq(avail)
      BY RoundPoints
    <3>3. i \in 1..Len(frontier)
      BY <3>1, <3>2 DEF IInv, Control
    <3> QED BY <2>1, <3>1, <3>2, <3>3 DEF Usable
  <2> QED BY <2>1, <2>2, <2>3 DEF Usable, NoZeroDenominator
<1> QED BY <1>1, Invariance, PTL

\* EachOnce holds for every set of points: a round takes a provider that was
\* still available, and the last takes the last (ranked_order).
THEOREM EachOnceHolds == Spec => []EachOnce
<1>1. IInv => EachOnce
  <2> SUFFICES ASSUME IInv, pc = "done" PROVE IsInjective(order) /\ Range(order) = {p.slug : p \in offered}
    BY DEF EachOnce
  <2>1. avail = {}
    BY DEF IInv, Control
  <2> QED BY <2>1 DEF IInv, Ranking
<1> QED BY <1>1, Invariance, PTL

\* Undominated holds for every set of points and every tolerance: a point as
\* fast and cheaper would have a point of the frontier, as fast and cheaper,
\* for it, and the frontier climbs in both (_tier_and_frontier).
THEOREM UndominatedHolds == Spec => []Undominated
<1>1. IInv => Undominated
  BY EndsWell DEF Undominated, WellChosen
<1> QED BY <1>1, Invariance, PTL

\* NoBetterBuy holds for every set of points and every tolerance: the walk
\* visits the frontier only, and what pays on it covers what pays off it
\* (_walk_points).
THEOREM NoBetterBuyHolds == Spec => []NoBetterBuy
<1>1. IInv => NoBetterBuy
  BY EndsWell DEF NoBetterBuy, WellChosen
<1> QED BY <1>1, Invariance, PTL

\* BestValue holds for every set of points: at a tolerance of zero the walk
\* keeps the best ratio it has seen, and the frontier covers the rest
\* (_walk_points).
THEOREM BestValueHolds == Spec => []BestValue
<1>1. IInv => BestValue
  BY EndsWell DEF BestValue, WellChosen
<1> QED BY <1>1, Invariance, PTL

\* KeepsTheBest holds for every set of points in every order, and every set of
\* slugs excluded (_sanitized, ranked_order).
THEOREM KeepsTheBestHolds == Spec => KeepsTheBest
<1> DEFINE Kept ==
        \A unusable \in SUBSET Slugs : Exclude(unusable) =>
          /\ \A q \in offered' : q \in given /\ q.slug \notin unusable
          /\ \A p \in given : Walkable(p) /\ p.slug \notin unusable =>
                \E q \in offered' : q.slug = p.slug /\ (q = p \/ Better(q, p))
<1>1. IInv /\ [Next]_vars => [Kept]_vars
  <2> SUFFICES ASSUME IInv, NEW unusable \in SUBSET Slugs, Exclude(unusable)
               PROVE  /\ \A q \in offered' : q \in given /\ q.slug \notin unusable
                      /\ \A p \in given : Walkable(p) /\ p.slug \notin unusable =>
                            \E q \in offered' : q.slug = p.slug /\ (q = p \/ Better(q, p))
    BY DEF Kept
  <2>1. Screening /\ offered' = {bySlug[s] : s \in Slugs \ unusable} \ {NoPoint}
    BY DEF IInv, Exclude
  <2>2. ASSUME NEW q \in offered' PROVE q \in given /\ q.slug \notin unusable
    <3>1. PICK s \in Slugs \ unusable : q = bySlug[s] /\ bySlug[s] # NoPoint
      BY <2>1
    <3> QED BY <2>1, <3>1 DEF Screening
  <2>3. ASSUME NEW p \in given, Walkable(p), p.slug \notin unusable
        PROVE  \E q \in offered' : q.slug = p.slug /\ (q = p \/ Better(q, p))
    <3>1. p.slug \in Slugs
      BY <2>1, PointType DEF Screening
    <3>2. /\ bySlug[p.slug] # NoPoint /\ bySlug[p.slug].slug = p.slug
          /\ bySlug[p.slug] = p \/ Better(bySlug[p.slug], p)
      BY <2>1, <2>3, <3>1 DEF Screening
    <3>3. bySlug[p.slug] \in offered'
      BY <2>1, <2>3, <3>1, <3>2
    <3> QED BY <3>2, <3>3
  <2> QED BY <2>2, <2>3
<1> QED BY <1>1, Invariance, PTL DEF Spec, KeepsTheBest

-----------------------------------------------------------------------------
(* The loops compute Rankings, step by step.                               *)

\* The points behind a place when they are sorted.
Behind(points, i) == {CheapFirst(points)[j] : j \in (i + 1)..Cardinality(points)}

\* The tiers of a round are made of the sorted points up to a place.
TierFollows ==
    \E i \in 0..Cardinality(avail) :
        /\ todo = Behind(avail, i)
        /\ \A acc : TierSteps(acc, <<>>, CheapFirst(avail)) => tiers = acc[i]

\* The best of every tier, as Frontier folds them.
Bests == [i \in DOMAIN tiers |-> tiers[i].best]

FrontierFollows == \A acc : FrontierSteps(acc, <<>>, Bests) => frontier = acc[k - 1]

WalkFollows ==
    \A acc : WalkSteps(acc, Head(frontier), Tail(frontier), avail, tolerance) => winner = acc[k - 2]

\* Where the loops stand is where the folds stand, and what was taken and what
\* is left make up the ranking.
Following ==
    /\ IsFiniteSet(offered)
    /\ Untied(offered) =>
          /\ pc = "tier" => TierFollows
          /\ pc \in {"frontier", "walk"} => tiers = Tiers(avail)
          /\ pc = "frontier" => FrontierFollows
          /\ pc = "walk" => frontier = Frontier(avail) /\ WalkFollows
          /\ pc # "screen" =>
                order \o Rankings(offered, tolerance)[avail] = Rankings(offered, tolerance)[offered]

LEMMA OfferedPoints ==
    ASSUME IInv, Following
    PROVE  /\ offered \subseteq PointLike /\ IsFiniteSet(offered)
           /\ avail \subseteq PointLike /\ IsFiniteSet(avail) /\ avail \in SUBSET offered
           /\ Untied(offered) => Untied(avail)
<1>1. ASSUME NEW p \in Point PROVE p \in PointLike
  <2>1. p.slug \in Nat /\ p.price \in Int /\ p.tps \in Int
    BY PointType, InputAssumption
  <2>2. p = [slug |-> p.slug, price |-> p.price, tps |-> p.tps]
    BY DEF Point
  <2> QED BY <2>1, <2>2 DEF PointLike
<1>2. offered \subseteq Point /\ avail \subseteq offered
  BY DEF IInv, Ranking
<1>3. IsFiniteSet(avail)
  BY <1>2, FS_Subset DEF Following
<1> QED BY <1>1, <1>2, <1>3 DEF Following, Untied

\* Without ties the cheapest point left is the next of the sorted ones.
LEMMA NextCheapest ==
    ASSUME NEW points, points \subseteq PointLike, IsFiniteSet(points), Untied(points),
           NEW i \in 0..Cardinality(points), NEW p \in Behind(points, i),
           \A q \in Behind(points, i) : ~Before(q, p)
    PROVE  /\ i + 1 \in 1..Cardinality(points)
           /\ p = CheapFirst(points)[i + 1]
           /\ Behind(points, i) \ {p} = Behind(points, i + 1)
<1> DEFINE n   == Cardinality(points)
           seq == CheapFirst(points)
<1>1. /\ n \in Nat
      /\ seq \in [1..n -> points]
      /\ \A x, y \in 1..n : x < y => Precedes(seq[x], seq[y])
  BY Sorted
<1>2. PICK m \in (i + 1)..n : p = seq[m]
  BY DEF Behind
<1>3. i + 1 \in 1..n /\ m \in 1..n /\ i \in Nat
  <2> HIDE DEF n, seq
  <2> QED BY <1>1, <1>2 DEF n
<1>4. seq[i + 1] \in Behind(points, i)
  <2>1. i + 1 \in (i + 1)..n
    BY <1>1, <1>3
  <2> QED BY <2>1 DEF Behind
<1> HIDE DEF n, seq
<1>5. p = seq[i + 1]
  <2> SUFFICES ASSUME p # seq[i + 1] PROVE FALSE
    OBVIOUS
  <2>1. Precedes(seq[i + 1], p)
    <3>1. i + 1 < m
      BY <1>1, <1>2, <1>3
    <3> QED BY <1>1, <1>2, <1>3, <3>1
  <2>2. Before(p, seq[i + 1])
    <3>1. p \in points /\ seq[i + 1] \in points /\ ~Before(seq[i + 1], p)
      BY <1>1, <1>2, <1>3, <1>4
    <3> QED BY <3>1 DEF Untied
  <2> QED BY <1>4, <2>1, <2>2 DEF Precedes
<1>6. \A x, y \in 1..n : x # y => seq[x] # seq[y]
  <2> SUFFICES ASSUME NEW x \in 1..n, NEW y \in 1..n, x < y PROVE seq[x] # seq[y]
    BY <1>1
  <2>1. Precedes(seq[x], seq[y]) /\ seq[x] \in PointLike
    BY <1>1
  <2> QED BY <2>1, PrecedesOrders
<1>7. (i + 1)..n = {i + 1} \cup (i + 2)..n
  BY <1>1, <1>3
<1>8. \A j \in (i + 2)..n : seq[j] # p
  BY <1>1, <1>3, <1>5, <1>6
<1>9. Behind(points, i) = {seq[j] : j \in (i + 1)..n}
  BY DEF Behind, n, seq
<1>10. Behind(points, i + 1) = {seq[j] : j \in (i + 2)..n}
  <2>1. (i + 1) + 1 = i + 2
    BY <1>3
  <2> QED BY <2>1 DEF Behind, n, seq
<1>11. Behind(points, i) \ {p} = Behind(points, i + 1)
  BY <1>5, <1>7, <1>8, <1>9, <1>10
<1> QED BY <1>3, <1>5, <1>11 DEF n, seq

\* A round begins where the folds do.
LEMMA RoundFollows ==
    ASSUME NEW left, left \subseteq PointLike, IsFiniteSet(left), BeginRound(left)
    PROVE  (pc = "tier" => TierFollows)'
<1> DEFINE seq == CheapFirst(left)
           n   == Cardinality(left)
<1>1. avail' = left /\ todo' = left /\ tiers' = <<>>
  BY DEF BeginRound
<1>2. 0 \in 0..n /\ left = Behind(left, 0)
  <2>1. n \in Nat /\ seq \in [1..n -> left] /\ \A p \in left : \E i \in 1..n : seq[i] = p
    BY Sorted
  <2>2. Behind(left, 0) = {seq[j] : j \in 1..n}
    BY DEF Behind
  <2> HIDE DEF n, seq
  <2> QED BY <2>1, <2>2
<1>3. \A acc : TierSteps(acc, <<>>, seq) => tiers' = acc[0]
  BY <1>1 DEF TierSteps
<1> QED BY <1>1, <1>2, <1>3 DEF TierFollows

\* What was taken and what is left stay in balance while a round runs.
LEMMA BalanceKept ==
    ASSUME Following, UNCHANGED <<tolerance, offered, avail, order>>, pc # "screen", pc' # "screen"
    PROVE  /\ IsFiniteSet(offered')
           /\ (Untied(offered) => order \o Rankings(offered, tolerance)[avail]
                                    = Rankings(offered, tolerance)[offered])'
BY DEF Following

LEMMA ScreenFollows ==
    ASSUME IInv, Following, NEW p \in Point, Screen(p)
    PROVE  Following'
<1>1. pc' = "screen" /\ offered' = offered
  BY DEF Screen
<1> QED BY <1>1 DEF Following

LEMMA ExcludeFollows ==
    ASSUME IInv, NEW unusable \in SUBSET Slugs, Exclude(unusable)
    PROVE  Following'
<1> DEFINE image == [s \in Slugs |-> bySlug[s]]
           left  == {bySlug[s] : s \in Slugs \ unusable} \ {NoPoint}
<1>1. /\ offered' = left /\ BeginRound(left) /\ order' = <<>> /\ avail' = left
      /\ pc' \in {"tier", "done"}
  BY DEF Exclude, BeginRound, IInv, Control
<1>2. left \subseteq PointLike
  <2> SUFFICES ASSUME NEW p \in left PROVE p \in PointLike
    OBVIOUS
  <2>1. p \in Point
    BY DEF IInv, Screening
  <2>2. p = [slug |-> p.slug, price |-> p.price, tps |-> p.tps] /\ p.slug \in Nat
    BY <2>1, PointType, InputAssumption DEF Point
  <2> QED BY <2>1, <2>2, PointType DEF PointLike
<1>3. IsFiniteSet(left)
  <2>1. IsFiniteSet({bySlug[s] : s \in Slugs})
    <3>1. image \in Surjection(Slugs, {bySlug[s] : s \in Slugs})
      BY DEF Surjection
    <3> HIDE DEF image
    <3> QED BY <3>1, InputAssumption, FS_Surjection
  <2>2. left \subseteq {bySlug[s] : s \in Slugs}
    OBVIOUS
  <2> HIDE DEF left
  <2> QED BY <2>1, <2>2, FS_Subset
<1> HIDE DEF left
<1>4. (pc = "tier" => TierFollows)'
  BY <1>1, <1>2, <1>3, RoundFollows
<1>5. <<>> \o Rankings(left, tolerance')[left] = Rankings(left, tolerance')[left]
  <2>1. Rankings(left, tolerance')[left] \in Seq(SlugsOf(left))
    BY <1>2, <1>3, RankingsStep
  <2> QED BY <2>1, ConcatEmptySeq
<1> QED BY <1>1, <1>3, <1>4, <1>5 DEF Following

\* A tie-free round adds the points as CheapFirst lists them.
LEMMA TierStepFollows ==
    ASSUME IInv, Following, Tier
    PROVE  Following'
<1> DEFINE seq == CheapFirst(avail)
           n   == Cardinality(avail)
<1>1. PICK p \in todo : /\ \A q \in todo : ~Before(q, p)
                        /\ tiers' = AddTier(tiers, p)
                        /\ todo' = todo \ {p}
  BY DEF Tier
<1>2. /\ pc = "tier" /\ pc' = (IF todo' = {} THEN "frontier" ELSE "tier")
      /\ UNCHANGED <<tolerance, given, bySlug, offered, avail, frontier, k, winner, order>>
  BY DEF Tier
<1>3. /\ IsFiniteSet(offered')
      /\ (Untied(offered) => order \o Rankings(offered, tolerance)[avail]
                               = Rankings(offered, tolerance)[offered])'
  <2>1. pc # "screen" /\ pc' # "screen"
    BY <1>2
  <2> QED BY <1>2, <2>1, BalanceKept
<1>4. ASSUME Untied(offered)
      PROVE  /\ (pc = "tier" => TierFollows)'
             /\ pc' = "frontier" => tiers' = Tiers(avail) /\ FrontierFollows'
  <2>1. avail \subseteq PointLike /\ IsFiniteSet(avail) /\ Untied(avail)
    BY <1>4, OfferedPoints
  <2>2. PICK i \in 0..n : /\ todo = Behind(avail, i)
                          /\ \A acc : TierSteps(acc, <<>>, seq) => tiers = acc[i]
    BY <1>2, <1>4 DEF Following, TierFollows
  <2>3. /\ n \in Nat /\ seq \in Seq(avail) /\ Len(seq) = n
    BY <2>1, CheapFirstType
  <2>4. i + 1 \in 1..n /\ p = seq[i + 1] /\ todo' = Behind(avail, i + 1)
    BY <1>1, <2>1, <2>2, NextCheapest
  <2>5. ASSUME NEW acc, TierSteps(acc, <<>>, seq) PROVE tiers' = acc[i + 1]
    <3>1. tiers = acc[i]
      BY <2>2, <2>5
    <3>2. acc[i + 1] = AddTier(acc[(i + 1) - 1], seq[i + 1])
      BY <2>3, <2>4, <2>5 DEF TierSteps
    <3>3. (i + 1) - 1 = i
      OBVIOUS
    <3> QED BY <1>1, <2>4, <3>1, <3>2, <3>3
  <2>6. (pc = "tier" => TierFollows)'
    <3>1. i + 1 \in 0..n
      BY <2>3, <2>4
    <3>2. \E m \in 0..n : /\ todo' = Behind(avail, m)
                          /\ \A acc : TierSteps(acc, <<>>, seq) => tiers' = acc[m]
      BY <2>4, <2>5, <3>1
    <3> QED BY <1>2, <3>2 DEF TierFollows
  <2>7. ASSUME pc' = "frontier" PROVE tiers' = Tiers(avail)
    <3>1. i + 1 = n
      <4>1. todo' = {}
        BY <1>2, <2>7
      <4>2. ~(i + 2 \in ((i + 1) + 1)..n)
        BY <2>4, <4>1 DEF Behind
      <4> HIDE DEF n, seq
      <4> QED BY <2>3, <2>4, <4>2
    <3>2. \E acc : TierSteps(acc, <<>>, seq)
      <4> DEFINE V == Seq(TierOf(avail))
      <4>1. \A v \in V, a \in avail : AddTier(v, a) \in V
        BY <2>1, AddTierType
      <4>2. <<>> \in V
        OBVIOUS
      <4> HIDE DEF V, seq
      <4> QED BY <2>3, <4>1, <4>2, AddTierFold, Zenon
    <3>3. PICK acc : TierSteps(acc, <<>>, seq)
      BY <3>2
    <3> QED BY <2>3, <2>5, <3>1, <3>3 DEF TierSteps, Tiers
  <2>8. ASSUME pc' = "frontier" PROVE FrontierFollows'
    <3>1. frontier' = <<>> /\ k' = 1
      BY <1>2 DEF IInv, Control
    <3> QED BY <3>1 DEF FrontierFollows, FrontierSteps
  <2> QED BY <2>6, <2>7, <2>8
<1>5. pc' \in {"tier", "frontier"} /\ Untied(offered') <=> Untied(offered)
  BY <1>2
<1> QED BY <1>2, <1>3, <1>4, <1>5 DEF Following

\* The tiers are reduced in their order.
LEMMA PushFollows ==
    ASSUME IInv, Following, Push
    PROVE  Following'
<1> DEFINE m == Len(tiers)
<1>1. /\ pc = "frontier" /\ frontier' = PushFrontier(frontier, tiers[k].best)
      /\ UNCHANGED <<tolerance, given, bySlug, offered, avail, todo, tiers, order>>
      /\ \/ k < m /\ pc' = "frontier" /\ k' = k + 1 /\ winner' = winner
         \/ ~(k < m) /\ pc' = "walk" /\ k' = 2 /\ winner' = Head(frontier')
  BY DEF Push
<1>2. /\ IsFiniteSet(offered')
      /\ (Untied(offered) => order \o Rankings(offered, tolerance)[avail]
                               = Rankings(offered, tolerance)[offered])'
  <2>1. pc # "screen" /\ pc' # "screen"
    BY <1>1
  <2> QED BY <1>1, <2>1, BalanceKept
<1>3. ASSUME Untied(offered)
      PROVE  /\ tiers' = Tiers(avail)
             /\ (pc = "frontier" => FrontierFollows)'
             /\ pc' = "walk" => frontier' = Frontier(avail) /\ WalkFollows'
  <2>1. k \in 1..m /\ tiers = Tiers(avail) /\ FrontierFollows
    BY <1>1, <1>3 DEF IInv, Control, Following
  <2>2. avail \subseteq PointLike /\ IsFiniteSet(avail)
    BY OfferedPoints
  <2>3. tiers \in Seq(TierOf(avail))
    BY <2>1, <2>2, TiersType
  <2>4. m \in Nat /\ Bests \in Seq(avail) /\ Len(Bests) = m /\ Bests[k] = tiers[k].best
    <3>1. ASSUME NEW i \in DOMAIN tiers PROVE tiers[i].best \in avail
      <4>1. tiers[i] \in TierOf(avail)
        BY <2>3
      <4> QED BY <4>1 DEF TierOf
    <3> QED BY <2>1, <2>3, <3>1 DEF Bests
  <2>5. Bests' = Bests
    BY <1>1 DEF Bests
  <2>6. ASSUME NEW acc, FrontierSteps(acc, <<>>, Bests) PROVE frontier' = acc[k]
    <3>1. acc[k] = PushFrontier(acc[k - 1], Bests[k])
      BY <2>1, <2>4, <2>6 DEF FrontierSteps
    <3> QED BY <1>1, <2>1, <2>4, <2>6, <3>1 DEF FrontierFollows
  <2>7. (pc = "frontier" => FrontierFollows)'
    <3> SUFFICES ASSUME pc' = "frontier" PROVE FrontierFollows'
      OBVIOUS
    <3>1. k' - 1 = k
      BY <1>1, <2>1
    <3> QED BY <2>5, <2>6, <3>1 DEF FrontierFollows
  <2>8. ASSUME pc' = "walk" PROVE frontier' = Frontier(avail) /\ WalkFollows'
    <3>1. k = m /\ k' = 2 /\ winner' = Head(frontier')
      BY <1>1, <2>1, <2>4, <2>8
    <3>2. \E acc : FrontierSteps(acc, <<>>, Bests)
      <4> DEFINE V == Seq(avail)
      <4>1. \A v \in V, a \in avail : PushFrontier(v, a) \in V
        BY DEF PushFrontier
      <4>2. <<>> \in V
        OBVIOUS
      <4> HIDE DEF V
      <4> QED BY <2>4, <4>1, <4>2, PushFrontierFold, Zenon
    <3>3. PICK acc : FrontierSteps(acc, <<>>, Bests)
      BY <3>2
    <3>4. frontier' = FoldLeft(PushFrontier, <<>>, Bests)
      BY <2>4, <2>6, <3>1, <3>3 DEF FrontierSteps
    <3>5. frontier' = Frontier(avail)
      BY <2>1, <3>4 DEF Frontier, Bests
    <3>6. WalkFollows'
      BY <3>1 DEF WalkFollows, WalkSteps
    <3> QED BY <3>5, <3>6
  <2> QED BY <1>1, <2>1, <2>7, <2>8
<1>4. pc' \in {"frontier", "walk"} /\ avail' = avail /\ (Untied(offered') <=> Untied(offered))
  BY <1>1
<1> QED BY <1>2, <1>3, <1>4 DEF Following

\* The frontier is visited in its order.
LEMMA VisitFollows ==
    ASSUME IInv, Following, Visit
    PROVE  Following'
<1>1. /\ pc = "walk" /\ k <= Len(frontier) /\ k' = k + 1
      /\ winner' = Advance(winner, frontier[k], tolerance)
      /\ UNCHANGED <<tolerance, pc, given, bySlug, offered, avail, todo, tiers, frontier, order>>
  BY DEF Visit
<1>2. /\ IsFiniteSet(offered')
      /\ (Untied(offered) => order \o Rankings(offered, tolerance)[avail]
                               = Rankings(offered, tolerance)[offered])'
  <2>1. pc # "screen" /\ pc' # "screen"
    BY <1>1
  <2> QED BY <1>1, <2>1, BalanceKept
<1>3. k \in 2..Len(frontier) /\ frontier \in Seq(avail) /\ frontier # <<>>
  <2>1. frontier \in Seq(avail) /\ k \in 2..(Len(frontier) + 1)
    BY <1>1, RoundPoints DEF IInv, Control
  <2> QED BY <1>1, <2>1
<1>4. ASSUME Untied(offered) PROVE WalkFollows'
  <2> SUFFICES ASSUME NEW acc, WalkSteps(acc, Head(frontier), Tail(frontier), avail, tolerance)
               PROVE  winner' = acc[k' - 2]
    BY <1>1 DEF WalkFollows
  <2>1. winner = acc[k - 2]
    BY <1>1, <1>4 DEF Following, WalkFollows
  <2>2. k - 1 \in 1..Len(Tail(frontier)) /\ Tail(frontier)[k - 1] = frontier[k]
    <3>1. Len(Tail(frontier)) = Len(frontier) - 1 /\ Len(frontier) \in Nat
      BY <1>3
    <3>2. k - 1 \in 1..Len(Tail(frontier)) /\ (k - 1) + 1 = k
      BY <1>3, <3>1
    <3> QED BY <1>3, <3>2, HeadTailProperties
  <2>3. acc[k - 1] = Advance(acc[(k - 1) - 1], Tail(frontier)[k - 1], tolerance)
    BY <2>2 DEF WalkSteps
  <2>4. (k - 1) - 1 = k - 2 /\ k' - 2 = k - 1
    BY <1>1, <1>3
  <2> QED BY <1>1, <2>1, <2>2, <2>3, <2>4
<1> QED BY <1>1, <1>2, <1>4 DEF Following

\* The walk ends where Terminal does, and the ranking of what is left is what
\* is left of the ranking.
LEMMA TakeFollows ==
    ASSUME IInv, Following, Take
    PROVE  Following'
<1> DEFINE rest == avail \ {winner}
<1>1. /\ pc = "walk" /\ k > Len(frontier) /\ order' = Append(order, winner.slug)
      /\ BeginRound(Remaining)
      /\ UNCHANGED <<tolerance, given, bySlug, offered>>
  BY DEF Take, Ended
<1>2. winner \in avail
  BY EndsWell DEF Take
<1>3. Remaining = rest
  BY <1>2 DEF IInv, Ranking, Remaining
<1>4. avail' = rest /\ pc' \in {"tier", "done"}
  BY <1>1, <1>3 DEF BeginRound
<1>5. /\ offered \subseteq PointLike /\ IsFiniteSet(offered)
      /\ avail \subseteq PointLike /\ IsFiniteSet(avail) /\ avail \in SUBSET offered
  BY OfferedPoints
<1>6. (pc = "tier" => TierFollows)'
  <2>1. rest \subseteq PointLike /\ IsFiniteSet(rest)
    BY <1>5, FS_Subset
  <2> HIDE DEF rest
  <2> QED BY <1>1, <1>3, <2>1, RoundFollows
<1>7. ASSUME Untied(offered) PROVE winner = Terminal(avail, tolerance)
  <2> DEFINE seq  == Tail(frontier)
             base == Head(frontier)
  <2>1. frontier = Frontier(avail) /\ WalkFollows
    BY <1>1, <1>7 DEF Following
  <2>2. frontier \in Seq(avail) /\ k \in 2..(Len(frontier) + 1) /\ frontier # <<>>
    <3>1. frontier \in Seq(avail) /\ k \in 2..(Len(frontier) + 1)
      BY <1>1, RoundPoints DEF IInv, Control
    <3> QED BY <3>1
  <2>3. seq \in Seq(avail) /\ base \in avail /\ Len(seq) = k - 2
    <3>1. Len(seq) = Len(frontier) - 1 /\ Len(frontier) \in Nat /\ k = Len(frontier) + 1
      BY <1>1, <2>2
    <3> QED BY <2>2, <3>1
  <2>4. \A v \in avail, a \in avail : Advance(v, a, tolerance) \in avail
    BY DEF Advance
  <2>5. seq = Tail(Frontier(avail)) /\ base = Head(Frontier(avail))
    BY <2>1
  <2>6. \E acc : WalkSteps(acc, base, seq, avail, tolerance)
    <3> HIDE DEF seq, base
    <3> QED BY <2>3, <2>4, <2>5, AdvanceFold, Zenon
  <2>7. PICK acc : WalkSteps(acc, base, seq, avail, tolerance)
    BY <2>6
  <2>8. winner = acc[k - 2]
    BY <2>1, <2>7 DEF WalkFollows
  <2> QED BY <2>3, <2>7, <2>8 DEF WalkSteps
<1>8. ASSUME Untied(offered)
      PROVE  order' \o Rankings(offered, tolerance)[rest] = Rankings(offered, tolerance)[offered]
  <2> DEFINE rank == Rankings(offered, tolerance)
             S    == SlugsOf(offered) \cup Slugs
  <2>1. rank[avail] = <<winner.slug>> \o rank[rest]
    <3>1. avail # {} /\ winner = Terminal(avail, tolerance)
      BY <1>2, <1>7, <1>8
    <3>2. Rankings(offered, tolerance)[avail] = Cons(winner.slug, Rankings(offered, tolerance)[avail \ {winner}])
      BY <1>5, <3>1, RankingsNext
    <3> QED BY <3>2 DEF Cons
  <2>2. rank[rest] \in Seq(S) /\ winner.slug \in S /\ order \in Seq(S)
    <3>1. rank[rest] \in Seq(SlugsOf(offered)) /\ winner.slug \in SlugsOf(offered)
      BY <1>2, <1>5, RankingsStep DEF SlugsOf
    <3>2. order \in Seq(Slugs)
      BY DEF IInv, Ranking
    <3> HIDE DEF rank
    <3> QED BY <3>1, <3>2
  <2>3. order \o rank[avail] = rank[offered]
    BY <1>1, <1>8 DEF Following
  <2> HIDE DEF rank, rest, S
  <2>4. order' = order \o <<winner.slug>>
    BY <1>1, <2>2
  <2>5. (order \o <<winner.slug>>) \o rank[rest] = order \o (<<winner.slug>> \o rank[rest])
    <3> DEFINE x == winner.slug
               q == rank[rest]
    <3>1. q \in Seq(S) /\ x \in S /\ order \in Seq(S)
      BY <2>2
    <3> HIDE DEF x, q
    <3>2. (order \o <<x>>) \o q = order \o (<<x>> \o q)
      BY <3>1
    <3> QED BY <3>2 DEF x, q
  <2> QED BY <2>1, <2>3, <2>4, <2>5 DEF rank
<1>9. IsFiniteSet(offered') /\ offered' = offered /\ tolerance' = tolerance
  BY <1>1 DEF Following
<1> HIDE DEF rest
<1> QED BY <1>4, <1>6, <1>8, <1>9 DEF Following

\* OrderIsRanking holds for every set of points and every tolerance: the loops
\* and the operators that routing and selection are modelled with compute the
\* same (ranked_order, _tier_and_frontier, _walk_points).
THEOREM OrderIsRankingHolds == Spec => []OrderIsRanking
<1>1. Init => Following
  BY FS_EmptySet DEF Init, Following
<1>2. IInv /\ Following /\ [Next]_vars => Following'
  <2> SUFFICES ASSUME IInv, Following, [Next]_vars PROVE Following'
    OBVIOUS
  <2>1. CASE UNCHANGED vars
    BY <2>1 DEF vars, roundVars, Following, TierFollows, FrontierFollows, WalkFollows, Bests
  <2> QED BY <2>1, ScreenFollows, ExcludeFollows, TierStepFollows, PushFollows, VisitFollows,
             TakeFollows DEF Next
<1>3. IInv /\ Following => OrderIsRanking
  <2> SUFFICES ASSUME IInv, Following, pc = "done", Untied(offered)
               PROVE  order = Rankings(offered, tolerance)[offered]
    BY DEF OrderIsRanking
  <2>1. avail = {}
    BY DEF IInv, Control
  <2>2. Rankings(offered, tolerance)[{}] = <<>>
    BY OfferedPoints, RankingsStep
  <2>3. order \o <<>> = Rankings(offered, tolerance)[offered]
    BY <2>1, <2>2 DEF Following
  <2>4. order \o <<>> = order
    BY ConcatEmptySeq DEF IInv, Ranking
  <2> QED BY <2>3, <2>4
<1> QED BY <1>1, <1>2, <1>3, Invariance, PTL DEF Spec
=============================================================================
