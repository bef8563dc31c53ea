--------------------------- MODULE ValueWalkProofs ---------------------------
(***************************************************************************)
(* What the folds and the recursion of ValueWalk compute, for every finite *)
(* set of points and every tolerance.                                      *)
(*                                                                         *)
(* A fold and a ranking are recursive functions on the subsets of a finite *)
(* set.  That such a function exists, and what it computes, follows from   *)
(* the well-foundedness of strict inclusion on these subsets; predicates   *)
(* and steps are given to the lemmas as sets and functions.                *)
(***************************************************************************)
EXTENDS ValueWalk, FiniteSetTheorems, FunctionTheorems, WellFoundedInduction, TLAPS

-----------------------------------------------------------------------------
(* Induction and recursion over the subsets of a finite set.               *)

\* What holds of a subset whenever it holds of all smaller ones holds of all.
LEMMA SubsetInduction ==
    ASSUME NEW D, IsFiniteSet(D), NEW Holds,
           \A s \in SUBSET D : (\A t \in SUBSET s : t # s => t \in Holds) => s \in Holds
    PROVE  \A s \in SUBSET D : s \in Holds
<1> DEFINE Fails == {s \in SUBSET D : s \notin Holds}
<1>1. SUFFICES ASSUME Fails # {} PROVE FALSE
  OBVIOUS
<1>2. Fails \subseteq FiniteSubsetsOf(D)
  BY FS_FiniteSubsetsOfFinite
<1>3. PICK s \in Fails : \A t \in Fails : <<t, s>> \notin StrictSubsetOrdering(D)
  <2> HIDE DEF Fails
  <2> QED BY <1>1, <1>2, FS_StrictSubsetOrderingWellFounded, WFMin
<1>4. ASSUME NEW t \in SUBSET s, t # s PROVE t \in Holds
  <2>1. <<t, s>> \in StrictSubsetOrdering(D)
    BY <1>4 DEF StrictSubsetOrdering
  <2> QED BY <1>3, <2>1
<1> QED BY <1>3, <1>4

\* What holds of 0, and of each number up to n if of the one before, holds up
\* to n.
LEMMA UpTo ==
    ASSUME NEW n \in Nat, NEW Holds, 0 \in Holds,
           \A i \in 1..n : i - 1 \in Holds => i \in Holds
    PROVE  \A i \in 0..n : i \in Holds
<1> DEFINE Good == {s \in SUBSET (1..n) : \A i \in 0..n : s = 1..i => i \in Holds}
<1>1. IsFiniteSet(1..n)
  BY FS_Interval
<1>2. ASSUME NEW s \in SUBSET (1..n), \A t \in SUBSET s : t # s => t \in Good
      PROVE  s \in Good
  <2> SUFFICES ASSUME NEW i \in 0..n, s = 1..i PROVE i \in Holds
    OBVIOUS
  <2>1. CASE i = 0
    BY <2>1
  <2>2. CASE i # 0
    <3>1. i - 1 \in 0..n /\ i \in 1..n
      BY <2>2
    <3>2. 1..(i - 1) \subseteq s /\ 1..(i - 1) # s
      <4>1. i \in s /\ i \notin 1..(i - 1)
        BY <3>1
      <4> QED BY <4>1
    <3>3. 1..(i - 1) \in Good
      BY <1>2, <3>2
    <3> QED BY <3>1, <3>3
  <2> QED BY <2>1, <2>2
<1>3. \A s \in SUBSET (1..n) : s \in Good
  <2> HIDE DEF Good
  <2> QED BY <1>1, <1>2, SubsetInduction
<1>4. ASSUME NEW i \in 0..n PROVE i \in Holds
  <2>1. 1..i \in SUBSET (1..n)
    OBVIOUS
  <2> QED BY <1>3, <2>1
<1> QED BY <1>4

\* h is defined by recursion: pick names the element a subset is left without.
Recursive(h, D, base, pick, step) ==
    h = [s \in SUBSET D |-> IF s = {} THEN base ELSE step[<<s, h[s \ {pick[s]}]>>]]

\* Recursive functions over two sets agree on the subsets of both.
LEMMA RecursiveAgree ==
    ASSUME NEW C, NEW D, IsFiniteSet(C), NEW base, NEW pick, NEW step,
           \A s \in SUBSET C : s # {} => pick[s] \in s,
           NEW g, Recursive(g, C, base, pick, step),
           NEW h, Recursive(h, D, base, pick, step),
           C \subseteq D
    PROVE  \A s \in SUBSET C : g[s] = h[s]
<1> DEFINE Holds == {s \in SUBSET C : g[s] = h[s]}
<1>1. ASSUME NEW s \in SUBSET C, \A t \in SUBSET s : t # s => t \in Holds
      PROVE  s \in Holds
  <2>1. /\ g[s] = IF s = {} THEN base ELSE step[<<s, g[s \ {pick[s]}]>>]
        /\ h[s] = IF s = {} THEN base ELSE step[<<s, h[s \ {pick[s]}]>>]
    BY DEF Recursive
  <2>2. s # {} => g[s \ {pick[s]}] = h[s \ {pick[s]}]
    BY <1>1
  <2> QED BY <2>1, <2>2
<1>2. \A s \in SUBSET C : s \in Holds
  <2> HIDE DEF Holds
  <2> QED BY <1>1, SubsetInduction
<1> QED BY <1>2

\* A recursion whose steps stay within V defines a function into V.
LEMMA RecursiveExists ==
    ASSUME NEW D, IsFiniteSet(D), NEW V, NEW base \in V, NEW pick,
           \A s \in SUBSET D : s # {} => pick[s] \in s,
           NEW step \in [(SUBSET D) \X V -> V]
    PROVE  \E h \in [SUBSET D -> V] : Recursive(h, D, base, pick, step)
<1> DEFINE Is(h, s) == h \in [SUBSET s -> V] /\ Recursive(h, s, base, pick, step)
           Holds    == {s \in SUBSET D : \E h : Is(h, s)}
<1>1. ASSUME NEW s \in SUBSET D, \A t \in SUBSET s : t # s => t \in Holds
      PROVE  s \in Holds
  <2> DEFINE sub  == [t \in SUBSET s |-> CHOOSE h : Is(h, t)]
             h    == [t \in SUBSET s |->
                        IF t = {} THEN base
                        ELSE step[<<t, sub[t \ {pick[t]}][t \ {pick[t]}]>>]]
             less == {t \in SUBSET s : t # s}
  <2>1. ASSUME NEW t \in SUBSET s, t # s PROVE Is(sub[t], t)
    BY <1>1, <2>1
  <2>2. ASSUME NEW t \in SUBSET s, t # {} PROVE t \ {pick[t]} \in less /\ t \in SUBSET D
    BY <2>2
  <2>3. h \in [SUBSET s -> V]
    <3>1. ASSUME NEW t \in SUBSET s, t # {}
          PROVE  step[<<t, sub[t \ {pick[t]}][t \ {pick[t]}]>>] \in V
      <4> DEFINE u == t \ {pick[t]}
      <4>1. Is(sub[u], u)
        BY <2>1, <2>2, <3>1
      <4>2. sub[u][u] \in V
        <5> HIDE DEF sub, u
        <5> QED BY <4>1
      <4>3. <<t, sub[u][u]>> \in (SUBSET D) \X V
        <5> HIDE DEF sub, u
        <5> QED BY <4>2
      <4> HIDE DEF sub
      <4> QED BY <4>3
    <3> HIDE DEF sub
    <3> QED BY <3>1
  <2>4. ASSUME NEW t \in SUBSET s, t # s PROVE h[t] = sub[t][t]
    <3>1. Is(sub[t], t)
      BY <2>1, <2>4
    <3>2. sub[t][t] = IF t = {} THEN base ELSE step[<<t, sub[t][t \ {pick[t]}]>>]
      <4> HIDE DEF sub
      <4> QED BY <3>1 DEF Recursive
    <3>3. CASE t = {}
      BY <3>2, <3>3
    <3>4. CASE t # {}
      <4> DEFINE u == t \ {pick[t]}
      <4>1. u \in SUBSET s /\ u # s /\ u \in SUBSET t /\ t \in SUBSET D
        BY <2>2, <3>4
      <4>2. Is(sub[u], u)
        BY <2>1, <4>1
      <4>3. IsFiniteSet(u)
        BY <4>1, FS_Subset
      <4>4. \A x \in SUBSET u : x # {} => pick[x] \in x
        BY <4>1
      <4>5. sub[u][u] = sub[t][u]
        <5> HIDE DEF sub, u
        <5>1. /\ Recursive(sub[u], u, base, pick, step)
              /\ Recursive(sub[t], t, base, pick, step)
              /\ u \subseteq t
          BY <3>1, <4>1, <4>2
        <5>2. \A x \in SUBSET u : sub[u][x] = sub[t][x]
          BY <4>3, <4>4, <5>1, RecursiveAgree
        <5> QED BY <5>2
      <4>6. h[t] = step[<<t, sub[u][u]>>]
        <5> HIDE DEF sub
        <5> QED BY <3>4
      <4> HIDE DEF h, sub
      <4> QED BY <3>2, <3>4, <4>5, <4>6
    <3> QED BY <3>3, <3>4
  <2>5. Recursive(h, s, base, pick, step)
    <3>1. ASSUME NEW t \in SUBSET s, t # {}
          PROVE  sub[t \ {pick[t]}][t \ {pick[t]}] = h[t \ {pick[t]}]
      <4>1. t \ {pick[t]} \in SUBSET s /\ t \ {pick[t]} # s
        BY <2>2, <3>1
      <4> HIDE DEF h, sub
      <4> QED BY <2>4, <4>1
    <3>2. \A t \in SUBSET s : h[t] = IF t = {} THEN base ELSE step[<<t, h[t \ {pick[t]}]>>]
      <4>1. \A t \in SUBSET s :
               h[t] = IF t = {} THEN base ELSE step[<<t, sub[t \ {pick[t]}][t \ {pick[t]}]>>]
        <5> HIDE DEF sub
        <5> QED OBVIOUS
      <4> HIDE DEF h, sub
      <4> QED BY <3>1, <4>1
    <3> HIDE DEF h
    <3> QED BY <2>3, <3>2 DEF Recursive
  <2> HIDE DEF h
  <2> QED BY <2>3, <2>5
<1>2. \A s \in SUBSET D : s \in Holds
  <2> HIDE DEF Holds
  <2> QED BY <1>1, SubsetInduction
<1>3. D \in Holds
  <2> HIDE DEF Holds
  <2> QED BY <1>2
<1> QED BY <1>3
-----------------------------------------------------------------------------
(* Folds over sequences.                                                   *)

\* A set of positions that is not empty has a last one.
LEMMA MaxOf ==
    ASSUME NEW n \in Nat, NEW s \in SUBSET (1..n), s # {}
    PROVE  Max(s) \in s /\ \A x \in s : x <= Max(s)
<1> DEFINE D     == 1..n
           Holds == {t \in SUBSET D : t = {} \/ \E x \in t : \A y \in t : x >= y}
<1>1. ASSUME NEW t \in SUBSET D, \A u \in SUBSET t : u # t => u \in Holds
      PROVE  t \in Holds
  <2>1. CASE t = {}
    BY <2>1
  <2>2. CASE t # {}
    <3>1. PICK x \in t : TRUE
      BY <2>2
    <3>2. CASE t \ {x} = {}
      BY <3>1, <3>2
    <3>3. CASE t \ {x} # {}
      <4>1. t \ {x} \in Holds
        BY <1>1, <3>1
      <4>2. PICK m \in t \ {x} : \A y \in t \ {x} : m >= y
        BY <3>3, <4>1
      <4>3. m \in Int /\ x \in Int
        OBVIOUS
      <4>4. CASE m >= x
        BY <4>2, <4>4
      <4>5. CASE x > m
        <5>1. \A y \in t : y \in Int
          OBVIOUS
        <5>2. \A y \in t : x >= y
          BY <4>2, <4>3, <4>5, <5>1
        <5> QED BY <5>2
      <4> QED BY <4>3, <4>4, <4>5
    <3> QED BY <3>2, <3>3
  <2> QED BY <2>1, <2>2
<1>2. \A t \in SUBSET D : t \in Holds
  <2>1. IsFiniteSet(D)
    BY FS_Interval
  <2> HIDE DEF Holds, D
  <2> QED BY <1>1, <2>1, SubsetInduction
<1>3. \E x \in s : \A y \in s : x >= y
  BY <1>2
<1>4. Max(s) \in s /\ \A y \in s : Max(s) >= y
  BY <1>3 DEF Max
<1> QED BY <1>4

\* The last position of a prefix, and what comes before it.
LEMMA MaxOfPrefix ==
    ASSUME NEW n \in Nat, NEW i \in 1..n
    PROVE  Max(1..i) = i /\ (1..i) \ {i} = 1..(i - 1) /\ 1..i # {}
<1>1. 1..i \in SUBSET (1..n) /\ 1..i # {} /\ i \in 1..i
  OBVIOUS
<1>2. Max(1..i) \in 1..i /\ i <= Max(1..i)
  BY <1>1, MaxOf
<1> QED BY <1>1, <1>2

\* h is the function that a fold over n positions is defined by.
FoldOf(h, n, base, step) ==
    \A s \in SUBSET (1..n) : h[s] = IF s = {} THEN base ELSE step[<<Max(s), h[s \ {Max(s)}]>>]

\* It exists.
LEMMA FoldExists ==
    ASSUME NEW n \in Nat, NEW V, NEW base \in V, NEW step \in [(1..n) \X V -> V]
    PROVE  \E h \in [SUBSET (1..n) -> V] : FoldOf(h, n, base, step)
<1> DEFINE D     == 1..n
           pick  == [s \in SUBSET D |-> Max(s)]
           whole == [p \in (SUBSET D) \X V |-> IF p[1] = {} THEN base ELSE step[<<Max(p[1]), p[2]>>]]
<1>1. IsFiniteSet(D)
  BY FS_Interval
<1>2. \A s \in SUBSET D : s # {} => pick[s] = Max(s) /\ pick[s] \in s /\ pick[s] \in D
  BY MaxOf
<1>3. whole \in [(SUBSET D) \X V -> V]
  <2>1. ASSUME NEW p \in (SUBSET D) \X V, p[1] # {} PROVE step[<<Max(p[1]), p[2]>>] \in V
    <3>1. p[1] \in SUBSET D /\ p[2] \in V
      OBVIOUS
    <3>2. Max(p[1]) \in D
      BY <2>1, <3>1, MaxOf
    <3> QED BY <3>1, <3>2
  <2> QED BY <2>1
<1>4. PICK h \in [SUBSET D -> V] : Recursive(h, D, base, pick, whole)
  <2>1. \A s \in SUBSET D : s # {} => pick[s] \in s
    BY <1>2
  <2> HIDE DEF D, pick, whole
  <2> QED BY <1>1, <1>3, <2>1, RecursiveExists
<1>5. ASSUME NEW s \in SUBSET D
      PROVE  h[s] = IF s = {} THEN base ELSE step[<<Max(s), h[s \ {Max(s)}]>>]
  <2>1. h[s] = IF s = {} THEN base ELSE whole[<<s, h[s \ {pick[s]}]>>]
    <3> HIDE DEF D, pick, whole
    <3> QED BY <1>4, <1>5 DEF Recursive
  <2>2. CASE s = {}
    BY <2>1, <2>2
  <2>3. CASE s # {}
    <3>1. pick[s] = Max(s)
      BY <1>2, <2>3
    <3>2. h[s \ {Max(s)}] \in V
      <4>1. s \ {Max(s)} \in SUBSET D
        OBVIOUS
      <4> HIDE DEF D
      <4> QED BY <1>4, <4>1
    <3>3. whole[<<s, h[s \ {Max(s)}]>>] = step[<<Max(s), h[s \ {Max(s)}]>>]
      BY <2>3, <3>2
    <3> HIDE DEF pick, whole
    <3> QED BY <2>1, <2>3, <3>1, <3>3
  <2> QED BY <2>2, <2>3
<1> QED BY <1>4, <1>5 DEF FoldOf

\* acc holds the tiers made of each prefix of seq.
TierSteps(acc, base, seq) ==
    /\ acc[0] = base
    /\ \A i \in 1..Len(seq) : acc[i] = AddTier(acc[i - 1], seq[i])
    /\ acc[Len(seq)] = FoldLeft(AddTier, base, seq)

\* The fold that makes the tiers, step by step.
LEMMA AddTierFold ==
    ASSUME NEW A, NEW seq \in Seq(A), NEW V, NEW base \in V,
           \A v \in V, a \in A : AddTier(v, a) \in V
    PROVE  \E acc : TierSteps(acc, base, seq)
<1> DEFINE n       == Len(seq)
           step    == [p \in (1..n) \X V |-> AddTier(p[2], seq[p[1]])]
           Is(h)   == h = [s \in SUBSET (1..n) |->
                             IF s = {} THEN base ELSE AddTier(h[s \ {Max(s)}], seq[Max(s)])]
           fold    == CHOOSE h : Is(h)
           acc     == [i \in 0..n |-> fold[1..i]]
<1>1. n \in Nat /\ DOMAIN seq = 1..n
  OBVIOUS
<1>2. step \in [(1..n) \X V -> V]
  OBVIOUS
<1>3. PICK h \in [SUBSET (1..n) -> V] : FoldOf(h, n, base, step)
  <2> HIDE DEF step, n
  <2> QED BY <1>1, <1>2, FoldExists, Zenon
<1>4. Is(h)
  <2>1. ASSUME NEW s \in SUBSET (1..n), s # {}
        PROVE  step[<<Max(s), h[s \ {Max(s)}]>>] = AddTier(h[s \ {Max(s)}], seq[Max(s)])
    <3>1. Max(s) \in 1..n
      BY <1>1, <2>1, MaxOf
    <3>2. h[s \ {Max(s)}] \in V
      OBVIOUS
    <3> QED BY <3>1, <3>2
  <2> HIDE DEF step, n
  <2> QED BY <1>3, <2>1 DEF FoldOf
<1>5. Is(fold)
  <2> HIDE DEF Is
  <2> QED BY <1>4
<1>6. FoldLeft(AddTier, base, seq) = fold[1..n]
  BY <1>1 DEF FoldLeft, MapThenFoldSet
<1>7. \A s \in SUBSET (1..n) :
         fold[s] = IF s = {} THEN base ELSE AddTier(fold[s \ {Max(s)}], seq[Max(s)])
  <2> HIDE DEF fold, n
  <2> QED BY <1>5
<1>8. acc[0] = base
  <2>1. {} \in SUBSET (1..n) /\ 1..0 = {}
    OBVIOUS
  <2>2. acc[0] = fold[{}]
    <3> HIDE DEF fold
    <3> QED BY <2>1
  <2> HIDE DEF fold, n, acc
  <2> QED BY <1>7, <2>1, <2>2
<1>9. ASSUME NEW i \in 1..n PROVE acc[i] = AddTier(acc[i - 1], seq[i])
  <2>1. Max(1..i) = i /\ (1..i) \ {i} = 1..(i - 1) /\ 1..i # {}
    BY <1>1, MaxOfPrefix
  <2>2. acc[i] = fold[1..i] /\ acc[i - 1] = fold[1..(i - 1)] /\ 1..i \in SUBSET (1..n)
    <3> HIDE DEF fold
    <3> QED OBVIOUS
  <2> HIDE DEF fold, n, acc
  <2> QED BY <1>7, <2>1, <2>2
<1>10. acc[n] = fold[1..n]
  <2> HIDE DEF fold
  <2> QED BY <1>1
<1> HIDE DEF fold, acc
<1> QED BY <1>6, <1>8, <1>9, <1>10 DEF TierSteps

\* acc holds the frontier made of each prefix of seq.
FrontierSteps(acc, base, seq) ==
    /\ acc[0] = base
    /\ \A i \in 1..Len(seq) : acc[i] = PushFrontier(acc[i - 1], seq[i])
    /\ acc[Len(seq)] = FoldLeft(PushFrontier, base, seq)

\* The fold that makes the frontier, step by step.
LEMMA PushFrontierFold ==
    ASSUME NEW A, NEW seq \in Seq(A), NEW V, NEW base \in V,
           \A v \in V, a \in A : PushFrontier(v, a) \in V
    PROVE  \E acc : FrontierSteps(acc, base, seq)
<1> DEFINE n       == Len(seq)
           step    == [p \in (1..n) \X V |-> PushFrontier(p[2], seq[p[1]])]
           Is(h)   == h = [s \in SUBSET (1..n) |->
                             IF s = {} THEN base ELSE PushFrontier(h[s \ {Max(s)}], seq[Max(s)])]
           fold    == CHOOSE h : Is(h)
           acc     == [i \in 0..n |-> fold[1..i]]
<1>1. n \in Nat /\ DOMAIN seq = 1..n
  OBVIOUS
<1>2. step \in [(1..n) \X V -> V]
  OBVIOUS
<1>3. PICK h \in [SUBSET (1..n) -> V] : FoldOf(h, n, base, step)
  <2> HIDE DEF step, n
  <2> QED BY <1>1, <1>2, FoldExists, Zenon
<1>4. Is(h)
  <2>1. ASSUME NEW s \in SUBSET (1..n), s # {}
        PROVE  step[<<Max(s), h[s \ {Max(s)}]>>] = PushFrontier(h[s \ {Max(s)}], seq[Max(s)])
    <3>1. Max(s) \in 1..n
      BY <1>1, <2>1, MaxOf
    <3>2. h[s \ {Max(s)}] \in V
      OBVIOUS
    <3> QED BY <3>1, <3>2
  <2> HIDE DEF step, n
  <2> QED BY <1>3, <2>1 DEF FoldOf
<1>5. Is(fold)
  <2> HIDE DEF Is
  <2> QED BY <1>4
<1>6. FoldLeft(PushFrontier, base, seq) = fold[1..n]
  BY <1>1 DEF FoldLeft, MapThenFoldSet
<1>7. \A s \in SUBSET (1..n) :
         fold[s] = IF s = {} THEN base ELSE PushFrontier(fold[s \ {Max(s)}], seq[Max(s)])
  <2> HIDE DEF fold, n
  <2> QED BY <1>5
<1>8. acc[0] = base
  <2>1. {} \in SUBSET (1..n) /\ 1..0 = {}
    OBVIOUS
  <2>2. acc[0] = fold[{}]
    <3> HIDE DEF fold
    <3> QED BY <2>1
  <2> HIDE DEF fold, n, acc
  <2> QED BY <1>7, <2>1, <2>2
<1>9. ASSUME NEW i \in 1..n PROVE acc[i] = PushFrontier(acc[i - 1], seq[i])
  <2>1. Max(1..i) = i /\ (1..i) \ {i} = 1..(i - 1) /\ 1..i # {}
    BY <1>1, MaxOfPrefix
  <2>2. acc[i] = fold[1..i] /\ acc[i - 1] = fold[1..(i - 1)] /\ 1..i \in SUBSET (1..n)
    <3> HIDE DEF fold
    <3> QED OBVIOUS
  <2> HIDE DEF fold, n, acc
  <2> QED BY <1>7, <2>1, <2>2
<1>10. acc[n] = fold[1..n]
  <2> HIDE DEF fold
  <2> QED BY <1>1
<1> HIDE DEF fold, acc
<1> QED BY <1>6, <1>8, <1>9, <1>10 DEF FrontierSteps

\* acc holds where the walk stands after each prefix of seq.
WalkSteps(acc, base, seq, points, tolerance) ==
    /\ acc[0] = base
    /\ \A i \in 1..Len(seq) : acc[i] = Advance(acc[i - 1], seq[i], tolerance)
    /\ acc[Len(seq)] = Terminal(points, tolerance)

\* The fold that walks the frontier, step by step.
LEMMA AdvanceFold ==
    ASSUME NEW tolerance, NEW points, NEW A, NEW V,
           NEW seq \in Seq(A), seq = Tail(Frontier(points)),
           NEW base \in V, base = Head(Frontier(points)),
           \A v \in V, a \in A : Advance(v, a, tolerance) \in V
    PROVE  \E acc : WalkSteps(acc, base, seq, points, tolerance)
<1> DEFINE n       == Len(seq)
           step    == [p \in (1..n) \X V |-> Advance(p[2], seq[p[1]], tolerance)]
           Is(h)   == h = [s \in SUBSET (1..n) |->
                             IF s = {} THEN base ELSE Advance(h[s \ {Max(s)}], seq[Max(s)], tolerance)]
           fold    == CHOOSE h : Is(h)
           acc     == [i \in 0..n |-> fold[1..i]]
<1>1. n \in Nat /\ DOMAIN seq = 1..n
  OBVIOUS
<1>2. step \in [(1..n) \X V -> V]
  OBVIOUS
<1>3. PICK h \in [SUBSET (1..n) -> V] : FoldOf(h, n, base, step)
  <2> HIDE DEF step, n
  <2> QED BY <1>1, <1>2, FoldExists, Zenon
<1>4. Is(h)
  <2>1. ASSUME NEW s \in SUBSET (1..n), s # {}
        PROVE  step[<<Max(s), h[s \ {Max(s)}]>>] = Advance(h[s \ {Max(s)}], seq[Max(s)], tolerance)
    <3>1. Max(s) \in 1..n
      BY <1>1, <2>1, MaxOf
    <3>2. h[s \ {Max(s)}] \in V
      OBVIOUS
    <3> QED BY <3>1, <3>2
  <2> HIDE DEF step, n
  <2> QED BY <1>3, <2>1 DEF FoldOf
<1>5. Is(fold)
  <2> HIDE DEF Is
  <2> QED BY <1>4
<1>6. Terminal(points, tolerance) = fold[1..n]
  BY <1>1 DEF Terminal, FoldLeft, MapThenFoldSet
<1>7. \A s \in SUBSET (1..n) :
         fold[s] = IF s = {} THEN base ELSE Advance(fold[s \ {Max(s)}], seq[Max(s)], tolerance)
  <2> HIDE DEF fold, n
  <2> QED BY <1>5
<1>8. acc[0] = base
  <2>1. {} \in SUBSET (1..n) /\ 1..0 = {}
    OBVIOUS
  <2>2. acc[0] = fold[{}]
    <3> HIDE DEF fold
    <3> QED BY <2>1
  <2> HIDE DEF fold, n, acc
  <2> QED BY <1>7, <2>1, <2>2
<1>9. ASSUME NEW i \in 1..n PROVE acc[i] = Advance(acc[i - 1], seq[i], tolerance)
  <2>1. Max(1..i) = i /\ (1..i) \ {i} = 1..(i - 1) /\ 1..i # {}
    BY <1>1, MaxOfPrefix
  <2>2. acc[i] = fold[1..i] /\ acc[i - 1] = fold[1..(i - 1)] /\ 1..i \in SUBSET (1..n)
    <3> HIDE DEF fold
    <3> QED OBVIOUS
  <2> HIDE DEF fold, n, acc
  <2> QED BY <1>7, <2>1, <2>2
<1>10. acc[n] = fold[1..n]
  <2> HIDE DEF fold
  <2> QED BY <1>1
<1> HIDE DEF fold, acc
<1> QED BY <1>6, <1>8, <1>9, <1>10 DEF WalkSteps
-----------------------------------------------------------------------------
(* The order of a selection's points.                                      *)

PointLike == [slug : Nat, price : Int, tps : Int]

\* Of two points that differ, one precedes the other.
LEMMA PrecedesOrders ==
    /\ \A p \in PointLike : ~Precedes(p, p)
    /\ \A p, q \in PointLike : p # q => Precedes(p, q) \/ Precedes(q, p)
    /\ \A p, q, r \in PointLike : Precedes(p, q) /\ Precedes(q, r) => Precedes(p, r)
<1>0. \A p \in PointLike : p.slug \in Nat /\ p.price \in Int /\ p.tps \in Int
  BY DEF PointLike
<1>1. \A p \in PointLike : ~Precedes(p, p)
  BY <1>0 DEF Precedes, Before
<1>2. ASSUME NEW p \in PointLike, NEW q \in PointLike, p # q
      PROVE  Precedes(p, q) \/ Precedes(q, p)
  <2>1. p.slug # q.slug \/ p.price # q.price \/ p.tps # q.tps
    BY <1>2 DEF PointLike
  <2> QED BY <1>0, <2>1 DEF Precedes, Before
<1>3. ASSUME NEW p \in PointLike, NEW q \in PointLike, NEW r \in PointLike,
             Precedes(p, q), Precedes(q, r)
      PROVE  Precedes(p, r)
  BY <1>0, <1>3 DEF Precedes, Before
<1> QED BY <1>1, <1>2, <1>3

LEMMA PositionCount ==
    ASSUME NEW n \in Nat
    PROVE  IsFiniteSet(0..(n - 1)) /\ Cardinality(0..(n - 1)) = n
  BY FS_Interval

\* CheapFirst sorts: it lists every point, each before those it precedes.
LEMMA Sorted ==
    ASSUME NEW points, points \subseteq PointLike, IsFiniteSet(points),
           NEW n, n = Cardinality(points), NEW seq, seq = CheapFirst(points)
    PROVE  /\ n \in Nat
           /\ seq \in [1..n -> points]
           /\ \A p \in points : \E i \in 1..n : seq[i] = p
           /\ \A i, j \in 1..n : i < j => Precedes(seq[i], seq[j])
<1> DEFINE below(p) == {q \in points : Precedes(q, p)}
           rank     == [p \in points |-> Cardinality(below(p))]
<1>1. n \in Nat
  BY FS_CardinalityType
<1>2. ASSUME NEW p \in points PROVE IsFiniteSet(below(p)) /\ rank[p] \in 0..(n - 1)
  <2>1. below(p) \in SUBSET points /\ below(p) # points
    BY PrecedesOrders
  <2> HIDE DEF below
  <2>2. IsFiniteSet(below(p)) /\ Cardinality(below(p)) <= n /\ Cardinality(below(p)) # n
    BY <2>1, FS_Subset
  <2>3. Cardinality(below(p)) \in Nat
    BY <2>2, FS_CardinalityType
  <2> QED BY <1>1, <2>2, <2>3
<1>3. ASSUME NEW p \in points, NEW q \in points, Precedes(p, q)
      PROVE  rank[p] < rank[q]
  <2>1. below(p) \in SUBSET below(q) /\ below(p) # below(q)
    <3>1. p \in below(q) /\ p \notin below(p)
      BY <1>3, PrecedesOrders
    <3>2. below(p) \subseteq below(q)
      BY <1>3, PrecedesOrders
    <3> QED BY <3>1, <3>2
  <2>2. /\ IsFiniteSet(below(q)) /\ Cardinality(below(p)) \in 0..(n - 1)
        /\ Cardinality(below(q)) \in 0..(n - 1)
    BY <1>2
  <2> HIDE DEF below
  <2>3. Cardinality(below(p)) <= Cardinality(below(q)) /\ Cardinality(below(p)) # Cardinality(below(q))
    BY <2>1, <2>2, FS_Subset
  <2> QED BY <1>1, <2>2, <2>3
<1>4. \A p, q \in points : p # q => rank[p] # rank[q]
  <2> SUFFICES ASSUME NEW p \in points, NEW q \in points, p # q PROVE rank[p] # rank[q]
    OBVIOUS
  <2>1. rank[p] \in 0..(n - 1) /\ rank[q] \in 0..(n - 1)
    BY <1>2
  <2>2. Precedes(p, q) \/ Precedes(q, p)
    BY PrecedesOrders
  <2> HIDE DEF rank
  <2> QED BY <1>1, <1>3, <2>1, <2>2
<1>5. ASSUME NEW i \in 1..n PROVE \E p \in points : rank[p] = i - 1
  <2> DEFINE positions == 0..(n - 1)
  <2>1. IsFiniteSet(positions) /\ Cardinality(positions) = n
    BY <1>1, PositionCount
  <2>2. rank \in Injection(points, positions)
    <3>1. rank \in [points -> positions]
      BY <1>2
    <3> HIDE DEF rank, positions
    <3> QED BY <1>4, <3>1 DEF Injection, IsInjective
  <2>3. rank \in Surjection(points, positions)
    <3> HIDE DEF rank, positions
    <3> QED BY <2>1, <2>2, FS_Injection
  <2>4. i - 1 \in positions
    BY <1>1
  <2> HIDE DEF rank, positions
  <2> QED BY <2>3, <2>4 DEF Surjection
<1> DEFINE at(i) == CHOOSE p \in points : Cardinality({q \in points : Precedes(q, p)}) = i - 1
<1>6. ASSUME NEW i \in 1..n PROVE at(i) \in points /\ rank[at(i)] = i - 1
  <2>1. PICK p \in points : Cardinality({q \in points : Precedes(q, p)}) = i - 1
    BY <1>5
  <2>2. at(i) \in points /\ Cardinality({q \in points : Precedes(q, at(i))}) = i - 1
    BY <2>1
  <2> HIDE DEF at
  <2> QED BY <2>2
<1>7. seq \in [1..n -> points] /\ \A i \in 1..n : seq[i] \in points /\ rank[seq[i]] = i - 1
  <2>1. seq = [i \in 1..n |-> at(i)]
    BY DEF CheapFirst
  <2> HIDE DEF at, rank
  <2> QED BY <1>6, <2>1
<1>8. ASSUME NEW p \in points PROVE \E i \in 1..n : seq[i] = p
  <2>1. rank[p] \in Int /\ rank[p] + 1 \in 1..n
    <3>1. rank[p] \in 0..(n - 1)
      BY <1>2
    <3> HIDE DEF rank
    <3> QED BY <1>1, <3>1
  <2> HIDE DEF rank
  <2>2. rank[seq[rank[p] + 1]] = rank[p] /\ seq[rank[p] + 1] \in points
    BY <1>7, <2>1
  <2> QED BY <1>4, <2>1, <2>2
<1>9. ASSUME NEW i \in 1..n, NEW j \in 1..n, i < j PROVE Precedes(seq[i], seq[j])
  <2> HIDE DEF rank
  <2>1. /\ seq[i] \in points /\ seq[j] \in points
        /\ rank[seq[i]] = i - 1 /\ rank[seq[j]] = j - 1
    BY <1>7
  <2>2. seq[i] # seq[j] /\ ~Precedes(seq[j], seq[i])
    BY <1>3, <1>9, <2>1
  <2> QED BY <2>1, <2>2, PrecedesOrders
<1> QED BY <1>1, <1>7, <1>8, <1>9
-----------------------------------------------------------------------------
(* Where the walk ends: at one of the points.                              *)

\* A tier of some points: the price of one of them, and one of them.
TierOf(points) == [price : {p.price : p \in points}, best : points]

LEMMA CheapFirstType ==
    ASSUME NEW points, points \subseteq PointLike, IsFiniteSet(points)
    PROVE  /\ CheapFirst(points) \in Seq(points)
           /\ Len(CheapFirst(points)) = Cardinality(points)
           /\ Cardinality(points) \in Nat
           /\ points # {} => Cardinality(points) > 0
<1> DEFINE n == Cardinality(points)
           seq == CheapFirst(points)
<1>1. n \in Nat /\ seq \in [1..n -> points]
  <2> HIDE DEF n, seq
  <2> QED BY Sorted DEF n, seq
<1>2. points # {} => n # 0
  BY FS_EmptySet
<1> HIDE DEF n, seq
<1> QED BY <1>1, <1>2 DEF n, seq

LEMMA AddTierType ==
    ASSUME NEW points, points \subseteq PointLike, NEW tiers \in Seq(TierOf(points)), NEW p \in points
    PROVE  AddTier(tiers, p) \in Seq(TierOf(points)) /\ AddTier(tiers, p) # <<>>
<1>1. p.price \in Int /\ [price |-> p.price, best |-> p] \in TierOf(points)
  BY DEF PointLike, TierOf
<1>2. CASE tiers = <<>>
  BY <1>1, <1>2 DEF AddTier
<1>3. CASE tiers # <<>>
  <2>1. Append(tiers, [price |-> p.price, best |-> p]) \in Seq(TierOf(points)) \ {<<>>}
    BY <1>1
  <2>2. [tiers EXCEPT ![Len(tiers)].best = p] \in Seq(TierOf(points)) \ {<<>>}
    <3>1. Len(tiers) \in DOMAIN tiers /\ tiers[Len(tiers)] \in TierOf(points)
      BY <1>3
    <3>2. [tiers[Len(tiers)] EXCEPT !.best = p] \in TierOf(points)
      BY <3>1 DEF TierOf
    <3> QED BY <1>3, <3>1, <3>2
  <2> QED BY <1>3, <2>1, <2>2 DEF AddTier
<1> QED BY <1>2, <1>3

LEMMA TiersType ==
    ASSUME NEW points, points \subseteq PointLike, IsFiniteSet(points)
    PROVE  Tiers(points) \in Seq(TierOf(points)) /\ (points # {} => Tiers(points) # <<>>)
<1> DEFINE seq == CheapFirst(points)
           V   == Seq(TierOf(points))
<1>1. seq \in Seq(points) /\ Len(seq) \in Nat /\ (points # {} => Len(seq) > 0)
  BY CheapFirstType
<1>2. \A v \in V, a \in points : AddTier(v, a) \in V
  BY AddTierType
<1>6. \A v \in V, a \in points : AddTier(v, a) # <<>>
  BY AddTierType
<1>3. <<>> \in V
  OBVIOUS
<1> HIDE DEF V, seq
<1>4. PICK acc : TierSteps(acc, <<>>, seq)
  BY <1>1, <1>2, <1>3, AddTierFold, Zenon
<1>7. /\ acc[0] = <<>>
      /\ \A i \in 1..Len(seq) : acc[i] = AddTier(acc[i - 1], seq[i])
      /\ acc[Len(seq)] = FoldLeft(AddTier, <<>>, seq)
  BY <1>4 DEF TierSteps
<1> DEFINE Holds == {i \in 0..Len(seq) : acc[i] \in V /\ (i > 0 => acc[i] # <<>>)}
<1>5. \A i \in 0..Len(seq) : i \in Holds
  <2>1. 0 \in Holds
    BY <1>1, <1>3, <1>7
  <2>2. ASSUME NEW i \in 1..Len(seq), i - 1 \in Holds PROVE i \in Holds
    <3>1. seq[i] \in points /\ i \in 0..Len(seq)
      BY <1>1
    <3>2. acc[i - 1] \in V
      BY <2>2
    <3>3. acc[i] = AddTier(acc[i - 1], seq[i])
      BY <1>7
    <3>4. acc[i] \in V /\ acc[i] # <<>>
      BY <1>2, <1>6, <3>1, <3>2, <3>3
    <3> QED BY <3>1, <3>4
  <2> HIDE DEF Holds
  <2> QED BY <1>1, <2>1, <2>2, UpTo
<1> QED BY <1>1, <1>7, <1>5 DEF Tiers, seq, V

LEMMA FrontierType ==
    ASSUME NEW points, points \subseteq PointLike, IsFiniteSet(points)
    PROVE  Frontier(points) \in Seq(points) /\ (points # {} => Frontier(points) # <<>>)
<1> DEFINE tiers == Tiers(points)
           seq   == [i \in DOMAIN tiers |-> tiers[i].best]
           V     == Seq(points)
<1>1. seq \in Seq(points) /\ Len(seq) \in Nat /\ (points # {} => Len(seq) > 0)
  <2>1. tiers \in Seq(TierOf(points)) /\ (points # {} => tiers # <<>>)
    BY TiersType
  <2> HIDE DEF tiers
  <2>2. ASSUME NEW i \in DOMAIN tiers PROVE tiers[i].best \in points
    <3>1. tiers[i] \in TierOf(points)
      BY <2>1
    <3> QED BY <3>1 DEF TierOf
  <2> QED BY <2>1, <2>2
<1>2. \A v \in V, a \in points : PushFrontier(v, a) \in V
  BY DEF PushFrontier
<1>6. \A v \in V, a \in points : PushFrontier(v, a) # <<>>
  BY DEF PushFrontier
<1>3. <<>> \in V
  OBVIOUS
<1>0. Frontier(points) = FoldLeft(PushFrontier, <<>>, seq)
  BY DEF Frontier
<1> HIDE DEF V, seq
<1>4. PICK acc : FrontierSteps(acc, <<>>, seq)
  BY <1>1, <1>2, <1>3, PushFrontierFold, Zenon
<1>7. /\ acc[0] = <<>>
      /\ \A i \in 1..Len(seq) : acc[i] = PushFrontier(acc[i - 1], seq[i])
      /\ acc[Len(seq)] = FoldLeft(PushFrontier, <<>>, seq)
  BY <1>4 DEF FrontierSteps
<1> DEFINE Holds == {i \in 0..Len(seq) : acc[i] \in V /\ (i > 0 => acc[i] # <<>>)}
<1>5. \A i \in 0..Len(seq) : i \in Holds
  <2>1. 0 \in Holds
    BY <1>1, <1>3, <1>7
  <2>2. ASSUME NEW i \in 1..Len(seq), i - 1 \in Holds PROVE i \in Holds
    <3>1. seq[i] \in points /\ i \in 0..Len(seq)
      BY <1>1
    <3>2. acc[i - 1] \in V
      BY <2>2
    <3>3. acc[i] = PushFrontier(acc[i - 1], seq[i])
      BY <1>7
    <3>4. acc[i] \in V /\ acc[i] # <<>>
      BY <1>2, <1>6, <3>1, <3>2, <3>3
    <3> QED BY <3>1, <3>4
  <2> HIDE DEF Holds
  <2> QED BY <1>1, <2>1, <2>2, UpTo
<1> QED BY <1>0, <1>1, <1>7, <1>5 DEF V

\* The walk over some points ends at one of them.
LEMMA TerminalIn ==
    ASSUME NEW points, points \subseteq PointLike, IsFiniteSet(points), points # {}, NEW tolerance
    PROVE  Terminal(points, tolerance) \in points
<1> DEFINE seq  == Tail(Frontier(points))
           base == Head(Frontier(points))
<1>1. Frontier(points) \in Seq(points) /\ Frontier(points) # <<>>
  BY FrontierType
<1>2. seq \in Seq(points) /\ Len(seq) \in Nat /\ base \in points
  BY <1>1
<1>3. \A v \in points, a \in points : Advance(v, a, tolerance) \in points
  BY DEF Advance
<1> HIDE DEF seq, base
<1>4. PICK acc : WalkSteps(acc, base, seq, points, tolerance)
  <2>1. seq = Tail(Frontier(points)) /\ base = Head(Frontier(points))
    BY DEF seq, base
  <2> QED BY <1>2, <1>3, <2>1, AdvanceFold, Zenon
<1>7. /\ acc[0] = base
      /\ \A i \in 1..Len(seq) : acc[i] = Advance(acc[i - 1], seq[i], tolerance)
      /\ acc[Len(seq)] = Terminal(points, tolerance)
  BY <1>4 DEF WalkSteps
<1> DEFINE Holds == {i \in 0..Len(seq) : acc[i] \in points}
<1>5. \A i \in 0..Len(seq) : i \in Holds
  <2>1. 0 \in Holds
    BY <1>2, <1>7
  <2>2. ASSUME NEW i \in 1..Len(seq), i - 1 \in Holds PROVE i \in Holds
    <3>1. seq[i] \in points
      BY <1>2
    <3> QED BY <1>2, <1>3, <1>7, <2>2, <3>1
  <2> HIDE DEF Holds
  <2> QED BY <1>2, <2>1, <2>2, UpTo
<1> QED BY <1>2, <1>7, <1>5
-----------------------------------------------------------------------------
(* The tiers hold every point added to them.                               *)

\* Points the walk can divide by.
Usable(points) == points \subseteq PointLike /\ \A p \in points : Walkable(p)

\* A point is in a tier: no cheaper, less than 1% dearer, no faster than its best.
HeldBy(q, tier) ==
    /\ tier.price <= q.price
    /\ ~BeyondTier(q.price, tier)
    /\ q.tps <= tier.best.tps

\* Tiers of the points in done: each lies above the one before it, and every
\* point is in one.
Tiered(tiers, done) ==
    /\ tiers \in Seq(TierOf(done))
    /\ \A i \in DOMAIN tiers : HeldBy(tiers[i].best, tiers[i])
    /\ \A i, j \in DOMAIN tiers : i < j => BeyondTier(tiers[j].price, tiers[i])
    /\ \A q \in done : \E i \in DOMAIN tiers : HeldBy(q, tiers[i])

\* The coordinates of usable points.
LEMMA UsableType ==
    ASSUME NEW points, Usable(points), NEW p \in points
    PROVE  p.price \in Int /\ p.tps \in Int /\ p.price > 0 /\ p.tps > 0
BY DEF Usable, PointLike, Walkable

\* The tiers of usable points have usable prices and bests.
LEMMA TierFields ==
    ASSUME NEW points, Usable(points), NEW tiers \in Seq(TierOf(points)), NEW i \in DOMAIN tiers
    PROVE  /\ tiers[i].best \in points
           /\ tiers[i].best.price \in Int /\ tiers[i].best.tps \in Int
           /\ tiers[i].price \in Int /\ tiers[i].price > 0
           /\ \E p \in points : tiers[i].price = p.price
<1>1. tiers[i] \in TierOf(points)
  OBVIOUS
<1>2. tiers[i].best \in points /\ \E p \in points : tiers[i].price = p.price
  BY <1>1 DEF TierOf
<1> QED BY <1>2, UsableType

\* A sequence is one over every set that has its elements.
LEMMA SeqOver ==
    ASSUME NEW S, NEW T, NEW seq \in Seq(S), \A i \in DOMAIN seq : seq[i] \in T
    PROVE  seq \in Seq(T)
OBVIOUS

\* What the tiers hold once a point is added: a new last tier, or the last
\* tier with the faster of its best and the point.
AddedTo(ts, n, p, added) ==
    \/ /\ ts = <<>> \/ BeyondTier(p.price, ts[n])
       /\ DOMAIN added = 1..(n + 1)
       /\ \A i \in 1..n : added[i] = ts[i]
       /\ added[n + 1] = [price |-> p.price, best |-> p]
    \/ /\ n \in 1..n /\ ~BeyondTier(p.price, ts[n])
       /\ DOMAIN added = 1..n
       /\ \A i \in 1..(n - 1) : added[i] = ts[i]
       /\ added[n] = [price |-> ts[n].price, best |-> IF p.tps > ts[n].best.tps THEN p ELSE ts[n].best]

LEMMA TierAdded ==
    ASSUME NEW points, NEW ts \in Seq(TierOf(points)), NEW p \in points, NEW n, n = Len(ts)
    PROVE  AddedTo(ts, n, p, AddTier(ts, p))
<1> DEFINE added == AddTier(ts, p)
<1>1. n \in Nat /\ DOMAIN ts = 1..n
  OBVIOUS
<1>2. CASE ts = <<>> \/ BeyondTier(p.price, ts[n])
  <2>1. added = Append(ts, [price |-> p.price, best |-> p])
    BY <1>2 DEF AddTier, Last
  <2> QED BY <1>1, <1>2, <2>1 DEF AddedTo
<1>3. CASE ts # <<>> /\ ~BeyondTier(p.price, ts[n])
  <2>1. n \in 1..n
    BY <1>1, <1>3
  <2>2. ts[n] = [price |-> ts[n].price, best |-> ts[n].best]
    <3>1. ts[n] \in TierOf(points)
      BY <1>1, <2>1
    <3> QED BY <3>1 DEF TierOf
  <2>3. CASE p.tps > ts[n].best.tps
    <3>1. added = [ts EXCEPT ![n].best = p]
      BY <1>3, <2>3 DEF AddTier, Last
    <3>2. added = [ts EXCEPT ![n] = [price |-> ts[n].price, best |-> p]]
      BY <2>2, <3>1
    <3>3. DOMAIN added = 1..n /\ added[n] = [price |-> ts[n].price, best |-> p]
      BY <1>1, <2>1, <3>2
    <3>4. \A i \in 1..(n - 1) : added[i] = ts[i]
      BY <1>1, <2>1, <3>2
    <3> HIDE DEF added
    <3> QED BY <1>3, <2>1, <2>3, <3>3, <3>4 DEF AddedTo, added
  <2>4. CASE ~(p.tps > ts[n].best.tps)
    <3>1. added = ts
      BY <1>3, <2>4 DEF AddTier, Last
    <3> QED BY <1>1, <1>3, <2>1, <2>2, <2>4, <3>1 DEF AddedTo
  <2> QED BY <2>3, <2>4
<1> QED BY <1>2, <1>3

\* A point no cheaper than those before it joins the last tier or opens one
\* above it.
LEMMA TieredStep ==
    ASSUME NEW done, Usable(done), NEW p \in PointLike, Walkable(p),
           \A q \in done : q.price <= p.price,
           NEW tiers, Tiered(tiers, done)
    PROVE  Tiered(AddTier(tiers, p), done \cup {p})
<1> DEFINE n     == Len(tiers)
           all   == done \cup {p}
           added == AddTier(tiers, p)
<1>1. Usable(all) /\ p \in all
  BY DEF Usable
<1>2. tiers \in Seq(TierOf(done)) /\ n \in Nat /\ DOMAIN tiers = 1..n
  BY DEF Tiered
<1>3. tiers \in Seq(TierOf(all))
  <2>1. \A i \in 1..n : tiers[i] \in TierOf(all)
    <3> SUFFICES ASSUME NEW i \in 1..n PROVE tiers[i] \in TierOf(all)
      OBVIOUS
    <3>1. tiers[i] \in TierOf(done)
      BY <1>2
    <3> QED BY <3>1 DEF TierOf
  <2> HIDE DEF all
  <2> QED BY <1>2, <2>1, SeqOver
<1>4. AddedTo(tiers, n, p, added)
  <2> HIDE DEF all
  <2> QED BY <1>1, <1>3, TierAdded
<1>5. added \in Seq(TierOf(all))
  <2>1. all \subseteq PointLike
    BY <1>1 DEF Usable
  <2> HIDE DEF all
  <2> QED BY <1>1, <1>3, <2>1, AddTierType
<1>6. p.price \in Int /\ p.tps \in Int /\ p.price > 0
  BY <1>1, UsableType
<1>7. \A i \in 1..n : /\ tiers[i].best \in done
                      /\ tiers[i].best.price \in Int /\ tiers[i].best.tps \in Int
                      /\ tiers[i].price \in Int /\ tiers[i].price > 0
                      /\ tiers[i].price <= p.price
                      /\ HeldBy(tiers[i].best, tiers[i])
                      /\ \A j \in 1..n : i < j => BeyondTier(tiers[j].price, tiers[i])
  <2> SUFFICES ASSUME NEW i \in 1..n
               PROVE  /\ tiers[i].best \in done
                      /\ tiers[i].best.price \in Int /\ tiers[i].best.tps \in Int
                      /\ tiers[i].price \in Int /\ tiers[i].price > 0
                      /\ tiers[i].price <= p.price
                      /\ HeldBy(tiers[i].best, tiers[i])
                      /\ \A j \in 1..n : i < j => BeyondTier(tiers[j].price, tiers[i])
    OBVIOUS
  <2>1. /\ tiers[i].best \in done
        /\ tiers[i].best.price \in Int /\ tiers[i].best.tps \in Int
        /\ tiers[i].price \in Int /\ tiers[i].price > 0
        /\ \E q \in done : tiers[i].price = q.price
    BY <1>2, TierFields
  <2> QED BY <1>2, <2>1 DEF Tiered
<1> HIDE DEF n, all, added
<1>8. CASE /\ tiers = <<>> \/ BeyondTier(p.price, tiers[n])
           /\ DOMAIN added = 1..(n + 1)
           /\ \A i \in 1..n : added[i] = tiers[i]
           /\ added[n + 1] = [price |-> p.price, best |-> p]
  <2>1. \A i \in 1..n : BeyondTier(p.price, tiers[i])
    <3> SUFFICES ASSUME NEW i \in 1..n PROVE BeyondTier(p.price, tiers[i])
      OBVIOUS
    <3>1. BeyondTier(p.price, tiers[n]) /\ n \in 1..n
      BY <1>2, <1>8
    <3>2. i = n \/ BeyondTier(tiers[n].price, tiers[i])
      BY <1>2, <1>7, <3>1
    <3> QED BY <1>6, <1>7, <3>1, <3>2 DEF BeyondTier
  <2>2. HeldBy(p, added[n + 1])
    BY <1>6, <1>8 DEF HeldBy, BeyondTier
  <2>3. \A i \in DOMAIN added : i \in 1..n \/ i = n + 1
    BY <1>2, <1>8
  <2>4. \A i \in DOMAIN added : HeldBy(added[i].best, added[i])
    BY <1>7, <1>8, <2>2, <2>3
  <2>5. \A i, j \in DOMAIN added : i < j => BeyondTier(added[j].price, added[i])
    <3> SUFFICES ASSUME NEW i \in 1..(n + 1), NEW j \in 1..(n + 1), i < j
                 PROVE  BeyondTier(added[j].price, added[i])
      BY <1>8
    <3>1. i \in 1..n /\ (j \in 1..n \/ j = n + 1)
      BY <1>2
    <3> QED BY <1>7, <1>8, <2>1, <3>1
  <2>6. \A q \in all : \E i \in DOMAIN added : HeldBy(q, added[i])
    <3>1. n + 1 \in DOMAIN added /\ 1..n \subseteq DOMAIN added
      BY <1>2, <1>8
    <3>2. ASSUME NEW q \in done PROVE \E i \in 1..n : HeldBy(q, tiers[i])
      BY <1>2 DEF Tiered
    <3> QED BY <1>8, <2>2, <3>1, <3>2 DEF all
  <2> QED BY <1>5, <2>4, <2>5, <2>6 DEF Tiered, all, added
<1>9. CASE /\ n \in 1..n /\ ~BeyondTier(p.price, tiers[n])
           /\ DOMAIN added = 1..n
           /\ \A i \in 1..(n - 1) : added[i] = tiers[i]
           /\ added[n] = [price |-> tiers[n].price,
                          best  |-> IF p.tps > tiers[n].best.tps THEN p ELSE tiers[n].best]
  <2>1. \A i \in 1..n : /\ added[i].price = tiers[i].price
                        /\ added[i].best.tps \in Int
                        /\ tiers[i].best.tps <= added[i].best.tps
                        /\ added[i].best = tiers[i].best \/ (i = n /\ added[i].best = p)
    <3>1. ASSUME NEW i \in 1..n, i # n PROVE added[i] = tiers[i]
      BY <1>2, <1>9, <3>1
    <3>2. /\ added[n].price = tiers[n].price
          /\ added[n].best.tps \in Int
          /\ tiers[n].best.tps <= added[n].best.tps
          /\ added[n].best = tiers[n].best \/ added[n].best = p
      BY <1>6, <1>7, <1>9
    <3>3. \A i \in 1..n : tiers[i].best.tps <= tiers[i].best.tps
      BY <1>7
    <3> QED BY <1>7, <3>1, <3>2, <3>3
  <2>2. ASSUME NEW q \in all, NEW i \in 1..n, HeldBy(q, tiers[i]) PROVE HeldBy(q, added[i])
    <3>1. q.tps \in Int
      BY <1>1, UsableType
    <3> QED BY <1>7, <2>1, <2>2, <3>1 DEF HeldBy, BeyondTier
  <2>3. HeldBy(p, added[n])
    <3>1. p.tps <= added[n].best.tps
      BY <1>6, <1>7, <1>9
    <3> QED BY <1>7, <1>9, <2>1, <3>1 DEF HeldBy, BeyondTier
  <2>4. \A i \in DOMAIN added : HeldBy(added[i].best, added[i])
    <3> SUFFICES ASSUME NEW i \in 1..n PROVE HeldBy(added[i].best, added[i])
      BY <1>9
    <3>1. CASE added[i].best = tiers[i].best
      <4>1. tiers[i].best \in all
        BY <1>7 DEF all
      <4> QED BY <1>7, <2>2, <3>1, <4>1
    <3>2. CASE i = n /\ added[i].best = p
      BY <2>3, <3>2
    <3> QED BY <2>1, <3>1, <3>2
  <2>5. \A i, j \in DOMAIN added : i < j => BeyondTier(added[j].price, added[i])
    BY <1>7, <1>9, <2>1 DEF BeyondTier
  <2>6. \A q \in all : \E i \in DOMAIN added : HeldBy(q, added[i])
    <3>1. ASSUME NEW q \in done PROVE \E i \in 1..n : HeldBy(q, tiers[i])
      BY <1>2 DEF Tiered
    <3> QED BY <1>9, <2>2, <2>3, <3>1 DEF all
  <2> QED BY <1>5, <2>4, <2>5, <2>6 DEF Tiered, all, added
<1> QED BY <1>4, <1>8, <1>9 DEF AddedTo
-----------------------------------------------------------------------------
(* The frontier climbs and covers the tiers.                               *)

\* The frontier made of the first m tiers climbs in price and throughput, and
\* none of these tiers is faster than all of it that is cheaper.
Climbs(frontier, tiers, m) ==
    /\ frontier \in Seq({tiers[i].best : i \in 1..m})
    /\ \A i, j \in DOMAIN frontier : i < j =>
          frontier[i].tps < frontier[j].tps /\ frontier[i].price < frontier[j].price
    /\ \A i \in 1..m : \E j \in DOMAIN frontier :
          /\ tiers[i].best.tps <= frontier[j].tps
          /\ frontier[j] = tiers[i].best \/ frontier[j].price < tiers[i].price

\* Where the points of a frontier come from.
LEMMA FrontierPoints ==
    ASSUME NEW points, Usable(points), NEW tiers, Tiered(tiers, points),
           NEW m \in 0..Len(tiers), NEW frontier, Climbs(frontier, tiers, m)
    PROVE  /\ frontier \in Seq(points)
           /\ \A j \in DOMAIN frontier : \E i \in 1..m : frontier[j] = tiers[i].best
<1>1. /\ tiers \in Seq(TierOf(points)) /\ DOMAIN tiers = 1..Len(tiers) /\ Len(tiers) \in Nat
      /\ 1..m \subseteq 1..Len(tiers)
  BY DEF Tiered
<1>2. {tiers[i].best : i \in 1..m} \subseteq points
  BY <1>1, TierFields
<1>3. frontier \in Seq({tiers[i].best : i \in 1..m})
  BY DEF Climbs
<1>4. \A j \in DOMAIN frontier : frontier[j] \in {tiers[i].best : i \in 1..m}
  BY <1>3
<1> DEFINE bests == {tiers[i].best : i \in 1..m}
<1>5. frontier \in Seq(points)
  <2> HIDE DEF bests
  <2>1. frontier \in Seq(bests) /\ bests \subseteq points
    BY <1>2, <1>3 DEF bests
  <2> QED BY <2>1
<1> QED BY <1>4, <1>5

\* What the frontier holds once the best of a tier is pushed.
PushedTo(fr, m, best, pushed) ==
    \/ /\ fr = <<>> \/ best.tps > fr[m].tps
       /\ DOMAIN pushed = 1..(m + 1)
       /\ \A i \in 1..m : pushed[i] = fr[i]
       /\ pushed[m + 1] = best
    \/ fr # <<>> /\ ~(best.tps > fr[m].tps) /\ pushed = fr

LEMMA Pushed ==
    ASSUME NEW S, NEW fr \in Seq(S), NEW best \in S, NEW m, m = Len(fr)
    PROVE  /\ PushFrontier(fr, best) \in Seq(S)
           /\ PushedTo(fr, m, best, PushFrontier(fr, best))
<1>1. CASE fr = <<>> \/ best.tps > fr[m].tps
  <2>1. PushFrontier(fr, best) = Append(fr, best)
    BY <1>1 DEF PushFrontier, Last
  <2> QED BY <1>1, <2>1 DEF PushedTo
<1>2. CASE fr # <<>> /\ ~(best.tps > fr[m].tps)
  <2>1. PushFrontier(fr, best) = fr
    BY <1>2 DEF PushFrontier, Last
  <2> QED BY <1>2, <2>1 DEF PushedTo
<1> QED BY <1>1, <1>2

\* A tier reduced: its best climbs on, or is no faster than a point that is
\* cheaper.
LEMMA ClimbsStep ==
    ASSUME NEW points, Usable(points), NEW tiers, Tiered(tiers, points),
           NEW k \in 1..Len(tiers), NEW frontier, Climbs(frontier, tiers, k - 1)
    PROVE  Climbs(PushFrontier(frontier, tiers[k].best), tiers, k)
<1> DEFINE m      == Len(frontier)
           best   == tiers[k].best
           pushed == PushFrontier(frontier, best)
           bests  == {tiers[i].best : i \in 1..k}
<1>1. tiers \in Seq(TierOf(points)) /\ DOMAIN tiers = 1..Len(tiers) /\ Len(tiers) \in Nat
  BY DEF Tiered
<1>2. k \in Nat /\ k \in 1..k /\ 1..(k - 1) \subseteq 1..k /\ k - 1 \in 0..Len(tiers)
  BY <1>1
<1>3. /\ frontier \in Seq(points)
      /\ \A j \in DOMAIN frontier : \E i \in 1..(k - 1) : frontier[j] = tiers[i].best
  BY <1>2, FrontierPoints
<1>4. m \in Nat /\ DOMAIN frontier = 1..m
  BY <1>3
<1>5. frontier \in Seq(bests)
  <2>1. \A j \in 1..m : frontier[j] \in bests
    BY <1>2, <1>3, <1>4
  <2> HIDE DEF bests
  <2> QED BY <1>3, <1>4, <2>1
<1>6. pushed \in Seq(bests) /\ PushedTo(frontier, m, best, pushed)
  <2>1. best \in bests
    BY <1>2
  <2> HIDE DEF bests, best, m
  <2> QED BY <1>5, <2>1, Pushed DEF m
<1>7. \A i \in 1..k : /\ tiers[i].best.price \in Int /\ tiers[i].best.tps \in Int
                      /\ tiers[i].price \in Int
                      /\ HeldBy(tiers[i].best, tiers[i])
                      /\ i < k => BeyondTier(tiers[k].price, tiers[i])
  <2> SUFFICES ASSUME NEW i \in 1..k
               PROVE  /\ tiers[i].best.price \in Int /\ tiers[i].best.tps \in Int
                      /\ tiers[i].price \in Int
                      /\ HeldBy(tiers[i].best, tiers[i])
                      /\ i < k => BeyondTier(tiers[k].price, tiers[i])
    OBVIOUS
  <2>1. i \in DOMAIN tiers /\ k \in DOMAIN tiers
    BY <1>1
  <2> QED BY <1>1, <2>1, TierFields DEF Tiered
<1>8. best.tps \in Int /\ best.price \in Int /\ tiers[k].price \in Int /\ tiers[k].price <= best.price
  BY <1>2, <1>7 DEF HeldBy
<1>9. \A j \in 1..m : /\ frontier[j].tps \in Int /\ frontier[j].price \in Int
                      /\ frontier[j].price < tiers[k].price
  <2> SUFFICES ASSUME NEW j \in 1..m
               PROVE  /\ frontier[j].tps \in Int /\ frontier[j].price \in Int
                      /\ frontier[j].price < tiers[k].price
    OBVIOUS
  <2>1. PICK i \in 1..(k - 1) : frontier[j] = tiers[i].best
    BY <1>3, <1>4
  <2>2. i \in 1..k /\ i < k
    BY <1>2
  <2> DEFINE fp == tiers[i].best.price
             bp == tiers[i].price
             tp == tiers[k].price
  <2>3. fp \in Int /\ bp \in Int /\ tp \in Int /\ 100 * (tp - bp) > bp /\ ~(100 * (fp - bp) > bp)
    BY <1>7, <1>8, <2>2 DEF HeldBy, BeyondTier
  <2> HIDE DEF fp, bp, tp
  <2>4. fp < tp
    BY <2>3
  <2> QED BY <1>7, <2>1, <2>2, <2>4 DEF fp, tp
<1> HIDE DEF m, best, pushed
<1>10. CASE /\ frontier = <<>> \/ best.tps > frontier[m].tps
            /\ DOMAIN pushed = 1..(m + 1)
            /\ \A i \in 1..m : pushed[i] = frontier[i]
            /\ pushed[m + 1] = best
  <2>1. \A j \in 1..m : frontier[j].tps < best.tps
    <3> SUFFICES ASSUME NEW j \in 1..m PROVE frontier[j].tps < best.tps
      OBVIOUS
    <3>1. m \in 1..m /\ best.tps > frontier[m].tps
      BY <1>4, <1>10
    <3>2. j = m \/ frontier[j].tps < frontier[m].tps
      <4>1. j = m \/ j < m
        BY <1>4
      <4> QED BY <1>4, <3>1, <4>1 DEF Climbs
    <3> QED BY <1>8, <1>9, <3>1, <3>2
  <2>2. \A i, j \in DOMAIN pushed : i < j => pushed[i].tps < pushed[j].tps /\ pushed[i].price < pushed[j].price
    <3> SUFFICES ASSUME NEW i \in 1..(m + 1), NEW j \in 1..(m + 1), i < j
                 PROVE  pushed[i].tps < pushed[j].tps /\ pushed[i].price < pushed[j].price
      BY <1>10
    <3>1. i \in 1..m /\ pushed[i] = frontier[i]
      BY <1>4, <1>10
    <3>2. CASE j \in 1..m
      BY <1>4, <1>10, <3>1, <3>2 DEF Climbs
    <3>3. CASE j = m + 1
      BY <1>8, <1>9, <1>10, <2>1, <3>1, <3>3
    <3> QED BY <1>4, <3>2, <3>3
  <2>3. ASSUME NEW i \in 1..k
        PROVE  \E j \in DOMAIN pushed :
                  /\ tiers[i].best.tps <= pushed[j].tps
                  /\ pushed[j] = tiers[i].best \/ pushed[j].price < tiers[i].price
    <3>1. CASE i \in 1..(k - 1)
      <4>1. PICK j \in 1..m : /\ tiers[i].best.tps <= frontier[j].tps
                              /\ frontier[j] = tiers[i].best \/ frontier[j].price < tiers[i].price
        BY <1>4, <3>1 DEF Climbs
      <4>2. j \in DOMAIN pushed /\ pushed[j] = frontier[j]
        BY <1>4, <1>10
      <4> QED BY <4>1, <4>2
    <3>2. CASE i = k
      <4>1. m + 1 \in DOMAIN pushed
        BY <1>4, <1>10
      <4> QED BY <1>8, <1>10, <3>2, <4>1 DEF best
    <3> QED BY <1>2, <3>1, <3>2
  <2> QED BY <1>6, <2>2, <2>3 DEF Climbs, pushed, best
<1>11. CASE frontier # <<>> /\ ~(best.tps > frontier[m].tps) /\ pushed = frontier
  <2>1. m \in 1..m
    BY <1>3, <1>4, <1>11 DEF m
  <2>2. ASSUME NEW i \in 1..k
        PROVE  \E j \in DOMAIN frontier :
                  /\ tiers[i].best.tps <= frontier[j].tps
                  /\ frontier[j] = tiers[i].best \/ frontier[j].price < tiers[i].price
    <3>1. CASE i \in 1..(k - 1)
      BY <3>1 DEF Climbs
    <3>2. CASE i = k
      <4>1. best.tps <= frontier[m].tps /\ frontier[m].price < tiers[k].price
        BY <1>8, <1>9, <1>11, <2>1
      <4> QED BY <1>4, <2>1, <3>2, <4>1 DEF best
    <3> QED BY <1>2, <3>1, <3>2
  <2> QED BY <1>6, <1>11, <2>2 DEF Climbs, pushed, best
<1> QED BY <1>6, <1>10, <1>11 DEF PushedTo
-----------------------------------------------------------------------------
(* The arithmetic of the walk.                                             *)

LEMMA ScaledLeq ==
    ASSUME NEW x \in Int, NEW y \in Int, NEW z \in Int, x <= y, z >= 0
    PROVE  x * z <= y * z
OBVIOUS

LEMMA ScaledLess ==
    ASSUME NEW x \in Int, NEW y \in Int, NEW z \in Int, x < y, z > 0
    PROVE  x * z < y * z
OBVIOUS

\* Whether w has no less throughput per price than c.
Worth(w, c) == w.tps * c.price >= c.tps * w.price

\* Worth is transitive: of ratios t/p, the first is no less than the last.
LEMMA RatioTransitive ==
    ASSUME NEW t1 \in Int, NEW p1 \in Int, NEW t2 \in Int, NEW p2 \in Int,
           NEW t3 \in Int, NEW p3 \in Int, p1 > 0, p2 > 0, p3 > 0,
           t1 * p2 >= t2 * p1, t2 * p3 >= t3 * p2
    PROVE  t1 * p3 >= t3 * p1
<1>1. (t1 * p2) * p3 >= (t2 * p1) * p3
  BY ScaledLeq
<1>2. (t2 * p3) * p1 >= (t3 * p2) * p1
  BY ScaledLeq
<1>3. (t1 * p3) * p2 >= (t3 * p1) * p2
  BY <1>1, <1>2
<1>4. ASSUME t1 * p3 < t3 * p1 PROVE FALSE
  BY <1>3, <1>4, ScaledLess
<1> QED BY <1>4

\* A point no faster than f, and by a tier's slack no cheaper, does not pay
\* where f does not.
LEMMA NotWorthIt ==
    ASSUME NEW wt \in Int, NEW wp \in Int, NEW ft \in Int, NEW fp \in Int,
           NEW qt \in Int, NEW qp \in Int, NEW tol \in Int, wt > 0, wp > 0,
           qt <= ft, 100 * fp <= 101 * qp,
           ~(100 * (ft - wt) * wp + tol * wt * wp >= 100 * (fp - wp) * wt)
    PROVE  ~(100 * (qt - wt) * wp + tol * wt * wp >= (101 * qp - 100 * wp) * wt)
<1>1. qt * wp <= ft * wp
  BY ScaledLeq
<1>2. (100 * fp) * wt <= (101 * qp) * wt
  BY ScaledLeq
<1> QED BY <1>1, <1>2

\* The same of the ratios of throughput to price.
LEMMA NotBetterValue ==
    ASSUME NEW wt \in Int, NEW wp \in Int, NEW ft \in Int, NEW fp \in Int,
           NEW qt \in Int, NEW qp \in Int, wt > 0, wp > 0,
           qt <= ft, 100 * fp <= 101 * qp, wt * fp >= ft * wp
    PROVE  101 * wt * qp >= 100 * qt * wp
<1>1. qt * wp <= ft * wp
  BY ScaledLeq
<1>2. (100 * fp) * wt <= (101 * qp) * wt
  BY ScaledLeq
<1> QED BY <1>1, <1>2

\* The best of a tier costs 1% more at most than what is no cheaper than it.
LEMMA TierSlack ==
    ASSUME NEW fp \in Int, NEW tp \in Int, NEW qp \in Int,
           tp <= qp, 100 * (fp - tp) <= tp
    PROVE  100 * fp <= 101 * qp
OBVIOUS

\* What is no dearer than q, but for a tier's slack, is cheaper than what lies
\* more than a tier above q.
LEMMA Cheaper ==
    ASSUME NEW wp \in Int, NEW fp \in Int, NEW qp \in Int,
           100 * (wp - qp) > qp, 100 * fp <= 101 * qp
    PROVE  fp < wp
OBVIOUS

\* At a tolerance of zero a point is accepted when it has no less throughput
\* per price.
LEMMA AcceptsByValue ==
    ASSUME NEW w, NEW c, w.tps \in Int, w.price \in Int, c.tps \in Int, c.price \in Int
    PROVE  /\ Accepts(w, c, 0) => Worth(c, w)
           /\ ~Accepts(w, c, 0) => Worth(w, c)
<1> DEFINE wt == w.tps
           wp == w.price
           ct == c.tps
           cp == c.price
<1>1. wt \in Int /\ wp \in Int /\ ct \in Int /\ cp \in Int
  OBVIOUS
<1>2. Accepts(w, c, 0) <=> 100 * (ct - wt) * wp + 0 * wt * wp >= 100 * (cp - wp) * wt
  BY DEF Accepts
<1>3. /\ Worth(c, w) <=> ct * wp >= wt * cp
      /\ Worth(w, c) <=> wt * cp >= ct * wp
  BY DEF Worth
<1> HIDE DEF wt, wp, ct, cp
<1>4. 100 * (ct - wt) * wp + 0 * wt * wp >= 100 * (cp - wp) * wt <=> ct * wp >= wt * cp
  BY <1>1
<1>5. wt * cp \in Int /\ ct * wp \in Int
  BY <1>1
<1> QED BY <1>2, <1>3, <1>4, <1>5
-----------------------------------------------------------------------------
(* What the walk along a frontier turns down.                              *)

\* After m points of the frontier the walk stands on one of them and would
\* accept no faster one; at a tolerance of zero none has more throughput per
\* price.
Stands(w, frontier, m, tolerance) ==
    \E i \in 1..m :
        /\ w = frontier[i]
        /\ \A j \in 1..m : i < j => ~Accepts(w, frontier[j], tolerance)
        /\ tolerance = 0 => \A j \in 1..m : Worth(w, frontier[j])

\* It starts at the head.
LEMMA StandsAtHead ==
    ASSUME NEW points, Usable(points), NEW frontier \in Seq(points), frontier # <<>>, NEW tolerance
    PROVE  Stands(Head(frontier), frontier, 1, tolerance)
<1>1. 1 \in 1..1 /\ Head(frontier) = frontier[1] /\ frontier[1] \in points /\ \A j \in 1..1 : j = 1
  OBVIOUS
<1>2. frontier[1].price \in Int /\ frontier[1].tps \in Int
  BY <1>1, UsableType
<1>3. Worth(frontier[1], frontier[1])
  BY <1>2 DEF Worth
<1> QED BY <1>1, <1>3 DEF Stands

\* A point visited is walked to or turned down.
LEMMA StandsStep ==
    ASSUME NEW points, Usable(points), NEW frontier \in Seq(points), NEW tolerance \in Nat,
           NEW k \in 2..Len(frontier), NEW w, Stands(w, frontier, k - 1, tolerance)
    PROVE  Stands(Advance(w, frontier[k], tolerance), frontier, k, tolerance)
<1>1. /\ Len(frontier) \in Nat /\ k \in Nat /\ k \in 1..Len(frontier) /\ k \in 1..k
      /\ \A j \in 1..k : j = k \/ j \in 1..(k - 1)
      /\ \A j \in 1..k : j \in 1..Len(frontier) /\ ~(k < j)
  OBVIOUS
<1>2. \A j \in 1..k : /\ frontier[j].tps \in Int /\ frontier[j].price \in Int
                      /\ frontier[j].tps > 0 /\ frontier[j].price > 0
  <2> SUFFICES ASSUME NEW j \in 1..k
               PROVE  /\ frontier[j].tps \in Int /\ frontier[j].price \in Int
                      /\ frontier[j].tps > 0 /\ frontier[j].price > 0
    OBVIOUS
  <2>1. frontier[j] \in points
    BY <1>1
  <2> QED BY <2>1, UsableType
<1>3. PICK i \in 1..(k - 1) :
          /\ w = frontier[i]
          /\ \A j \in 1..(k - 1) : i < j => ~Accepts(w, frontier[j], tolerance)
          /\ tolerance = 0 => \A j \in 1..(k - 1) : Worth(w, frontier[j])
  BY DEF Stands
<1>4. i \in 1..k
  BY <1>1
<1>5. CASE Accepts(w, frontier[k], tolerance)
  <2>1. Advance(w, frontier[k], tolerance) = frontier[k]
    BY <1>5 DEF Advance
  <2>2. ASSUME tolerance = 0, NEW j \in 1..k PROVE Worth(frontier[k], frontier[j])
    <3>1. CASE j = k
      BY <1>1, <1>2, <3>1 DEF Worth
    <3>2. CASE j \in 1..(k - 1)
      <4>1. Worth(frontier[k], w) /\ Worth(w, frontier[j])
        BY <1>1, <1>2, <1>3, <1>4, <1>5, <2>2, <3>2, AcceptsByValue
      <4> QED BY <1>1, <1>2, <1>3, <1>4, <4>1, RatioTransitive DEF Worth
    <3> QED BY <1>1, <3>1, <3>2
  <2> QED BY <1>1, <2>1, <2>2 DEF Stands
<1>6. CASE ~Accepts(w, frontier[k], tolerance)
  <2>1. Advance(w, frontier[k], tolerance) = frontier[i]
    BY <1>3, <1>6 DEF Advance
  <2>2. ASSUME NEW j \in 1..k, i < j PROVE ~Accepts(frontier[i], frontier[j], tolerance)
    BY <1>1, <1>3, <1>6, <2>2
  <2>3. ASSUME tolerance = 0, NEW j \in 1..k PROVE Worth(frontier[i], frontier[j])
    <3>1. CASE j = k
      BY <1>1, <1>2, <1>3, <1>4, <1>6, <2>3, <3>1, AcceptsByValue
    <3>2. CASE j \in 1..(k - 1)
      BY <1>3, <2>3, <3>2
    <3> QED BY <1>1, <3>1, <3>2
  <2> QED BY <1>4, <2>1, <2>2, <2>3 DEF Stands
<1> QED BY <1>5, <1>6

\* The whole frontier has for every point one that is no slower and, but for
\* a tier's 1%, no dearer.
LEMMA Covered ==
    ASSUME NEW points, Usable(points), NEW tiers, Tiered(tiers, points),
           NEW frontier, Climbs(frontier, tiers, Len(tiers)), NEW q \in points
    PROVE  \E j \in DOMAIN frontier :
              q.tps <= frontier[j].tps /\ 100 * frontier[j].price <= 101 * q.price
<1>1. tiers \in Seq(TierOf(points)) /\ DOMAIN tiers = 1..Len(tiers) /\ Len(tiers) \in 0..Len(tiers)
  BY DEF Tiered
<1>2. PICK i \in DOMAIN tiers : HeldBy(q, tiers[i])
  BY DEF Tiered
<1>3. PICK j \in DOMAIN frontier :
          /\ tiers[i].best.tps <= frontier[j].tps
          /\ frontier[j] = tiers[i].best \/ frontier[j].price < tiers[i].price
  BY <1>1, <1>2 DEF Climbs
<1> DEFINE fp == frontier[j].price
           ft == frontier[j].tps
           bp == tiers[i].best.price
           bt == tiers[i].best.tps
           tp == tiers[i].price
           qp == q.price
           qt == q.tps
<1>4. bp \in Int /\ bt \in Int /\ tp \in Int /\ tp > 0
  BY <1>1, TierFields
<1>5. fp \in Int /\ ft \in Int
  <2>1. frontier \in Seq(points)
    BY <1>1, FrontierPoints
  <2>2. frontier[j] \in points
    BY <2>1
  <2> QED BY <2>2, UsableType
<1>6. qp \in Int /\ qt \in Int
  BY UsableType
<1>7. tp <= qp /\ qt <= bt /\ bt <= ft
  BY <1>2, <1>3 DEF HeldBy
<1>8. tp <= bp /\ 100 * (bp - tp) <= tp
  <2>1. HeldBy(tiers[i].best, tiers[i])
    BY DEF Tiered
  <2>2. ~(100 * (bp - tp) > tp) /\ tp <= bp
    BY <2>1 DEF HeldBy, BeyondTier
  <2> HIDE DEF bp, tp
  <2> QED BY <1>4, <2>2
<1>9. fp = bp \/ fp < tp
  BY <1>3
<1> HIDE DEF fp, ft, bp, bt, tp, qp, qt
<1>10. qt <= ft
  BY <1>4, <1>5, <1>6, <1>7
<1>11. 100 * fp <= 101 * qp
  BY <1>4, <1>5, <1>6, <1>7, <1>8, <1>9
<1> QED BY <1>10, <1>11 DEF fp, ft, qp, qt

\* A walk along the whole frontier chooses well.
LEMMA WalkEnds ==
    ASSUME NEW points, Usable(points), NEW tiers, Tiered(tiers, points),
           NEW frontier, Climbs(frontier, tiers, Len(tiers)), NEW tolerance \in Nat,
           NEW w, Stands(w, frontier, Len(frontier), tolerance)
    PROVE  w \in points /\ WellChosen(w, points, tolerance)
<1>1. /\ frontier \in Seq(points) /\ DOMAIN frontier = 1..Len(frontier)
      /\ Len(frontier) \in Nat
  <2>1. Len(tiers) \in 0..Len(tiers)
    BY DEF Tiered
  <2>2. frontier \in Seq(points)
    BY <2>1, FrontierPoints
  <2> QED BY <2>2
<1>2. PICK i \in DOMAIN frontier :
          /\ w = frontier[i]
          /\ \A j \in DOMAIN frontier : i < j => ~Accepts(w, frontier[j], tolerance)
          /\ tolerance = 0 => \A j \in DOMAIN frontier : Worth(w, frontier[j])
  BY <1>1 DEF Stands
<1>3. w \in points
  BY <1>1, <1>2
<1>4. ASSUME NEW q \in points
      PROVE  ~Dominates(q, w) /\ ~BetterBuy(q, w, tolerance) /\ (tolerance = 0 => ~BetterValue(q, w))
  <2>1. PICK j \in DOMAIN frontier :
            q.tps <= frontier[j].tps /\ 100 * frontier[j].price <= 101 * q.price
    BY Covered
  <2> DEFINE wt == w.tps
             wp == w.price
             ft == frontier[j].tps
             fp == frontier[j].price
             qt == q.tps
             qp == q.price
  <2>2. wt \in Int /\ wp \in Int /\ wt > 0 /\ wp > 0
    BY <1>3, UsableType
  <2>3. ft \in Int /\ fp \in Int /\ ft > 0 /\ fp > 0
    <3>1. frontier[j] \in points
      BY <1>1, <2>1
    <3> QED BY <3>1, UsableType
  <2>4. qt \in Int /\ qp \in Int
    BY UsableType
  <2>5. qt <= ft /\ 100 * fp <= 101 * qp
    BY <2>1
  <2>6. i < j \/ i = j \/ j < i
    BY <1>1
  <2>7. /\ i < j => wt < ft /\ wp < fp
        /\ j < i => ft < wt /\ fp < wp
        /\ i = j => ft = wt /\ fp = wp
    BY <1>2 DEF Climbs
  <2>8. i < j => ~(100 * (ft - wt) * wp + tolerance * wt * wp >= 100 * (fp - wp) * wt)
    BY <1>2 DEF Accepts
  <2>9. tolerance = 0 => wt * fp >= ft * wp
    BY <1>2 DEF Worth
  <2>10. ~(qt >= wt /\ 100 * (wp - qp) > qp)
    <3> HIDE DEF wt, wp, ft, fp, qt, qp
    <3> SUFFICES ASSUME qt >= wt, 100 * (wp - qp) > qp PROVE FALSE
      OBVIOUS
    <3>1. fp < wp
      BY <2>2, <2>3, <2>4, <2>5, Cheaper
    <3> QED BY <2>2, <2>3, <2>4, <2>5, <2>6, <2>7, <3>1
  <2>11. ~(qt > wt /\ 100 * (qt - wt) * wp + tolerance * wt * wp >= (101 * qp - 100 * wp) * wt)
    <3> HIDE DEF wt, wp, ft, fp, qt, qp
    <3> SUFFICES ASSUME qt > wt
                 PROVE  ~(100 * (qt - wt) * wp + tolerance * wt * wp >= (101 * qp - 100 * wp) * wt)
      OBVIOUS
    <3>1. i < j
      BY <2>2, <2>3, <2>4, <2>5, <2>6, <2>7
    <3>2. ~(100 * (ft - wt) * wp + tolerance * wt * wp >= 100 * (fp - wp) * wt)
      BY <2>8, <3>1
    <3>3. tolerance \in Int
      OBVIOUS
    <3> QED BY <2>2, <2>3, <2>4, <2>5, <3>2, <3>3, NotWorthIt
  <2>12. tolerance = 0 => 101 * wt * qp >= 100 * qt * wp
    <3> HIDE DEF wt, wp, ft, fp, qt, qp
    <3> SUFFICES ASSUME tolerance = 0 PROVE 101 * wt * qp >= 100 * qt * wp
      OBVIOUS
    <3>1. wt * fp >= ft * wp
      BY <2>9
    <3> QED BY <2>2, <2>3, <2>4, <2>5, <3>1, NotBetterValue
  <2>13. tolerance = 0 => ~(101 * wt * qp < 100 * qt * wp)
    <3> HIDE DEF wt, wp, qt, qp
    <3>1. 101 * wt * qp \in Int /\ 100 * qt * wp \in Int
      BY <2>2, <2>4
    <3> QED BY <2>12, <3>1
  <2> QED BY <2>10, <2>11, <2>13 DEF Dominates, BetterBuy, BetterValue, BeyondTier
<1> QED BY <1>3, <1>4 DEF WellChosen
-----------------------------------------------------------------------------
(* Where the walk over usable points ends.                                 *)

\* The tiers of a set hold all its points.
LEMMA TiersTiered ==
    ASSUME NEW points, Usable(points), IsFiniteSet(points)
    PROVE  Tiered(Tiers(points), points)
<1> DEFINE seq     == CheapFirst(points)
           n       == Len(seq)
           done(i) == {seq[j] : j \in 1..i}
           V       == Seq(TierOf(points))
<1>1. points \subseteq PointLike
  BY DEF Usable
<1>2. /\ seq \in Seq(points) /\ n \in Nat /\ DOMAIN seq = 1..n
      /\ \A p \in points : \E i \in 1..n : seq[i] = p
      /\ \A i, j \in 1..n : i < j => Precedes(seq[i], seq[j])
  <2> DEFINE c == Cardinality(points)
  <2>1. seq \in Seq(points) /\ n = c /\ c \in Nat
    BY <1>1, CheapFirstType
  <2>2. /\ \A p \in points : \E i \in 1..c : seq[i] = p
        /\ \A i, j \in 1..c : i < j => Precedes(seq[i], seq[j])
    BY <1>1, Sorted
  <2> HIDE DEF seq, c
  <2> QED BY <2>1, <2>2
<1>3. \A v \in V, p \in points : AddTier(v, p) \in V
  BY <1>1, AddTierType
<1>4. <<>> \in V
  OBVIOUS
<1>0. Tiers(points) = FoldLeft(AddTier, <<>>, seq)
  BY DEF Tiers
<1> HIDE DEF seq, V
<1>5. PICK acc : TierSteps(acc, <<>>, seq)
  BY <1>2, <1>3, <1>4, AddTierFold, Zenon
<1>6. /\ acc[0] = <<>>
      /\ \A i \in 1..n : acc[i] = AddTier(acc[i - 1], seq[i])
      /\ acc[n] = Tiers(points)
  BY <1>0, <1>5 DEF TierSteps
<1> DEFINE Holds == {i \in 0..n : Tiered(acc[i], done(i))}
<1>7. \A i \in 0..n : i \in Holds
  <2>1. 0 \in Holds
    <3>1. done(0) = {} /\ 0 \in 0..n
      BY <1>2
    <3>2. Tiered(<<>>, {})
      BY DEF Tiered
    <3> QED BY <1>6, <3>1, <3>2
  <2>2. ASSUME NEW i \in 1..n, i - 1 \in Holds PROVE i \in Holds
    <3> DEFINE before == done(i - 1)
               p      == seq[i]
    <3>1. i \in 0..n /\ Tiered(acc[i - 1], before)
      BY <1>2, <2>2
    <3>2. p \in points /\ before \subseteq points
      BY <1>2
    <3>3. p \in PointLike /\ Walkable(p) /\ Usable(before)
      BY <3>2 DEF Usable
    <3>4. \A q \in before : q.price <= p.price
      <4> SUFFICES ASSUME NEW j \in 1..(i - 1) PROVE seq[j].price <= p.price
        OBVIOUS
      <4>1. j \in 1..n /\ j < i
        BY <1>2
      <4>2. Precedes(seq[j], p) /\ seq[j] \in points
        BY <1>2, <4>1
      <4>3. seq[j].price \in Int /\ p.price \in Int
        BY <3>2, <4>2, UsableType
      <4> QED BY <4>2, <4>3 DEF Precedes, Before
    <3>5. done(i) = before \cup {p}
      <4>1. \A j \in 1..i : j = i \/ j \in 1..(i - 1)
        OBVIOUS
      <4>2. i \in 1..i /\ 1..(i - 1) \subseteq 1..i
        BY <1>2
      <4> QED BY <4>1, <4>2
    <3>6. acc[i] = AddTier(acc[i - 1], p)
      BY <1>6
    <3> HIDE DEF before, p
    <3>7. Tiered(AddTier(acc[i - 1], p), before \cup {p})
      BY <3>1, <3>3, <3>4, TieredStep
    <3> QED BY <3>1, <3>5, <3>6, <3>7
  <2> HIDE DEF Holds
  <2> QED BY <1>2, <2>1, <2>2, UpTo
<1>8. done(n) = points
  BY <1>2
<1>9. n \in 0..n
  BY <1>2
<1> HIDE DEF done
<1> QED BY <1>6, <1>7, <1>8, <1>9

\* The frontier of a set covers all its tiers.
LEMMA FrontierClimbs ==
    ASSUME NEW points, Usable(points), IsFiniteSet(points)
    PROVE  Climbs(Frontier(points), Tiers(points), Len(Tiers(points)))
<1> DEFINE tiers == Tiers(points)
           n     == Len(tiers)
           seq   == [i \in DOMAIN tiers |-> tiers[i].best]
           V     == Seq(points)
<1>1. Tiered(tiers, points)
  BY TiersTiered
<1>2. tiers \in Seq(TierOf(points)) /\ n \in Nat /\ DOMAIN tiers = 1..n
  BY <1>1 DEF Tiered
<1>0. Frontier(points) = FoldLeft(PushFrontier, <<>>, seq)
  BY DEF Frontier
<1> HIDE DEF tiers
<1>3. seq \in Seq(points) /\ Len(seq) = n /\ \A i \in 1..n : seq[i] = tiers[i].best
  <2>1. \A i \in 1..n : tiers[i].best \in points
    BY <1>2, TierFields
  <2> QED BY <1>2, <2>1
<1>4. \A v \in V, p \in points : PushFrontier(v, p) \in V
  BY DEF PushFrontier
<1>5. <<>> \in V
  OBVIOUS
<1> HIDE DEF seq, V
<1>6. PICK acc : FrontierSteps(acc, <<>>, seq)
  BY <1>3, <1>4, <1>5, PushFrontierFold, Zenon DEF V
<1>7. /\ acc[0] = <<>>
      /\ \A i \in 1..n : acc[i] = PushFrontier(acc[i - 1], tiers[i].best)
      /\ acc[n] = Frontier(points)
  BY <1>0, <1>3, <1>6 DEF FrontierSteps
<1> DEFINE Holds == {i \in 0..n : Climbs(acc[i], tiers, i)}
<1>8. \A i \in 0..n : i \in Holds
  <2>1. 0 \in Holds
    <3>1. Climbs(<<>>, tiers, 0)
      BY DEF Climbs
    <3> QED BY <1>2, <1>7, <3>1
  <2>2. ASSUME NEW i \in 1..n, i - 1 \in Holds PROVE i \in Holds
    <3>1. i \in 0..n /\ Climbs(acc[i - 1], tiers, i - 1) /\ i \in 1..Len(tiers)
      BY <1>2, <2>2
    <3>2. Climbs(PushFrontier(acc[i - 1], tiers[i].best), tiers, i)
      BY <1>1, <3>1, ClimbsStep
    <3> QED BY <1>7, <3>1, <3>2
  <2> HIDE DEF Holds
  <2> QED BY <1>2, <2>1, <2>2, UpTo
<1>9. n \in 0..n
  BY <1>2
<1> QED BY <1>7, <1>8, <1>9 DEF tiers

\* The walk over any usable points ends on one that is well chosen of them:
\* it is dominated by none, no other pays for its price, and at a tolerance
\* of zero none has more throughput per price (_tier_and_frontier,
\* _value_walk, _walk_points).
THEOREM TerminalChoosesWell ==
    ASSUME NEW points, Usable(points), IsFiniteSet(points), points # {}, NEW tolerance \in Nat
    PROVE  /\ Terminal(points, tolerance) \in points
           /\ WellChosen(Terminal(points, tolerance), points, tolerance)
<1> DEFINE frontier == Frontier(points)
           seq      == Tail(frontier)
           base     == Head(frontier)
<1>1. points \subseteq PointLike
  BY DEF Usable
<1>2. frontier \in Seq(points) /\ frontier # <<>>
  BY <1>1, FrontierType
<1>3. /\ seq \in Seq(points) /\ base \in points /\ Len(seq) \in Nat
      /\ Len(frontier) = Len(seq) + 1
      /\ \A i \in 1..Len(seq) : seq[i] = frontier[i + 1]
  <2> HIDE DEF frontier
  <2> QED BY <1>2
<1>4. \A v \in points, p \in points : Advance(v, p, tolerance) \in points
  BY DEF Advance
<1>5. PICK acc : WalkSteps(acc, base, seq, points, tolerance)
  <2>1. seq = Tail(Frontier(points)) /\ base = Head(Frontier(points))
    OBVIOUS
  <2> HIDE DEF seq, base
  <2> QED BY <1>3, <1>4, <2>1, AdvanceFold, Zenon
<1> HIDE DEF seq, frontier
<1>6. /\ acc[0] = base
      /\ \A i \in 1..Len(seq) : acc[i] = Advance(acc[i - 1], frontier[i + 1], tolerance)
      /\ acc[Len(seq)] = Terminal(points, tolerance)
  BY <1>3, <1>5 DEF WalkSteps
<1> DEFINE Holds == {i \in 0..Len(seq) : Stands(acc[i], frontier, i + 1, tolerance)}
<1>7. \A i \in 0..Len(seq) : i \in Holds
  <2>1. 0 \in Holds
    <3>1. Stands(base, frontier, 1, tolerance)
      BY <1>2, StandsAtHead
    <3> QED BY <1>3, <1>6, <3>1
  <2>2. ASSUME NEW i \in 1..Len(seq), i - 1 \in Holds PROVE i \in Holds
    <3> DEFINE k == i + 1
    <3>1. i \in 0..Len(seq) /\ k \in 2..Len(frontier) /\ k - 1 = i /\ (i - 1) + 1 = i
      BY <1>3
    <3>2. Stands(acc[i - 1], frontier, k - 1, tolerance)
      BY <2>2, <3>1
    <3>3. acc[i] = Advance(acc[i - 1], frontier[k], tolerance)
      BY <1>6
    <3> HIDE DEF k
    <3>4. Stands(Advance(acc[i - 1], frontier[k], tolerance), frontier, k, tolerance)
      BY <1>2, <3>1, <3>2, StandsStep
    <3> QED BY <3>1, <3>3, <3>4 DEF k
  <2> HIDE DEF Holds
  <2> QED BY <1>3, <2>1, <2>2, UpTo
<1>8. Stands(Terminal(points, tolerance), frontier, Len(frontier), tolerance)
  <2>1. Len(seq) \in 0..Len(seq)
    BY <1>3
  <2> QED BY <1>3, <1>6, <1>7, <2>1
<1> QED BY <1>8, TiersTiered, FrontierClimbs, WalkEnds DEF frontier
-----------------------------------------------------------------------------
(* The ranking of every subset.                                            *)

SlugsOf(points) == {p.slug : p \in points}

\* What is ranked is in the ranking, and nothing else.
LEMMA RangeOfCons ==
    ASSUME NEW A, NEW x \in A, NEW seq \in Seq(A)
    PROVE  <<x>> \o seq \in Seq(A) /\ Range(<<x>> \o seq) = {x} \cup Range(seq)
<1> DEFINE all == <<x>> \o seq
<1>1. all \in Seq(A) /\ Len(all) = Len(seq) + 1 /\ Len(seq) \in Nat
  OBVIOUS
<1>2. all[1] = x /\ \A i \in 1..Len(seq) : all[i + 1] = seq[i]
  OBVIOUS
<1>3. \A i \in 1..Len(all) : i = 1 \/ (i - 1 \in 1..Len(seq) /\ all[i] = seq[i - 1])
  <2> SUFFICES ASSUME NEW i \in 1..Len(all), i # 1
               PROVE  i - 1 \in 1..Len(seq) /\ all[i] = seq[i - 1]
    OBVIOUS
  <2>1. i - 1 \in 1..Len(seq) /\ (i - 1) + 1 = i
    BY <1>1
  <2> HIDE DEF all
  <2> QED BY <1>2, <2>1
<1>4. DOMAIN all = 1..Len(all) /\ DOMAIN seq = 1..Len(seq)
  OBVIOUS
<1> HIDE DEF all
<1>5. Range(all) \subseteq {x} \cup Range(seq)
  BY <1>2, <1>3, <1>4 DEF Range
<1>6. x \in Range(all)
  <2>1. 1 \in 1..Len(all)
    BY <1>1
  <2> QED BY <1>2, <1>4, <2>1 DEF Range
<1>7. Range(seq) \subseteq Range(all)
  <2> SUFFICES ASSUME NEW i \in 1..Len(seq) PROVE seq[i] \in Range(all)
    BY <1>4 DEF Range
  <2>1. i + 1 \in 1..Len(all)
    BY <1>1
  <2> QED BY <1>2, <1>4, <2>1 DEF Range
<1>8. Range(all) = {x} \cup Range(seq)
  BY <1>5, <1>6, <1>7
<1> QED BY <1>1, <1>8 DEF all

\* The ranking of a nonempty set starts where the walk over it ends.
LEMMA RankingsStep ==
    ASSUME NEW points, points \subseteq PointLike, IsFiniteSet(points), NEW tolerance,
           NEW some \in SUBSET points
    PROVE  /\ some = {} => Rankings(points, tolerance)[some] = <<>>
           /\ some # {} =>
                Rankings(points, tolerance)[some] =
                    Cons(Terminal(some, tolerance).slug,
                         Rankings(points, tolerance)[some \ {Terminal(some, tolerance)}])
           /\ Rankings(points, tolerance)[some] \in Seq(SlugsOf(points))
<1> DEFINE V    == Seq(SlugsOf(points))
           pick == [s \in SUBSET points |-> Terminal(s, tolerance)]
           step == [p \in (SUBSET points) \X V |->
                      IF p[1] = {} THEN <<>> ELSE <<Terminal(p[1], tolerance).slug>> \o p[2]]
           Is(h) == h = [s \in SUBSET points |->
                          IF s = {} THEN <<>>
                          ELSE <<Terminal(s, tolerance).slug>> \o h[s \ {Terminal(s, tolerance)}]]
           rank == CHOOSE h : Is(h)
<1>1. \A s \in SUBSET points : s # {} => pick[s] = Terminal(s, tolerance) /\ pick[s] \in s
  <2> SUFFICES ASSUME NEW s \in SUBSET points, s # {} PROVE Terminal(s, tolerance) \in s
    OBVIOUS
  <2>1. IsFiniteSet(s) /\ s \subseteq PointLike
    BY FS_Subset
  <2> QED BY <2>1, TerminalIn
<1>2. step \in [(SUBSET points) \X V -> V]
  <2>1. ASSUME NEW p \in (SUBSET points) \X V, p[1] # {}
        PROVE  <<Terminal(p[1], tolerance).slug>> \o p[2] \in V
    <3>1. Terminal(p[1], tolerance).slug \in SlugsOf(points)
      BY <1>1, <2>1 DEF SlugsOf
    <3> QED BY <3>1
  <2> QED BY <2>1
<1>3. <<>> \in V
  OBVIOUS
<1>4. \A s \in SUBSET points : s # {} => pick[s] \in s
  BY <1>1
<1>5. PICK h \in [SUBSET points -> V] : Recursive(h, points, <<>>, pick, step)
  <2> HIDE DEF V, pick, step
  <2> QED BY <1>2, <1>3, <1>4, RecursiveExists, Zenon
<1>6. Is(h)
  <2>1. ASSUME NEW s \in SUBSET points, s # {}
        PROVE  step[<<s, h[s \ {pick[s]}]>>]
                  = <<Terminal(s, tolerance).slug>> \o h[s \ {Terminal(s, tolerance)}]
    <3>1. h[s \ {pick[s]}] \in V
      OBVIOUS
    <3> QED BY <1>1, <2>1, <3>1
  <2>2. h = [s \in SUBSET points |-> IF s = {} THEN <<>> ELSE step[<<s, h[s \ {pick[s]}]>>]]
    <3> HIDE DEF pick, step, V
    <3> QED BY <1>5 DEF Recursive
  <2> HIDE DEF pick, step, V
  <2> QED BY <2>1, <2>2
<1>7. Is(rank)
  <2> HIDE DEF Is
  <2> QED BY <1>6
<1>8. Rankings(points, tolerance) = rank
  BY DEF Rankings
<1>9. \A s \in SUBSET points : rank[s] = h[s]
  <2> DEFINE Holds == {s \in SUBSET points : rank[s] = h[s]}
  <2>1. ASSUME NEW s \in SUBSET points, \A t \in SUBSET s : t # s => t \in Holds
        PROVE  s \in Holds
    <3>1. CASE s = {}
      <4> HIDE DEF rank
      <4> QED BY <1>6, <1>7, <3>1
    <3>2. CASE s # {}
      <4>1. s \ {Terminal(s, tolerance)} \in SUBSET s /\ s \ {Terminal(s, tolerance)} # s
        BY <1>1, <3>2
      <4>2. rank[s \ {Terminal(s, tolerance)}] = h[s \ {Terminal(s, tolerance)}]
        <5> HIDE DEF rank
        <5> QED BY <2>1, <4>1
      <4> HIDE DEF rank
      <4> QED BY <1>6, <1>7, <3>2, <4>2
    <3> QED BY <3>1, <3>2
  <2>2. \A s \in SUBSET points : s \in Holds
    <3> HIDE DEF Holds
    <3> QED BY <2>1, SubsetInduction
  <2> QED BY <2>2
<1>10. rank[some] \in V
  <2> HIDE DEF rank, V
  <2> QED BY <1>9
<1> HIDE DEF rank, V, pick, step
<1>11. /\ some = {} => rank[some] = <<>>
       /\ some # {} => rank[some] = Cons(Terminal(some, tolerance).slug,
                                        rank[some \ {Terminal(some, tolerance)}])
  BY <1>7 DEF Cons
<1> QED BY <1>8, <1>10, <1>11 DEF V

LEMMA RankingsNext ==
    ASSUME NEW points, points \subseteq PointLike, IsFiniteSet(points), NEW tolerance,
           NEW some \in SUBSET points, some # {},
           NEW last, last = Terminal(some, tolerance)
    PROVE  Rankings(points, tolerance)[some] =
               Cons(last.slug, Rankings(points, tolerance)[some \ {last}])
<1> DEFINE end == Terminal(some, tolerance)
<1>1. Rankings(points, tolerance)[some] =
          Cons(end.slug, Rankings(points, tolerance)[some \ {end}])
  BY RankingsStep, ZenonT(60)
<1>2. last = end
  OBVIOUS
<1> HIDE DEF end
<1> QED BY <1>1, <1>2

\* A ranking lists the slugs of its points and no other, once each if no two
\* points share a slug: the loop of ranked_order loses no candidate and
\* repeats none.
THEOREM RankingsComplete ==
    ASSUME NEW points, points \subseteq PointLike, IsFiniteSet(points), NEW tolerance
    PROVE  \A some \in SUBSET points :
              LET ranking == Rankings(points, tolerance)[some]
              IN  /\ ranking \in Seq(SlugsOf(points))
                  /\ Range(ranking) = SlugsOf(some)
                  /\ Len(ranking) = Cardinality(some)
<1> DEFINE rank  == Rankings(points, tolerance)
           Holds == {s \in SUBSET points : Range(rank[s]) = SlugsOf(s) /\ Len(rank[s]) = Cardinality(s)}
<1>1. ASSUME NEW s \in SUBSET points, \A t \in SUBSET s : t # s => t \in Holds
      PROVE  s \in Holds
  <2>1. CASE s = {}
    <3>1. rank[s] = <<>>
      BY <2>1, RankingsStep
    <3>2. Range(<<>>) = {} /\ Len(<<>>) = 0 /\ SlugsOf({}) = {} /\ Cardinality({}) = 0
      BY FS_EmptySet DEF Range, SlugsOf
    <3> QED BY <2>1, <3>1, <3>2
  <2>2. CASE s # {}
    <3> DEFINE winner == Terminal(s, tolerance)
               rest   == s \ {winner}
    <3>1. IsFiniteSet(s) /\ s \subseteq PointLike
      BY FS_Subset
    <3>2. winner \in s /\ winner = Terminal(s, tolerance)
      BY <2>2, <3>1, TerminalIn
    <3> HIDE DEF winner
    <3>3. rest \in SUBSET s /\ rest # s /\ rest \in SUBSET points
      BY <3>2
    <3>4. Range(rank[rest]) = SlugsOf(rest) /\ Len(rank[rest]) = Cardinality(rest)
      BY <1>1, <3>3
    <3>5. rank[s] = <<winner.slug>> \o rank[rest]
      <4>1. Rankings(points, tolerance)[s] = Cons(winner.slug, Rankings(points, tolerance)[s \ {winner}])
        BY <2>2, <3>2, RankingsNext
      <4> QED BY <4>1 DEF Cons
    <3>6. rank[rest] \in Seq(SlugsOf(points)) /\ winner.slug \in SlugsOf(points)
      BY <3>2, <3>3, RankingsStep DEF SlugsOf
    <3>7. SlugsOf(s) = {winner.slug} \cup SlugsOf(rest)
      BY <3>2 DEF SlugsOf
    <3>8. IsFiniteSet(rest) /\ Cardinality(s) = Cardinality(rest) + 1
      <4>1. IsFiniteSet(rest) /\ Cardinality(rest) = Cardinality(s) - 1
        BY <3>1, <3>2, FS_RemoveElement
      <4>2. Cardinality(s) \in Nat
        BY <3>1, FS_CardinalityType
      <4> HIDE DEF rest
      <4> QED BY <4>1, <4>2
    <3>9. Len(<<winner.slug>> \o rank[rest]) = Len(rank[rest]) + 1
      <4> HIDE DEF rank, rest
      <4> QED BY <3>6
    <3> HIDE DEF rank, rest
    <3>10. Range(rank[s]) = {winner.slug} \cup Range(rank[rest])
      BY <3>5, <3>6, RangeOfCons
    <3>11. Range(rank[s]) = SlugsOf(s)
      BY <3>4, <3>7, <3>10
    <3>12. Len(rank[s]) = Cardinality(s)
      BY <3>4, <3>5, <3>8, <3>9, FS_CardinalityType
    <3> QED BY <3>11, <3>12
  <2> QED BY <2>1, <2>2
<1>2. \A s \in SUBSET points : s \in Holds
  <2> HIDE DEF Holds
  <2> QED BY <1>1, SubsetInduction
<1>3. \A s \in SUBSET points : rank[s] \in Seq(SlugsOf(points))
  BY RankingsStep
<1> QED BY <1>2, <1>3

LEMMA ConsAt ==
    ASSUME NEW A, NEW x \in A, NEW q \in Seq(A)
    PROVE  /\ Len(<<x>> \o q) = Len(q) + 1
           /\ (<<x>> \o q)[1] = x
           /\ \A j \in 1..Len(q) : (<<x>> \o q)[j + 1] = q[j]
OBVIOUS

\* What is still to be ranked at a position of a ranking.
Unranked(some, ranking, i) == {q \in some : \A j \in 1..(i - 1) : ranking[j] # q.slug}

OnePerSlug(points) == \A p, q \in points : p.slug = q.slug => p = q

\* Every place of a ranking is well chosen among the points not ranked before
\* it: the operator's tolerance applies to the fallbacks as to the winner
\* (ranked_order).
THEOREM RankingsChooseWell ==
    ASSUME NEW points, Usable(points), IsFiniteSet(points), OnePerSlug(points),
           NEW tolerance \in Nat
    PROVE  \A some \in SUBSET points :
              LET ranking == Rankings(points, tolerance)[some]
              IN  \A i \in 1..Len(ranking), w \in some :
                     w.slug = ranking[i] => WellChosen(w, Unranked(some, ranking, i), tolerance)
<1> DEFINE rank    == Rankings(points, tolerance)
           Good(s) == \A i \in 1..Len(rank[s]), w \in s :
                         w.slug = rank[s][i] => WellChosen(w, Unranked(s, rank[s], i), tolerance)
           Holds   == {s \in SUBSET points : Good(s)}
<1>1. points \subseteq PointLike
  BY DEF Usable
<1>2. ASSUME NEW s \in SUBSET points, \A t \in SUBSET s : t # s => t \in Holds
      PROVE  s \in Holds
  <2>1. CASE s = {}
    BY <2>1
  <2>2. CASE s # {}
    <3> DEFINE winner == Terminal(s, tolerance)
               rest   == s \ {winner}
    <3>1. IsFiniteSet(s) /\ Usable(s)
      BY FS_Subset DEF Usable
    <3>2. winner \in s /\ WellChosen(winner, s, tolerance) /\ winner = Terminal(s, tolerance)
      BY <2>2, <3>1, TerminalChoosesWell
    <3> HIDE DEF winner
    <3>3. rank[s] = <<winner.slug>> \o rank[rest]
      <4>1. Rankings(points, tolerance)[s] = Cons(winner.slug, Rankings(points, tolerance)[s \ {winner}])
        BY <1>1, <2>2, <3>2, RankingsNext
      <4> QED BY <4>1 DEF Cons
    <3>4. rest \in SUBSET s /\ rest # s /\ rest \in SUBSET points
      BY <3>2
    <3>5. Good(rest)
      BY <1>2, <3>4
    <3>6. rank[rest] \in Seq(SlugsOf(points)) /\ Range(rank[rest]) = SlugsOf(rest)
      BY <1>1, <3>4, RankingsComplete
    <3> HIDE DEF rank, rest
    <3>7. /\ Len(rank[s]) = Len(rank[rest]) + 1
          /\ rank[s][1] = winner.slug
          /\ \A j \in 1..Len(rank[rest]) : rank[s][j + 1] = rank[rest][j]
      <4>1. winner.slug \in SlugsOf(points)
        BY <3>2 DEF SlugsOf
      <4> QED BY <3>3, <3>6, <4>1, ConsAt
    <3>8. ASSUME NEW i \in 1..Len(rank[s]), NEW w \in s, w.slug = rank[s][i]
          PROVE  WellChosen(w, Unranked(s, rank[s], i), tolerance)
      <4>1. CASE i = 1
        <5>1. w = winner
          BY <3>2, <3>7, <3>8, <4>1 DEF OnePerSlug
        <5> QED BY <3>2, <5>1 DEF WellChosen, Unranked
      <4>2. CASE i # 1
        <5> DEFINE k == i - 1
        <5>1. k \in 1..Len(rank[rest]) /\ i = k + 1
          BY <3>6, <3>7, <3>8, <4>2
        <5> HIDE DEF k
        <5>2. w.slug = rank[rest][k]
          BY <3>7, <3>8, <5>1
        <5>3. w \in rest
          <6>1. PICK r \in rest : r.slug = rank[rest][k]
            <7>1. rank[rest][k] \in Range(rank[rest])
              BY <3>6, <5>1 DEF Range
            <7> QED BY <3>6, <7>1 DEF SlugsOf
          <6> QED BY <3>4, <5>2, <6>1 DEF OnePerSlug
        <5>4. WellChosen(w, Unranked(rest, rank[rest], k), tolerance)
          BY <3>5, <5>1, <5>2, <5>3
        <5>5. ASSUME NEW q \in Unranked(s, rank[s], i)
              PROVE  q \in Unranked(rest, rank[rest], k)
          <6>1. q \in s /\ \A j \in 1..k : rank[s][j] # q.slug
            BY <5>1 DEF Unranked
          <6>2. q.slug # winner.slug
            BY <3>7, <5>1, <6>1
          <6>3. q \in rest
            BY <6>1, <6>2 DEF rest
          <6>4. ASSUME NEW j \in 1..(k - 1) PROVE rank[rest][j] # q.slug
            <7>1. j \in 1..Len(rank[rest]) /\ j + 1 \in 1..k
              BY <3>6, <5>1
            <7> QED BY <3>7, <6>1, <7>1
          <6> QED BY <6>3, <6>4 DEF Unranked
        <5> QED BY <5>4, <5>5 DEF WellChosen
      <4> QED BY <4>1, <4>2
    <3> QED BY <3>8
  <2> QED BY <2>1, <2>2
<1>3. \A s \in SUBSET points : s \in Holds
  <2> HIDE DEF Holds
  <2> QED BY <1>2, SubsetInduction
<1> QED BY <1>3
=============================================================================
