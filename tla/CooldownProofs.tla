--------------------------- MODULE CooldownProofs ---------------------------
(***************************************************************************)
(* The safety of RateLimitCooldown for every window, threshold, TTL, lag,  *)
(* number of keys and number of threads, and that the memory implements    *)
(* CooldownPromise when the lag is zero.                                   *)
(***************************************************************************)
EXTENDS CooldownRefinement, FiniteSetTheorems, TLAPS

-----------------------------------------------------------------------------
(* Lemmas about the operators.                                             *)

\* The hits a window selects are among the stored ones.
LEMMA RecentSubset ==
    ASSUME NEW hs \in SUBSET Hit, NEW ts \in Int
    PROVE  Recent(hs, ts) \in SUBSET Hit /\ Recent(hs, ts) \subseteq hs
  BY DEF Recent

\* TTLs are natural numbers.
LEMMA TtlType == \A st \in Stores, k \in Keys : Ttl(st, k) \in Nat
  BY ConfigAssumption DEF Ttl, Stores

\* Eviction keeps a key's whole list or removes the key.
LEMMA EvictKeepsOrDrops ==
    ASSUME NEW hs \in [Keys -> SUBSET Hit], NEW cutoff \in Int, NEW k \in Keys
    PROVE  /\ Evict(hs, cutoff) \in [Keys -> SUBSET Hit]
           /\ LastHitSince(hs[k], cutoff) => Evict(hs, cutoff)[k] = hs[k]
           /\ ~LastHitSince(hs[k], cutoff) => Evict(hs, cutoff)[k] = {}
  BY DEF Evict

\* A list whose last hit survives no cutoff was dropped: all its hits are
\* older than the cutoff, up to Lag.
LEMMA DroppedHitsAreOld ==
    ASSUME NEW v \in SUBSET Hit, NEW cutoff \in Int,
           \A g, h \in v : g.n <= h.n => g.ts <= h.ts + Lag,
           v # {} => \E h \in v : \A g \in v : g.n <= h.n,
           ~LastHitSince(v, cutoff),
           NEW g \in v
    PROVE  g.ts < cutoff + Lag
  <1>1. PICK h \in v : \A f \in v : f.n <= h.n
    OBVIOUS
  <1>2. h.ts < cutoff
    BY <1>1 DEF LastHitSince, Hit
  <1>3. g.ts <= h.ts + Lag
    BY <1>1
  <1> QED
    BY <1>2, <1>3, ConfigAssumption DEF Hit

-----------------------------------------------------------------------------
(* The inductive invariant.                                                *)

\* The constructor establishes the invariant.
LEMMA InitIInv == Init => IInv
  <1> SUFFICES ASSUME Init PROVE IInv
    OBVIOUS
  <1>1. TypeOK
    BY DEF Init, TypeOK, Hit
  <1>2. CallsAreRecent
    BY DEF Init, CallsAreRecent
  <1>3. AppendsInOrder
    BY DEF Init, AppendsInOrder
  <1>4. HitsStored
    BY FS_EmptySet DEF Init, HitsStored, Recent
  <1>5. SkipsStored
    BY TtlType, ConfigAssumption DEF Init, SkipsStored, Stores
  <1>6. StoredKeysAreRecent
    BY DEF Init, StoredKeysAreRecent
  <1> QED
    BY <1>1, <1>2, <1>3, <1>4, <1>5, <1>6 DEF IInv

\* A call that waits for the lock has read a clock at most Lag ago.
LEMMA PendingCall ==
    ASSUME TypeOK, CallsAreRecent, NEW t \in Threads, NEW op \in Ops, call[t].op = op
    PROVE  /\ call[t] \in Call
           /\ call[t].key \in Keys
           /\ call[t].ts \in Nat
           /\ call[t].ts <= now
           /\ now <= call[t].ts + Lag
  <1>1. call[t] # Idle
    BY DEF Idle, Ops
  <1>2. call[t] \in Call
    BY <1>1 DEF TypeOK
  <1> QED
    BY <1>1, <1>2 DEF Call, CallsAreRecent

\* Reading the clock preserves the invariant.
LEMMA BeginIInv ==
    ASSUME IInv, NEW t \in Threads, NEW op \in UsedOps, NEW k \in Keys, Begin(t, op, k)
    PROVE  IInv'
  <1> USE DEF IInv
  <1>1. TypeOK'
    BY ConfigAssumption DEF Begin, TypeOK, Call
  <1>2. CallsAreRecent'
    BY ConfigAssumption DEF Begin, CallsAreRecent, TypeOK
  <1>3. AppendsInOrder' /\ HitsStored' /\ SkipsStored' /\ StoredKeysAreRecent'
    BY DEF Begin, AppendsInOrder, HitsStored, SkipsStored, StoredKeysAreRecent, Recent, Ttl
  <1> QED
    BY <1>1, <1>2, <1>3

\* The passing of time preserves the invariant.
LEMMA TickIInv == IInv /\ Tick => IInv'
  <1> SUFFICES ASSUME IInv, Tick PROVE IInv'
    OBVIOUS
  <1> USE DEF IInv
  <1>1. TypeOK'
    BY DEF Tick, TypeOK
  <1>2. CallsAreRecent'
    BY ConfigAssumption DEF Tick, CallsAreRecent, TypeOK, Call
  <1>3. AppendsInOrder'
    BY DEF Tick, AppendsInOrder, TypeOK, Hit
  <1>4. HitsStored'
    BY ConfigAssumption, SMTT(30) DEF Tick, HitsStored, Recent, TypeOK, Hit
  <1>5. SkipsStored'
    BY TtlType, ConfigAssumption DEF Tick, SkipsStored, TypeOK, Ttl
  <1>6. StoredKeysAreRecent'
    BY DEF Tick, StoredKeysAreRecent
  <1> QED
    BY <1>1, <1>2, <1>3, <1>4, <1>5, <1>6

-----------------------------------------------------------------------------
(* The locked body of record.                                              *)

\* What record leaves in the list of every key: the key itself keeps its hits
\* inside the window and the new one, another key its whole list or nothing.
LEMMA RecordEffect ==
    ASSUME IInv, NEW t \in Threads, Record(t)
    PROVE  LET c   == call[t]
               new == [n |-> recorded, ts |-> c.ts]
           IN  /\ c.key \in Keys /\ c.ts \in Nat /\ c.ts <= now /\ now <= c.ts + Lag
               /\ new \in Hit
               /\ hits' \in [Keys -> SUBSET Hit]
               /\ hits'[c.key] = Recent(hits[c.key], c.ts) \cup {new}
               /\ \A k \in Keys : k # c.key =>
                    hits'[k] = IF LastHitSince(hits[k], c.ts - Window) THEN hits[k] ELSE {}
  <1> DEFINE c    == call[t]
             new  == [n |-> recorded, ts |-> c.ts]
             kept == Recent(hits[c.key], c.ts) \cup {new}
             mid  == [hits EXCEPT ![c.key] = kept]
  <1> USE DEF IInv
  <1>1. /\ c \in Call /\ c.key \in Keys /\ c.ts \in Nat
        /\ c.ts <= now /\ now <= c.ts + Lag
    BY PendingCall DEF Record, Ops
  <1>2. new \in Hit /\ recorded \in Nat
    BY <1>1 DEF Hit, TypeOK
  <1>3. mid \in [Keys -> SUBSET Hit] /\ kept \in SUBSET Hit
    BY <1>1, <1>2, RecentSubset DEF TypeOK
  <1>4. mid[c.key] = kept /\ \A k \in Keys : k # c.key => mid[k] = hits[k]
    BY <1>1, <1>3 DEF TypeOK
  <1>5. c.ts - Window \in Int
    BY <1>1, ConfigAssumption
  <1>6. hits' = Evict(mid, c.ts - Window)
    BY DEF Record
  <1>9. \A h \in log[c.key] : h \in Hit /\ h.n < recorded /\ h.ts <= now
    BY <1>1 DEF TypeOK, AppendsInOrder
  <1>10. \A h \in hits[c.key] : h \in Hit /\ h.n < recorded
    BY <1>1, <1>9 DEF HitsStored
  <1>11. /\ new \in kept /\ new.n = recorded /\ new.ts = c.ts
         /\ \A g \in kept : g.n <= new.n
    BY <1>2, <1>10 DEF Recent, Hit
  <1>12. hits'[c.key] = kept
    <2>1. LastHitSince(kept, c.ts - Window)
      <3>1. c.ts >= c.ts - Window
        BY <1>1, ConfigAssumption
      <3> QED
        BY <1>11, <3>1, Zenon DEF LastHitSince
    <2>2. LastHitSince(mid[c.key], c.ts - Window)
      BY <1>4, <2>1
    <2>3. Evict(mid, c.ts - Window)[c.key] = mid[c.key]
      <3> DEFINE cutoff == c.ts - Window
      <3>1. cutoff \in Int /\ LastHitSince(mid[c.key], cutoff)
        BY <1>5, <2>2
      <3> HIDE DEF cutoff, mid, kept, c
      <3>2. Evict(mid, cutoff)[c.key] = mid[c.key]
        BY <1>1, <1>3, <3>1, EvictKeepsOrDrops
      <3> QED
        BY <3>2 DEF cutoff
    <2> QED
      BY <1>4, <1>6, <2>3
  <1>13. ASSUME NEW k \in Keys, k # c.key
         PROVE  hits'[k] = IF LastHitSince(hits[k], c.ts - Window) THEN hits[k] ELSE {}
    BY <1>3, <1>4, <1>5, <1>6, <1>13, EvictKeepsOrDrops
  <1>14. hits' \in [Keys -> SUBSET Hit]
    BY <1>3, <1>5, <1>6, EvictKeepsOrDrops DEF Evict
  <1> QED
    BY <1>1, <1>2, <1>12, <1>13, <1>14

\* Record preserves the invariant.
LEMMA RecordIInv == ASSUME IInv, NEW t \in Threads, Record(t) PROVE IInv'
  <1> DEFINE c    == call[t]
             new  == [n |-> recorded, ts |-> c.ts]
             kept == Recent(hits[c.key], c.ts) \cup {new}
  <1> USE DEF IInv
  <1>1. c.key \in Keys /\ c.ts \in Nat /\ c.ts <= now /\ now <= c.ts + Lag
    BY RecordEffect
  <1>2. new \in Hit /\ recorded \in Nat
    BY RecordEffect DEF TypeOK
  <1>3. c.ts - Window \in Int
    BY <1>1, ConfigAssumption
  <1>4. log' = [log EXCEPT ![c.key] = @ \cup {new}] /\ recorded' = recorded + 1
    BY DEF Record
  <1>5. now' = now /\ until' = until /\ promised' = promised /\ call' = [call EXCEPT ![t] = Idle]
    BY DEF Record, Return
  <1>6. \A h \in log[c.key] : h \in Hit /\ h.n < recorded /\ h.ts <= now
    BY <1>1 DEF TypeOK, AppendsInOrder
  <1>7. \A h \in hits[c.key] : h \in Hit /\ h.n < recorded
    BY <1>1, <1>6 DEF HitsStored
  <1>8. /\ new \in kept /\ new.n = recorded /\ new.ts = c.ts
         /\ \A g \in kept : g.n <= new.n
    BY <1>2, <1>7 DEF Recent, Hit
  <1>9. hits'[c.key] = kept
    BY RecordEffect
  <1>10. ASSUME NEW k \in Keys, k # c.key
         PROVE  hits'[k] = IF LastHitSince(hits[k], c.ts - Window) THEN hits[k] ELSE {}
    BY <1>10, RecordEffect
  <1>11. /\ log'[c.key] = log[c.key] \cup {new}
         /\ \A k \in Keys : k # c.key => log'[k] = log[k]
    BY <1>1, <1>4 DEF TypeOK
  <1> HIDE DEF new, kept
  <1>12. TypeOK'
    <2>1. hits' \in [Keys -> SUBSET Hit]
      BY RecordEffect
    <2>2. log' \in [Keys -> SUBSET Hit]
      BY <1>1, <1>2, <1>4 DEF TypeOK
    <2> QED
      BY <1>2, <1>4, <1>5, <2>1, <2>2 DEF TypeOK
  <1>13. CallsAreRecent'
    BY <1>5 DEF CallsAreRecent, TypeOK
  <1>14. AppendsInOrder'
    <2> SUFFICES ASSUME NEW k \in Keys, NEW h \in log'[k]
                 PROVE  /\ h.n < recorded' /\ h.ts <= now'
                        /\ \A g \in log'[k] : g.n <= h.n => g.ts <= h.ts + Lag
      BY DEF AppendsInOrder
    <2>1. CASE k # c.key
      BY <1>2, <1>4, <1>5, <1>11, <2>1 DEF AppendsInOrder, TypeOK, Hit
    <2>2. CASE k = c.key
      <3>1. CASE h = new
        BY <1>1, <1>2, <1>4, <1>5, <1>6, <1>11, <2>2, <3>1, ConfigAssumption DEF TypeOK, Hit, new
      <3>2. CASE h \in log[c.key]
        BY <1>1, <1>2, <1>4, <1>5, <1>6, <1>11, <2>2, <3>2, ConfigAssumption
           DEF AppendsInOrder, TypeOK, Hit, new
      <3> QED
        BY <1>11, <2>2, <3>1, <3>2
    <2> QED
      BY <2>1, <2>2
  <1>15. HitsStored'
    <2> SUFFICES ASSUME NEW k \in Keys
                 PROVE  /\ IsFiniteSet(log'[k])
                        /\ hits'[k] \subseteq log'[k]
                        /\ hits'[k] # {} => \E h \in hits'[k] : \A g \in hits'[k] : g.n <= h.n
                        /\ Recent(log'[k], now + Lag) \subseteq hits'[k]
      BY <1>5 DEF HitsStored, Recent
    <2>1. CASE k = c.key
      <3>1. IsFiniteSet(log'[k])
        <4>1. IsFiniteSet(log[k])
          BY DEF HitsStored
        <4>2. IsFiniteSet(log[k] \cup {new})
          BY <4>1, FS_AddElement, Zenon
        <4> QED
          BY <1>11, <2>1, <4>2
      <3>2. hits'[k] \subseteq log'[k]
        BY <1>1, <1>9, <1>11, <2>1 DEF HitsStored, kept, Recent
      <3>3. \E h \in hits'[k] : \A g \in hits'[k] : g.n <= h.n
        BY <1>8, <1>9, <2>1
      <3>4. Recent(log'[k], now + Lag) \subseteq hits'[k]
        BY <1>1, <1>6, <1>9, <1>11, <2>1, ConfigAssumption DEF HitsStored, kept, Recent, Hit, TypeOK
      <3> QED
        BY <3>1, <3>2, <3>3, <3>4
    <2>2. CASE k # c.key
      <3>1. CASE LastHitSince(hits[k], c.ts - Window)
        BY <1>10, <1>11, <2>2, <3>1 DEF HitsStored
      <3>2. CASE ~LastHitSince(hits[k], c.ts - Window)
        <4>1. \A g, h \in hits[k] : g.n <= h.n => g.ts <= h.ts + Lag
          BY DEF HitsStored, AppendsInOrder
        <4>2. \A g \in hits[k] : g.ts < c.ts - Window + Lag
          BY <1>3, <3>2, <4>1, DroppedHitsAreOld DEF HitsStored, TypeOK
        <4>3. Recent(log[k], now + Lag) = {}
          BY <1>1, <4>2, ConfigAssumption DEF HitsStored, Recent, TypeOK, Hit
        <4> QED
          BY <1>10, <1>11, <2>2, <3>2, <4>3 DEF HitsStored
      <3> QED
        BY <3>1, <3>2
    <2> QED
      BY <2>1, <2>2
  <1>16. SkipsStored'
    BY <1>5 DEF SkipsStored, Ttl
  <1>17. StoredKeysAreRecent'
    <2> SUFFICES ASSUME NEW k \in Keys, hits'[k] # {}, NEW j \in Keys, NEW g \in log'[j]
                 PROVE  \E h \in hits'[k] : h.ts >= g.ts - Window - Lag
      BY DEF StoredKeysAreRecent
    <2>1. g \in log[j] \/ g = new
      BY <1>11
    <2>2. g \in Hit /\ g.ts <= now
      BY <1>1, <1>2, <2>1 DEF AppendsInOrder, TypeOK, new
    <2>3. CASE k = c.key
      <3>1. new \in hits'[k] /\ new.ts = c.ts
        BY <1>9, <2>3 DEF kept, new
      <3> QED
        BY <1>1, <2>2, <3>1, ConfigAssumption DEF Hit, TypeOK
    <2>4. CASE k # c.key
      <3>1. LastHitSince(hits[k], c.ts - Window) /\ hits'[k] = hits[k]
        BY <1>10, <2>4
      <3>2. PICK h \in hits[k] : h.ts >= c.ts - Window
        BY <3>1 DEF LastHitSince
      <3>3. h.ts \in Nat
        BY DEF TypeOK, Hit
      <3> QED
        BY <1>1, <2>2, <3>1, <3>2, <3>3, ConfigAssumption DEF Hit, TypeOK
    <2> QED
      BY <2>3, <2>4
  <1> QED
    BY <1>12, <1>13, <1>14, <1>15, <1>16, <1>17

-----------------------------------------------------------------------------
(* The bodies of the other methods, and every step.                        *)

\* Recording an input cap or a broken provider preserves the invariant.
LEMMA ReportIInv ==
    ASSUME IInv, NEW t \in Threads, NEW st \in Stores, Report(t, st) PROVE IInv'
  <1> DEFINE c   == call[t]
             exp == c.ts + Ttl(st, c.key)
             old == promised[st][c.key]
             top == IF exp > old THEN exp ELSE old
  <1> USE DEF IInv
  <1>1. /\ c.key \in Keys /\ c.ts \in Nat /\ c.ts <= now /\ now <= c.ts + Lag
    BY PendingCall DEF Report, ReportOp, Stores, Ops
  <1>2. /\ until' = [until EXCEPT ![st][c.key] = exp]
        /\ promised' = [promised EXCEPT ![st][c.key] = top]
        /\ call' = [call EXCEPT ![t] = Idle]
        /\ now' = now /\ hits' = hits /\ recorded' = recorded /\ log' = log
    BY DEF Report, Return
  <1>3. /\ Ttl(st, c.key) \in Nat /\ exp \in Nat /\ old \in Nat /\ top \in Nat
    BY <1>1, TtlType DEF TypeOK
  <1>4. TypeOK'
    BY <1>1, <1>2, <1>3 DEF TypeOK
  <1>5. CallsAreRecent' /\ AppendsInOrder' /\ HitsStored' /\ StoredKeysAreRecent'
    BY <1>2 DEF CallsAreRecent, AppendsInOrder, HitsStored, StoredKeysAreRecent, Recent, TypeOK
  <1>6. SkipsStored'
    <2> SUFFICES ASSUME NEW s \in Stores, NEW k \in Keys
                 PROVE  /\ until'[s][k] <= promised'[s][k]
                        /\ promised'[s][k] <= now + Ttl(s, k)
                        /\ now + Lag < promised'[s][k] => promised'[s][k] <= until'[s][k] + Lag
      BY <1>2 DEF SkipsStored, Ttl
    <2>1. CASE s = st /\ k = c.key
      <3>1. until'[s][k] = exp /\ promised'[s][k] = top
        BY <1>1, <1>2, <2>1 DEF TypeOK
      <3>2. old <= now + Ttl(st, c.key)
        BY <1>1 DEF SkipsStored
      <3> QED
        BY <1>1, <1>3, <2>1, <3>1, <3>2, ConfigAssumption DEF TypeOK
    <2>2. CASE ~(s = st /\ k = c.key)
      <3>1. until'[s][k] = until[s][k] /\ promised'[s][k] = promised[s][k]
        BY <1>1, <1>2, <2>2 DEF TypeOK
      <3> QED
        BY <3>1 DEF SkipsStored
    <2> QED
      BY <2>1, <2>2
  <1> QED
    BY <1>4, <1>5, <1>6

\* Reading, and reaping an expired entry, preserves the invariant.
LEMMA ReadIInv ==
    ASSUME IInv, NEW t \in Threads, NEW st \in Stores, Read(t, st) PROVE IInv'
  <1> DEFINE c == call[t]
  <1> USE DEF IInv
  <1>1. /\ c.key \in Keys /\ c.ts \in Nat /\ c.ts <= now /\ now <= c.ts + Lag
    BY PendingCall DEF Read, ReadOp, Stores, Ops
  <1>2. /\ until' = IF IsLive(st, c.key, c.ts) THEN until ELSE [until EXCEPT ![st][c.key] = 0]
        /\ call' = [call EXCEPT ![t] = Idle]
        /\ now' = now /\ hits' = hits /\ recorded' = recorded /\ log' = log /\ promised' = promised
    BY DEF Read, Return
  <1>3. TypeOK'
    BY <1>1, <1>2 DEF TypeOK
  <1>4. CallsAreRecent' /\ AppendsInOrder' /\ HitsStored' /\ StoredKeysAreRecent'
    BY <1>2 DEF CallsAreRecent, AppendsInOrder, HitsStored, StoredKeysAreRecent, Recent, TypeOK
  <1>5. SkipsStored'
    <2> SUFFICES ASSUME NEW s \in Stores, NEW k \in Keys
                 PROVE  /\ until'[s][k] <= promised[s][k]
                        /\ promised[s][k] <= now + Ttl(s, k)
                        /\ now + Lag < promised[s][k] => promised[s][k] <= until'[s][k] + Lag
      BY <1>2 DEF SkipsStored, Ttl
    <2>1. CASE until'[s][k] = until[s][k]
      BY <2>1 DEF SkipsStored
    <2>2. CASE until'[s][k] # until[s][k]
      <3>1. until'[s][k] = 0 /\ until[s][k] <= now
        BY <1>1, <1>2, <2>2 DEF TypeOK, IsLive
      <3> QED
        BY <3>1, ConfigAssumption DEF SkipsStored, TypeOK
    <2> QED
      BY <2>1, <2>2
  <1> QED
    BY <1>3, <1>4, <1>5

\* The invariant holds in every reachable state of the memory.
THEOREM Invariance == Spec => []IInv
  <1>1. IInv /\ [Next]_vars => IInv'
    <2> SUFFICES ASSUME IInv, [Next]_vars PROVE IInv'
      OBVIOUS
    <2>1. ASSUME NEW t \in Threads, NEW op \in UsedOps, NEW k \in Keys, Begin(t, op, k)
          PROVE  IInv'
      BY <2>1, BeginIInv
    <2>2. ASSUME NEW t \in Threads, Record(t) PROVE IInv'
      BY <2>2, RecordIInv
    <2>3. ASSUME NEW t \in Threads, NEW st \in Stores, Report(t, st) PROVE IInv'
      BY <2>3, ReportIInv
    <2>4. ASSUME NEW t \in Threads, NEW st \in Stores, Read(t, st) PROVE IInv'
      BY <2>4, ReadIInv
    <2>5. CASE Tick
      BY <2>5, TickIInv
    <2>6. CASE UNCHANGED vars
      BY <2>6 DEF vars, IInv, TypeOK, CallsAreRecent, AppendsInOrder, HitsStored,
                  SkipsStored, StoredKeysAreRecent, Recent, Ttl
    <2> QED
      BY <2>1, <2>2, <2>3, <2>4, <2>5, <2>6 DEF Next
  <1> QED
    BY InitIInv, <1>1, PTL DEF Spec

-----------------------------------------------------------------------------
(* The properties.                                                         *)

\* The dictionaries keep their shape.
THEOREM TypeCorrect == Spec => []TypeOK
  <1>1. IInv => TypeOK
    BY DEF IInv
  <1> QED
    BY Invariance, <1>1, PTL

\* A provider is never hot without Threshold recorded 429s inside the window.
THEOREM HotOnlyWhenDueHolds == Spec => []HotOnlyWhenDue
  <1>1. ASSUME IInv PROVE HotOnlyWhenDue
    <2> SUFFICES ASSUME NEW k \in Keys, IsHot(k, now)
                 PROVE  Cardinality(Recent(log[k], now)) >= Threshold
      BY DEF HotOnlyWhenDue
    <2>1. /\ IsFiniteSet(log[k]) /\ hits[k] \subseteq log[k]
      BY <1>1 DEF IInv, HitsStored
    <2>2. Recent(hits[k], now) \subseteq Recent(log[k], now) /\ Recent(log[k], now) \subseteq log[k]
      BY <2>1 DEF Recent
    <2>3. IsFiniteSet(Recent(log[k], now))
      BY <2>1, <2>2, FS_Subset
    <2>4. /\ Cardinality(Recent(hits[k], now)) <= Cardinality(Recent(log[k], now))
          /\ Cardinality(Recent(hits[k], now)) \in Nat
          /\ Cardinality(Recent(log[k], now)) \in Nat
      BY <2>2, <2>3, FS_Subset, FS_CardinalityType
    <2> QED
      BY <2>4, ConfigAssumption DEF IsHot
  <1> QED
    BY Invariance, <1>1, PTL

\* A provider with Threshold 429s inside the window (less Lag) is hot.
THEOREM HotWhenDueHolds == Spec => []HotWhenDue
  <1>1. ASSUME IInv PROVE HotWhenDue
    <2> SUFFICES ASSUME NEW k \in Keys, Cardinality(Recent(log[k], now + Lag)) >= Threshold
                 PROVE  IsHot(k, now)
      BY DEF HotWhenDue
    <2> DEFINE due == Recent(log[k], now + Lag)
    <2>1. /\ IsFiniteSet(log[k]) /\ hits[k] \subseteq log[k] /\ due \subseteq hits[k]
      BY <1>1 DEF IInv, HitsStored
    <2>2. due \subseteq Recent(hits[k], now)
      BY <1>1, <2>1, ConfigAssumption DEF IInv, TypeOK, Recent, Hit
    <2>3. Recent(hits[k], now) \subseteq log[k]
      BY <2>1 DEF Recent
    <2> HIDE DEF due
    <2>4. IsFiniteSet(Recent(hits[k], now))
      BY <2>1, <2>3, FS_Subset
    <2>5. IsFiniteSet(due) /\ Cardinality(due) <= Cardinality(Recent(hits[k], now))
      BY <2>2, <2>4, FS_Subset
    <2>6. Cardinality(due) \in Nat /\ Cardinality(Recent(hits[k], now)) \in Nat
      BY <2>4, <2>5, FS_CardinalityType
    <2>7. Cardinality(due) >= Threshold
      BY DEF due
    <2> QED
      BY <2>5, <2>6, <2>7, ConfigAssumption DEF IsHot
  <1> QED
    BY Invariance, <1>1, PTL

\* A reported provider is skipped until the promised expiry (less Lag).
THEOREM SkipHonouredHolds == Spec => []SkipHonoured
  <1>1. IInv => SkipHonoured
    BY ConfigAssumption DEF IInv, SkipsStored, SkipHonoured, IsLive, TypeOK
  <1> QED
    BY Invariance, <1>1, PTL

\* No skip outlives the expiry a report asked for.
THEOREM SkipBoundedHolds == Spec => []SkipBounded
  <1>1. IInv => SkipBounded
    BY DEF IInv, SkipsStored, SkipBounded, IsLive, TypeOK
  <1> QED
    BY Invariance, <1>1, PTL

\* Keys that stopped failing are forgotten once any key fails.
THEOREM StoredKeysAreRecentHolds == Spec => []StoredKeysAreRecent
  <1>1. IInv => StoredKeysAreRecent
    BY DEF IInv
  <1> QED
    BY Invariance, <1>1, PTL
-----------------------------------------------------------------------------
(* The implementation of CooldownPromise, for every instance whose locked  *)
(* bodies run at the instant of their clock reads.                         *)

\* The constructor establishes the promise's initial state.
LEMMA InitRefines == Init => Promise!Init
  <1> SUFFICES ASSUME Init PROVE Promise!Init
    OBVIOUS
  <1>1. visibleHits = [k \in Keys |-> {}]
    BY DEF Init, visibleHits, Recent
  <1>2. visibleSkips = [kind \in Promise!Kinds |-> [k \in Keys |-> 0]]
    BY DEF Init, visibleSkips, IsLive, Promise!Kinds, Stores
  <1> QED
    BY <1>1, <1>2 DEF Init, Promise!Init

\* Reading the clock changes nothing visible.
LEMMA BeginRefines ==
    ASSUME NEW t \in Threads, NEW op \in UsedOps, NEW k \in Keys, Begin(t, op, k)
    PROVE  UNCHANGED Promise!vars
  BY DEF Begin, Promise!vars, visibleHits, visibleSkips, Recent, IsLive

\* A record is a failure of the promise: what it evicts had aged.
LEMMA RecordRefines ==
    ASSUME Lag = 0, IInv, NEW t \in Threads, Record(t)
    PROVE  \E k \in Keys : Promise!Fail(k)
  <1> DEFINE c   == call[t]
             new == [n |-> recorded, ts |-> c.ts]
  <1>1. /\ c.key \in Keys /\ c.ts = now /\ now \in Nat /\ new \in Hit
    <2>1. /\ c.key \in Keys /\ c.ts \in Nat /\ c.ts <= now /\ now <= c.ts + Lag
          /\ new \in Hit
      BY RecordEffect
    <2>2. now \in Nat
      BY DEF IInv, TypeOK
    <2>3. now <= c.ts
      BY <2>1, <2>2
    <2> HIDE DEF c, new
    <2> QED
      BY <2>1, <2>2, <2>3
  <1>2. hits'[c.key] = Recent(hits[c.key], now) \cup {new}
    BY <1>1, RecordEffect
  <1>3. now' = now /\ until' = until /\ recorded' = recorded + 1
    BY DEF Record
  <1>4. visibleHits'[c.key] = visibleHits[c.key] \cup {new}
    BY <1>1, <1>2, <1>3, ConfigAssumption DEF visibleHits, Recent, Hit
  <1>5. ASSUME NEW k \in Keys, k # c.key
        PROVE  visibleHits'[k] = visibleHits[k]
    <2>1. CASE LastHitSince(hits[k], c.ts - Window)
      <3>1. hits'[k] = hits[k]
        BY <1>5, <2>1, RecordEffect
      <3> QED
        BY <1>3, <3>1 DEF visibleHits, Recent
    <2>2. CASE ~LastHitSince(hits[k], c.ts - Window)
      <3>1. hits'[k] = {}
        BY <1>5, <2>2, RecordEffect
      <3>2. \A g, h \in hits[k] : g.n <= h.n => g.ts <= h.ts + Lag
        BY DEF IInv, HitsStored, AppendsInOrder
      <3>3. c.ts - Window \in Int
        BY <1>1, ConfigAssumption
      <3>4. \A g \in hits[k] : g.ts < c.ts - Window + Lag
        BY <2>2, <3>2, <3>3, DroppedHitsAreOld DEF IInv, HitsStored, TypeOK
      <3>5. Recent(hits[k], now) = {}
        BY <1>1, <3>4, ConfigAssumption DEF Recent, IInv, TypeOK, Hit
      <3> QED
        BY <1>3, <3>1, <3>5 DEF visibleHits, Recent
    <2> QED
      BY <2>1, <2>2
  <1>6. visibleHits' = [visibleHits EXCEPT ![c.key] = @ \cup {[n |-> recorded, ts |-> now]}]
    BY <1>1, <1>4, <1>5 DEF visibleHits
  <1>7. visibleSkips' = visibleSkips
    BY <1>3 DEF visibleSkips, IsLive
  <1> QED
    BY <1>1, <1>3, <1>6, <1>7 DEF Promise!Fail

\* A report is a block of the promise.
LEMMA ReportRefines ==
    ASSUME Lag = 0, IInv, NEW t \in Threads, NEW st \in Stores, Report(t, st)
    PROVE  \E kind \in Promise!Kinds, k \in Keys : Promise!Block(kind, k)
  <1> DEFINE c   == call[t]
             exp == c.ts + Ttl(st, c.key)
  <1>1. c.key \in Keys /\ c.ts = now /\ now \in Nat /\ st \in Promise!Kinds
    BY PendingCall DEF Report, ReportOp, Stores, Ops, IInv, TypeOK, Promise!Kinds
  <1>2. /\ until' = [until EXCEPT ![st][c.key] = exp]
        /\ now' = now /\ hits' = hits /\ recorded' = recorded
    BY DEF Report
  <1>3. exp = now + Promise!SkipTtl(st, c.key)
    BY <1>1 DEF Ttl, Promise!SkipTtl
  <1>4. \A s \in Stores, k \in Keys :
            visibleSkips'[s][k] = IF s = st /\ k = c.key THEN Promise!Pending(exp, now)
                                                          ELSE visibleSkips[s][k]
    BY <1>1, <1>2 DEF visibleSkips, IsLive, Promise!Pending, IInv, TypeOK
  <1>5. visibleSkips' = [visibleSkips EXCEPT ![st][c.key] = Promise!Pending(exp, now)]
    <2> DEFINE end == Promise!Pending(exp, now)
               after == visibleSkips'
    <2>1. /\ visibleSkips = [s \in Stores |-> [k \in Keys |-> visibleSkips[s][k]]]
          /\ after = [s \in Stores |-> [k \in Keys |-> after[s][k]]]
      BY DEF visibleSkips
    <2>2. \A s \in Stores, k \in Keys :
              after[s][k] = IF s = st /\ k = c.key THEN end ELSE visibleSkips[s][k]
      BY <1>4
    <2> HIDE DEF end, after
    <2>3. \A s \in Stores : after[s] = IF s = st THEN [visibleSkips[s] EXCEPT ![c.key] = end]
                                                  ELSE visibleSkips[s]
      BY <1>1, <2>1, <2>2
    <2>4. after = [visibleSkips EXCEPT ![st][c.key] = end]
      BY <1>1, <2>1, <2>3
    <2> QED
      BY <2>4 DEF end, after
  <1>6. visibleHits' = visibleHits
    BY <1>2 DEF visibleHits, Recent
  <1> QED
    BY <1>1, <1>2, <1>3, <1>5, <1>6 DEF Promise!Block

\* A read, and the reaping it does, changes nothing visible.
LEMMA ReadRefines ==
    ASSUME IInv, NEW t \in Threads, NEW st \in Stores, Read(t, st)
    PROVE  UNCHANGED Promise!vars
  <1> DEFINE c == call[t]
  <1>1. c.key \in Keys /\ c.ts \in Nat /\ c.ts <= now
    BY PendingCall DEF Read, ReadOp, Stores, Ops, IInv
  <1>2. /\ until' = IF IsLive(st, c.key, c.ts) THEN until ELSE [until EXCEPT ![st][c.key] = 0]
        /\ now' = now /\ hits' = hits /\ recorded' = recorded
    BY DEF Read
  <1>3. \A s \in Stores, k \in Keys :
            until'[s][k] = until[s][k] \/ (until'[s][k] = 0 /\ until[s][k] <= now)
    BY <1>1, <1>2 DEF IsLive, IInv, TypeOK
  <1>4. \A s \in Stores, k \in Keys : visibleSkips'[s][k] = visibleSkips[s][k]
    BY <1>2, <1>3 DEF visibleSkips, IsLive, IInv, TypeOK
  <1>5. visibleSkips' = visibleSkips
    BY <1>4 DEF visibleSkips
  <1>6. visibleHits' = visibleHits
    BY <1>2 DEF visibleHits, Recent
  <1> QED
    BY <1>2, <1>5, <1>6 DEF Promise!vars

\* Time ages the visible hits and ends the visible skips.
LEMMA TickRefines == ASSUME IInv, Tick PROVE Promise!Pass
  <1>1. now \in Nat /\ now' = now + 1 /\ hits' = hits /\ until' = until /\ recorded' = recorded
    BY DEF Tick, IInv, TypeOK
  <1>2. \A k \in Keys : visibleHits'[k] = {f \in visibleHits[k] : f.ts >= now' - Window}
    BY <1>1, ConfigAssumption DEF visibleHits, Recent, IInv, TypeOK, Hit
  <1>3. visibleHits' = [k \in Keys |-> {f \in visibleHits[k] : f.ts >= now' - Window}]
    BY <1>2 DEF visibleHits
  <1>4. \A s \in Stores, k \in Keys :
            visibleSkips'[s][k] = Promise!Pending(visibleSkips[s][k], now')
    BY <1>1 DEF visibleSkips, IsLive, Promise!Pending, IInv, TypeOK
  <1>5. visibleSkips' =
            [kind \in Promise!Kinds |->
                [k \in Keys |-> Promise!Pending(visibleSkips[kind][k], now')]]
    BY <1>4 DEF visibleSkips, Promise!Kinds, Stores
  <1> QED
    BY <1>1, <1>3, <1>5 DEF Promise!Pass

\* Without overtaking, the eviction and the reaping of RateLimitCooldown are
\* invisible: it is the sliding window and the two timers of CooldownPromise.
THEOREM CooldownImplementsPromise ==
    ASSUME Lag = 0 PROVE Spec => ImplementsPromise
  <1>1. IInv /\ [Next]_vars => [Promise!Next]_(Promise!vars)
    <2> SUFFICES ASSUME IInv, [Next]_vars PROVE [Promise!Next]_(Promise!vars)
      OBVIOUS
    <2>1. ASSUME NEW t \in Threads, NEW op \in UsedOps, NEW k \in Keys, Begin(t, op, k)
          PROVE  UNCHANGED Promise!vars
      BY <2>1, BeginRefines
    <2>2. ASSUME NEW t \in Threads, Record(t) PROVE Promise!Next
      BY <2>2, RecordRefines DEF Promise!Next
    <2>3. ASSUME NEW t \in Threads, NEW st \in Stores, Report(t, st) PROVE Promise!Next
      BY <2>3, ReportRefines DEF Promise!Next
    <2>4. ASSUME NEW t \in Threads, NEW st \in Stores, Read(t, st)
          PROVE  UNCHANGED Promise!vars
      BY <2>4, ReadRefines
    <2>5. CASE Tick
      BY <2>5, TickRefines DEF Promise!Next
    <2>6. CASE UNCHANGED vars
      BY <2>6 DEF vars, Promise!vars, visibleHits, visibleSkips, Recent, IsLive
    <2> QED
      BY <2>1, <2>2, <2>3, <2>4, <2>5, <2>6 DEF Next
  <1> QED
    BY InitRefines, Invariance, <1>1, PTL DEF Spec, Promise!Spec, ImplementsPromise
=============================================================================
