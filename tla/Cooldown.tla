------------------------------ MODULE Cooldown ------------------------------
(***************************************************************************)
(* The provider memory of one worker process: class RateLimitCooldown of   *)
(* cooldown.py.  Three states are kept per key (a model and a provider     *)
(* slug): the 429 hits of a sliding window, the input caps and the broken  *)
(* marks, the last two stored as the instant at which they expire.         *)
(*                                                                         *)
(* Every method reads the clock first and takes the lock afterwards, so a  *)
(* call is two steps (Begin, then the locked body) and the bodies of two   *)
(* threads can run in the opposite order of their clock reads.  Lag bounds *)
(* how long a thread may be descheduled between the two.                   *)
(***************************************************************************)
EXTENDS Integers, FiniteSets

CONSTANTS
    Keys,        \* "model\x00slug" strings
    Threads,     \* callers of the shared object
    UsedOps,     \* the methods the callers of this instance use
    Window,      \* window_s
    Threshold,   \* threshold
    InputCapTtl, \* input_cap_ttl_s
    BrokenTtl,   \* ttl_s of record_broken: the rule that governs a key sets it
    Lag,         \* longest delay between a clock read and the locked body
    MaxTime,     \* bound on the clock
    MaxHits      \* bound on the number of 429s recorded

Ops == {"record", "record_input_cap", "record_broken", "is_input_capped", "is_broken"}

ASSUME ConfigAssumption ==
    /\ UsedOps \subseteq Ops
    /\ Window \in Nat
    /\ Threshold \in Nat \ {0}
    /\ InputCapTtl \in Nat
    /\ BrokenTtl \in [Keys -> Nat]
    /\ Lag \in Nat
    /\ MaxTime \in Nat
    /\ MaxHits \in Nat

Stores == {"input_cap", "broken"}

Ttl(st, k) == IF st = "input_cap" THEN InputCapTtl ELSE BrokenTtl[k]

ReportOp == [input_cap |-> "record_input_cap", broken |-> "record_broken"]
ReadOp   == [input_cap |-> "is_input_capped",  broken |-> "is_broken"]

\* A 429: its clock reading and its position in the order of the appends.
Hit  == [n : Nat, ts : Nat]
Call == [op : Ops, key : Keys, ts : Nat]
Idle == [op |-> "none"]

VARIABLES
    now,      \* the monotonic clock
    hits,     \* _hits: the stored hits of each key ({} where the dict has no entry)
    until,    \* _input_capped and _broken: expiry instants (0 where there is no entry)
    call,     \* each thread's call that has read the clock and waits for the lock
    recorded, \* number of hits appended so far
    log,      \* history: every hit ever appended
    promised  \* history: the latest expiry instant any report asked for

vars == <<now, hits, until, call, recorded, log, promised>>

-----------------------------------------------------------------------------
(* What the reads answer at a clock reading ts.                            *)

\* Mutant of Recent: the cutoff itself is outside the window.
RecentAfterCutoff(hs, ts) == {h \in hs : h.ts > ts - Window}

Recent(hs, ts) == {h \in hs : h.ts >= ts - Window}

\* Mutant of IsHot: every stored hit counts.
IsHotEver(k, ts) == Cardinality(hits[k]) >= Threshold

IsHot(k, ts) == Cardinality(Recent(hits[k], ts)) >= Threshold

\* Mutant of IsLive: the store is taken to hold the instant of the report.
IsLiveSinceReport(st, k, ts) == until[st][k] # 0 /\ until[st][k] + Ttl(st, k) > ts

IsLive(st, k, ts) == until[st][k] > ts

IsSkipped(k, ts) == IsHot(k, ts) \/ \E st \in Stores : IsLive(st, k, ts)

-----------------------------------------------------------------------------

Init ==
    /\ now = 0
    /\ hits = [k \in Keys |-> {}]
    /\ until = [st \in Stores |-> [k \in Keys |-> 0]]
    /\ call = [t \in Threads |-> Idle]
    /\ recorded = 0
    /\ log = [k \in Keys |-> {}]
    /\ promised = [st \in Stores |-> [k \in Keys |-> 0]]

\* ts = self._clock(), before the lock is taken.
Begin(t, op, k) ==
    /\ call[t] = Idle
    /\ call' = [call EXCEPT ![t] = [op |-> op, key |-> k, ts |-> now]]
    /\ UNCHANGED <<now, hits, until, recorded, log, promised>>

Return(t) == call' = [call EXCEPT ![t] = Idle]

\* Mutant of LastHitSince: the first element of the list, v[0].
FirstHitSince(v, cutoff) ==
    \E h \in v : h.ts >= cutoff /\ \A g \in v : g.n >= h.n

\* The last element of a key's list: v[-1].
LastHitSince(v, cutoff) ==
    \E h \in v : h.ts >= cutoff /\ \A g \in v : g.n <= h.n

\* Mutant of Evict: no key is ever forgotten.
EvictNothing(hs, cutoff) == hs

\* Only keys whose last hit is inside the window keep their entry.
Evict(hs, cutoff) ==
    [k \in Keys |-> IF LastHitSince(hs[k], cutoff) THEN hs[k] ELSE {}]

\* The locked body of record.
Record(t) ==
    LET c   == call[t]
        new == [n |-> recorded, ts |-> c.ts]
        kept == Recent(hits[c.key], c.ts) \cup {new}
    IN  /\ c.op = "record"
        /\ recorded < MaxHits
        /\ hits' = Evict([hits EXCEPT ![c.key] = kept], c.ts - Window)
        /\ log' = [log EXCEPT ![c.key] = @ \cup {new}]
        /\ recorded' = recorded + 1
        /\ Return(t)
        /\ UNCHANGED <<now, until, promised>>

\* Mutant of Report: an existing entry is left alone.
ReportOnce(t, st) ==
    LET c   == call[t]
        exp == c.ts + Ttl(st, c.key)
    IN  /\ c.op = ReportOp[st]
        /\ until' = [until EXCEPT ![st][c.key] = IF @ = 0 THEN exp ELSE @]
        /\ promised' = [promised EXCEPT ![st][c.key] = IF exp > @ THEN exp ELSE @]
        /\ Return(t)
        /\ UNCHANGED <<now, hits, recorded, log>>

\* The locked body of record_input_cap and record_broken.
Report(t, st) ==
    LET c   == call[t]
        exp == c.ts + Ttl(st, c.key)
    IN  /\ c.op = ReportOp[st]
        /\ until' = [until EXCEPT ![st][c.key] = exp]
        /\ promised' = [promised EXCEPT ![st][c.key] = IF exp > @ THEN exp ELSE @]
        /\ Return(t)
        /\ UNCHANGED <<now, hits, recorded, log>>

\* The locked body of is_input_capped and is_broken: an expired entry is reaped.
Read(t, st) ==
    LET c == call[t]
    IN  /\ c.op = ReadOp[st]
        /\ until' = IF IsLive(st, c.key, c.ts)
                      THEN until
                      ELSE [until EXCEPT ![st][c.key] = 0]
        /\ Return(t)
        /\ UNCHANGED <<now, hits, recorded, log, promised>>

\* Time passes; no call waits for the lock longer than Lag.
Tick ==
    /\ now < MaxTime
    /\ \A t \in Threads : call[t] # Idle => now - call[t].ts < Lag
    /\ now' = now + 1
    /\ UNCHANGED <<hits, until, call, recorded, log, promised>>

Next ==
    \/ \E t \in Threads, op \in UsedOps, k \in Keys : Begin(t, op, k)
    \/ \E t \in Threads : Record(t)
    \/ \E t \in Threads, st \in Stores : Report(t, st)
    \/ \E t \in Threads, st \in Stores : Read(t, st)
    \/ Tick

Spec == Init /\ [][Next]_vars

-----------------------------------------------------------------------------
(* Properties.                                                             *)

\* The state has the shape the dictionaries of RateLimitCooldown have.
TypeOK ==
    /\ now \in Nat
    /\ hits \in [Keys -> SUBSET Hit]
    /\ until \in [Stores -> [Keys -> Nat]]
    /\ call \in [Threads -> Call \cup {Idle}]
    /\ recorded \in Nat
    /\ log \in [Keys -> SUBSET Hit]
    /\ promised \in [Stores -> [Keys -> Nat]]

\* A provider is hot only while at least Threshold 429s really were recorded
\* for it inside the window: pruning and eviction never invent or revive one.
HotOnlyWhenDue ==
    \A k \in Keys : IsHot(k, now) => Cardinality(Recent(log[k], now)) >= Threshold

\* A provider with Threshold 429s inside the window is hot, whatever other
\* keys' records evicted meanwhile; calls that overtake each other between the
\* clock read and the lock can hide only hits in the last Lag of the window.
HotWhenDue ==
    \A k \in Keys :
        Cardinality(Recent(log[k], now + Lag)) >= Threshold => IsHot(k, now)

\* A reported provider stays skipped until the expiry its reports asked for
\* (less the time by which reports can overtake each other): a read of one
\* thread never reaps what another thread has just recorded again.
SkipHonoured ==
    \A st \in Stores, k \in Keys :
        now + Lag < promised[st][k] => IsLive(st, k, now)

\* A skip always ends: no read, retry or overwrite prolongs it beyond the
\* expiry some report asked for.
SkipBounded ==
    \A st \in Stores, k \in Keys :
        IsLive(st, k, now) => now < promised[st][k]

\* A provider that stopped failing is forgotten when any provider fails: every
\* stored list holds a hit no older than a window (and Lag) before the newest
\* record of any key, so the memory does not grow with all keys ever seen.
StoredKeysAreRecent ==
    \A k \in Keys : hits[k] # {} =>
        \A j \in Keys : \A g \in log[j] :
            \E h \in hits[k] : h.ts >= g.ts - Window - Lag

-----------------------------------------------------------------------------
(* The inductive invariant the proofs rest on.                             *)

\* Calls in flight are at most Lag old.
CallsAreRecent ==
    \A t \in Threads : call[t] # Idle => /\ call[t].ts <= now
                                         /\ now <= call[t].ts + Lag

\* The order of the appends follows the clock, up to Lag.
AppendsInOrder ==
    \A k \in Keys : \A h \in log[k] :
        /\ h.n < recorded
        /\ h.ts <= now
        /\ \A g \in log[k] : g.n <= h.n => g.ts <= h.ts + Lag

\* Stored hits are logged ones, a stored list has a last element, and a hit
\* still inside the window (less Lag) is stored.
HitsStored ==
    \A k \in Keys :
        /\ IsFiniteSet(log[k])
        /\ hits[k] \subseteq log[k]
        /\ hits[k] # {} => \E h \in hits[k] : \A g \in hits[k] : g.n <= h.n
        /\ Recent(log[k], now + Lag) \subseteq hits[k]

\* The stored expiry trails the promised one by at most Lag while it matters.
SkipsStored ==
    \A st \in Stores, k \in Keys :
        /\ until[st][k] <= promised[st][k]
        /\ promised[st][k] <= now + Ttl(st, k)
        /\ now + Lag < promised[st][k] => promised[st][k] <= until[st][k] + Lag

\* Ties the expiries, the stored lists and the calls between the clock read
\* and the lock together; every step of every method preserves it.
IInv ==
    /\ TypeOK
    /\ CallsAreRecent
    /\ AppendsInOrder
    /\ HitsStored
    /\ SkipsStored
    /\ StoredKeysAreRecent
=============================================================================
