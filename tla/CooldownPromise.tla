--------------------------- MODULE CooldownPromise ---------------------------
(***************************************************************************)
(* What the cooldown memory promises the selection paths, without its      *)
(* dictionaries, lists, eviction and reaping: the failures inside the      *)
(* sliding window of every key, and the instants at which reported skips   *)
(* end.  Time alone removes a failure or ends a skip.                      *)
(***************************************************************************)
EXTENDS Integers, FiniteSets

CONSTANTS Keys, Window, Threshold, InputCapTtl, BrokenTtl

VARIABLES
    now,      \* the monotonic clock
    failed,   \* number of 429s so far
    failures, \* the 429s of each key inside the window
    blocked   \* per kind of skip and key: when it ends (0: not skipped)

vars == <<now, failed, failures, blocked>>

Kinds == {"input_cap", "broken"}

SkipTtl(kind, k) == IF kind = "input_cap" THEN InputCapTtl ELSE BrokenTtl[k]

\* An instant that has come no longer matters.
Pending(end, t) == IF end > t THEN end ELSE 0

Skipped(k) ==
    \/ Cardinality(failures[k]) >= Threshold
    \/ \E kind \in Kinds : blocked[kind][k] # 0

Init ==
    /\ now = 0
    /\ failed = 0
    /\ failures = [k \in Keys |-> {}]
    /\ blocked = [kind \in Kinds |-> [k \in Keys |-> 0]]

Fail(k) ==
    /\ failed' = failed + 1
    /\ failures' = [failures EXCEPT ![k] = @ \cup {[n |-> failed, ts |-> now]}]
    /\ UNCHANGED <<now, blocked>>

Block(kind, k) ==
    /\ blocked' = [blocked EXCEPT ![kind][k] = Pending(now + SkipTtl(kind, k), now)]
    /\ UNCHANGED <<now, failed, failures>>

Pass ==
    /\ now' = now + 1
    /\ failures' = [k \in Keys |-> {f \in failures[k] : f.ts >= now' - Window}]
    /\ blocked' = [kind \in Kinds |-> [k \in Keys |-> Pending(blocked[kind][k], now')]]
    /\ UNCHANGED failed

Next ==
    \/ \E k \in Keys : Fail(k)
    \/ \E kind \in Kinds, k \in Keys : Block(kind, k)
    \/ Pass

Spec == Init /\ [][Next]_vars
=============================================================================
