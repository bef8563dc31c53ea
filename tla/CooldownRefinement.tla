------------------------- MODULE CooldownRefinement -------------------------
(***************************************************************************)
(* Cooldown implements CooldownPromise when clock reads and locked bodies  *)
(* are not separated by a tick (Lag = 0).  Aged hits that are still stored *)
(* and expired entries that are not yet reaped are invisible.              *)
(***************************************************************************)
EXTENDS Cooldown

visibleHits == [k \in Keys |-> Recent(hits[k], now)]

visibleSkips ==
    [st \in Stores |-> [k \in Keys |-> IF IsLive(st, k, now) THEN until[st][k] ELSE 0]]

Promise == INSTANCE CooldownPromise
    WITH failed <- recorded, failures <- visibleHits, blocked <- visibleSkips

\* Every step of the dictionaries, lists, eviction and reaping of
\* RateLimitCooldown is a step of the promise or changes nothing it shows.
ImplementsPromise == Promise!Spec
=============================================================================
