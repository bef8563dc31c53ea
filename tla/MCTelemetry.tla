---------------------------- MODULE MCTelemetry ----------------------------
(* An instance of Telemetry for TLC; no symmetry, which liveness forbids. *)
EXTENDS Telemetry

CONSTANTS a, b

\* The file has nothing, or an entry whose candidate b has to win once more, of
\* a poll that succeeded or that failed afterwards.
MCStored ==
    {[winner |-> a, candidate |-> b, streak |-> 1, safe |-> {a, b}, fetched |-> 0, stale |-> s]
       : s \in BOOLEAN}
=============================================================================
