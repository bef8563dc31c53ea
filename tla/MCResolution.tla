----------------------------- MODULE MCResolution -----------------------------
(* An instance of Resolution for TLC: nothing is injected. *)
EXTENDS Resolution

MCInjections == {[p \in Parts |-> FALSE]}

\* Every source is set by its attribute, or not set.
MCSettings ==
    {[src \in Sources |-> [attr |-> v[src], env |-> "none"]] :
        v \in [Sources -> {"none", "valid", "invalid"}]}
=============================================================================
