------------------------------- MODULE MCScorer -------------------------------
(* Instances of Scorer for TLC: two endpoints of one organisation and one  *)
(* of another.                                                             *)
EXTENDS Scorer

CONSTANTS acme, bolt

MCOrgOf == [s \in 1..3 |-> IF s < 3 THEN acme ELSE bolt]
MCBanned == {2}

MCRegions == {"SG", "US"}

\* Both dimensions allowed; one of them missing, or blank, or excluded.
MCGeographies ==
    {[hq |-> "US", dcs |-> {"US"}], [hq |-> "US", dcs |-> {}], [hq |-> "-", dcs |-> {"US"}],
     [hq |-> "US", dcs |-> {"US", "-"}], [hq |-> "US", dcs |-> {"US", "SG"}], [hq |-> "SG", dcs |-> {}]}

MCLists == {{bolt}}
=============================================================================
