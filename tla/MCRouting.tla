------------------------------ MODULE MCRouting ------------------------------
(* Instances of Routing for TLC: two endpoints of one organisation and one *)
(* of another, and the polls that make each of them win, disappear, lose   *)
(* its region or stay unverified.                                          *)
EXTENDS Routing

CONSTANTS acme, bolt

MCOrgOf == [s \in 1..3 |-> IF s < 3 THEN acme ELSE bolt]

MCIn(place, s) ==
    [slug |-> s, fit |-> TRUE, price |-> <<100, 150, 120>>[s], tps |-> <<2, 4, 3>>[s],
     geo |-> [hq |-> place, dcs |-> {place}]]

\* Slug 1 twice as fast: it wins where 2 would.
MCQuick == [MCIn("US", 1) EXCEPT !.tps = 4]

MCPolls ==
    {{},
     {MCIn("US", 1), MCIn("US", 2), MCIn("US", 3)},
     {MCQuick, MCIn("US", 2), MCIn("US", 3)},
     {MCIn("US", 3)},
     {MCIn("SG", 1), MCIn("US", 2), MCIn("US", 3)},
     {MCIn("US", 1), MCIn("US", 2), MCIn("-", 3)},
     {MCIn("SG", 1), MCIn("SG", 2), MCIn("SG", 3)}}

MCLists == {{acme}, {bolt}}
MCFallback == <<2, 3>>
\* Pinned by a list of one and of two, known by an id alone, and not at all.
MCSends(slugs) == [slugs |-> slugs, sent |-> TRUE]
MCDeployments == {MCSends({3}), MCSends({1, 3}), [slugs |-> {3}, sent |-> FALSE], Anonymous}
MCBanned == {2}
=============================================================================
