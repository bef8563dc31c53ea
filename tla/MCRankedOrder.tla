---------------------------- MODULE MCRankedOrder ----------------------------
(* Instances of RankedOrder for TLC: small sets of prices and throughputs, *)
(* with a pair of prices inside one tier and an unusable zero.             *)
EXTENDS RankedOrder
=============================================================================
