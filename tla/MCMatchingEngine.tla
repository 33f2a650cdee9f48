-------------------------- MODULE MCMatchingEngine --------------------------
(* Instances of MatchingEngine for TLC: the .cfg files give the bounds.    *)
EXTENDS MatchingEngine

CONSTANT NumOrders

MCOrders == 1 .. NumOrders
=============================================================================
