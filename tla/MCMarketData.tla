---------------------------- MODULE MCMarketData ----------------------------
(* Instances of MarketData for TLC: the .cfg files give the bounds.        *)
EXTENDS MarketData

CONSTANT NumOrders

MCOrders == 1 .. NumOrders

MCDeltas == {-12, 12}

(* Every price within reach of the walk.                                   *)
MCPrices == UNION {(p - 61) .. (p + 61) : p \in InitialPrices}
=============================================================================
