---------------------------- MODULE MCOrderBook -----------------------------
(* Instances of OrderBook for TLC: the .cfg files give the bounds.         *)
EXTENDS OrderBook

CONSTANT NumOrders

MCOrders == 1 .. NumOrders

(* A quote of the simulator that no resting order backs.                   *)
MCQuotes == {<<1, 3>>}
=============================================================================
