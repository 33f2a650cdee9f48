-------------------------- MODULE MCOrderLifecycle --------------------------
(* Instances of OrderLifecycle for TLC: the .cfg files give the bounds.    *)
EXTENDS OrderLifecycle

CONSTANT NumOrders

MCOrders == 1 .. NumOrders
=============================================================================
