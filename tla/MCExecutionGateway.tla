------------------------- MODULE MCExecutionGateway -------------------------
(* Instances of ExecutionGateway for TLC: the .cfg files give the bounds.  *)
(* Engines are alike, and so are slots.                                    *)
EXTENDS ExecutionGateway, TLC

MCSymmetry == Permutations(Engines) \cup Permutations(Slots)

(* Round robin, and a worker that does not exist.                          *)
MCWorkerIds == {-1, NUM_WORKERS}
=============================================================================
