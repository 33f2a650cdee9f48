--------------------------- MODULE MCBookSnapshot ---------------------------
(* Instances of BookSnapshot for TLC.  The readers are interchangeable.    *)
EXTENDS BookSnapshot, TLC

ReaderSymmetry == Permutations(Readers)
=============================================================================
