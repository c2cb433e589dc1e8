--------------------------- MODULE MCWriteAheadLog ---------------------------
(* Instances of WriteAheadLog for TLC.                                     *)
EXTENDS WriteAheadLog, TLC

Symmetry == Permutations(Backends)
=============================================================================
