----------------------------- MODULE MCTileGroup -----------------------------
(* Instances of TileGroup for TLC.                                         *)
EXTENDS TileGroup, TLC

Symmetry == Permutations(Txns \ {Loader})
=============================================================================
