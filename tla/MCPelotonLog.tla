---------------------------- MODULE MCPelotonLog ----------------------------
EXTENDS PelotonLog, TLC

Symmetry == Permutations(Txns)
=============================================================================
