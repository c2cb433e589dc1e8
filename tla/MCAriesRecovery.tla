--------------------------- MODULE MCAriesRecovery ---------------------------
EXTENDS AriesRecovery, TLC

\* Transactions are interchangeable.
Symmetry == Permutations(Txns)
=============================================================================
