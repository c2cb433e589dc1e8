---------------------------- MODULE MCExecutors ----------------------------
EXTENDS Executors

MCKeys == 1 .. 2
MCSortedKeys == 1 .. 3
MCExcluded == {}
=============================================================================
