SPECIFICATION Spec
CONSTANTS
  Txns = {t1, t2, t3, t4}
  Base = base
  NoTxn = null
SYMMETRY Symmetry
INVARIANTS
  PublishedInstalled
  NotStranded
  WalkAlive
  NoLeak
  RefCountExact
