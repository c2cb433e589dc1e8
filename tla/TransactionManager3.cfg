SPECIFICATION FairFreshSpec
CONSTANTS
  Txns = {t1, t2, t3}
  Base = base
  NoTxn = null
PROPERTIES
  ImplementsCommitOrder
  EventuallyPublished
