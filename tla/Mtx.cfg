SPECIFICATION FairSpec
CONSTANTS
  Threads = {t1, t2, t3}
  total_blocks = 3
INVARIANT
  OneOwner
PROPERTY
  SomeCallReturns
