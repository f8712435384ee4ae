SPECIFICATION FairSpec
CONSTANTS
  Getters = {t1, t2, t3}
  MaxPut = 3
PROPERTIES
  FifoSpec
  GetReturns
