SPECIFICATION FairSpec
CONSTANTS
  Client = {c1, c2}
  Conn = {k1, k2, k3, k4}
  MinSize = 1
  MaxIdleTime = 2
  Pool = Pool
  Closed = Closed
INVARIANTS OneOwner ProducerAwake TotalBound OldestFirst
PROPERTIES OwnershipSpec RecycleLeavesNoOldSurplus ClientServed
