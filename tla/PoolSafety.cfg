SPECIFICATION BurstSpec
CONSTANTS
  Slot = {s1, s2, s3, s4}
  Min = 2
  Task = {t1, t2}
  Forever = {}
  NoTask = NoTask
SYMMETRY Symmetry
INVARIANTS CountersTrue PoolBounds TaskOnce
PROPERTIES ExecutorSpec
CHECK_DEADLOCK FALSE
