SPECIFICATION OpenSpec
CONSTANTS
  Slot = {s1, s2}
  Min = 1
  Task = {t1, t2, t3}
  Forever = {t2}
  NoTask = NoTask
PROPERTIES BusyWorkerDrains DtorReturns StarvedPoolGrows
CHECK_DEADLOCK FALSE
