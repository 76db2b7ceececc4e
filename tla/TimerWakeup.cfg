SPECIFICATION FairSpec
CONSTANTS
  Timer = {t1, t2}
  User = {u1, u2}
  Delay = {1, 4}
  MaxWait = 2
  IntRange = 3
  Hour = 1
  Jumps = {}
  Fixed = {t1}
  MaxLag = 0
  MaxHanded = 1
  MaxLeft = 4
INVARIANTS SleepsNoLonger
PROPERTIES EveryTimerFires
