SPECIFICATION Spec
CONSTANTS
  Timer = {t1, t2}
  User = {u1}
  Delay = {1, 2}
  MaxWait = 2
  IntRange = 3
  Hour = 1
  Jumps = {2}
  Fixed = {t1}
  MaxLag = 1
  MaxHanded = 1
  MaxLeft = 3
INVARIANTS ArmedIffQueued
PROPERTIES LifeSpec
