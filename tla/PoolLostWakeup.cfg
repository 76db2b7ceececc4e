SPECIFICATION FairSpec
CONSTANTS
  Slot = {s1}
  Min = 1
  Task = {t1, t2}
  Forever = {}
  NoTask = NoTask
PROPERTIES EveryTaskTaken
CHECK_DEADLOCK FALSE
