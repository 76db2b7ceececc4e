SPECIFICATION OrderlySpec
CONSTANTS
  Client = {c1}
  Fd = {f1}
  Worker = {w1, w2}
  ID = {Qt}
  MaxUnread = 1
  MaxBuffer = 1
  None = None
PROPERTIES ClientServed
CHECK_DEADLOCK FALSE
