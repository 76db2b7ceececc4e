SPECIFICATION Spec
CONSTANTS
  Client = {c1, c2}
  Fd = {f1, f2}
  Worker = {w1, w2}
  ID = {Qt}
  MaxUnread = 1
  MaxBuffer = 1
  None = None
SYMMETRY Symmetry
INVARIANTS OneClientPerName
CHECK_DEADLOCK FALSE
