SPECIFICATION BoundedSpec
CONSTANTS
  Client = {c1, c2}
  Fd = {f1}
  Worker = {w1, w2, w3}
  ID = {Qt}
  MaxUnread = 1
  MaxBuffer = 1
  None = None
SYMMETRY Symmetry
INVARIANTS OneHolder CountIsTrue
PROPERTY OneShotSpec
CHECK_DEADLOCK FALSE
