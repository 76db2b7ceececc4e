--------------------------- MODULE MCTimerManager ---------------------------
EXTENDS TimerManager, TLC

Symmetry == Permutations(User)
=============================================================================
