-------------------------- MODULE MCConnectionPool --------------------------
EXTENDS ConnectionPool, TLC

Symmetry == Permutations(Client) \cup Permutations(Conn)
=============================================================================
