----------------------------- MODULE MCHttpPool -----------------------------
EXTENDS HttpPool, TLC

CONSTANTS c1, c2, r1, r2, r3

\* One caller makes two calls, the other one: every pair of them on one
\* connection, at the same time, or after the connection was given up.
MCAsks == c1 :> <<r1, r2>> @@ c2 :> <<r3>>
=============================================================================
