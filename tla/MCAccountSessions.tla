------------------------- MODULE MCAccountSessions -------------------------
EXTENDS AccountSessions, TLC

CONSTANTS r1, r2, t1, t2

\* Requests are interchangeable.
RequestSymmetry == Permutations(Request)

\* Behaviours are followed up to the first step after which no session is left
\* of which RevokedIsRefused says anything.
NotAllExposed == exposed # Token
=============================================================================
