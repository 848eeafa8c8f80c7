----------------------------- MODULE MCClaims ------------------------------
EXTENDS SessionClaims, TLC

\* The connections and the requests are interchangeable.
Symmetric == Permutations(Conns) \cup Permutations(Requests)
=============================================================================
