--------------------------- MODULE MCConnections ---------------------------
EXTENDS ConnectionClaims, TLC

\* Agents, requests and calls are interchangeable.
Symmetric ==
    Permutations(Agents) \cup Permutations(Requests) \cup Permutations(Calls)
=============================================================================
