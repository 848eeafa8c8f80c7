----------------------------- MODULE MCIntents -----------------------------
EXTENDS IntentClaims, TLC

\* Intents, calls and other agents are interchangeable.
Symmetric ==
    Permutations(Intents) \cup Permutations(Calls) \cup Permutations(Blockers)
=============================================================================
