-------------------------- MODULE MCRegistration --------------------------
EXTENDS RegistrationClaims, TLC

\* Accounts, keys, tokens and callbacks are interchangeable.
Symmetric ==
    Permutations(Users) \cup Permutations(Pubkeys)
        \cup Permutations(Tokens) \cup Permutations(Callbacks)
=============================================================================
