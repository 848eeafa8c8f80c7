------------------------------ MODULE Registry ------------------------------
(***************************************************************************)
(* What registration promises (PROTOCOL.md 3.1, 4.2), as far as the code   *)
(* keeps it: a public key is bound once, to one account, and only while    *)
(* the account has fewer than AgentLimit agents that were in service ever  *)
(* since they were bound.  A binding can be withdrawn, by the agent or by  *)
(* the operator, and the account forgotten; the key is not free again (no  *)
(* code purges a tombstone, although PROTOCOL.md 11 says so of the 91st    *)
(* day).  A withdrawn key may come back into service, for the account it   *)
(* had.                                                                    *)
(***************************************************************************)
EXTENDS Integers, FiniteSets

CONSTANTS Users, Pubkeys, None, AgentLimit

VARIABLES
    owner,      \* the account a key belongs to
    standing    \* whether a key is free, bound, withdrawn or restored

vars == <<owner, standing>>

Agents(u) == {p \in Pubkeys : standing[p] = "bound" /\ owner[p] = u}

Init ==
    /\ owner = [p \in Pubkeys |-> None]
    /\ standing = [p \in Pubkeys |-> "free"]

Bind(p, u) ==
    /\ standing[p] = "free"
    /\ Cardinality(Agents(u)) < AgentLimit
    /\ owner' = [owner EXCEPT ![p] = u]
    /\ standing' = [standing EXCEPT ![p] = "bound"]

Withdraw(p) ==
    /\ standing[p] # "free"
    /\ standing' = [standing EXCEPT ![p] = "withdrawn"]
    /\ UNCHANGED owner \/ owner' = [owner EXCEPT ![p] = None]

Restore(p) ==
    /\ standing[p] = "withdrawn"
    /\ standing' = [standing EXCEPT ![p] = "restored"]
    /\ UNCHANGED owner

Next ==
    \E p \in Pubkeys : Withdraw(p) \/ Restore(p) \/ \E u \in Users : Bind(p, u)

Spec == Init /\ [][Next]_vars
=============================================================================
