----------------------------- MODULE MCRateLimit -----------------------------
(* Small instances of RateLimit for TLC. *)
EXTENDS RateLimit, TLC

CONSTANTS r1, r2, r3, r4, r5, p1, p2

\* Every request is served by one replica, whose clock is right.
OneReplica == [r \in Requests |-> p1]
NoSkew == [p \in Replicas |-> 0]
RequestSymmetry == Permutations(Requests \ Exempt)

\* Requests alternate between two replicas, one ahead of the other.
Alternating == [r \in Requests |-> IF r \in {r1, r3, r5} THEN p1 ELSE p2]
OneAhead == [p \in Replicas |-> IF p = p1 THEN 2 ELSE 0]
=============================================================================
