----------------------------- MODULE TokenBucket -----------------------------
(***************************************************************************)
(* What the rate limiter promises for one bucket (one server, route and    *)
(* client address): credit grows by Refill units per tick of real time up  *)
(* to Capacity, a request that is allowed pays Cost units, and a request   *)
(* is refused only when the credit does not cover the cost.  No storage,   *)
(* no expiry, no clients' clocks.                                          *)
(***************************************************************************)
EXTENDS Integers, FiniteSetsExt

CONSTANTS
    Requests,  \* the requests that share the bucket
    Refill,    \* units of credit per tick
    Cost,      \* units of credit one request pays
    Capacity   \* units of credit of a full bucket

VARIABLES
    credit,    \* what is left to spend
    decision   \* decision[r]: "none", "allowed" or "refused"

vars == <<credit, decision>>

Init ==
    /\ credit = Capacity
    /\ decision = [r \in Requests |-> "none"]

Grow ==
    /\ credit' = Min({Capacity, credit + Refill})
    /\ UNCHANGED decision

Allow(r) ==
    /\ decision[r] = "none"
    /\ credit >= Cost
    /\ credit' = credit - Cost
    /\ decision' = [decision EXCEPT ![r] = "allowed"]

Refuse(r) ==
    /\ decision[r] = "none"
    /\ credit < Cost
    /\ decision' = [decision EXCEPT ![r] = "refused"]
    /\ UNCHANGED credit

Next == Grow \/ \E r \in Requests : Allow(r) \/ Refuse(r)

Spec == Init /\ [][Next]_vars
=============================================================================
