------------------------------- MODULE Readiness -------------------------------
(***************************************************************************)
(* The readiness probe of the infra API (infraapi.Service.GetReadyz): the  *)
(* checks of the dependencies the service needs run one after the other    *)
(* under one timeout, and the first that fails is the answer, while the    *)
(* dependencies come and go.  Process has the steps of the dependencies.   *)
(***************************************************************************)
EXTENDS Naturals, FiniteSets

CONSTANT Probes   \* calls of GetReadyz

VARIABLES
    required,   \* the dependencies DefaultReadinessCheckers was given
    reachable,  \* the dependencies that answer a ping
    stage,      \* stage[p]: "idle", the check p is at, or its answer
    seen        \* history: seen[p], required dependencies reachable at some time since p began

vars == <<required, reachable, stage, seen>>

Dependencies == {"database", "rateLimiter"}
Answers == {"ready", "not_ready"}

Running(p) == stage[p] \in Dependencies

TypeOK ==
    /\ required \subseteq Dependencies /\ reachable \subseteq Dependencies
    /\ stage \in [Probes -> Dependencies \cup Answers \cup {"idle"}]
    /\ seen \in [Probes -> SUBSET Dependencies]

ProbeInit == stage = [p \in Probes |-> "idle"] /\ seen = [p \in Probes |-> {}]

-----------------------------------------------------------------------------

Goto(p, next) == stage' = [stage EXCEPT ![p] = next]

Begin(p) == stage[p] = "idle" /\ Goto(p, "database")

\* DefaultReadinessCheckers puts the database first.
AfterCheck(p) ==
    IF stage[p] = "database" /\ "rateLimiter" \in required THEN "rateLimiter" ELSE "ready"

\* Mutant: the answer is that of the last check.
CheckLastOnly(p) ==
    /\ Running(p)
    /\ Goto(p, IF stage[p] \in reachable \/ AfterCheck(p) # "ready" THEN AfterCheck(p) ELSE "not_ready")

\* A check that fails is the answer.
Check(p) ==
    /\ Running(p)
    /\ Goto(p, IF stage[p] \in reachable THEN AfterCheck(p) ELSE "not_ready")

\* ReadyzTimeout passes: the check that is running fails.
TimeOut(p) == Running(p) /\ Goto(p, "not_ready")

\* The response is sent; p may stand for another probe.
End(p) == stage[p] \in Answers /\ Goto(p, "idle")

\* What the history notes after each step of a running probe.
Note == seen' = [p \in Probes |->
    IF Running(p)' THEN seen[p] \cup (required' \cap reachable') ELSE {}]

-----------------------------------------------------------------------------
(* Properties. *)

\* A service that reports ready could reach all it needs, each at some time
\* since the probe began, though not necessarily all at once.
ReadyIsEarned ==
    [][\A p \in Probes : stage[p] # "ready" /\ stage'[p] = "ready" => required \subseteq seen[p]]_vars
=============================================================================
