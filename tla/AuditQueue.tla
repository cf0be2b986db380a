------------------------------ MODULE AuditQueue ------------------------------
(***************************************************************************)
(* What an asynchronous audit repository promises to the code that stores  *)
(* records in it, without goroutines, locks, channels or gauges: records   *)
(* are accepted while the repository is open, every accepted record meets  *)
(* exactly one outcome, outcomes come in the order of acceptance, records  *)
(* are given up only once the repository closes (and then all the later    *)
(* ones are), and the repository is closed only when no record is left.    *)
(***************************************************************************)
EXTENDS Naturals, Sequences, SequencesExt

CONSTANTS
    Records,
    WriteResults   \* what a write can end with

VARIABLES
    accepted,  \* the records taken, in the order of acceptance
    outcomes,  \* outcomes[i] is what became of accepted[i]
    phase      \* "open", "closing" or "closed"

vars == <<accepted, outcomes, phase>>

Outcomes == WriteResults \cup {"dropped_shutdown"}

Init ==
    /\ accepted = <<>>
    /\ outcomes = <<>>
    /\ phase = "open"

Accept(r) ==
    /\ phase = "open"
    /\ r \notin ToSet(accepted)
    /\ accepted' = Append(accepted, r)
    /\ UNCHANGED <<outcomes, phase>>

GivenUp == "dropped_shutdown" \in ToSet(outcomes)

Resolve(o) ==
    /\ phase # "closed"
    /\ Len(outcomes) < Len(accepted)
    /\ o = "dropped_shutdown" => phase = "closing"
    /\ GivenUp => o = "dropped_shutdown"
    /\ outcomes' = Append(outcomes, o)
    /\ UNCHANGED <<accepted, phase>>

BeginClose ==
    /\ phase = "open"
    /\ phase' = "closing"
    /\ UNCHANGED <<accepted, outcomes>>

EndClose ==
    /\ phase = "closing"
    /\ Len(outcomes) = Len(accepted)
    /\ phase' = "closed"
    /\ UNCHANGED <<accepted, outcomes>>

Next ==
    \/ \E r \in Records : Accept(r)
    \/ \E o \in Outcomes : Resolve(o)
    \/ BeginClose
    \/ EndClose

Spec == Init /\ [][Next]_vars
=============================================================================
