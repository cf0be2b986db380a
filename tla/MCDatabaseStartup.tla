-------------------------- MODULE MCDatabaseStartup --------------------------
(* Two replicas in a rolling deployment: the newer has one migration more. *)
EXTENDS DatabaseStartup, TLC

CONSTANTS old, new

MCReplicas == {old, new}
MCKnown == old :> 1 @@ new :> 2
=============================================================================
