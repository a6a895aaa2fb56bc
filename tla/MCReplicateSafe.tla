-------------------------- MODULE MCReplicateSafe --------------------------
(* The same instances, with the assumptions of ReplicateSafe evaluated.     *)
EXTENDS MCReplicate, ReplicateSafe
============================================================================
