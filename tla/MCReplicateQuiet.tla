-------------------------- MODULE MCReplicateQuiet --------------------------
(* The reloads of MCReplicateReload, with the assumptions of ReplicateSafe  *)
(* evaluated.                                                               *)
EXTENDS MCReplicateReload, ReplicateSafe
============================================================================
