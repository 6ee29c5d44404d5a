--------------------------- MODULE MCReplicaMerge ---------------------------
(* Small instances of ReplicaMerge for TLC. *)
EXTENDS ReplicaMerge
=============================================================================
