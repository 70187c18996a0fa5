---------------------------- MODULE MCReplicaSync ----------------------------
(* Small instances of ReplicaSync for TLC. *)
EXTENDS ReplicaSync, TLC

CONSTANTS name, phone

\* The handlers treat all columns alike.
FieldSymmetry == Permutations(Fields)
=============================================================================
