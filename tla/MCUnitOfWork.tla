---------------------------- MODULE MCUnitOfWork ----------------------------
(* Small instances of UnitOfWork for TLC. *)
EXTENDS UnitOfWork

CONSTANTS s1, s2, c1, c2
=============================================================================
