------------------------------ MODULE MCOutbox ------------------------------
(* Small instances of Outbox for TLC. *)
EXTENDS Outbox, TLC

CONSTANTS p1, p2

TwoProcs == {p1, p2}

\* The processes are interchangeable. Only runs without liveness use this.
ProcSymmetry == Permutations(Procs)
=============================================================================
