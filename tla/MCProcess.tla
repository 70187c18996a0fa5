----------------------------- MODULE MCProcess -----------------------------
(* Small instances of Process for TLC. *)
EXTENDS Process

CONSTANTS r1, r2, s1, s2
=============================================================================
