----------------------------- MODULE MCConsumer -----------------------------
(* Small instances of Consumer for TLC. *)
EXTENDS Consumer
=============================================================================
