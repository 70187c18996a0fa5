----------------------------- MODULE MCSessions -----------------------------
(* The sessions of a service that routes its reads, for TLC. *)
EXTENDS Sessions

RoutingSpec == SessionsInit /\ maker = "routing" /\ [][SessionsNext]_sessionVars
=============================================================================
