------------------------------- MODULE Access -------------------------------
(***************************************************************************)
(* What is decided about a request on its way: whether its token may still *)
(* be used (TokenState), what its role lets it do (Roles), whether the     *)
(* organization has used up its rate (RateLimit) or its address its window *)
(* (SlidingWindow), which rows it reaches (Tenancy), and whether somebody  *)
(* may be contacted (Consent).                                             *)
(*                                                                         *)
(* The six share no state: the token, the role and the company that one    *)
(* hands to the next are inputs that the next one's module takes in every  *)
(* combination. A behaviour therefore walks one of them and leaves the     *)
(* others as they began.                                                   *)
(***************************************************************************)
EXTENDS TokenState, Roles, RateLimit, SlidingWindow, Tenancy, Consent

VARIABLE part    \* the one that is walked

accessVars == <<tokenVars, roleVars, rateVars, windowVars, tenancyVars, committed, part>>

AccessInit ==
    /\ part \in {"token", "roles", "rate", "window", "tenancy", "consent"}
    /\ TokenInit /\ RolesInit /\ RateInit /\ WindowInit /\ TenancyInit /\ ConsentInit
    /\ part # "window" => \A s \in Servers : ahead[s] = 0

AccessNext ==
    /\ UNCHANGED part
    /\ \/ /\ part = "token" /\ TokenNext
          /\ UNCHANGED <<roleVars, rateVars, windowVars, tenancyVars, committed>>
       \/ /\ part = "roles" /\ RolesNext
          /\ UNCHANGED <<tokenVars, rateVars, windowVars, tenancyVars, committed>>
       \/ /\ part = "rate" /\ RateNext
          /\ UNCHANGED <<tokenVars, roleVars, windowVars, tenancyVars, committed>>
       \/ /\ part = "window" /\ WindowNext
          /\ UNCHANGED <<tokenVars, roleVars, rateVars, tenancyVars, committed>>
       \/ /\ part = "tenancy" /\ TenancyNext
          /\ UNCHANGED <<tokenVars, roleVars, rateVars, windowVars, committed>>
       \/ /\ part = "consent" /\ ConsentNext
          /\ UNCHANGED <<tokenVars, roleVars, rateVars, windowVars, tenancyVars>>

AccessSpec == AccessInit /\ [][AccessNext]_accessVars
=============================================================================
