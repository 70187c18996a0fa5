------------------------------ MODULE Services ------------------------------
(***************************************************************************)
(* What a service of the library has around its requests: values cached    *)
(* from other services (Caches), the archive of webhooks (Webhooks), the   *)
(* clients of its event loops (Clients), its database sessions (Sessions), *)
(* the reading of leads (LeadFields) and negotiations (Negotiation), the   *)
(* audit entries of a row (AuditEntries), the objects it stores (Storage)  *)
(* and the days its dashboards show (Periods).                             *)
(*                                                                         *)
(* The nine share no state, so a behaviour walks one of them and leaves    *)
(* the others as they began, each in one of its initial states.            *)
(***************************************************************************)
EXTENDS Caches, Webhooks, Clients, Sessions, LeadFields, Negotiation,
        AuditEntries, Storage, Periods

VARIABLE part    \* the one that is walked

servicesVars == <<cacheVars, webhookVars, clientVars, sessionVars, leadVars, haggleVars,
                  auditVars, storageVars, periodVars, part>>

ServicesInit ==
    /\ part \in {"caches", "webhooks", "clients", "sessions", "leads", "negotiation",
              "audit", "storage", "periods"}
    /\ CacheInit /\ WebhookInit /\ ClientsInit /\ SessionsInit /\ LeadInit /\ NegotiationInit
    /\ AuditInit /\ StorageInit /\ PeriodsInit
    /\ part # "caches" => kind = "broker"
    /\ part # "sessions" => maker = "plain" /\ ~readOnly
    /\ part # "negotiation" => gap = 0 /\ moves = 0

ServicesNext ==
    /\ UNCHANGED part
    /\ \/ /\ part = "caches" /\ CacheNext
          /\ UNCHANGED <<webhookVars, clientVars, sessionVars, leadVars,
                         haggleVars, auditVars, storageVars, periodVars>>
       \/ /\ part = "webhooks" /\ WebhookNext
          /\ UNCHANGED <<cacheVars, clientVars, sessionVars, leadVars,
                         haggleVars, auditVars, storageVars, periodVars>>
       \/ /\ part = "clients" /\ ClientsNext
          /\ UNCHANGED <<cacheVars, webhookVars, sessionVars, leadVars,
                         haggleVars, auditVars, storageVars, periodVars>>
       \/ /\ part = "sessions" /\ SessionsNext
          /\ UNCHANGED <<cacheVars, webhookVars, clientVars, leadVars,
                         haggleVars, auditVars, storageVars, periodVars>>
       \/ /\ part = "leads" /\ LeadNext
          /\ UNCHANGED <<cacheVars, webhookVars, clientVars, sessionVars,
                         haggleVars, auditVars, storageVars, periodVars>>
       \/ /\ part = "negotiation" /\ NegotiationNext
          /\ UNCHANGED <<cacheVars, webhookVars, clientVars, sessionVars,
                         leadVars, auditVars, storageVars, periodVars>>
       \/ /\ part = "audit" /\ AuditNext
          /\ UNCHANGED <<cacheVars, webhookVars, clientVars, sessionVars,
                         leadVars, haggleVars, storageVars, periodVars>>
       \/ /\ part = "storage" /\ StorageNext
          /\ UNCHANGED <<cacheVars, webhookVars, clientVars, sessionVars,
                         leadVars, haggleVars, auditVars, periodVars>>
       \/ /\ part = "periods" /\ PeriodsNext
          /\ UNCHANGED <<cacheVars, webhookVars, clientVars, sessionVars,
                         leadVars, haggleVars, auditVars, storageVars>>

ServicesSpec == ServicesInit /\ [][ServicesNext]_servicesVars
=============================================================================
