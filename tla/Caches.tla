------------------------------- MODULE Caches -------------------------------
(***************************************************************************)
(* thecargo.cache, features, dependencies.portal and clients.auth: values  *)
(* of other services, kept for a while in Redis or in a process.           *)
(*                                                                         *)
(* An organization's entitlements are read from Redis, else from billing,  *)
(* and stored for ENTITLEMENTS_TTL. When billing is away the answer        *)
(* depends on the type of the organization, which is read the same way     *)
(* from the auth service; when both are away it is taken for a broker.     *)
(* Customer ids of the portal, time zones and types go through the same    *)
(* cache_aside. The sync clients keep a value in the process instead, and  *)
(* nothing invalidates it there.                                           *)
(*                                                                         *)
(* Any operation of Redis, of billing or of the auth service may fail.     *)
(* Time is counted in ticks; a call takes at most MaxFlight of them.       *)
(***************************************************************************)
EXTENDS Naturals

CONSTANTS
    Callers,             \* calls under way at a time
    ENTITLEMENTS_TTL,    \* ticks an answer of billing stays in Redis
    TYPE_TTL,            \* ticks an organization's type stays in Redis
    PROCESS_TTL,         \* ticks a value stays in a process
    MaxFlight            \* bound on the ticks of one call: the clients' timeouts

ASSUME CachesAssumption ==
    ENTITLEMENTS_TTL \in Nat /\ TYPE_TTL \in Nat /\ PROCESS_TTL \in Nat /\ MaxFlight \in Nat

VARIABLES
    kind,         \* the organization's type: "phone" or "broker", which never changes
    plan,         \* its plan in billing: "old", then "new"
    since,        \* ticks since the plan changed
    told,         \* billing has invalidated the key after the change
    entKey,       \* org:ent:{id}: the plan and the ticks left; left = 0 for no key
    typeLeft,     \* org:type:{id}: the ticks left
    process,      \* the process's own value: the plan and the ticks left
    call          \* caller -> its call

keys == <<entKey, typeLeft, process>>
cacheVars == <<kind, plan, since, told, keys, call>>

LongAgo == ENTITLEMENTS_TTL + PROCESS_TTL + 2 * MaxFlight + 1    \* since counts no further

\* noBilling and noType are ghosts: whether billing and the auth service failed this call.
Fresh == [step |-> "idle", from |-> "nobody", value |-> "old", age |-> 0, noBilling |-> FALSE, noType |-> FALSE]

CacheInit ==
    /\ kind \in {"phone", "broker"}
    /\ plan = "old" /\ since = 0 /\ told = FALSE
    /\ entKey = [value |-> "old", left |-> 0] /\ typeLeft = 0
    /\ process = [value |-> "old", left |-> 0]
    /\ call = [c \in Callers |-> Fresh]

----------------------------------------------------------------------------
(* A call of entitlements. *)

At(c, step) == call[c].step = step

Goes(c, step) == call' = [call EXCEPT ![c].step = step]

\* The call returns the value, read from a cache, from billing or made up.
Answer(c, from, value) ==
    call' = [call EXCEPT ![c].step = "done", ![c].from = from, ![c].value = value, ![c].age = since]

Ask(c) ==
    /\ call[c].step \in {"idle", "done"}
    /\ \E step \in {"get", "process"} : call' = [call EXCEPT ![c] = [Fresh EXCEPT !.step = step]]
    /\ UNCHANGED <<kind, plan, since, told, keys>>

\* cache_get: an error of Redis is a miss.
CacheGet(c) ==
    /\ At(c, "get")
    /\ \/ entKey.left > 0 /\ Answer(c, "cache", entKey.value)
       \/ Goes(c, "load")
    /\ UNCHANGED <<kind, plan, since, told, keys>>

Load(c) ==
    /\ At(c, "load")
    /\ \/ call' = [call EXCEPT ![c].step = "set", ![c].value = plan]
       \/ call' = [call EXCEPT ![c].step = "type", ![c].noBilling = TRUE]
    /\ UNCHANGED <<kind, plan, since, told, keys>>

\* Mutant: the key never expires once it was set.
CacheSetForGood(c) ==
    /\ At(c, "set")
    /\ entKey' \in {entKey, [value |-> call[c].value, left |-> 2 * ENTITLEMENTS_TTL + MaxFlight + 1]}
    /\ Answer(c, "billing", call[c].value)
    /\ UNCHANGED <<kind, plan, since, told, typeLeft, process>>

\* cache_set: an error of Redis leaves the key as it is.
CacheSet(c) ==
    /\ At(c, "set")
    /\ entKey' \in {entKey, [value |-> call[c].value, left |-> ENTITLEMENTS_TTL]}
    /\ Answer(c, "billing", call[c].value)
    /\ UNCHANGED <<kind, plan, since, told, typeLeft, process>>

\* Mutant: an outage is an outage, whatever the organization's type.
FallbackOpen(type) == "all"

\* NO_FEATURES or ALL_FEATURES, neither of which is stored.
Fallback(type) == IF type = "phone" THEN "none" ELSE "all"

\* _outage_fallback: org_type through cache_aside, the error of its loader raised.
TypeGet(c) ==
    /\ At(c, "type")
    /\ \/ typeLeft > 0 /\ Answer(c, "outage", Fallback(kind))
       \/ Goes(c, "typeload")
    /\ UNCHANGED <<kind, plan, since, told, keys>>

TypeLoad(c) ==
    /\ At(c, "typeload")
    /\ \/ Goes(c, "typeset")
       \/ call' = [call EXCEPT ![c].step = "done", ![c].from = "outage", ![c].value = "all",
                              ![c].age = since, ![c].noType = TRUE]
    /\ UNCHANGED <<kind, plan, since, told, keys>>

TypeSet(c) ==
    /\ At(c, "typeset")
    /\ typeLeft' \in {typeLeft, TYPE_TTL}
    /\ Answer(c, "outage", Fallback(kind))
    /\ UNCHANGED <<kind, plan, since, told, entKey, process>>

\* org_timezone_sync and the like: the process's own value while it is young,
\* else the service's, stamped when it has come. The type
\* and the time zone are the auth service's, here the plan stands for them.
ProcessGet(c) ==
    /\ At(c, "process")
    /\ \/ process.left > 0 /\ Answer(c, "process", process.value)
       \/ process.left = 0 /\ call' = [call EXCEPT ![c].step = "keep", ![c].value = plan]
       \/ process.left = 0 /\ call' = [call EXCEPT ![c] = Fresh]
    /\ UNCHANGED <<kind, plan, since, told, keys>>

ProcessKeep(c) ==
    /\ At(c, "keep")
    /\ process' = [value |-> call[c].value, left |-> PROCESS_TTL]
    /\ Answer(c, "process", call[c].value)
    /\ UNCHANGED <<kind, plan, since, told, entKey, typeLeft>>

----------------------------------------------------------------------------
(* The services. *)

ChangePlan ==
    /\ plan = "old"
    /\ plan' = "new"
    /\ UNCHANGED <<kind, since, told, keys, call>>

\* cache_invalidate after the change; an error of Redis is only logged.
Invalidate ==
    /\ plan = "new" /\ ~told
    /\ told' = TRUE
    /\ entKey' \in {entKey, [entKey EXCEPT !.left = 0]}
    /\ UNCHANGED <<kind, plan, since, typeLeft, process, call>>

Less(n) == IF n > 0 THEN n - 1 ELSE 0
Waiting(c) == call[c].step \notin {"idle", "done"}

\* A tick passes unless it would keep a call under way for too long.
Pass ==
    /\ \A c \in Callers : Waiting(c) => call[c].age < MaxFlight
    /\ call' = [c \in Callers |-> IF Waiting(c) THEN [call[c] EXCEPT !.age = @ + 1] ELSE call[c]]
    /\ since' = IF plan = "new" /\ since < LongAgo THEN since + 1 ELSE since
    /\ entKey' = [entKey EXCEPT !.left = Less(@)]
    /\ typeLeft' = Less(typeLeft)
    /\ process' = [process EXCEPT !.left = Less(@)]
    /\ UNCHANGED <<kind, plan, told>>

CacheNext ==
    \/ \E c \in Callers :
          Ask(c) \/ CacheGet(c) \/ Load(c) \/ CacheSet(c) \/ TypeGet(c) \/ TypeLoad(c) \/ TypeSet(c)
              \/ ProcessGet(c) \/ ProcessKeep(c)
    \/ ChangePlan \/ Invalidate \/ Pass

CacheSpec == CacheInit /\ [][CacheNext]_cacheVars

----------------------------------------------------------------------------
(* Properties. *)

\* An old plan is answered for a bounded time after it changed, whatever is lost
\* or overtaken: the time to live of the cache that answered and one call,
\* which may store what it read before the change after the invalidation.
AnswersAreRecent ==
    \A c \in Callers : (At(c, "done") /\ call[c].value = "old") =>
        call[c].age <= MaxFlight + (CASE call[c].from = "cache"   -> ENTITLEMENTS_TTL
                                      [] call[c].from = "process" -> PROCESS_TTL
                                      [] call[c].from = "billing" -> 0)

\* An answer made up for an outage is given only by a call that found billing
\* away itself: none of it is kept in a cache, where it would outlast the outage.
\* It takes nothing from a broker, and nothing but a second outage, of the auth
\* service, lets a phone organization have more than its plan (PhoneGetsNothing
\* says what entitlements promises there, and does not keep).
AnswersFitTheOutage ==
    \A c \in Callers : At(c, "done") =>
        /\ call[c].value \in {"all", "none"} => call[c].noBilling
        /\ call[c].value = "none" => kind = "phone"
        /\ call[c].value = "all" => kind = "broker" \/ call[c].noType

\* The docstring of entitlements: when billing cannot be reached and nothing is
\* cached, "a phone organization, which only ever had what it paid for, gets
\* nothing until billing answers again".
PhoneGetsNothing ==
    \A c \in Callers : At(c, "done") /\ kind = "phone" /\ call[c].from = "outage" => call[c].value = "none"
=============================================================================
