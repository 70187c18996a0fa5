----------------------------- MODULE RateLimit -----------------------------
(***************************************************************************)
(* thecargo.middleware.rate_limit: the token bucket one organization has   *)
(* in Redis for one service.                                               *)
(*                                                                         *)
(* TOKEN_BUCKET_SCRIPT runs atomically and reads the clock of Redis, which *)
(* may be set back, as when another node takes over. Tokens are counted in *)
(* parts: a request costs COST of them, RATE come back per tick.           *)
(***************************************************************************)
EXTENDS Integers

CONSTANTS
    RATE,        \* per_minute / 60
    BURST,       \* burst, in parts
    COST,        \* the parts of one token
    EXPIRY,      \* PEXPIRE: the time an empty bucket needs to fill, and a second
    MaxTicks,    \* bound on the ticks of the clock
    MaxSetBack   \* bound on how far it is set back, in all

ASSUME RateLimitAssumption ==
    /\ RATE \in Nat \ {0}
    /\ COST \in Nat \ {0}
    /\ BURST \in Nat /\ BURST >= COST
    /\ EXPIRY \in Nat /\ EXPIRY * RATE >= BURST + RATE
    /\ MaxTicks \in Nat /\ MaxSetBack \in Nat

VARIABLES
    tokens,    \* the bucket's tokens when it was last touched
    at,        \* when that was
    known,     \* Redis has the bucket's key
    clock,     \* the clock of Redis
    ticks,     \* how often it ticked
    setBack,   \* how far it was set back
    granted,   \* how many requests the bucket let through
    grantedAt  \* ghost: grantedAt[t] is how many of them came before tick t

bucket == <<tokens, at, known>>
rateVars == <<bucket, clock, ticks, setBack, granted, grantedAt>>

RateInit ==
    /\ tokens = BURST /\ at = 0 /\ known = FALSE
    /\ clock = 0 /\ ticks = 0 /\ setBack = 0
    /\ granted = 0 /\ grantedAt = [t \in {0} |-> 0]

----------------------------------------------------------------------------
\* The tokens in the bucket now: math.min(burst, tokens + math.max(0, now - at) * rate).
Level ==
    LET refilled == tokens + (IF clock > at THEN clock - at ELSE 0) * RATE
    IN IF ~known THEN BURST ELSE IF refilled < BURST THEN refilled ELSE BURST

\* Mutant: the time of the touch is kept only when the bucket was found empty.
GrantKeepsAt ==
    /\ Level >= COST
    /\ tokens' = Level - COST /\ at' = (IF known THEN at ELSE clock) /\ known' = TRUE
    /\ granted' = granted + 1
    /\ UNCHANGED <<clock, ticks, setBack, grantedAt>>

\* The script lets the request through, or answers after how long to retry.
Grant ==
    /\ Level >= COST
    /\ tokens' = Level - COST /\ at' = clock /\ known' = TRUE
    /\ granted' = granted + 1
    /\ UNCHANGED <<clock, ticks, setBack, grantedAt>>

Deny ==
    /\ Level < COST
    /\ tokens' = Level /\ at' = clock /\ known' = TRUE
    /\ UNCHANGED <<clock, ticks, setBack, granted, grantedAt>>

\* Redis drops the key.
Expire ==
    /\ known
    /\ clock >= at + EXPIRY
    /\ known' = FALSE
    /\ UNCHANGED <<tokens, at, clock, ticks, setBack, granted, grantedAt>>

Tick ==
    /\ ticks < MaxTicks
    /\ clock' = clock + 1 /\ ticks' = ticks + 1
    /\ grantedAt' = [t \in 0 .. ticks + 1 |-> IF t <= ticks THEN grantedAt[t] ELSE granted]
    /\ UNCHANGED <<bucket, setBack, granted>>

SetBack ==
    /\ setBack < MaxSetBack
    /\ clock' = clock - 1 /\ setBack' = setBack + 1
    /\ UNCHANGED <<bucket, ticks, granted, grantedAt>>

RateNext == Grant \/ Deny \/ Expire \/ Tick \/ SetBack

RateSpec == RateInit /\ [][RateNext]_rateVars

----------------------------------------------------------------------------
(* Properties. *)

\* Every variable has its type, and the bucket never holds more than its burst.
RateTypeOK ==
    /\ tokens \in 0 .. BURST
    /\ at \in Int /\ clock \in Int
    /\ known \in BOOLEAN
    /\ ticks \in 0 .. MaxTicks /\ setBack \in 0 .. MaxSetBack
    /\ granted \in Nat /\ grantedAt \in [0 .. ticks -> Nat]

\* The bucket keeps its rate: in any stretch of time, from any tick on, it lets
\* no more through than the burst and what the clock of Redis ticked in that
\* stretch, whether or not the key expired in between, and however often the clock
\* was set back. So a quiet time earns nobody more than one burst.
RateIsKept ==
    \A t \in 0 .. ticks : (granted - grantedAt[t]) * COST <= BURST + (ticks - t) * RATE
=============================================================================
