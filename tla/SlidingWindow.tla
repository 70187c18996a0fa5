--------------------------- MODULE SlidingWindow ---------------------------
(***************************************************************************)
(* thecargo.middleware.rate_limit, the rate_limit dependency: the requests *)
(* of one address to one path, kept by their time in a sorted set of Redis.*)
(*                                                                         *)
(* SLIDING_WINDOW_SCRIPT runs atomically, but the time it counts with is   *)
(* that of the server that calls it; a member is that time and a number    *)
(* drawn by the script. The key expires by the clock of Redis.             *)
(***************************************************************************)
EXTENDS Integers, FiniteSets

CONSTANTS
    LIMIT,       \* limit
    WINDOW,      \* window
    Servers,
    MaxAhead,    \* bound on how far a server's clock is ahead of Redis's
    Draws,       \* what math.random may return
    MaxElapsed   \* bound on the time that passes

ASSUME SlidingWindowAssumption == LIMIT \in Nat \ {0} /\ WINDOW \in Nat /\ MaxAhead \in 0 .. WINDOW

VARIABLES
    elapsed,    \* the clock of Redis
    ahead,      \* server -> how far its clock is ahead
    members,    \* the sorted set: <<score, draw>>
    expires,    \* when its key is dropped
    passed,     \* ghost: members that were added, and when: <<member, time>>
    answer      \* to the last request

windowVars == <<elapsed, ahead, members, expires, passed, answer>>

WindowInit ==
    /\ elapsed = 0
    /\ ahead \in [Servers -> 0 .. MaxAhead]
    /\ members = {} /\ expires = 0 /\ passed = {}
    /\ answer = "none"

----------------------------------------------------------------------------
\* What Redis has under the key.
Kept == IF elapsed < expires THEN members ELSE {}

\* Mutant: the window is left by its last second already.
InWindowShort(now) == {m \in Kept : m[1] > now - WINDOW + 1}

\* ZREMRANGEBYSCORE
InWindow(now) == {m \in Kept : m[1] > now - WINDOW}

\* The script finds room and adds a member, and the request goes on...
LetThrough(s, draw) ==
    LET now == elapsed + ahead[s]
        current == InWindow(now)
    IN /\ Cardinality(current) < LIMIT
       /\ members' = current \union {<<now, draw>>}
       /\ expires' = elapsed + WINDOW
       /\ passed' = passed \union {<<<<now, draw>>, elapsed>>}
       /\ answer' = "passes"
    /\ UNCHANGED <<elapsed, ahead>>

\* ... or it finds none and says when the oldest member leaves: _RateLimitExceeded.
TurnAway(s) ==
    /\ Cardinality(InWindow(elapsed + ahead[s])) >= LIMIT
    /\ members' = InWindow(elapsed + ahead[s])
    /\ answer' = "refused"
    /\ UNCHANGED <<elapsed, ahead, expires, passed>>

\* Redis does not answer: the request passes uncounted.
PassUncounted ==
    /\ answer' = "uncounted"
    /\ UNCHANGED <<elapsed, ahead, members, expires, passed>>

TimePasses ==
    /\ elapsed < MaxElapsed
    /\ elapsed' = elapsed + 1 /\ answer' = "none"
    /\ UNCHANGED <<ahead, members, expires, passed>>

WindowNext ==
    \/ \E s \in Servers : (\E draw \in Draws : LetThrough(s, draw)) \/ TurnAway(s)
    \/ PassUncounted
    \/ TimePasses

WindowSpec == WindowInit /\ [][WindowNext]_windowVars

----------------------------------------------------------------------------
(* Properties. *)

\* The members added in the last n seconds, this one included.
PassedIn(n) == {p \in passed : p[2] > elapsed - n}

\* The window lets no more through than its limit, and stops nobody before: clocks
\* that differ by some seconds make it shorter by as many for the one and longer
\* for the other. Requests of one time and one draw count once, and what passes
\* while Redis is away not at all.
WindowIsKept ==
    /\ Cardinality({p[1] : p \in PassedIn(WINDOW - MaxAhead)}) <= LIMIT
    /\ answer = "refused" => Cardinality(PassedIn(WINDOW + MaxAhead)) >= LIMIT
=============================================================================
