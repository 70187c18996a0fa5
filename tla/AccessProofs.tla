--------------------------- MODULE AccessProofs ---------------------------
(* Proofs about the admission of a request: the token bucket of RateLimit keeps *)
(* its rate and SlidingWindow its window, the sessions of Tenancy keep each      *)
(* company's rows apart, a token of TokenState is let in only while its rights   *)
(* live and refused only for a cause, and the consent records of Consent say     *)
(* what their customer did; and Access, which joins these, walks each of them.  *)
EXTENDS Access, FiniteSetTheorems,
        SequenceTheorems, WellFoundedInduction, TLAPS

-----------------------------------------------------------------------------
(* RateLimit. *)

\* The strengthening of RateIsKept: what the next touch of the bucket finds in it
\* is part of the account of every stretch.
Account == \A t \in 0 .. ticks : (granted - grantedAt[t]) * COST + Level <= BURST + (ticks - t) * RATE

RateInv == RateTypeOK /\ Account

\* What arithmetic the account needs: a product with a natural number keeps the
\* order, and one more of a factor is one more of the other.
LEMMA TimesMonotone ==
    ASSUME NEW m \in Nat, NEW n \in Nat, NEW k \in Nat, m <= n
    PROVE  m * k <= n * k /\ m * k \in Nat /\ n * k \in Nat
    OBVIOUS

LEMMA TimesSuccessor ==
    ASSUME NEW m \in Int, NEW k \in Int
    PROVE  (m + 1) * k = m * k + k /\ m * k \in Int
    OBVIOUS

LEMMA ZeroTimes == 0 * RATE = 0 /\ 0 * COST = 0
<1>1. RATE \in Nat /\ COST \in Nat
    BY RateLimitAssumption
<1>. QED
    BY <1>1

\* How far the clock is past the last touch.
Past == IF clock > at THEN clock - at ELSE 0

LEMMA LevelIs ==
    ASSUME RateTypeOK, known
    PROVE  /\ Past \in Nat /\ Past * RATE \in Nat /\ tokens \in 0 .. BURST
           /\ Level = IF tokens + Past * RATE < BURST THEN tokens + Past * RATE ELSE BURST
<1>1. Past \in Nat
    BY DEF RateTypeOK, Past
<1>2. Past * RATE \in Nat
    BY <1>1, RateLimitAssumption
<1>. QED
    BY <1>1, <1>2 DEF RateTypeOK, Level, Past

\* The bucket holds up to its burst.
LEMMA LevelFits == RateTypeOK => Level \in 0 .. BURST
<1>1. ASSUME ~known PROVE Level \in 0 .. BURST
  <2>1. Level = BURST
    BY <1>1, Zenon DEF Level
  <2>2. BURST \in Nat
    BY RateLimitAssumption
  <2>. QED
    BY <2>1, <2>2
<1>2. ASSUME RateTypeOK, known PROVE Level \in 0 .. BURST
    BY <1>2, LevelIs, RateLimitAssumption
<1>. QED
    BY <1>1, <1>2

\* A touch at the present time leaves in the bucket what it writes to it.
LEMMA TouchSetsLevel ==
    ASSUME NEW n \in 0 .. BURST, tokens' = n, at' = clock, clock' = clock, known' = TRUE, clock \in Int
    PROVE  Level' = n
<1>1. 0 * RATE = 0
    BY ZeroTimes
<1>2. Level' = IF n + 0 * RATE < BURST THEN n + 0 * RATE ELSE BURST
    BY DEF Level
<1>. QED
    BY <1>1, <1>2, RateLimitAssumption

\* A clock that is set back finds no more in the bucket, one that ticks what came
\* back in a tick.
LEMMA LevelFollowsClock ==
    ASSUME RateTypeOK, UNCHANGED bucket, clock' \in {clock - 1, clock + 1}
    PROVE  /\ Level' \in 0 .. BURST
           /\ clock' = clock - 1 => Level' <= Level
           /\ clock' = clock + 1 => Level' <= Level + RATE
<1>1. tokens' = tokens /\ at' = at /\ known' = known /\ clock \in Int /\ at \in Int
    BY DEF bucket, RateTypeOK
<1>2. CASE ~known
    BY <1>1, <1>2, RateLimitAssumption DEF Level
<1>3. CASE known
  <2>1. /\ Past \in Nat /\ Past * RATE \in Nat /\ tokens \in 0 .. BURST
        /\ Level = IF tokens + Past * RATE < BURST THEN tokens + Past * RATE ELSE BURST
    BY <1>3, LevelIs
  <2>2. Level' = IF tokens + Past' * RATE < BURST THEN tokens + Past' * RATE ELSE BURST
    BY <1>1, <1>3 DEF Level, Past
  <2>3. Past' = IF clock' > at THEN clock' - at ELSE 0
    BY <1>1 DEF Past
  <2>7. Past' \in Nat /\ Past' <= Past + 1 /\ (clock' = clock - 1 => Past' <= Past)
    <3>1. clock \in Int /\ at \in Int /\ clock' \in {clock - 1, clock + 1}
        BY <1>1
    <3>. QED
        BY <3>1, <2>3 DEF Past
  <2>8. RATE \in Nat /\ Past + 1 \in Nat
    BY <2>1, RateLimitAssumption
  <2>4. Past' * RATE \in Nat /\ Past' * RATE <= (Past + 1) * RATE
    BY <2>7, <2>8, TimesMonotone
  <2>5. (Past + 1) * RATE = Past * RATE + RATE
    BY <2>1, TimesSuccessor, RateLimitAssumption
  <2>6. clock' = clock - 1 => Past' * RATE <= Past * RATE
    BY <2>1, <2>7, <2>8, TimesMonotone
  <2>. QED
    BY <2>1, <2>2, <2>4, <2>5, <2>6, RateLimitAssumption
<1>. QED
    BY <1>2, <1>3

\* Type correctness is inductive.
LEMMA RateTypeInductive == RateTypeOK /\ [RateNext]_rateVars => RateTypeOK'
<1>. SUFFICES ASSUME RateTypeOK, [RateNext]_rateVars
              PROVE  RateTypeOK'
    OBVIOUS
<1>1. CASE Grant
  <2>1. Level - COST \in 0 .. BURST
    BY <1>1, LevelFits, RateLimitAssumption DEF Grant
  <2>. QED
    BY <1>1, <2>1 DEF Grant, RateTypeOK
<1>2. CASE Deny
    BY <1>2, LevelFits DEF Deny, RateTypeOK
<1>3. CASE Expire
    BY <1>3 DEF Expire, RateTypeOK, bucket
<1>4. CASE Tick
  <2>. DEFINE b == [t \in 0 .. ticks + 1 |-> IF t <= ticks THEN grantedAt[t] ELSE granted]
  <2>1. b \in [0 .. ticks + 1 -> Nat]
    BY DEF RateTypeOK
  <2>2. grantedAt' = b /\ ticks' = ticks + 1
    BY <1>4 DEF Tick
  <2>. HIDE DEF b
  <2>. QED
    BY <1>4, <2>1, <2>2, RateLimitAssumption DEF Tick, RateTypeOK, bucket
<1>5. CASE SetBack
    BY <1>5, RateLimitAssumption DEF SetBack, RateTypeOK, bucket
<1>6. CASE UNCHANGED rateVars
    BY <1>6 DEF rateVars, bucket, RateTypeOK
<1>. QED
    BY <1>1, <1>2, <1>3, <1>4, <1>5, <1>6 DEF RateNext

\* The terms of the account of a stretch are integers.
LEMMA AccountIsInt ==
    ASSUME RateTypeOK, NEW t \in 0 .. ticks
    PROVE  /\ granted - grantedAt[t] \in Int /\ ticks - t \in Int
           /\ (granted - grantedAt[t]) * COST \in Int /\ (ticks - t) * RATE \in Nat
<1>1. granted - grantedAt[t] \in Int /\ ticks - t \in Nat
    BY DEF RateTypeOK
<1>. QED
    BY <1>1, RateLimitAssumption

\* No step of the bucket or of the clock overdraws the account of a stretch.
LEMMA AccountInductive == RateInv /\ [RateNext]_rateVars => Account'
<1>. SUFFICES ASSUME RateTypeOK, Account, [RateNext]_rateVars, NEW t \in 0 .. ticks'
              PROVE  ((granted - grantedAt[t]) * COST)' + Level' <= BURST + (ticks' - t) * RATE
    BY DEF RateInv, Account
<1>l. Level \in 0 .. BURST /\ COST \in Nat /\ RATE \in Nat /\ BURST \in Nat
    BY LevelFits, RateLimitAssumption
<1>a. ASSUME t \in 0 .. ticks, ticks' = ticks, grantedAt' = grantedAt, granted' = granted,
             Level' \in 0 .. BURST, Level' <= Level
      PROVE  ((granted - grantedAt[t]) * COST)' + Level' <= BURST + (ticks' - t) * RATE
    BY <1>a, <1>l, AccountIsInt DEF Account
<1>1. CASE Grant
  <2>1. t \in 0 .. ticks /\ grantedAt' = grantedAt /\ granted' = granted + 1 /\ ticks' = ticks
    BY <1>1 DEF Grant
  <2>2. Level' = Level - COST
    <3>1. Level - COST \in 0 .. BURST
        BY <1>1, <1>l DEF Grant
    <3>. HIDE DEF Level
    <3>. QED
        BY <1>1, <3>1, TouchSetsLevel DEF Grant, RateTypeOK
  <2>3. (granted - grantedAt[t] + 1) * COST = (granted - grantedAt[t]) * COST + COST
    BY <2>1, <1>l, AccountIsInt, TimesSuccessor
  <2>4. granted' - grantedAt'[t] = granted - grantedAt[t] + 1
    BY <2>1, AccountIsInt DEF RateTypeOK
  <2>5. (granted - grantedAt[t]) * COST + Level <= BURST + (ticks - t) * RATE
    BY <2>1 DEF Account
  <2>. QED
    BY <2>1, <2>2, <2>3, <2>4, <2>5, <1>l, AccountIsInt
<1>2. CASE Deny
  <2>1. Level' = Level
    BY <1>2, <1>l, TouchSetsLevel DEF Deny, RateTypeOK
  <2>. QED
    BY <1>2, <2>1, <1>a, <1>l DEF Deny
<1>3. CASE Expire
  <2>1. Level' = BURST
    BY <1>3 DEF Expire, Level
  <2>2. Level = BURST
    <3>1. known /\ Past \in Nat /\ Past >= EXPIRY
        BY <1>3, RateLimitAssumption DEF Expire, Past, RateTypeOK
    <3>2. Past * RATE >= EXPIRY * RATE /\ EXPIRY * RATE \in Nat
        BY <3>1, TimesMonotone, RateLimitAssumption
    <3>3. Past * RATE \in Nat /\ tokens \in 0 .. BURST
              /\ Level = IF tokens + Past * RATE < BURST THEN tokens + Past * RATE ELSE BURST
        BY <3>1, LevelIs
    <3>. QED
        BY <3>2, <3>3, RateLimitAssumption
  <2>. QED
    BY <1>3, <2>1, <2>2, <1>a, <1>l DEF Expire
<1>4. CASE Tick
  <2>1. /\ granted' = granted /\ ticks' = ticks + 1 /\ UNCHANGED bucket /\ clock' = clock + 1
        /\ grantedAt' = [i \in 0 .. ticks + 1 |-> IF i <= ticks THEN grantedAt[i] ELSE granted]
    BY <1>4 DEF Tick
  <2>2. Level' \in 0 .. BURST /\ Level' <= Level + RATE
    BY <2>1, LevelFollowsClock
  <2>3. ticks \in Nat /\ granted \in Nat
    BY DEF RateTypeOK
  <2>4. CASE t \in 0 .. ticks
    <3>1. grantedAt'[t] = grantedAt[t]
        BY <2>1, <2>3, <2>4
    <3>2. (ticks - t + 1) * RATE = (ticks - t) * RATE + RATE
        BY <2>4, <1>l, AccountIsInt, TimesSuccessor
    <3>3. ticks' - t = ticks - t + 1
        BY <2>1, <2>3, <2>4
    <3>4. (granted - grantedAt[t]) * COST + Level <= BURST + (ticks - t) * RATE
        BY <2>4 DEF Account
    <3>5. (granted' - grantedAt'[t]) * COST = (granted - grantedAt[t]) * COST
        BY <2>1, <3>1
    <3>6. (ticks' - t) * RATE = (ticks - t) * RATE + RATE
        BY <3>2, <3>3
    <3>7. (granted - grantedAt[t]) * COST \in Int /\ (ticks - t) * RATE \in Nat
        BY <2>4, AccountIsInt
    <3>. QED
        BY <2>2, <3>4, <3>5, <3>6, <3>7, <1>l
  <2>5. CASE t = ticks + 1
    <3>1. grantedAt'[t] = granted
        BY <2>1, <2>3, <2>5
    <3>2. granted' - grantedAt'[t] = 0 /\ ticks' - t = 0 /\ 0 * COST = 0 /\ 0 * RATE = 0
        BY <2>1, <2>3, <2>5, <3>1, <1>l
    <3>. QED
        BY <2>2, <3>2, <1>l
  <2>. QED
    BY <2>1, <2>3, <2>4, <2>5
<1>5. CASE SetBack
  <2>1. /\ granted' = granted /\ ticks' = ticks /\ grantedAt' = grantedAt
        /\ UNCHANGED bucket /\ clock' = clock - 1
    BY <1>5 DEF SetBack
  <2>2. Level' \in 0 .. BURST /\ Level' <= Level
    BY <2>1, LevelFollowsClock
  <2>. QED
    BY <2>1, <2>2, <1>a
<1>6. CASE UNCHANGED rateVars
  <2>1. Level' = Level
    BY <1>6 DEF rateVars, bucket, Level
  <2>. QED
    BY <1>6, <2>1, <1>a, <1>l DEF rateVars
<1>. QED
    BY <1>1, <1>2, <1>3, <1>4, <1>5, <1>6 DEF RateNext

\* Every reachable state is well typed and within the account.
LEMMA RateInvariant == RateSpec => []RateInv
<1>1. RateInit => RateInv
  <2>. SUFFICES ASSUME RateInit PROVE RateInv
    OBVIOUS
  <2>1. RateTypeOK
    <3>1. known \in BOOLEAN
        BY DEF RateInit
    <3>2. /\ tokens \in 0 .. BURST /\ at \in Int /\ clock \in Int
          /\ ticks \in 0 .. MaxTicks /\ setBack \in 0 .. MaxSetBack /\ granted \in Nat
        BY RateLimitAssumption DEF RateInit
    <3>3. grantedAt \in [0 .. ticks -> Nat]
      <4>1. ticks = 0 /\ grantedAt = [t \in {0} |-> 0]
        BY DEF RateInit
      <4>2. 0 .. 0 = {0}
        OBVIOUS
      <4>. QED
        BY <4>1, <4>2
    <3>. QED
        BY <3>1, <3>2, <3>3 DEF RateTypeOK
  <2>2. 0 * RATE = 0 /\ 0 * COST = 0 /\ Level = BURST /\ BURST \in Nat
    BY RateLimitAssumption DEF RateInit, Level
  <2>3. ASSUME NEW t \in 0 .. ticks
        PROVE  (granted - grantedAt[t]) * COST + Level <= BURST + (ticks - t) * RATE
    <3>2. ticks = 0 /\ granted = 0 /\ grantedAt[0] = 0
        BY DEF RateInit
    <3>3. t = 0
        BY <3>2
    <3>1. granted - grantedAt[t] = 0 /\ ticks - t = 0
        BY <3>2, <3>3
    <3>. QED
        BY <2>2, <3>1
  <2>. QED
    BY <2>1, <2>3 DEF RateInv, Account
<1>2. RateInv /\ [RateNext]_rateVars => RateInv'
    BY RateTypeInductive, AccountInductive DEF RateInv
<1>. QED
    BY <1>1, <1>2, PTL DEF RateSpec

\* The bucket never holds more than its burst.
THEOREM RateTypeCorrect == RateSpec => []RateTypeOK
<1>1. RateInv => RateTypeOK
    BY DEF RateInv
<1>. QED
    BY <1>1, RateInvariant, PTL

\* In no stretch of time is an organization let through more than the burst and
\* what came back in it, for any rate, burst and cost.
THEOREM RateLimitHolds == RateSpec => []RateIsKept
<1>1. RateInv => RateIsKept
  <2>. SUFFICES ASSUME RateTypeOK, Account, NEW t \in 0 .. ticks
                PROVE  (granted - grantedAt[t]) * COST <= BURST + (ticks - t) * RATE
    BY DEF RateInv, RateIsKept
  <2>1. Level \in 0 .. BURST
    BY LevelFits
  <2>. QED
    BY <2>1, AccountIsInt, RateLimitAssumption DEF Account
<1>. QED
    BY <1>1, RateInvariant, PTL

-----------------------------------------------------------------------------
(* Tenancy: theorems for every set of companies, rows and records. *)

Contexts == Spaces \union {ANY}
Columns == [org : {Ours}, company : Spaces, deleted : BOOLEAN]

LEMMA OuterBlocks ==
    ASSUME NEW S, NEW s \in Seq(S), Len(s) > 1
    PROVE  LET t == SubSeq(s, 1, Len(s) - 1)
           IN t \in Seq(S) /\ t # <<>> /\ t[1] = s[1] /\ s[Len(s)] \in S
<1> DEFINE n == Len(s) - 1
           t == SubSeq(s, 1, n)
<1>1. 1 \in Int /\ n \in Int /\ n >= 1 /\ Len(s) \in Nat
  OBVIOUS
<1>2. \A i \in 1 .. n : s[i] \in S
  OBVIOUS
<1>3. t \in Seq(S) /\ Len(t) = n /\ t[1] = s[1]
  <2> HIDE DEF n
  <2>1. /\ SubSeq(s, 1, n) \in Seq(S)
        /\ Len(SubSeq(s, 1, n)) = IF 1 <= n THEN n - 1 + 1 ELSE 0
        /\ \A i \in 1 .. n - 1 + 1 : SubSeq(s, 1, n)[i] = s[1 + i - 1]
    BY <1>1, <1>2, SubSeqProperties
  <2> HIDE DEF t
  <2>2. t \in Seq(S) /\ Len(t) = n
    BY <1>1, <2>1 DEF t
  <2>3. t[1] = s[1]
    BY <1>1, <2>1 DEF t
  <2> QED
    BY <2>2, <2>3
<1>4. t # <<>>
  <2> HIDE DEF t, n
  <2>1. Len(t) # 0
    BY <1>1, <1>3
  <2> QED
    BY <1>3, <2>1, EmptySeq
<1>5. s[Len(s)] \in S
  OBVIOUS
<1> QED
  BY <1>3, <1>4, <1>5

\* The middleware found no company active, and the blocks nest.
ContextInv ==
    /\ active \in Contexts /\ outer \in Seq(Contexts)
    /\ outer = <<>> => active = ANY
    /\ outer # <<>> => outer[1] = ANY

\* The rows a session used under one company holds are of that company, or came
\* past the scope; what is
\* stored stays, and what is new is nobody else's.
HeldInv ==
    /\ \A r \in DOMAIN Stored : r \in DOMAIN table /\ table[r].company = Stored[r].company
    /\ \A r \in held \ DOMAIN asked :
          /\ r \in DOMAIN table /\ first # "none"
          /\ moved \/ r \in past \/ InCompany(first, table[r].company)
    /\ DOMAIN fresh \subseteq DOMAIN asked /\ DOMAIN fresh \intersect DOMAIN table = {}
    /\ DOMAIN asked \intersect DOMAIN Stored = {}

ScopeInv == ContextInv /\ HeldInv /\ \A r \in outside : moved \/ r \in past

LEMMA WithAdds ==
    ASSUME NEW f, NEW r, NEW v
    PROVE  /\ DOMAIN With(f, r, v) = DOMAIN f \union {r}
           /\ With(f, r, v)[r] = v
           /\ \A q \in DOMAIN f : q # r => With(f, r, v)[q] = f[q]
BY DEF With

LEMMA InitScopeInv == TenancyInit => ScopeInv
<1> SUFFICES ASSUME TenancyInit PROVE ScopeInv
  OBVIOUS
<1>1. outer = <<>> /\ active = ANY /\ ContextInv
  BY DEF TenancyInit, ContextInv, Contexts
<1>2. DOMAIN fresh = {} /\ DOMAIN asked = {} /\ held = {} /\ table = Stored /\ outside = {}
  BY DEF TenancyInit
<1> QED
  BY <1>1, <1>2 DEF ScopeInv, HeldInv

\* The company of a statement: Scope reaches no row outside of it.
LEMMA ScopedRows ==
    ASSUME NEW rows, NEW S, rows \subseteq Scope(S)
    PROVE  Outside(rows) = {} /\ (S \subseteq DOMAIN table => \A r \in rows : r \in DOMAIN table /\ InCompany(active, table[r].company))
BY DEF Scope, Outside

\* Using the session keeps it within its company until the company changes.
LEMMA ReachKeeps ==
    ASSUME ScopeInv, NEW rows, Reach(rows), ~moved'
    PROVE  ~moved /\ first' = active /\ (first # "none" => first = active)
BY CompaniesAssumption DEF Reach

LEMMA ContextStays ==
    ASSUME ContextInv, UNCHANGED context
    PROVE  ContextInv'
BY DEF ContextInv, context

\* A session that reads rows of the active company, or past the scope.
LEMMA ReadsKeep ==
    ASSUME ScopeInv, NEW rows, Reach(rows), UNCHANGED <<context, table, fresh, asked>>,
           past' = past \/ past' = past \union Outside(rows),
           held' \subseteq held \union rows,
           \A r \in rows \ held : r \in DOMAIN table /\ (InCompany(active, table[r].company) \/ past' = past \union Outside(rows))
    PROVE  ScopeInv'
<1>1. ContextInv' /\ active \in Contexts
  BY ContextStays DEF ScopeInv, ContextInv
<1>2. HeldInv /\ first' # "none"
  BY <1>1, CompaniesAssumption DEF ScopeInv, Reach, Contexts, Spaces, Org, ANY
<1>a. \A r \in rows \ DOMAIN asked : InCompany(active, table[r].company) \/ r \in Outside(rows)
  BY DEF Outside
<1>3. HeldInv'
  <2>1. ASSUME NEW r \in held' \ DOMAIN asked'
        PROVE  /\ r \in DOMAIN table' /\ first' # "none"
               /\ moved' \/ r \in past' \/ InCompany(first', table'[r].company)
    <3>1. /\ r \in DOMAIN table /\ r \notin DOMAIN asked
          /\ r \in held \/ InCompany(active, table[r].company) \/ r \in past'
      BY <1>2, <1>a, <2>1 DEF HeldInv
    <3>2. ASSUME ~moved', r \notin past' PROVE InCompany(first', table[r].company)
      BY <1>2, <2>1, <3>1, <3>2, ReachKeeps DEF HeldInv
    <3> QED
      BY <1>2, <3>1, <3>2
  <2> QED
    BY <1>2, <2>1 DEF HeldInv
<1>4. \A r \in outside' : moved' \/ r \in past'
  <2> SUFFICES ASSUME ~moved', NEW r \in Outside(rows) PROVE r \in past'
    BY DEF Reach
  <2>1. r \in rows /\ r \notin DOMAIN asked /\ ~InCompany(active, table[r].company)
    BY DEF Outside
  <2>2. CASE r \in held
    BY <1>2, <2>1, <2>2, ReachKeeps DEF HeldInv
  <2> QED
    BY <2>1, <2>2
<1> QED
  BY <1>1, <1>3, <1>4 DEF ScopeInv

\* A session that writes rows of its own, and reads none.
LEMMA WritesKeep ==
    ASSUME ScopeInv, Use({}), UNCHANGED context,
           DOMAIN table \subseteq DOMAIN table', DOMAIN asked \subseteq DOMAIN asked',
           \A r \in DOMAIN table : table'[r] = table[r],
           held' \subseteq held \union DOMAIN asked',
           DOMAIN fresh' \subseteq DOMAIN asked', DOMAIN fresh' \intersect DOMAIN table' = {},
           DOMAIN asked' \intersect DOMAIN table \subseteq DOMAIN asked
    PROVE  ScopeInv'
<1>1. ContextInv' /\ active \in Contexts
  BY ContextStays DEF ScopeInv, ContextInv
<1>2. HeldInv
  BY DEF ScopeInv
<1>3. \A r \in held' \ DOMAIN asked' : r \in held \ DOMAIN asked
  OBVIOUS
<1>4. ~moved' => ~moved /\ (first # "none" => first' = first)
  BY ReachKeeps DEF Use
<1>5. first # "none" => first' # "none"
  BY DEF Use, Reach
<1>6. HeldInv'
  BY <1>2, <1>3, <1>4, <1>5 DEF HeldInv, Use
<1>7. outside' = {}
  BY DEF Use, Reach, Outside
<1> QED
  BY <1>1, <1>6, <1>7 DEF ScopeInv

\* The active company changes between two uses of the session.
LEMMA ContextChanges ==
    ASSUME ScopeInv, ContextInv', UNCHANGED <<table, session, first, moved, past, asked>>, outside' = {}
    PROVE  ScopeInv'
BY DEF ScopeInv, HeldInv, session

LEMMA NextScopeInv == ScopeInv /\ [TenancyNext]_tenancyVars => ScopeInv'
<1> SUFFICES ASSUME ScopeInv, [TenancyNext]_tenancyVars PROVE ScopeInv'
  OBVIOUS
<1>0. ContextInv /\ HeldInv
  BY DEF ScopeInv
<1>1. CASE Begin
  <2>1. outer' = <<ANY>> /\ active' = ANY
    BY <1>0, <1>1 DEF Begin, InRequest, ContextInv
  <2>2. ContextInv'
    BY <2>1 DEF ContextInv, Contexts
  <2> QED
    BY <1>1, <2>2, ContextChanges DEF Begin
<1>2. CASE SignedIn
  <2>1. outer' = outer /\ outer # <<>> /\ active' \in Contexts
    BY <1>2 DEF SignedIn, Contexts
  <2>2. ContextInv'
    BY <1>0, <2>1 DEF ContextInv
  <2> QED
    BY <1>2, <2>2, ContextChanges DEF SignedIn
<1>3. CASE Enter
  <2>1. outer # <<>> /\ outer' = Append(outer, active) /\ active' \in Contexts
    BY <1>3 DEF Enter, InRequest, Contexts
  <2>2. outer' \in Seq(Contexts) /\ outer' # <<>> /\ outer'[1] = outer[1]
    BY <1>0, <2>1 DEF ContextInv
  <2>3. ContextInv'
    BY <1>0, <2>1, <2>2 DEF ContextInv
  <2> QED
    BY <1>3, <2>3, ContextChanges DEF Enter
<1>4. CASE Leave
  <2>1. Len(outer) > 1 /\ outer' = SubSeq(outer, 1, Len(outer) - 1) /\ active' = outer[Len(outer)]
    BY <1>4 DEF Leave
  <2>2. outer' \in Seq(Contexts) /\ outer' # <<>> /\ outer'[1] = outer[1] /\ active' \in Contexts
    BY <1>0, <2>1, OuterBlocks DEF ContextInv
  <2>3. ContextInv'
    BY <1>0, <2>1, <2>2 DEF ContextInv
  <2> QED
    BY <1>4, <2>3, ContextChanges DEF Leave
<1>5. CASE End
  <2>1. outer # <<>> /\ active' = ANY /\ outer' = <<>>
    BY <1>0, <1>5 DEF End, InRequest, ContextInv
  <2>2. ContextInv'
    BY <2>1 DEF ContextInv, Contexts
  <2>3. table' = table /\ held' = {} /\ DOMAIN fresh' = {} /\ DOMAIN asked' = {} /\ outside' = {}
    BY <1>5 DEF End
  <2> QED
    BY <1>0, <2>2, <2>3 DEF ScopeInv, HeldInv
<1>6. CASE Flush
  <2>1. DOMAIN table' = DOMAIN table \union DOMAIN fresh /\ \A r \in DOMAIN table : table'[r] = table[r]
    BY <1>0, <1>6 DEF Flush, Flushed, HeldInv
  <2>2. held' = held \union DOMAIN fresh /\ DOMAIN fresh' = {} /\ asked' = asked /\ Use({}) /\ UNCHANGED context
    BY <1>6 DEF Flush
  <2> QED
    BY <1>0, <2>1, <2>2, WritesKeep DEF HeldInv
<1>7. CASE Select
  <2> DEFINE rows == Scope(DOMAIN table)
  <2>1. Use(rows) /\ held' = held \union rows /\ UNCHANGED <<context, table, fresh, asked>>
    BY <1>7 DEF Select
  <2>2. \A r \in rows : r \in DOMAIN table /\ InCompany(active, table[r].company)
    BY DEF Scope
  <2> HIDE DEF rows
  <2> QED
    BY <2>1, <2>2, ReadsKeep DEF Use
<1>8. CASE BulkChange
  <2> DEFINE rows == Scope(DOMAIN table)
  <2>1. Use(rows) /\ held' = held /\ UNCHANGED <<context, table, fresh, asked>>
    BY <1>8 DEF BulkChange, session
  <2>2. \A r \in rows : r \in DOMAIN table /\ InCompany(active, table[r].company)
    BY DEF Scope
  <2> HIDE DEF rows
  <2> QED
    BY <2>1, <2>2, ReadsKeep DEF Use
<1>9. ASSUME NEW r \in Rows, Get(r) PROVE ScopeInv'
  <2> DEFINE rows == IF r \in held THEN {r} ELSE Scope({r} \intersect DOMAIN table)
  <2>1. Use(rows) /\ held' = held \union rows /\ UNCHANGED <<context, table, fresh, asked>>
    BY <1>9 DEF Get
  <2>2. \A q \in rows \ held : q \in DOMAIN table /\ InCompany(active, table[q].company)
    BY DEF Scope
  <2> HIDE DEF rows
  <2> QED
    BY <2>1, <2>2, ReadsKeep DEF Use
<1>10. ASSUME NEW r \in Rows, Change(r) PROVE ScopeInv'
  BY <1>10, ReadsKeep DEF Change, session, Use
<1>11. ASSUME NEW r \in Rows, AddByHand(r) PROVE ScopeInv'
  <2>1. PICK company \in Spaces :
           Add(r, [org |-> Ours, company |-> company, deleted |-> FALSE], Meant(company, active))
    BY <1>11 DEF AddByHand
  <2>2. /\ DOMAIN fresh' = DOMAIN fresh \union {r} /\ DOMAIN asked' = DOMAIN asked \union {r}
        /\ r \notin DOMAIN table /\ Use({}) /\ UNCHANGED <<context, table, held>>
    BY <1>11, <2>1, WithAdds DEF Add, AddByHand, New
  <2> QED
    BY <1>0, <2>2, WritesKeep DEF HeldInv
<1>12. ASSUME NEW r \in Rows, RepoCreate(r) PROVE ScopeInv'
  <2>1. PICK row, space : table' = With(table, r, row) /\ asked' = With(asked, r, space)
    BY <1>12 DEF RepoCreate
  <2>2. r \notin DOMAIN table \union DOMAIN fresh /\ held' = held \union {r} /\ Use({}) /\ UNCHANGED <<context, fresh>>
    BY <1>12 DEF RepoCreate, New
  <2>3. /\ DOMAIN table' = DOMAIN table \union {r} /\ DOMAIN asked' = DOMAIN asked \union {r}
        /\ \A q \in DOMAIN table : table'[q] = table[q]
    <3>1. DOMAIN With(table, r, row) = DOMAIN table \union {r} /\ DOMAIN With(asked, r, space) = DOMAIN asked \union {r}
      BY WithAdds
    <3>2. \A q \in DOMAIN table : q # r => With(table, r, row)[q] = table[q]
      BY DEF With
    <3> QED
      BY <2>1, <2>2, <3>1, <3>2
  <2> QED
    BY <1>0, <2>2, <2>3, WritesKeep DEF HeldInv
<1>13. ASSUME NEW r \in Rows, LoadRelated(r) PROVE ScopeInv'
  <2> DEFINE rows == {q \in DOMAIN table : RecordOf[q] = RecordOf[r]}
  <2>1. UsePast(rows) /\ held' = held \union rows /\ UNCHANGED <<context, table, fresh, asked>>
    BY <1>13 DEF LoadRelated
  <2>2. \A q \in rows : q \in DOMAIN table
    OBVIOUS
  <2> HIDE DEF rows
  <2> QED
    BY <2>1, <2>2, ReadsKeep DEF UsePast
<1>14. CASE MakeRepo
  BY <1>14, ReadsKeep DEF MakeRepo, Use
<1>15. CASE RepoList
  <2> DEFINE rows == Scope(BaseQuery)
  <2>1. Use(rows) /\ held' = held \union rows /\ UNCHANGED <<context, table, fresh, asked>>
    BY <1>15 DEF RepoList
  <2>2. \A q \in rows : q \in DOMAIN table /\ InCompany(active, table[q].company)
    BY DEF Scope, BaseQuery
  <2> HIDE DEF rows
  <2> QED
    BY <2>1, <2>2, ReadsKeep DEF Use
<1>16. CASE AdminList
  <2>1. PICK S \in SUBSET DOMAIN table : Use(Scope(S)) /\ held' = held \union Scope(S)
    <3>1. PICK deleted \in BOOLEAN, orgs \in {{Ours}, {table[r].org : r \in DOMAIN table}} :
             LET rows == Scope({r \in DOMAIN table : table[r].org \in orgs /\ (deleted \/ ~table[r].deleted)})
             IN Use(rows) /\ held' = held \union rows
      BY <1>16 DEF AdminList
    <3>2. {r \in DOMAIN table : table[r].org \in orgs /\ (deleted \/ ~table[r].deleted)} \in SUBSET DOMAIN table
      OBVIOUS
    <3> QED
      BY <3>1, <3>2
  <2>2. \A q \in Scope(S) : q \in DOMAIN table /\ InCompany(active, table[q].company)
    BY DEF Scope
  <2> QED
    BY <1>16, <2>1, <2>2, ReadsKeep DEF AdminList, Use
<1>17. CASE CallService
  <2>1. FromHeader(Header(active)) = active
    BY <1>0, CompaniesAssumption DEF ContextInv, Contexts, Spaces, Org, ANY, Header, FromHeader
  <2>2. outside' = {} /\ UNCHANGED <<context, table, session, first, moved, past, asked>>
    BY <1>17, <2>1 DEF CallService, Outside
  <2> QED
    BY <1>0, <2>2, ContextStays, ContextChanges
<1>19. CASE Unreached
  <2> DEFINE rows == DOMAIN table
  <2>1. /\ UsePast(rows) /\ held' \subseteq held \union rows /\ UNCHANGED <<context, table, fresh, asked>>
        /\ \A q \in rows : q \in DOMAIN table
    BY <1>19 DEF Unreached
  <2> HIDE DEF rows
  <2> QED
    BY <2>1, ReadsKeep DEF UsePast
<1>18. CASE UNCHANGED tenancyVars
  BY <1>0, <1>18, ContextStays DEF tenancyVars, context, session, uses, ScopeInv, HeldInv
<1> QED
  BY <1>1, <1>2, <1>3, <1>4, <1>5, <1>6, <1>7, <1>8, <1>9, <1>10, <1>11, <1>12, <1>13, <1>14,
     <1>15, <1>16, <1>17, <1>18, <1>19 DEF TenancyNext

\* An operation reaches a row outside the active company only in a session that
\* was used under another one before, or that got this row past the scope; and no
\* company outlives its request.
THEOREM CompaniesKeepTheirRows == TenancySpec => []RowsStayInCompany
<1>1. ScopeInv => RowsStayInCompany
  BY DEF ScopeInv, ContextInv, RowsStayInCompany, InRequest
<1> QED
  BY <1>1, InitScopeInv, NextScopeInv, PTL DEF TenancySpec

\* A new row fits what was meant for it, if the session is used under space only.
Fits(company, meant, space) ==
    IF meant.named THEN company \in Companies /\ meant.space = company
    ELSE company = Org /\ meant.space = IF space \in Companies THEN space ELSE Org

\* The rows not flushed yet and the repository are of the company the session is
\* used under, or it has moved since; a row that names its company fits anyway.
FiledInv ==
    /\ FiledWhereMeant
    /\ repo.made => repo.company \in Contexts /\ first # "none" /\ (moved \/ repo.company = first)
    /\ \A r \in DOMAIN fresh :
          /\ fresh[r] \in Columns /\ first # "none"
          /\ Fits(fresh[r].company, asked[r], first) \/ (moved /\ ~asked[r].named)

\* What a use of the session does to its history.
LEMMA ReachGoesOn ==
    ASSUME NEW rows, active \in Contexts, Reach(rows)
    PROVE  /\ first' # "none" /\ (first # "none" => first' = first)
           /\ moved => moved'
           /\ ~moved' => first' = active
BY CompaniesAssumption DEF Reach, Contexts, Spaces, Org, ANY

\* Stamping keeps a row that names its company, and files another one under the
\* company the session is used under.
LEMMA StampedFits ==
    ASSUME NEW row \in Columns, NEW meant, Fits(row.company, meant, active)
    PROVE  Stamped(row).company = meant.space
BY CompaniesAssumption DEF Columns, Stamped, Fits, Org

\* A row that names its company fits under any.
LEMMA NamedFits ==
    ASSUME NEW row \in Columns, NEW meant, NEW space, Fits(row.company, meant, space), meant.named
    PROVE  Stamped(row).company = meant.space
BY CompaniesAssumption DEF Columns, Stamped, Fits, Org

\* What is meant for a row fits it while the session stays where it is.
LEMMA MeantFits ==
    ASSUME NEW company \in Spaces, NEW space \in Contexts
    PROVE  Fits(company, Meant(company, space), space)
BY CompaniesAssumption DEF Fits, Meant, Contexts, Spaces, Org, ANY

LEMMA InitFiledInv == TenancyInit => FiledInv
<1> SUFFICES ASSUME TenancyInit PROVE FiledInv
  OBVIOUS
<1>1. DOMAIN fresh = {} /\ DOMAIN asked = {} /\ ~repo.made
  BY DEF TenancyInit, NoRepo
<1> QED
  BY <1>1 DEF FiledInv, FiledWhereMeant

\* A use that makes no row and no repository.
LEMMA UsesKeepFiled ==
    ASSUME FiledInv, active \in Contexts, NEW rows, Reach(rows), UNCHANGED <<table, fresh, repo, asked>>
    PROVE  FiledInv'
<1>1. FiledWhereMeant'
  BY ReachGoesOn DEF FiledInv, FiledWhereMeant
<1> QED
  BY <1>1, ReachGoesOn DEF FiledInv

LEMMA NextFiledInv == ScopeInv /\ FiledInv /\ [TenancyNext]_tenancyVars => FiledInv'
<1> SUFFICES ASSUME ScopeInv, FiledInv, [TenancyNext]_tenancyVars PROVE FiledInv'
  OBVIOUS
<1>0. /\ active \in Contexts /\ FiledWhereMeant
      /\ DOMAIN fresh \subseteq DOMAIN asked /\ DOMAIN fresh \intersect DOMAIN table = {}
  BY DEF ScopeInv, ContextInv, HeldInv, FiledInv
<1>1. CASE Begin \/ SignedIn \/ Enter \/ Leave \/ CallService \/ UNCHANGED tenancyVars
  <2>1. UNCHANGED <<table, fresh, repo, asked, first, moved>>
    BY <1>1 DEF Begin, SignedIn, Enter, Leave, CallService, tenancyVars, session, uses
  <2> QED
    BY <2>1 DEF FiledInv, FiledWhereMeant
<1>2. CASE Unreached \/ Select \/ BulkChange \/ RepoList \/ AdminList
           \/ \E r \in Rows : Get(r) \/ Change(r) \/ LoadRelated(r)
  <2>1. UNCHANGED <<table, fresh, repo, asked>>
    BY <1>2 DEF Unreached, UsePast, Use, Select, BulkChange, RepoList, AdminList, Get, Change, LoadRelated, session
  <2>2. \E rows : Reach(rows)
    BY <1>2 DEF Unreached, UsePast, Use, Select, BulkChange, RepoList, AdminList, Get, Change, LoadRelated
  <2> QED
    BY <1>0, <2>1, <2>2, UsesKeepFiled
<1>3. CASE MakeRepo
  <2>1. repo' = [made |-> TRUE, company |-> active] /\ Reach({}) /\ UNCHANGED <<table, fresh, asked>>
    BY <1>3 DEF MakeRepo, Use
  <2>2. FiledWhereMeant'
    BY <1>0, <2>1, ReachGoesOn DEF FiledWhereMeant
  <2> QED
    BY <1>0, <2>1, <2>2, ReachGoesOn DEF FiledInv
<1>4. CASE End
  <2>1. DOMAIN fresh' = {} /\ DOMAIN asked' = {} /\ ~repo'.made
    BY <1>4 DEF End, NoRepo
  <2> QED
    BY <2>1 DEF FiledInv, FiledWhereMeant
<1>5. CASE Flush
  <2>1. /\ table' = Flushed /\ DOMAIN fresh' = {} /\ Reach({}) /\ UNCHANGED <<repo, asked>>
    BY <1>5 DEF Flush, Use
  <2>2. ASSUME NEW r \in DOMAIN asked' \intersect DOMAIN table'
        PROVE  table'[r].company = asked'[r].space \/ (moved' /\ ~asked'[r].named)
    <3>1. CASE r \in DOMAIN fresh
      <4>1. table'[r] = Stamped(fresh[r]) /\ asked'[r] = asked[r]
        BY <2>1, <3>1 DEF Flushed
      <4>2. /\ fresh[r] \in Columns /\ first # "none"
            /\ Fits(fresh[r].company, asked[r], first) \/ (moved /\ ~asked[r].named)
        BY <3>1 DEF FiledInv
      <4>3. (moved => moved') /\ (~moved' => first = active)
        BY <1>0, <2>1, <4>2, ReachGoesOn
      <4>4. CASE Fits(fresh[r].company, asked[r], first) /\ (asked[r].named \/ ~moved')
        BY <4>1, <4>2, <4>3, <4>4, StampedFits, NamedFits
      <4> QED
        BY <4>1, <4>2, <4>3, <4>4
    <3>2. CASE r \notin DOMAIN fresh
      <4>1. r \in DOMAIN table /\ table'[r] = table[r] /\ asked' = asked
        BY <2>1, <2>2, <3>2 DEF Flushed
      <4> QED
        BY <1>0, <2>1, <2>2, <4>1, ReachGoesOn DEF FiledWhereMeant
    <3> QED
      BY <3>1, <3>2
  <2>3. FiledWhereMeant'
    BY <2>2 DEF FiledWhereMeant
  <2> QED
    BY <1>0, <2>1, <2>3, ReachGoesOn DEF FiledInv
<1>6. ASSUME NEW r \in Rows, AddByHand(r) PROVE FiledInv'
  <2>1. PICK company \in Spaces :
           Add(r, [org |-> Ours, company |-> company, deleted |-> FALSE], Meant(company, active))
    BY <1>6 DEF AddByHand
  <2> DEFINE row == [org |-> Ours, company |-> company, deleted |-> FALSE]
             meant == Meant(company, active)
  <2>2. /\ r \notin DOMAIN table \union DOMAIN fresh /\ Reach({}) /\ UNCHANGED <<table, repo>>
        /\ fresh' = With(fresh, r, row) /\ asked' = With(asked, r, meant)
    BY <1>6, <2>1 DEF AddByHand, New, Add, Use
  <2>3. row \in Columns /\ row.company = company /\ Fits(company, meant, active)
    BY <1>0, MeantFits DEF Columns
  <2> HIDE DEF row, meant
  <2>4. \A q \in DOMAIN asked : q # r => asked'[q] = asked[q]
    BY <2>2 DEF With
  <2>5. \A q \in DOMAIN fresh : fresh'[q] = fresh[q]
    BY <2>2 DEF With
  <2>6. /\ DOMAIN fresh' = DOMAIN fresh \union {r} /\ DOMAIN asked' = DOMAIN asked \union {r}
        /\ fresh'[r] = row /\ asked'[r] = meant
    BY <2>2 DEF With
  <2>7. FiledWhereMeant'
    BY <1>0, <2>2, <2>4, <2>6, ReachGoesOn DEF FiledWhereMeant
  <2>8. /\ first' # "none" /\ (first # "none" => first' = first) /\ (moved => moved')
        /\ (moved' \/ first' = active)
    BY <1>0, <2>2, ReachGoesOn
  <2>9. Fits(row.company, meant, first') \/ (moved' /\ ~meant.named)
    BY <2>3, <2>8 DEF Fits
  <2>10. ASSUME NEW q \in DOMAIN fresh'
         PROVE  /\ fresh'[q] \in Columns
                /\ Fits(fresh'[q].company, asked'[q], first') \/ (moved' /\ ~asked'[q].named)
    <3>1. CASE q = r
      BY <2>3, <2>6, <2>9, <3>1
    <3>2. CASE q # r
      <4>1. q \in DOMAIN fresh /\ fresh'[q] = fresh[q] /\ asked'[q] = asked[q]
        BY <1>0, <2>4, <2>5, <2>6, <3>2
      <4> QED
        BY <2>8, <4>1 DEF FiledInv
    <3> QED
      BY <3>1, <3>2
  <2>11. repo'.made => repo'.company \in Contexts /\ first' # "none" /\ (moved' \/ repo'.company = first')
    BY <2>2, <2>8 DEF FiledInv
  <2> QED
    BY <2>7, <2>8, <2>10, <2>11 DEF FiledInv
<1>7. ASSUME NEW r \in Rows, RepoCreate(r) PROVE FiledInv'
  <2>1. PICK company \in Spaces :
          LET row == [org |-> Ours, company |-> CreateIn(company), deleted |-> FALSE]
              space == IF repo.company # ANY THEN Meant(repo.company, repo.company) ELSE Meant(company, active)
          IN /\ table' = With(table, r, Stamped(row))
             /\ asked' = With(asked, r, space)
    BY <1>7 DEF RepoCreate
  <2> DEFINE row == [org |-> Ours, company |-> CreateIn(company), deleted |-> FALSE]
             meant == IF repo.company # ANY THEN Meant(repo.company, repo.company) ELSE Meant(company, active)
  <2>2. /\ r \notin DOMAIN table \union DOMAIN fresh /\ DOMAIN fresh' = {} /\ Reach({}) /\ UNCHANGED repo
        /\ repo.made /\ table' = With(table, r, Stamped(row)) /\ asked' = With(asked, r, meant)
    BY <1>7, <2>1 DEF RepoCreate, New, Use
  <2>3. repo.company \in Contexts /\ (moved \/ repo.company = first) /\ first # "none"
    BY <2>2 DEF FiledInv
  <2>4. (moved => moved') /\ (moved' \/ first = active) /\ first' = first
    BY <1>0, <2>2, <2>3, ReachGoesOn
  <2>5. row \in Columns /\ row.company = CreateIn(company)
    BY <2>3 DEF Columns, CreateIn, Contexts, ANY
  <2>6. Stamped(row).company = meant.space \/ (moved' /\ ~meant.named)
    <3>1. CASE repo.company = ANY
      <4>1. Fits(row.company, meant, active)
        BY <1>0, <2>5, <3>1, MeantFits DEF CreateIn
      <4> HIDE DEF row, meant
      <4> QED
        BY <2>5, <4>1, StampedFits
    <3>2. CASE repo.company # ANY
      <4>1. repo.company \in Spaces /\ row.company = repo.company /\ meant = Meant(repo.company, repo.company)
        BY <2>3, <2>5, <3>2 DEF CreateIn, Contexts
      <4>2. Fits(row.company, meant, repo.company)
        BY <2>3, <4>1, MeantFits
      <4> HIDE DEF row, meant
      <4>3. CASE meant.named
        BY <2>5, <4>2, <4>3, NamedFits
      <4>4. CASE ~moved'
        BY <2>3, <2>4, <2>5, <4>2, <4>4, StampedFits
      <4> QED
        BY <4>3, <4>4
    <3> QED
      BY <3>1, <3>2
  <2> HIDE DEF row, meant
  <2>7. /\ DOMAIN table' = DOMAIN table \union {r} /\ DOMAIN asked' = DOMAIN asked \union {r}
        /\ table'[r] = Stamped(row) /\ asked'[r] = meant
    BY <2>2 DEF With
  <2>8. /\ \A q \in DOMAIN asked : q # r => asked'[q] = asked[q]
        /\ \A q \in DOMAIN table : q # r => table'[q] = table[q]
    BY <2>2 DEF With
  <2>9. FiledWhereMeant'
    BY <1>0, <2>4, <2>6, <2>7, <2>8 DEF FiledWhereMeant
  <2> QED
    BY <2>2, <2>3, <2>4, <2>9 DEF FiledInv
<1> QED
  BY <1>1, <1>2, <1>3, <1>4, <1>5, <1>6, <1>7 DEF TenancyNext

\* A new row is filed in the company it names; one that names none, where it was
\* meant to be unless the session was used under more than one.
THEOREM RowsAreFiledWhereMeant == TenancySpec => []FiledWhereMeant
<1>1. FiledInv => FiledWhereMeant
  BY DEF FiledInv
<1> QED
  BY <1>1, InitScopeInv, NextScopeInv, InitFiledInv, NextFiledInv, PTL DEF TenancySpec

-----------------------------------------------------------------------------
(* TokenState. *)

Tokens == [claims : Claims, iat : Nat \ {0}, rv : Nat, revoked : Nat, stale : Nat]
Slots == {"held", "pending", "gone"}
Answers == {"none", "invalid", "admitted", "org_type_not_allowed", "token_revoked", "token_stale",
            "device_approval_pending", "session_superseded", "role_changed"}
Requests == [step : {"org_type", "read", "done"}, guard : Guards, token : Tokens, got : Seq(Nat \union BOOLEAN),
             asked : BOOLEAN, approved : BOOLEAN, before : [slot : Slots, version : Nat], answer : Answers]

TokenTypeOK ==
    /\ second \in Nat \ {0} /\ revokedAt \in 0 .. second /\ staleAt \in 0 .. second
    /\ slot \in Slots /\ version \in Nat
    /\ token \in Tokens \union {NoToken}
    /\ request \in Requests \union {NoRequest}

\* The token lost a right with the last mark of that kind, or that mark is none
\* set after the token was minted.
MarkFits(mark, lost) == lost \in {0, mark} /\ (IF lost = 0 THEN mark <= token.iat ELSE token.iat <= lost)

TokenFits ==
    token # NoToken =>
        /\ token.iat <= second /\ token.rv <= version
        /\ MarkFits(revokedAt, token.revoked) /\ MarkFits(staleAt, token.stale)

\* The request's token is the one the client holds, as it was when the request came.
Snapshot(t) ==
    /\ token # NoToken /\ t.claims = token.claims /\ t.iat = token.iat /\ t.rv = token.rv
    /\ t.revoked # 0 => t.iat <= t.revoked /\ t.revoked <= revokedAt
    /\ t.stale # 0 => t.iat <= t.stale /\ t.stale <= staleAt
    /\ t.rv <= request.before.version /\ request.before.version <= version

SlotFits ==
    /\ slot = "held" => request.before.slot = "held" \/ request.approved
    /\ slot = "pending" => request.before.slot = "pending"

\* What the pipeline has read so far.
MarkRead(mark, lost, now) ==
    /\ mark \in 0 .. second /\ lost <= mark
    /\ mark > request.token.iat => mark <= now
HeldRead(holds) ==
    /\ holds \in BOOLEAN
    /\ IF holds = TRUE THEN request.before.slot = "held" \/ request.approved
       ELSE request.token.claims.sid => slot \in {"gone", "pending"} \/ request.approved
PendingRead(holds, pending) ==
    /\ pending \in BOOLEAN
    /\ IF pending = TRUE THEN request.before.slot = "pending"
       ELSE request.token.claims.sid /\ holds # TRUE => slot = "gone" \/ request.approved
VersionRead(read) == read \in Nat /\ request.before.version <= read /\ read <= version

GotFits(t, got) ==
    /\ Len(got) <= Commands
    /\ Len(got) >= 1 => MarkRead(got[1], t.revoked, token.revoked)
    /\ Len(got) >= 2 => MarkRead(got[2], t.stale, token.stale)
    /\ Len(got) >= 3 => HeldRead(got[3])
    /\ Len(got) >= 4 => PendingRead(got[3], got[4])
    /\ Len(got) >= 5 => VersionRead(got[5])

RequestFits ==
    request # NoRequest =>
        /\ Snapshot(request.token)
        /\ request.step \in {"org_type", "read"} =>
             request.token.claims.kind = "access" /\ SlotFits /\ request.answer = "none" /\ ~request.asked
        /\ request.step = "org_type" => Len(request.got) = 0
        /\ request.step = "read" => request.token.claims.allowed /\ GotFits(request.token, request.got)

TokenInv == TokenTypeOK /\ TokenFits /\ RequestFits /\ RightsAreLive /\ RefusalsHaveCause

LEMMA ClaimsTyped ==
    ASSUME NEW claims \in Claims
    PROVE  claims.kind \in Kinds /\ claims.sid \in BOOLEAN /\ claims.role \in BOOLEAN /\ claims.allowed \in BOOLEAN
<1>1. CASE \E sid, role \in BOOLEAN : claims = [kind |-> "access", sid |-> sid, role |-> role, allowed |-> TRUE]
  <2>1. PICK sid \in BOOLEAN, role \in BOOLEAN : claims = [kind |-> "access", sid |-> sid, role |-> role, allowed |-> TRUE]
    BY <1>1, Zenon
  <2>2. claims.kind = "access" /\ claims.sid = sid /\ claims.role = role /\ claims.allowed = TRUE
    BY <2>1, Zenon
  <2> QED
    BY <2>2, Zenon DEF Kinds
<1>2. CASE \E kind \in Kinds : claims = [kind |-> kind, sid |-> FALSE, role |-> FALSE, allowed |-> kind # "access"]
  <2>1. PICK kind \in Kinds : claims = [kind |-> kind, sid |-> FALSE, role |-> FALSE, allowed |-> kind # "access"]
    BY <1>2, Zenon
  <2>2. claims.kind = kind /\ claims.sid = FALSE /\ claims.role = FALSE /\ claims.allowed = (kind # "access")
    BY <2>1, Zenon
  <2> QED
    BY <2>2, Zenon DEF Kinds
<1>3. \/ \E sid, role \in BOOLEAN : claims = [kind |-> "access", sid |-> sid, role |-> role, allowed |-> TRUE]
      \/ \E kind \in Kinds : claims = [kind |-> kind, sid |-> FALSE, role |-> FALSE, allowed |-> kind # "access"]
  BY SMT DEF Claims
<1> QED
  BY <1>1, <1>2, <1>3

LEMMA MintedTyped ==
    ASSUME TokenTypeOK, NEW claims \in Claims
    PROVE  /\ Minted(claims) \in Tokens
           /\ Minted(claims).iat = second /\ Minted(claims).rv = version
           /\ Minted(claims).revoked = 0 /\ Minted(claims).stale = 0
BY DEF Minted, Tokens, TokenTypeOK

\* A token and a request there is are not the ones that stand for none.
LEMMA NoneOfThem == NoToken \notin Tokens /\ NoRequest \notin Requests /\ NoRequest.step = "none"
BY DEF NoToken, Tokens, NoRequest, Requests

LEMMA AnsweredTyped ==
    ASSUME request \in Requests, NEW verdict \in Answers
    PROVE  /\ Answered(verdict) \in Requests /\ Answered(verdict).step = "done" /\ Answered(verdict).answer = verdict
           /\ Answered(verdict).token = request.token /\ Answered(verdict).before = request.before
           /\ Answered(verdict).asked = request.asked /\ Answered(verdict).approved = request.approved
BY DEF Answered, Requests

\* A step that only lets time, the marks and the role's version go on and takes
\* the slot away leaves a request what it is owed.
LEMMA AccountMovesOn ==
    ASSUME TokenInv, TokenTypeOK', request' = request,
           token' = token \/ (token # NoToken /\ token'.claims = token.claims /\ token'.iat = token.iat /\ token'.rv = token.rv
                              /\ token.revoked <= token'.revoked /\ token.stale <= token'.stale /\ token' # NoToken),
           second <= second', revokedAt <= revokedAt', staleAt <= staleAt', version <= version',
           slot' \in {slot, "gone"}
    PROVE  RequestFits' /\ RightsAreLive' /\ RefusalsHaveCause'
<1>1. CASE request = NoRequest
  BY <1>1, NoneOfThem DEF RequestFits, RightsAreLive, RefusalsHaveCause
<1>2. CASE request # NoRequest
  <2>1. /\ request \in Requests /\ request.token \in Tokens /\ token \in Tokens /\ token' \in Tokens
        /\ second \in Nat /\ second' \in Nat /\ revokedAt \in Nat /\ revokedAt' \in Nat /\ staleAt \in Nat /\ staleAt' \in Nat
        /\ version \in Nat /\ version' \in Nat /\ request.before.version \in Nat
        /\ token # NoToken /\ token' # NoToken
    BY <1>2, NoneOfThem DEF TokenInv, TokenTypeOK, RequestFits, Snapshot, Requests
  <2>2. /\ token'.claims = token.claims /\ token'.iat = token.iat /\ token'.rv = token.rv
        /\ token.revoked <= token'.revoked /\ token.stale <= token'.stale
        /\ token.iat \in Nat /\ token.revoked \in Nat /\ token.stale \in Nat /\ token'.revoked \in Nat /\ token'.stale \in Nat
        /\ request.token.iat \in Nat /\ request.token.rv \in Nat /\ request.token.revoked \in Nat /\ request.token.stale \in Nat
    BY <2>1 DEF Tokens
  <2>3. Snapshot(request.token)'
    <3>1. Snapshot(request.token)
      BY <1>2 DEF TokenInv, RequestFits
    <3>2. request.token' = request.token /\ request.before' = request.before
      OBVIOUS
    <3> QED
      BY <2>1, <2>2, <3>1, <3>2 DEF Snapshot
  <2>4. SlotFits => SlotFits'
    BY DEF SlotFits
  <2>5. GotFits(request.token, request.got) => GotFits(request.token, request.got)'
    <3>1. \A mark : /\ MarkRead(mark, request.token.revoked, token.revoked) => MarkRead(mark, request.token.revoked, token.revoked)'
                    /\ MarkRead(mark, request.token.stale, token.stale) => MarkRead(mark, request.token.stale, token.stale)'
      BY <2>1, <2>2 DEF MarkRead
    <3>2. /\ \A holds : HeldRead(holds) => HeldRead(holds)'
          /\ \A holds, pending : PendingRead(holds, pending) => PendingRead(holds, pending)'
      BY DEF HeldRead, PendingRead
    <3>3. \A read : VersionRead(read) => VersionRead(read)'
      BY <2>1 DEF VersionRead
    <3>4. Commands' = Commands
      BY DEF Commands
    <3>5. PICK t, g : t = request.token /\ g = request.got
      OBVIOUS
    <3>6. /\ MarkRead(g[1], t.revoked, token.revoked) => MarkRead(g[1], t.revoked, token.revoked)'
          /\ MarkRead(g[2], t.stale, token.stale) => MarkRead(g[2], t.stale, token.stale)'
      BY <3>1, <3>5
    <3>7. (HeldRead(g[3]) => HeldRead(g[3])') /\ (PendingRead(g[3], g[4]) => PendingRead(g[3], g[4])')
      BY <3>2
    <3>8. VersionRead(g[5]) => VersionRead(g[5])'
      BY <3>3
    <3>9. GotFits(t, g) => GotFits(t, g)'
      BY <3>4, <3>6, <3>7, <3>8 DEF GotFits
    <3> QED
      BY <3>5, <3>9 DEF GotFits
  <2>6. RequestFits'
    BY <1>2, <2>3, <2>4, <2>5 DEF TokenInv, RequestFits
  <2>7. RightsAreLive'
    BY DEF TokenInv, RightsAreLive
  <2>8. RefusalsHaveCause'
    BY <2>1, <2>2 DEF TokenInv, RefusalsHaveCause
  <2> QED
    BY <2>6, <2>7, <2>8
<1> QED
  BY <1>1, <1>2

\* A sign-in or a refresh mints a token nothing has been taken from, and ends
\* the request.
LEMMA MintingKeepsTokenInv ==
    ASSUME TokenInv, NEW claims \in Claims, token' = Minted(claims), request' = NoRequest, slot' \in Slots,
           UNCHANGED <<second, revokedAt, staleAt, version>>
    PROVE  TokenInv'
<1>1. /\ token' \in Tokens /\ token'.iat = second /\ token'.rv = version /\ token'.revoked = 0 /\ token'.stale = 0
  BY MintedTyped DEF TokenInv
<1>2. TokenTypeOK'
  BY <1>1 DEF TokenInv, TokenTypeOK
<1>3. TokenFits'
  BY <1>1 DEF TokenInv, TokenTypeOK, TokenFits, MarkFits
<1> QED
  BY <1>2, <1>3, NoneOfThem DEF TokenInv, RequestFits, RightsAreLive, RefusalsHaveCause

\* The auth service, time and Redis.
LEMMA AuthServiceKeepsTokenInv ==
    ASSUME TokenInv,
           SignIn \/ Refresh \/ Revoke \/ MarkStale \/ Approve \/ Displace \/ ChangeRole \/ SecondPasses \/ RedisTurns
    PROVE  TokenInv'
<1>0. /\ TokenTypeOK /\ second \in Nat \ {0} /\ version \in Nat /\ revokedAt \in 0 .. second /\ staleAt \in 0 .. second
      /\ slot \in Slots /\ token \in Tokens \union {NoToken} /\ request \in Requests \union {NoRequest}
  BY DEF TokenInv, TokenTypeOK
<1>t. token \in Tokens => /\ token # NoToken /\ token.iat \in Nat \ {0} /\ token.rv \in Nat /\ token.revoked \in Nat
                          /\ token.stale \in Nat /\ token.claims \in Claims
  BY NoneOfThem DEF Tokens
<1>1. CASE SignIn
  <2>1. PICK claims \in Claims : token' = Minted(claims)
    BY <1>1 DEF SignIn
  <2> QED
    BY <1>1, <2>1, MintingKeepsTokenInv DEF SignIn, Slots
<1>2. CASE Refresh
  <2>1. token.claims \in Claims /\ token' = Minted(token.claims)
    BY <1>0, <1>2, <1>t DEF Refresh
  <2> QED
    BY <1>0, <1>2, <2>1, MintingKeepsTokenInv DEF Refresh, account
<1>3. CASE Revoke
  <2>1. CASE token = NoToken
    <3>1. /\ token' = token /\ request' = request /\ UNCHANGED <<second, staleAt, slot, version>> /\ revokedAt' = second
      BY <1>3, <2>1 DEF Revoke
    <3>2. TokenTypeOK' /\ TokenFits'
      BY <1>0, <2>1, <3>1 DEF TokenTypeOK, TokenFits
    <3> QED
      BY <1>0, <3>1, <3>2, AccountMovesOn DEF TokenInv
  <2>2. CASE token # NoToken
    <3>1. /\ token' = [token EXCEPT !.revoked = second] /\ request' = request /\ UNCHANGED <<second, staleAt, slot, version>>
          /\ revokedAt' = second
      BY <1>3, <2>2 DEF Revoke
    <3>2. token \in Tokens
      BY <1>0, <2>2
    <3>3. /\ token' \in Tokens /\ token'.claims = token.claims /\ token'.iat = token.iat /\ token'.rv = token.rv
          /\ token'.revoked = second /\ token'.stale = token.stale /\ token' # NoToken
      BY <1>0, <3>1, <3>2, NoneOfThem DEF Tokens
    <3>4. TokenTypeOK'
      BY <1>0, <3>1, <3>3 DEF TokenTypeOK
    <3>5. TokenFits' /\ token.revoked <= second
      BY <1>0, <1>t, <2>2, <3>1, <3>2, <3>3 DEF TokenInv, TokenFits, MarkFits
    <3> QED
      BY <1>0, <1>t, <2>2, <3>1, <3>2, <3>3, <3>4, <3>5, AccountMovesOn DEF TokenInv
  <2> QED
    BY <2>1, <2>2
<1>4. CASE MarkStale
  <2>1. CASE token = NoToken
    <3>1. /\ token' = token /\ request' = request /\ UNCHANGED <<second, revokedAt, slot, version>> /\ staleAt' = second
      BY <1>4, <2>1 DEF MarkStale
    <3>2. TokenTypeOK' /\ TokenFits'
      BY <1>0, <2>1, <3>1 DEF TokenTypeOK, TokenFits
    <3> QED
      BY <1>0, <3>1, <3>2, AccountMovesOn DEF TokenInv
  <2>2. CASE token # NoToken
    <3>1. /\ token' = [token EXCEPT !.stale = second] /\ request' = request /\ UNCHANGED <<second, revokedAt, slot, version>>
          /\ staleAt' = second
      BY <1>4, <2>2 DEF MarkStale
    <3>2. token \in Tokens
      BY <1>0, <2>2
    <3>3. /\ token' \in Tokens /\ token'.claims = token.claims /\ token'.iat = token.iat /\ token'.rv = token.rv
          /\ token'.stale = second /\ token'.revoked = token.revoked /\ token' # NoToken
      BY <1>0, <3>1, <3>2, NoneOfThem DEF Tokens
    <3>4. TokenTypeOK'
      BY <1>0, <3>1, <3>3 DEF TokenTypeOK
    <3>5. TokenFits' /\ token.stale <= second
      BY <1>0, <1>t, <2>2, <3>1, <3>2, <3>3 DEF TokenInv, TokenFits, MarkFits
    <3> QED
      BY <1>0, <1>t, <2>2, <3>1, <3>2, <3>3, <3>4, <3>5, AccountMovesOn DEF TokenInv
  <2> QED
    BY <2>1, <2>2
<1>5. CASE Approve
  <2>1. /\ slot = "pending" /\ slot' = "held" /\ UNCHANGED <<second, revokedAt, staleAt, version, token>>
    BY <1>5 DEF Approve
  <2>2. TokenFits'
    BY <2>1 DEF TokenInv, TokenFits, MarkFits
  <2>3. CASE Idle
    <3>1. request' = request /\ request.step \in {"none", "done"}
      BY <1>5, <2>3 DEF Approve, Idle
    <3>2. TokenTypeOK'
      BY <1>0, <2>1, <3>1 DEF TokenTypeOK, Slots
    <3>3. RequestFits'
      BY <2>1, <3>1 DEF TokenInv, RequestFits, Snapshot
    <3>4. RightsAreLive' /\ RefusalsHaveCause'
      BY <2>1, <3>1 DEF TokenInv, RightsAreLive, RefusalsHaveCause
    <3> QED
      BY <2>2, <3>2, <3>3, <3>4 DEF TokenInv
  <2>4. CASE ~Idle
    <3>1. request' = [request EXCEPT !.approved = TRUE] /\ request.step \notin {"none", "done"}
      BY <1>5, <2>4 DEF Approve, Idle
    <3>2. request \in Requests
      BY <1>0, <3>1, NoneOfThem
    <3>3. /\ request' \in Requests /\ request'.step = request.step /\ request'.token = request.token
          /\ request'.got = request.got /\ request'.asked = request.asked /\ request'.approved = TRUE
          /\ request'.before = request.before /\ request'.answer = request.answer
      BY <3>1, <3>2 DEF Requests
    <3>4. request' # NoRequest /\ request # NoRequest
      BY <3>2, <3>3, NoneOfThem
    <3>5. TokenTypeOK'
      BY <1>0, <2>1, <3>3 DEF TokenTypeOK, Slots
    <3>6. Snapshot(request.token)'
      BY <2>1, <3>3, <3>4 DEF TokenInv, RequestFits, Snapshot
    <3>7. SlotFits' /\ Commands' = Commands
      BY <2>1, <3>3 DEF SlotFits, Commands
    <3>8. GotFits(request.token, request.got) => GotFits(request.token, request.got)'
      <4>1. \A mark, lost, now : MarkRead(mark, lost, now) => MarkRead(mark, lost, now)'
        BY <2>1, <3>3 DEF MarkRead
      <4>2. /\ \A holds : HeldRead(holds) => HeldRead(holds)'
            /\ \A holds, pending : PendingRead(holds, pending) => PendingRead(holds, pending)'
        BY <2>1, <3>3 DEF HeldRead, PendingRead
      <4>3. \A read : VersionRead(read) => VersionRead(read)'
        BY <2>1, <3>3 DEF VersionRead
      <4>4. PICK t, g : t = request.token /\ g = request.got
        OBVIOUS
      <4>5. PICK revoked, stale : revoked = token.revoked /\ stale = token.stale
        OBVIOUS
      <4>6. MarkRead(g[1], t.revoked, revoked) => MarkRead(g[1], t.revoked, revoked)'
        BY <4>1
      <4>7. MarkRead(g[2], t.stale, stale) => MarkRead(g[2], t.stale, stale)'
        BY <4>1
      <4>8. (HeldRead(g[3]) => HeldRead(g[3])') /\ (PendingRead(g[3], g[4]) => PendingRead(g[3], g[4])')
        BY <4>2
      <4>9. VersionRead(g[5]) => VersionRead(g[5])'
        BY <4>3
      <4>10. GotFits(t, g) => GotFits(t, g)'
        BY <2>1, <3>7, <4>5, <4>6, <4>7, <4>8, <4>9 DEF GotFits
      <4> QED
        BY <3>3, <4>4, <4>10 DEF GotFits
    <3>9. RequestFits'
      BY <3>3, <3>4, <3>6, <3>7, <3>8 DEF TokenInv, RequestFits
    <3>10. RightsAreLive' /\ RefusalsHaveCause'
      BY <3>1, <3>3 DEF RightsAreLive, RefusalsHaveCause
    <3> QED
      BY <2>2, <3>5, <3>9, <3>10 DEF TokenInv
  <2> QED
    BY <2>3, <2>4
<1>6. CASE Displace \/ ChangeRole \/ SecondPasses \/ RedisTurns
  <2>1. /\ UNCHANGED <<revokedAt, staleAt, token, request>> /\ slot' \in {slot, "gone"}
        /\ second' \in {second, second + 1} /\ version' \in {version, version + 1}
    BY <1>6 DEF Displace, ChangeRole, SecondPasses, RedisTurns, account
  <2>2. TokenTypeOK'
    BY <1>0, <2>1 DEF TokenTypeOK, Slots
  <2>3. TokenFits'
    BY <1>0, <1>t, <2>1 DEF TokenInv, TokenFits, MarkFits
  <2> QED
    BY <1>0, <2>1, <2>2, <2>3, AccountMovesOn DEF TokenInv
<1> QED
  BY <1>1, <1>2, <1>3, <1>4, <1>5, <1>6

\* A user's token is an access token.
LEMMA OnlyAccessTokens ==
    ASSUME NEW kind \in Kinds, Accepts("get_current_user", kind)
    PROVE  kind = "access"
BY DEF Accepts, CurrentUser, Secret, Audience, Type, Kinds

\* A request that is answered: what remains of what it was owed.
LEMMA AnswersKeepTokenInv ==
    ASSUME TokenInv, request \in Requests, NEW verdict \in Answers, NEW hasAsked \in BOOLEAN,
           request' = [Answered(verdict) EXCEPT !.asked = hasAsked], UNCHANGED <<second, account, token>>,
           LET t == request.token IN
           /\ hasAsked /\ verdict = "admitted" =>
                 /\ t.claims.kind = "access" /\ t.claims.allowed
                 /\ t.revoked \in {0, t.iat} /\ t.stale \in {0, t.iat}
                 /\ t.claims.sid => request.before.slot = "held" \/ request.approved
                 /\ t.claims.role => t.rv = request.before.version
           /\ verdict = "token_revoked" => token.revoked > t.iat
           /\ verdict = "token_stale" => token.stale > t.iat
           /\ verdict = "session_superseded" => request.before.slot = "gone" \/ slot = "gone" \/ request.approved
           /\ verdict = "device_approval_pending" => request.before.slot = "pending"
           /\ verdict = "role_changed" => version > t.rv
    PROVE  TokenInv'
<1>1. Answered(verdict) \in Requests
  BY AnsweredTyped
<1>2. /\ request' \in Requests /\ request'.step = "done" /\ request'.answer = verdict /\ request'.asked = hasAsked
      /\ request'.token = request.token /\ request'.before = request.before /\ request'.approved = request.approved
  BY <1>1, AnsweredTyped DEF Requests
<1>3. request # NoRequest /\ request' # NoRequest
  BY <1>2, NoneOfThem
<1>4. TokenTypeOK' /\ TokenFits'
  BY <1>2 DEF TokenInv, TokenTypeOK, TokenFits, MarkFits, account
<1>5. RequestFits'
  BY <1>2, <1>3 DEF TokenInv, RequestFits, Snapshot, account
<1>6. RightsAreLive'
  BY <1>2 DEF RightsAreLive
<1>7. RefusalsHaveCause'
  BY <1>2 DEF RefusalsHaveCause, account
<1> QED
  BY <1>4, <1>5, <1>6, <1>7 DEF TokenInv

\* The reason _enforce_token_state finds, with what was read.
LEMMA VerdictsFit ==
    ASSUME TokenInv, Enforce
    PROVE  TokenInv'
<1> DEFINE t == request.token
           got == request.got
           verdict == Verdict(t, got)
<1>1. request \in Requests /\ request.step = "read" /\ Len(got) = Commands
  BY NoneOfThem DEF Enforce, TokenInv, TokenTypeOK
<1>2. /\ t \in Tokens /\ token \in Tokens /\ second \in Nat /\ revokedAt \in 0 .. second /\ staleAt \in 0 .. second
      /\ version \in Nat /\ request.before.version \in Nat /\ request.before.slot \in Slots /\ slot \in Slots
      /\ Snapshot(t) /\ t.claims.kind = "access" /\ t.claims.allowed /\ GotFits(t, got)
  BY <1>1, NoneOfThem DEF TokenInv, TokenTypeOK, Requests, RequestFits, Snapshot
<1>3. /\ t.iat \in Nat /\ t.iat # 0 /\ t.rv \in Nat /\ t.revoked \in Nat /\ t.stale \in Nat /\ t.claims \in Claims
      /\ token.revoked \in Nat /\ token.stale \in Nat
  BY <1>2 DEF Tokens
<1>4. t.claims.sid \in BOOLEAN /\ t.claims.role \in BOOLEAN
  BY <1>3, ClaimsTyped
<1>5. /\ Len(got) >= 4 /\ (t.claims.role => Len(got) >= 5)
      /\ MarkRead(got[1], t.revoked, token.revoked) /\ MarkRead(got[2], t.stale, token.stale)
      /\ HeldRead(got[3]) /\ PendingRead(got[3], got[4]) /\ (t.claims.role => VersionRead(got[5]))
  BY <1>1, <1>2, <1>4 DEF GotFits, Commands
<1>6. request' = [Answered(verdict) EXCEPT !.asked = TRUE] /\ UNCHANGED <<second, account, token>>
  BY DEF Enforce
<1> DEFINE mark1 == got[1]
           mark2 == got[2]
           holds == got[3] = TRUE
           pending == got[4] = TRUE
           changed == t.claims.role /\ got[5] \notin {0, t.rv}
<1>7. mark1 \in Nat /\ mark2 \in Nat /\ holds \in BOOLEAN /\ pending \in BOOLEAN
  BY <1>2, <1>5 DEF MarkRead
<1>8. /\ got[3] \in BOOLEAN /\ got[4] \in BOOLEAN
  BY <1>5 DEF HeldRead, PendingRead
<1>9. verdict = IF mark1 # 0 /\ t.iat < mark1 THEN "token_revoked"
               ELSE IF mark2 # 0 /\ t.iat < mark2 THEN "token_stale"
               ELSE IF t.claims.sid /\ pending THEN "device_approval_pending"
               ELSE IF t.claims.sid /\ ~holds THEN "session_superseded"
               ELSE IF changed THEN "role_changed"
               ELSE "admitted"
  <2>1. got[3] = holds /\ got[4] = pending
    BY <1>8
  <2> QED
    BY <2>1 DEF Verdict, Older
<1>10. /\ t.revoked <= mark1 /\ (mark1 > t.iat => mark1 <= token.revoked)
       /\ t.stale <= mark2 /\ (mark2 > t.iat => mark2 <= token.stale)
  BY <1>5 DEF MarkRead
<1>11. /\ holds => request.before.slot = "held" \/ request.approved
       /\ pending => request.before.slot = "pending"
       /\ t.claims.sid /\ ~holds /\ ~pending => slot = "gone" \/ request.approved
  BY <1>5 DEF HeldRead, PendingRead
<1>12. /\ changed => version > t.rv
       /\ t.claims.role /\ ~changed => t.rv = request.before.version
  <2>1. ASSUME t.claims.role
        PROVE  /\ got[5] \notin {0, t.rv} => version > t.rv
               /\ got[5] \in {0, t.rv} => t.rv = request.before.version
    <3>1. VersionRead(got[5])
      BY <1>5, <2>1
    <3> QED
      BY <1>2, <1>3, <3>1 DEF VersionRead, Snapshot
  <2> QED
    BY <2>1
<1>13. /\ t.revoked # 0 => t.iat <= t.revoked
       /\ t.stale # 0 => t.iat <= t.stale
  BY <1>2 DEF Snapshot
<1> HIDE DEF mark1, mark2, holds, pending, changed, verdict
<1>14. verdict \in Answers
  BY <1>9 DEF Answers
<1>15. /\ verdict = "admitted" =>
             /\ t.claims.kind = "access" /\ t.claims.allowed
             /\ t.revoked \in {0, t.iat} /\ t.stale \in {0, t.iat}
             /\ t.claims.sid => request.before.slot = "held" \/ request.approved
             /\ t.claims.role => t.rv = request.before.version
       /\ verdict = "token_revoked" => token.revoked > t.iat
       /\ verdict = "token_stale" => token.stale > t.iat
       /\ verdict = "session_superseded" => request.before.slot = "gone" \/ slot = "gone" \/ request.approved
       /\ verdict = "device_approval_pending" => request.before.slot = "pending"
       /\ verdict = "role_changed" => version > t.rv
  BY <1>2, <1>3, <1>7, <1>9, <1>10, <1>11, <1>12, <1>13
<1> QED
  BY <1>1, <1>6, <1>14, <1>15, AnswersKeepTokenInv

\* A request that comes in takes what the account says with it.
LEMMA ComeKeepsTokenInv ==
    ASSUME TokenInv, Come
    PROVE  TokenInv'
<1>1. token \in Tokens /\ token # NoToken /\ UNCHANGED <<second, account, token>>
  BY DEF Come, TokenInv, TokenTypeOK
<1>2. PICK guard \in Guards :
          request' =
             [step |-> IF guard = "get_current_user" /\ Accepts(guard, token.claims.kind) THEN "org_type" ELSE "done",
              guard |-> guard, token |-> token, got |-> <<>>, asked |-> FALSE, approved |-> FALSE,
              before |-> [slot |-> slot, version |-> version],
              answer |-> CASE ~Accepts(guard, token.claims.kind) -> "invalid"
                           [] guard = "get_current_user" -> "none"
                           [] OTHER -> "admitted"]
  BY DEF Come
<1> DEFINE user == guard = "get_current_user" /\ Accepts(guard, token.claims.kind)
           verdict == CASE ~Accepts(guard, token.claims.kind) -> "invalid"
                       [] guard = "get_current_user" -> "none"
                       [] OTHER -> "admitted"
<1>3. verdict \in {"invalid", "none", "admitted"} /\ (user => verdict = "none")
  OBVIOUS
<1>4. slot \in Slots /\ version \in Nat /\ <<>> \in Seq(Nat \union BOOLEAN) /\ Len(<<>>) = 0
  BY DEF TokenInv, TokenTypeOK
<1>5. request' = [step |-> IF user THEN "org_type" ELSE "done", guard |-> guard, token |-> token, got |-> <<>>,
                  asked |-> FALSE, approved |-> FALSE, before |-> [slot |-> slot, version |-> version], answer |-> verdict]
  BY <1>2
<1>6. user => token.claims.kind = "access"
  <2>1. token.claims.kind \in Kinds
    BY <1>1, ClaimsTyped DEF Tokens
  <2> QED
    BY <2>1, OnlyAccessTokens
<1> HIDE DEF user, verdict
<1>7. request' \in Requests
  BY <1>1, <1>3, <1>4, <1>5 DEF Requests, Answers
<1>8. /\ request'.step = (IF user THEN "org_type" ELSE "done") /\ request'.token = token /\ request'.got = <<>>
      /\ request'.asked = FALSE /\ request'.approved = FALSE /\ request'.answer = verdict
      /\ request'.before.slot = slot /\ request'.before.version = version
  BY <1>5
<1>9. TokenTypeOK' /\ TokenFits'
  BY <1>1, <1>7 DEF TokenInv, TokenTypeOK, TokenFits, MarkFits, account
<1>10. Snapshot(request.token)'
  <2>1. token.iat \in Nat /\ token.rv \in Nat /\ token.rv <= version /\ MarkFits(revokedAt, token.revoked) /\ MarkFits(staleAt, token.stale)
    BY <1>1 DEF TokenInv, TokenFits, Tokens
  <2>2. revokedAt \in Nat /\ staleAt \in Nat
    BY DEF TokenInv, TokenTypeOK
  <2> QED
    BY <1>1, <1>4, <1>8, <2>1, <2>2 DEF Snapshot, MarkFits, account
<1>11. SlotFits'
  BY <1>1, <1>8 DEF SlotFits, account
<1>12. RequestFits'
  BY <1>1, <1>3, <1>4, <1>6, <1>8, <1>10, <1>11 DEF RequestFits
<1>13. RightsAreLive' /\ RefusalsHaveCause'
  BY <1>3, <1>8 DEF RightsAreLive, RefusalsHaveCause
<1> QED
  BY <1>9, <1>12, <1>13 DEF TokenInv

LEMMA OrgTypeKeepsTokenInv ==
    ASSUME TokenInv, EnforceOrgType
    PROVE  TokenInv'
<1>1. request \in Requests /\ request # NoRequest /\ request.step = "org_type" /\ UNCHANGED <<second, account, token>>
  BY NoneOfThem DEF EnforceOrgType, TokenInv, TokenTypeOK
<1>2. CASE ~request.token.claims.allowed
  <2>1. request' = Answered("org_type_not_allowed") /\ "org_type_not_allowed" \in Answers
    BY <1>2 DEF EnforceOrgType, Answers
  <2>2. request' \in Requests /\ request'.asked = request.asked
    BY <1>1, <2>1, AnsweredTyped
  <2>3. Answered("org_type_not_allowed") = [Answered("org_type_not_allowed") EXCEPT !.asked = request.asked]
    BY <2>1, <2>2 DEF Requests
  <2>4. request.asked \in BOOLEAN
    BY <1>1 DEF Requests
  <2> QED
    BY <1>1, <2>1, <2>3, <2>4, AnswersKeepTokenInv
<1>3. CASE request.token.claims.allowed
  <2>1. request' = [request EXCEPT !.step = "read"]
    BY <1>3 DEF EnforceOrgType
  <2>2. /\ request' \in Requests /\ request'.step = "read" /\ request'.token = request.token /\ request'.got = request.got
        /\ request'.asked = request.asked /\ request'.approved = request.approved /\ request'.before = request.before
        /\ request'.answer = request.answer
    BY <1>1, <2>1 DEF Requests
  <2>3. TokenTypeOK' /\ TokenFits'
    BY <1>1, <2>2 DEF TokenInv, TokenTypeOK, TokenFits, MarkFits, account
  <2>4. Snapshot(request.token)' /\ SlotFits' /\ Commands' = Commands
    BY <1>1, <2>2 DEF TokenInv, RequestFits, Snapshot, SlotFits, Commands, account
  <2>5. Len(request'.got) = 0 /\ Commands \in {4, 5}
    BY <1>1, <2>2 DEF TokenInv, RequestFits, Commands
  <2>6. GotFits(request.token, request.got)'
    BY <2>4, <2>5 DEF GotFits
  <2>7. RequestFits'
    BY <1>1, <1>3, <2>2, <2>4, <2>6 DEF TokenInv, RequestFits
  <2>8. RightsAreLive' /\ RefusalsHaveCause'
    BY <2>2 DEF RightsAreLive, RefusalsHaveCause
  <2> QED
    BY <2>3, <2>7, <2>8 DEF TokenInv
<1> QED
  BY <1>2, <1>3

LEMMA ReadFailsKeepsTokenInv ==
    ASSUME TokenInv, ReadFails
    PROVE  TokenInv'
<1>1. request \in Requests /\ request # NoRequest /\ request.step = "read" /\ UNCHANGED <<second, account, token>>
  BY NoneOfThem DEF ReadFails, TokenInv, TokenTypeOK
<1>2. request' = Answered("admitted") /\ "admitted" \in Answers
  BY DEF ReadFails, Answers
<1>3. request' \in Requests /\ request'.asked = request.asked
  BY <1>1, <1>2, AnsweredTyped
<1>4. request.asked = FALSE
  BY <1>1 DEF TokenInv, RequestFits, Requests
<1>5. Answered("admitted") = [Answered("admitted") EXCEPT !.asked = FALSE]
  BY <1>2, <1>3, <1>4 DEF Requests
<1> QED
  BY <1>1, <1>2, <1>5, AnswersKeepTokenInv

\* The next answer of the pipeline.
LEMMA ReadKeepsTokenInv ==
    ASSUME TokenInv, Read
    PROVE  TokenInv'
<1> DEFINE t == request.token
           got == request.got
           n == Len(got) + 1
           value == Value(n)
<1>1. /\ request \in Requests /\ request # NoRequest /\ request.step = "read" /\ Len(got) < Commands
      /\ request' = [request EXCEPT !.got = Append(got, value)] /\ UNCHANGED <<second, account, token>>
  BY NoneOfThem DEF Read, TokenInv, TokenTypeOK
<1>2. /\ t \in Tokens /\ token \in Tokens /\ second \in Nat /\ revokedAt \in 0 .. second /\ staleAt \in 0 .. second
      /\ version \in Nat /\ request.before.version \in Nat /\ got \in Seq(Nat \union BOOLEAN)
      /\ Snapshot(t) /\ GotFits(t, got) /\ SlotFits /\ TokenFits
  BY <1>1, NoneOfThem DEF TokenInv, TokenTypeOK, Requests, RequestFits, Snapshot
<1>3. Len(got) \in Nat /\ Commands \in {4, 5} /\ n \in 1 .. 5
  BY <1>1, <1>2 DEF Commands
<1>4. /\ t.iat \in Nat /\ t.iat = token.iat /\ t.revoked \in Nat /\ t.stale \in Nat /\ token.revoked \in Nat /\ token.stale \in Nat
      /\ t.claims.sid \in BOOLEAN
  <2>1. t.claims \in Claims
    BY <1>2 DEF Tokens
  <2> QED
    BY <1>2, <2>1, ClaimsTyped DEF Tokens, Snapshot
<1>5. /\ n = 1 => value = revokedAt
      /\ n = 2 => value = staleAt
      /\ n = 3 => value = (t.claims.sid /\ slot = "held")
      /\ n = 4 => value = (t.claims.sid /\ slot = "pending")
      /\ n = 5 => value = version
  BY DEF Value
<1>6. value \in Nat \union BOOLEAN
  <2>1. (t.claims.sid /\ slot = "held") \in BOOLEAN /\ (t.claims.sid /\ slot = "pending") \in BOOLEAN
    BY Zenon
  <2>2. n = 1 \/ n = 2 \/ n = 3 \/ n = 4 \/ n = 5
    BY <1>3
  <2>3. revokedAt \in Nat /\ staleAt \in Nat /\ version \in Nat
    BY <1>2
  <2> QED
    BY <1>5, <2>1, <2>2, <2>3, Zenon
<1> HIDE DEF value
<1>7. PICK new : new = Append(got, value)
  OBVIOUS
<1>8. /\ new \in Seq(Nat \union BOOLEAN) /\ Len(new) = n /\ new[n] = value
      /\ \A i \in 1 .. Len(got) : new[i] = got[i]
  BY <1>2, <1>6, <1>7
<1>9. /\ request' \in Requests /\ request'.step = "read" /\ request'.token = t /\ request'.got = new
      /\ request'.asked = request.asked /\ request'.approved = request.approved /\ request'.before = request.before
      /\ request'.answer = request.answer
  BY <1>1, <1>7, <1>8 DEF Requests
<1>10. TokenTypeOK' /\ TokenFits'
  BY <1>1, <1>9 DEF TokenInv, TokenTypeOK, TokenFits, MarkFits, account
<1>11. /\ Snapshot(request.token)' /\ SlotFits' /\ Commands' = Commands
       /\ \A mark, lost, now : MarkRead(mark, lost, now) => MarkRead(mark, lost, now)'
       /\ \A holds : HeldRead(holds) => HeldRead(holds)'
       /\ \A holds, pending : PendingRead(holds, pending) => PendingRead(holds, pending)'
       /\ \A read : VersionRead(read) => VersionRead(read)'
  BY <1>1, <1>2, <1>9 DEF Snapshot, SlotFits, Commands, account, MarkRead, HeldRead, PendingRead, VersionRead
<1>12. /\ n = 1 => MarkRead(value, t.revoked, token.revoked)
       /\ n = 2 => MarkRead(value, t.stale, token.stale)
       /\ n = 3 => HeldRead(value)
       /\ n = 4 => PendingRead(got[3], value)
       /\ n = 5 => VersionRead(value)
  <2>1. /\ MarkRead(revokedAt, t.revoked, token.revoked)
        /\ MarkRead(staleAt, t.stale, token.stale)
    BY <1>1, <1>2, <1>4, NoneOfThem DEF MarkRead, Snapshot, TokenFits, MarkFits
  <2>2. HeldRead(t.claims.sid /\ slot = "held")
    <3>1. CASE t.claims.sid /\ slot = "held"
      BY <1>2, <1>4, <3>1 DEF HeldRead, SlotFits
    <3>2. CASE ~(t.claims.sid /\ slot = "held")
      <4>1. slot \in {"held", "pending", "gone"}
        BY DEF TokenInv, TokenTypeOK, Slots
      <4> QED
        BY <1>4, <3>2, <4>1 DEF HeldRead
    <3> QED
      BY <3>1, <3>2
  <2>3. n = 4 => PendingRead(got[3], t.claims.sid /\ slot = "pending")
    <3>1. slot \in {"held", "pending", "gone"}
      BY DEF TokenInv, TokenTypeOK, Slots
    <3>2. CASE t.claims.sid /\ slot = "pending"
      BY <1>2, <1>4, <3>2 DEF PendingRead, SlotFits
    <3>3. CASE ~(t.claims.sid /\ slot = "pending")
      <4>1. n = 4 => HeldRead(got[3])
        BY <1>2, <1>3 DEF GotFits
      <4>2. n = 4 /\ t.claims.sid /\ got[3] # TRUE => slot = "gone" \/ request.approved
        BY <1>4, <3>1, <3>3, <4>1 DEF HeldRead
      <4> QED
        BY <1>4, <3>3, <4>2 DEF PendingRead
    <3> QED
      BY <3>2, <3>3
  <2>4. VersionRead(version)
    BY <1>2 DEF VersionRead, Snapshot
  <2> QED
    BY <1>5, <2>1, <2>2, <2>3, <2>4
<1>13. /\ n >= 1 => MarkRead(new[1], t.revoked, token.revoked)
       /\ n >= 2 => MarkRead(new[2], t.stale, token.stale)
       /\ n >= 3 => HeldRead(new[3])
       /\ n >= 4 => PendingRead(new[3], new[4])
       /\ n >= 5 => VersionRead(new[5])
  <2>1. \A i \in 1 .. n : i # n => i \in 1 .. Len(got) /\ new[i] = got[i] /\ i <= Len(got)
    BY <1>3, <1>8
  <2>2. /\ n > 1 => MarkRead(got[1], t.revoked, token.revoked)
        /\ n > 2 => MarkRead(got[2], t.stale, token.stale)
        /\ n > 3 => HeldRead(got[3])
        /\ n > 4 => PendingRead(got[3], got[4])
    BY <1>2, <1>3 DEF GotFits
  <2> QED
    BY <1>3, <1>8, <1>12, <2>1, <2>2
<1>14. GotFits(request.token, request.got)'
  <2>1. n <= Commands
    BY <1>1, <1>3
  <2> QED
    BY <1>1, <1>3, <1>8, <1>9, <1>11, <1>13, <2>1 DEF GotFits
<1>15. RequestFits'
  BY <1>1, <1>9, <1>11, <1>14 DEF TokenInv, RequestFits
<1>16. RightsAreLive' /\ RefusalsHaveCause'
  BY <1>9 DEF RightsAreLive, RefusalsHaveCause
<1> QED
  BY <1>10, <1>15, <1>16 DEF TokenInv

LEMMA InitTokenInv == TokenInit => TokenInv
BY NoneOfThem DEF TokenInit, TokenInv, TokenTypeOK, Slots, TokenFits, RequestFits, RightsAreLive, RefusalsHaveCause

LEMMA NextTokenInv == TokenInv /\ [TokenNext]_tokenVars => TokenInv'
<1> SUFFICES ASSUME TokenInv, [TokenNext]_tokenVars PROVE TokenInv'
  OBVIOUS
<1>1. CASE UNCHANGED tokenVars
  <2>1. UNCHANGED <<second, revokedAt, staleAt, slot, version, token, request>>
    BY <1>1 DEF tokenVars, account
  <2>2. TokenTypeOK' /\ TokenFits'
    BY <2>1 DEF TokenInv, TokenTypeOK, TokenFits, MarkFits
  <2>3. second \in Nat /\ revokedAt \in Nat /\ staleAt \in Nat /\ version \in Nat
    BY DEF TokenInv, TokenTypeOK
  <2> QED
    BY <2>1, <2>2, <2>3, AccountMovesOn DEF TokenInv
<1> QED
  BY <1>1, AuthServiceKeepsTokenInv, ComeKeepsTokenInv, OrgTypeKeepsTokenInv, ReadKeepsTokenInv, ReadFailsKeepsTokenInv,
     VerdictsFit DEF TokenNext

\* Whatever the auth service writes between two reads of the pipeline, a request
\* that is let through with an answer of Redis had its rights when it came.
THEOREM RightsStayLive == TokenSpec => []RightsAreLive
BY InitTokenInv, NextTokenInv, PTL DEF TokenSpec, TokenInv

\* Whatever the auth service writes between two reads, a refusal has the cause it names.
THEOREM RefusalsAreCaused == TokenSpec => []RefusalsHaveCause
BY InitTokenInv, NextTokenInv, PTL DEF TokenSpec, TokenInv

-----------------------------------------------------------------------------
(* SlidingWindow. *)

\* What each member added has to do with the sorted set: its score is the time it
\* was added, or up to MaxAhead later; it is in the set while the window of the
\* clock that is furthest ahead lasts, and every member there is was added once.
PassedFits ==
    \A p \in passed :
        /\ p[2] \in 0 .. elapsed /\ p[1][1] \in p[2] .. p[2] + MaxAhead
        /\ p[2] + WINDOW <= expires
        /\ p[2] > elapsed - (WINDOW - MaxAhead) => p[1] \in members

WindowTypeOK ==
    /\ elapsed \in Nat /\ expires \in Nat
    /\ ahead \in [Servers -> 0 .. MaxAhead]
    /\ IsFiniteSet(passed) /\ passed \subseteq (Nat \X Draws) \X Nat
    /\ IsFiniteSet(members) /\ \A m \in members : \E p \in passed : p[1] = m

WindowInv == WindowTypeOK /\ PassedFits /\ WindowIsKept

\* Forgetting when they were added leaves no more members than were added.
LEMMA FewerFirsts ==
    ASSUME NEW Q, IsFiniteSet(Q)
    PROVE  IsFiniteSet({p[1] : p \in Q}) /\ Cardinality({p[1] : p \in Q}) <= Cardinality(Q)
           /\ Cardinality({p[1] : p \in Q}) \in Nat /\ Cardinality(Q) \in Nat
<1> DEFINE T == {p[1] : p \in Q}
           memberOf == [p \in Q |-> p[1]]
<1>1. memberOf \in Surjection(Q, T)
  BY DEF Surjection
<1>2. IsFiniteSet(T) /\ Cardinality(T) <= Cardinality(Q)
  BY <1>1, FS_Surjection
<1> QED
  BY <1>2, FS_CardinalityType

\* What a clock that is ahead by at most MaxAhead finds in the window.
LEMMA WindowHas ==
    ASSUME WindowTypeOK, PassedFits, NEW now \in elapsed .. elapsed + MaxAhead
    PROVE  /\ IsFiniteSet(InWindow(now)) /\ InWindow(now) \subseteq members
           /\ Cardinality(InWindow(now)) \in Nat
           /\ {p[1] : p \in PassedIn(WINDOW - MaxAhead)} \subseteq InWindow(now)
           /\ InWindow(now) \subseteq {p[1] : p \in PassedIn(WINDOW + MaxAhead)}
<1>1. InWindow(now) \subseteq members /\ IsFiniteSet(members)
  BY DEF InWindow, Kept, WindowTypeOK
<1>2. IsFiniteSet(InWindow(now)) /\ Cardinality(InWindow(now)) \in Nat
  BY <1>1, FS_Subset, FS_CardinalityType
<1>3. ASSUME NEW p \in PassedIn(WINDOW - MaxAhead) PROVE p[1] \in InWindow(now)
  <2>1. p \in passed /\ p[2] > elapsed - (WINDOW - MaxAhead)
    BY DEF PassedIn
  <2>2. /\ p[2] \in 0 .. elapsed /\ p[1][1] \in p[2] .. p[2] + MaxAhead /\ p[2] + WINDOW <= expires /\ p[1] \in members
    BY <2>1 DEF PassedFits
  <2>3. elapsed \in Nat /\ expires \in Nat /\ MaxAhead \in Nat /\ WINDOW \in Nat /\ now \in Nat
    BY SlidingWindowAssumption DEF WindowTypeOK
  <2>4. elapsed < expires /\ p[1][1] > now - WINDOW
    BY <2>1, <2>2, <2>3
  <2> QED
    BY <2>2, <2>4 DEF InWindow, Kept
<1>4. ASSUME NEW m \in InWindow(now) PROVE m \in {p[1] : p \in PassedIn(WINDOW + MaxAhead)}
  <2>1. PICK p \in passed : p[1] = m
    BY <1>1 DEF WindowTypeOK
  <2>2. p[2] \in 0 .. elapsed /\ p[1][1] \in p[2] .. p[2] + MaxAhead /\ m[1] > now - WINDOW
    BY DEF PassedFits, InWindow
  <2>3. elapsed \in Nat /\ MaxAhead \in Nat /\ WINDOW \in Nat /\ now \in Nat
    BY SlidingWindowAssumption DEF WindowTypeOK
  <2>4. p[2] > elapsed - (WINDOW + MaxAhead)
    BY <2>1, <2>2, <2>3
  <2> QED
    BY <2>1, <2>4 DEF PassedIn
<1> QED
  BY <1>1, <1>2, <1>3, <1>4

LEMMA InitWindowInv == WindowInit => WindowInv
<1> SUFFICES ASSUME WindowInit PROVE WindowInv
  OBVIOUS
<1>1. elapsed = 0 /\ members = {} /\ expires = 0 /\ passed = {} /\ answer = "none" /\ ahead \in [Servers -> 0 .. MaxAhead]
  BY DEF WindowInit
<1>2. IsFiniteSet({}) /\ Cardinality({}) = 0
  BY FS_EmptySet
<1>3. {p[1] : p \in PassedIn(WINDOW - MaxAhead)} = {}
  BY <1>1 DEF PassedIn
<1>4. WindowIsKept
  <2>1. Cardinality({p[1] : p \in PassedIn(WINDOW - MaxAhead)}) = 0
    BY <1>2, <1>3
  <2> QED
    BY <1>1, <2>1, SlidingWindowAssumption DEF WindowIsKept
<1> QED
  BY <1>1, <1>2, <1>4 DEF WindowInv, WindowTypeOK, PassedFits

LEMMA LetThroughKeepsWindow ==
    ASSUME WindowInv, NEW s \in Servers, NEW draw \in Draws, LetThrough(s, draw)
    PROVE  WindowInv'
<1> DEFINE now == elapsed + ahead[s]
           new == <<now, draw>>
           current == InWindow(now)
<1>1. /\ WindowTypeOK /\ PassedFits /\ elapsed \in Nat /\ expires \in Nat /\ WINDOW \in Nat /\ MaxAhead \in 0 .. WINDOW
      /\ ahead[s] \in 0 .. MaxAhead /\ now \in elapsed .. elapsed + MaxAhead /\ LIMIT \in Nat
  BY SlidingWindowAssumption DEF WindowInv, WindowTypeOK
<1>2. /\ Cardinality(current) < LIMIT /\ members' = current \union {new} /\ expires' = elapsed + WINDOW
      /\ passed' = passed \union {<<new, elapsed>>} /\ answer' = "passes" /\ elapsed' = elapsed /\ ahead' = ahead
  BY DEF LetThrough
<1>3. /\ IsFiniteSet(current) /\ current \subseteq members /\ Cardinality(current) \in Nat
      /\ {p[1] : p \in PassedIn(WINDOW - MaxAhead)} \subseteq current
  BY <1>1, WindowHas
<1>4. new[1] = now /\ <<new, elapsed>>[1] = new /\ <<new, elapsed>>[2] = elapsed /\ new \in Nat \X Draws /\ <<new, elapsed>> \in (Nat \X Draws) \X Nat
  BY <1>1
<1> HIDE DEF now, new, current
<1>5. IsFiniteSet(members') /\ IsFiniteSet(passed')
  BY <1>1, <1>2, <1>3, FS_AddElement DEF WindowTypeOK
<1>6. WindowTypeOK'
  <2>1. ASSUME NEW m \in members' PROVE \E p \in passed' : p[1] = m
    BY <1>1, <1>2, <1>3, <1>4, <2>1 DEF WindowTypeOK
  <2> QED
    BY <1>1, <1>2, <1>4, <1>5, <2>1 DEF WindowTypeOK
<1>7. PassedFits'
  <2> SUFFICES ASSUME NEW p \in passed'
               PROVE  /\ p[2] \in 0 .. elapsed /\ p[1][1] \in p[2] .. p[2] + MaxAhead
                      /\ p[2] + WINDOW <= expires'
                      /\ p[2] > elapsed - (WINDOW - MaxAhead) => p[1] \in members'
    BY <1>2 DEF PassedFits
  <2>1. CASE p \in passed
    <3>1. p[2] \in 0 .. elapsed /\ p[1][1] \in p[2] .. p[2] + MaxAhead
      BY <1>1, <2>1 DEF PassedFits
    <3>2. p[2] > elapsed - (WINDOW - MaxAhead) => p[1] \in current
      BY <1>3, <2>1 DEF PassedIn
    <3> QED
      BY <1>1, <1>2, <3>1, <3>2
  <2>2. CASE p = <<new, elapsed>>
    BY <1>1, <1>2, <1>4, <2>2
  <2> QED
    BY <1>2, <2>1, <2>2
<1>8. WindowIsKept'
  <2> DEFINE Recent == {p[1] : p \in PassedIn(WINDOW - MaxAhead)}
  <2>1. Recent' \subseteq current \union {new}
    BY <1>2, <1>3, <1>4 DEF PassedIn
  <2>2. IsFiniteSet(current \union {new}) /\ Cardinality(current \union {new}) <= Cardinality(current) + 1
        /\ Cardinality(current \union {new}) \in Nat
    <3>1. /\ IsFiniteSet(current \union {new})
          /\ Cardinality(current \union {new}) = IF new \in current THEN Cardinality(current) ELSE Cardinality(current) + 1
      BY <1>3, FS_AddElement
    <3> QED
      BY <1>3, <3>1
  <2>3. Cardinality(Recent') <= Cardinality(current \union {new}) /\ Cardinality(Recent') \in Nat
    <3>1. PICK R : R = Recent'
      OBVIOUS
    <3>2. R \in SUBSET (current \union {new})
      BY <2>1, <3>1
    <3>3. IsFiniteSet(R) /\ Cardinality(R) <= Cardinality(current \union {new})
      BY <2>2, <3>2, FS_Subset
    <3> QED
      BY <3>1, <3>3, FS_CardinalityType
  <2>4. Cardinality(Recent') <= LIMIT
    BY <1>1, <1>2, <1>3, <2>2, <2>3
  <2> QED
    BY <1>2, <2>4 DEF WindowIsKept
<1> QED
  BY <1>6, <1>7, <1>8 DEF WindowInv

\* A step that adds no member and keeps those in the window of the clock that is
\* furthest ahead.
LEMMA OthersKeepWindow ==
    ASSUME WindowInv, UNCHANGED <<passed, expires, ahead>>, elapsed' \in {elapsed, elapsed + 1},
           members' \subseteq members, {p[1] : p \in PassedIn(WINDOW - MaxAhead)} \subseteq members',
           answer' = "refused" => elapsed' = elapsed /\ Cardinality(PassedIn(WINDOW + MaxAhead)) >= LIMIT
    PROVE  WindowInv'
<1>1. /\ WindowTypeOK /\ PassedFits /\ elapsed \in Nat /\ elapsed' \in Nat /\ WINDOW \in Nat /\ MaxAhead \in Nat /\ LIMIT \in Nat
      /\ IsFiniteSet(passed) /\ IsFiniteSet(members) /\ elapsed <= elapsed'
  BY SlidingWindowAssumption DEF WindowInv, WindowTypeOK
<1>2. IsFiniteSet(members')
  <2>1. PICK S \in SUBSET members : S = members'
    OBVIOUS
  <2> QED
    BY <1>1, <2>1, FS_Subset
<1>3. WindowTypeOK'
  BY <1>1, <1>2 DEF WindowTypeOK
<1>4. \A p \in passed : p[2] \in Nat
  BY <1>1 DEF WindowTypeOK
<1>5. PassedIn(WINDOW - MaxAhead)' \subseteq PassedIn(WINDOW - MaxAhead)
  BY <1>1, <1>4 DEF PassedIn
<1>6. PassedFits'
  <2> SUFFICES ASSUME NEW p \in passed
               PROVE  /\ p[2] \in 0 .. elapsed' /\ p[1][1] \in p[2] .. p[2] + MaxAhead
                      /\ p[2] + WINDOW <= expires
                      /\ p[2] > elapsed' - (WINDOW - MaxAhead) => p[1] \in members'
    BY DEF PassedFits
  <2>1. p[2] \in 0 .. elapsed /\ p[1][1] \in p[2] .. p[2] + MaxAhead /\ p[2] + WINDOW <= expires
    BY <1>1 DEF PassedFits
  <2>2. p[2] > elapsed' - (WINDOW - MaxAhead) => p \in PassedIn(WINDOW - MaxAhead)
    BY <1>1, <1>4 DEF PassedIn
  <2> QED
    BY <1>1, <2>1, <2>2
<1>7. WindowIsKept'
  <2>1. PICK R, S : R = {p[1] : p \in PassedIn(WINDOW - MaxAhead)'} /\ S = {p[1] : p \in PassedIn(WINDOW - MaxAhead)}
    OBVIOUS
  <2>2. R \in SUBSET S
    BY <1>5, <2>1
  <2>3. IsFiniteSet(S) /\ Cardinality(S) \in Nat
    <3>1. PICK Q : Q = PassedIn(WINDOW - MaxAhead)
      OBVIOUS
    <3>2. Q \in SUBSET passed
      BY <3>1 DEF PassedIn
    <3>3. IsFiniteSet(Q)
      BY <1>1, <3>2, FS_Subset
    <3> QED
      BY <2>1, <3>1, <3>3, FewerFirsts
  <2>4. Cardinality(R) <= Cardinality(S) /\ Cardinality(R) \in Nat
    BY <2>2, <2>3, FS_Subset, FS_CardinalityType
  <2>5. Cardinality(S) <= LIMIT
    BY <2>1 DEF WindowInv, WindowIsKept
  <2>6. Cardinality(R) <= LIMIT
    BY <1>1, <2>3, <2>4, <2>5
  <2>7. answer' = "refused" => Cardinality(PassedIn(WINDOW + MaxAhead)') >= LIMIT
    BY DEF PassedIn
  <2> QED
    BY <2>1, <2>6, <2>7 DEF WindowIsKept
<1> QED
  BY <1>3, <1>6, <1>7 DEF WindowInv

LEMMA NextWindowInv == WindowInv /\ [WindowNext]_windowVars => WindowInv'
<1> SUFFICES ASSUME WindowInv, [WindowNext]_windowVars PROVE WindowInv'
  OBVIOUS
<1>0. /\ WindowTypeOK /\ PassedFits /\ elapsed \in Nat /\ MaxAhead \in Nat /\ WINDOW \in Nat /\ LIMIT \in Nat
      /\ answer = "refused" => Cardinality(PassedIn(WINDOW + MaxAhead)) >= LIMIT
      /\ {p[1] : p \in PassedIn(WINDOW - MaxAhead)} \subseteq members
  BY SlidingWindowAssumption DEF WindowInv, WindowTypeOK, WindowIsKept, PassedFits, PassedIn
<1>1. ASSUME NEW s \in Servers, NEW draw \in Draws, LetThrough(s, draw) PROVE WindowInv'
  BY <1>1, LetThroughKeepsWindow
<1>2. ASSUME NEW s \in Servers, TurnAway(s) PROVE WindowInv'
  <2> DEFINE now == elapsed + ahead[s]
  <2>1. now \in elapsed .. elapsed + MaxAhead
    BY <1>0 DEF WindowTypeOK
  <2>2. /\ Cardinality(InWindow(now)) >= LIMIT /\ members' = InWindow(now) /\ UNCHANGED <<elapsed, ahead, expires, passed>>
    BY <1>2 DEF TurnAway
  <2> HIDE DEF now
  <2>3. /\ InWindow(now) \subseteq members /\ Cardinality(InWindow(now)) \in Nat
        /\ {p[1] : p \in PassedIn(WINDOW - MaxAhead)} \subseteq InWindow(now)
        /\ InWindow(now) \subseteq {p[1] : p \in PassedIn(WINDOW + MaxAhead)}
    BY <1>0, <2>1, WindowHas
  <2>4. Cardinality(PassedIn(WINDOW + MaxAhead)) >= LIMIT
    <3>1. PICK Q, T, C : Q = PassedIn(WINDOW + MaxAhead) /\ T = {p[1] : p \in Q} /\ C = InWindow(now)
      OBVIOUS
    <3>2. Q \in SUBSET passed /\ IsFiniteSet(passed)
      BY <1>0, <3>1 DEF PassedIn, WindowTypeOK
    <3>3. IsFiniteSet(Q)
      BY <3>2, FS_Subset
    <3>4. IsFiniteSet(T) /\ Cardinality(T) <= Cardinality(Q) /\ Cardinality(T) \in Nat /\ Cardinality(Q) \in Nat
      BY <3>1, <3>3, FewerFirsts
    <3>5. C \in SUBSET T
      BY <2>3, <3>1
    <3>6. Cardinality(C) <= Cardinality(T)
      BY <3>4, <3>5, FS_Subset
    <3> QED
      BY <1>0, <2>2, <2>3, <3>1, <3>4, <3>6
  <2> QED
    BY <2>2, <2>3, <2>4, OthersKeepWindow
<1>3. CASE PassUncounted
  BY <1>0, <1>3, OthersKeepWindow DEF PassUncounted
<1>4. CASE TimePasses
  BY <1>0, <1>4, OthersKeepWindow DEF TimePasses
<1>5. CASE UNCHANGED windowVars
  BY <1>0, <1>5, OthersKeepWindow DEF windowVars
<1> QED
  BY <1>1, <1>2, <1>3, <1>4, <1>5 DEF WindowNext

\* However the servers' clocks differ, no more requests pass in the shortest window
\* than the limit, and nobody is refused before as many passed in the longest.
THEOREM WindowStaysKept == WindowSpec => []WindowIsKept
<1>1. WindowInv => WindowIsKept
  BY DEF WindowInv
<1> QED
  BY <1>1, InitWindowInv, NextWindowInv, PTL DEF WindowSpec

-----------------------------------------------------------------------------
(* Consent. *)

\* Numbers have a least, and with a bound a greatest.
LEMMA LeastNatural ==
    ASSUME NEW T, T \subseteq Nat, T # {}
    PROVE  \E n \in T : \A m \in T : n <= m
<1> DEFINE R == OpToRel(<, Nat)
<1>1. IsWellFoundedOn(R, Nat)
  BY NatLessThanWellFounded
<1>2. R = {ss \in Nat \X Nat : ss[1] < ss[2]}
  BY DEF OpToRel
<1>3. \A m, n \in Nat : <<m, n>> \in R <=> m < n
  BY <1>2
<1> HIDE DEF R
<1>4. PICK n \in T : \A m \in T : <<m, n>> \notin R
  BY <1>1, WFMin, Zenon
<1>5. \A m \in T : ~(m < n) /\ m \in Nat /\ n \in Nat
  BY <1>3, <1>4
<1> QED
  BY <1>5

LEMMA GreatestNatural ==
    ASSUME NEW T, T \subseteq Nat, T # {}, NEW b \in Nat, \A m \in T : m <= b
    PROVE  \E n \in T : \A m \in T : m <= n
<1> DEFINE U == {b - m : m \in T}
<1>1. \A m \in T : b - m \in Nat
  OBVIOUS
<1>2. U \subseteq Nat /\ U # {}
  BY <1>1
<1> HIDE DEF U
<1>3. PICK u \in U : \A v \in U : u <= v
  BY <1>2, LeastNatural
<1>4. PICK n \in T : u = b - n
  BY DEF U
<1>5. ASSUME NEW m \in T PROVE m <= n
  <2>1. b - m \in U
    BY DEF U
  <2> QED
    BY <1>3, <1>4, <2>1
<1> QED
  BY <1>5

RecordsFit == committed \subseteq Records /\ IsFiniteSet(committed)

LEMMA RecordsAlwaysFit == ConsentSpec => []RecordsFit
<1>1. ConsentInit => RecordsFit
  BY FS_EmptySet DEF ConsentInit, RecordsFit
<1>2. RecordsFit /\ [ConsentNext]_committed => RecordsFit'
  <2> SUFFICES ASSUME RecordsFit, [ConsentNext]_committed PROVE RecordsFit'
    OBVIOUS
  <2>1. ASSUME NEW b \in Buckets, NEW status \in Statuses, NEW time \in 0 .. MaxTime, Record(b, status, time)
        PROVE  RecordsFit'
    <3> DEFINE r == [bucket |-> b, status |-> status, at |-> time]
    <3>1. committed' = committed \cup {r} /\ r \in Records
      BY <2>1 DEF Record, Records
    <3> QED
      BY <3>1, FS_AddElement DEF RecordsFit
  <2> QED
    BY <2>1 DEF ConsentNext, RecordsFit
<1> QED
  BY <1>1, <1>2, PTL DEF ConsentSpec

\* A history tells every record once, in the order of their times.
LEMMA HistoryTellsAll ==
    ASSUME RecordsFit, NEW h \in Histories(committed)
    PROVE  /\ Len(h) \in Nat /\ DOMAIN h = 1 .. Len(h)
           /\ \A i \in DOMAIN h : h[i] \in committed /\ h[i] \in Records
           /\ \A i, j \in DOMAIN h : h[i] = h[j] => i = j
           /\ \A i, j \in DOMAIN h : i < j => h[i].at <= h[j].at
           /\ \A r \in committed : \E i \in DOMAIN h : h[i] = r
<1> DEFINE n == Cardinality(committed)
<1>1. n \in Nat
  BY FS_CardinalityType DEF RecordsFit
<1>2. /\ h \in [1 .. n -> committed]
      /\ \A i, j \in DOMAIN h : i < j => h[i] # h[j] /\ h[i].at <= h[j].at
  BY DEF Histories
<1>3. IsFiniteSet(1 .. n) /\ Cardinality(1 .. n) = n
  BY <1>1, FS_Interval
<1> HIDE DEF n
<1>4. DOMAIN h = 1 .. n /\ \A i, j \in DOMAIN h : h[i] = h[j] => i = j
  BY <1>1, <1>2
<1>5. h \in Injection(1 .. n, committed)
  BY <1>2, <1>4 DEF Injection, IsInjective
<1>6. h \in Surjection(1 .. n, committed)
  BY <1>3, <1>5, FS_Injection DEF RecordsFit, n
<1>7. \A r \in committed : \E i \in DOMAIN h : h[i] = r
  BY <1>4, <1>6 DEF Surjection
<1>8. h \in Seq(committed) /\ Len(h) = n
  BY <1>1, <1>2
<1> QED
  BY <1>1, <1>2, <1>4, <1>7, <1>8 DEF RecordsFit

\* The bucket of a record is one of those there are.
LEMMA RecordHasABucket ==
    ASSUME NEW r \in Records
    PROVE  /\ r.bucket \in Buckets /\ r.status \in Statuses /\ r.at \in Nat /\ r.at <= MaxTime
           /\ r.bucket.channel \in Channels /\ r.bucket.scope \in {"global", "line"} /\ r.bucket.line \in OurLines
BY ConsentAssumption DEF Records, Buckets

LEMMA OneBucket ==
    ASSUME NEW b \in Buckets, NEW c \in Buckets, b.channel = c.channel, b.scope = c.scope, b.line = c.line
    PROVE  b = c
BY DEF Buckets

\* The place where a bucket is met first.
LEMMA FirstOfBucket ==
    ASSUME RecordsFit, NEW h \in Histories(committed), NEW i \in DOMAIN h
    PROVE  \E j \in 1 .. i : h[j].bucket = h[i].bucket /\ \A k \in 1 .. (j - 1) : h[k].bucket # h[i].bucket
<1>1. Len(h) \in Nat /\ DOMAIN h = 1 .. Len(h)
  BY HistoryTellsAll
<1> DEFINE T == {j \in 1 .. i : h[j].bucket = h[i].bucket}
<1>2. T \subseteq Nat /\ i \in T
  BY <1>1
<1>3. PICK j \in T : \A k \in T : j <= k
  BY <1>2, LeastNatural
<1>4. \A k \in 1 .. (j - 1) : h[k].bucket # h[i].bucket
  BY <1>1, <1>3
<1> QED
  BY <1>3, <1>4

\* The records among which one is picked: of one channel, for all lines or for one.
OfOneChannel(h, S) ==
    /\ S \subseteq Standing(h)
    /\ \A i, j \in S : h[i].bucket.channel = h[j].bucket.channel
    /\ \A i \in S : IsGlobal(h[i]) \/ h[i].bucket.scope = "line"

LEMMA PrecedenceIsNatural ==
    ASSUME RecordsFit, NEW h \in Histories(committed), NEW i \in DOMAIN h
    PROVE  /\ Precedence(h, i) \in Nat
           /\ Precedence(h, i) = 0 => IsGlobal(h[i])
           /\ Precedence(h, i) = Len(h) + 1 => h[i].bucket.line = NoLine /\ ~IsGlobal(h[i])
           /\ Precedence(h, i) \in DOMAIN h => h[Precedence(h, i)].bucket = h[i].bucket
           /\ Precedence(h, i) \in DOMAIN h \union {0, Len(h) + 1}
<1>1. Len(h) \in Nat /\ DOMAIN h = 1 .. Len(h)
  BY HistoryTellsAll
<1>2. CASE IsGlobal(h[i])
  BY <1>1, <1>2 DEF Precedence
<1>3. CASE ~IsGlobal(h[i]) /\ h[i].bucket.line = NoLine
  BY <1>1, <1>3 DEF Precedence
<1>4. CASE ~IsGlobal(h[i]) /\ h[i].bucket.line # NoLine
  <2> DEFINE earliest == CHOOSE j \in 1 .. i : h[j].bucket = h[i].bucket /\ \A k \in 1 .. (j - 1) : h[k].bucket # h[i].bucket
  <2>1. Precedence(h, i) = earliest
    BY <1>4 DEF Precedence
  <2>2. earliest \in 1 .. i /\ h[earliest].bucket = h[i].bucket
    BY FirstOfBucket
  <2> HIDE DEF earliest
  <2> QED
    BY <1>1, <2>1, <2>2
<1> QED
  BY <1>2, <1>3, <1>4

LEMMA PrecedenceIsUnique ==
    ASSUME RecordsFit, NEW h \in Histories(committed), NEW S, OfOneChannel(h, S),
           NEW i \in S, NEW j \in S, Precedence(h, i) = Precedence(h, j)
    PROVE  i = j
<1>1. /\ i \in DOMAIN h /\ j \in DOMAIN h /\ Len(h) \in Nat /\ DOMAIN h = 1 .. Len(h)
      /\ h[i] \in Records /\ h[j] \in Records
  BY HistoryTellsAll DEF OfOneChannel, Standing
<1>2. h[i].bucket \in Buckets /\ h[j].bucket \in Buckets
  BY <1>1, RecordHasABucket
<1>3. h[i].bucket.channel = h[j].bucket.channel
  BY DEF OfOneChannel
<1>4. h[i].bucket = h[j].bucket
  <2>1. CASE Precedence(h, i) \in DOMAIN h
    BY <1>1, <2>1, PrecedenceIsNatural
  <2>2. CASE Precedence(h, i) = 0
    <3>1. IsGlobal(h[i]) /\ IsGlobal(h[j])
      BY <1>1, <2>2, PrecedenceIsNatural
    <3> QED
      BY <1>2, <1>3, <3>1, OneBucket DEF IsGlobal
  <2>3. CASE Precedence(h, i) = Len(h) + 1
    <3>1. /\ h[i].bucket.line = NoLine /\ ~IsGlobal(h[i])
          /\ h[j].bucket.line = NoLine /\ ~IsGlobal(h[j])
      BY <1>1, <2>3, PrecedenceIsNatural
    <3>2. h[i].bucket.scope = "line" /\ h[j].bucket.scope = "line"
      BY <3>1 DEF OfOneChannel
    <3> QED
      BY <1>2, <1>3, <3>1, <3>2, OneBucket
  <2> QED
    BY <1>1, <2>1, <2>2, <2>3, PrecedenceIsNatural
<1>5. i <= j /\ j <= i
  BY <1>1, <1>4 DEF OfOneChannel, Standing
<1> QED
  BY <1>1, <1>5

\* max finds one that is none earlier than the others.
LEMMA NewestIsLatest ==
    ASSUME RecordsFit, NEW h \in Histories(committed), NEW S, OfOneChannel(h, S), S # {}
    PROVE  Newest(h, S) \in S /\ \A j \in S : h[j].at <= h[Newest(h, S)].at
<1>1. /\ S \subseteq DOMAIN h /\ Len(h) \in Nat /\ DOMAIN h = 1 .. Len(h)
      /\ \A i \in S : h[i].at \in Nat /\ h[i].at <= MaxTime
  BY HistoryTellsAll, RecordHasABucket DEF OfOneChannel, Standing
<1> DEFINE times == {h[i].at : i \in S}
<1>2. PICK t \in times : \A u \in times : u <= t
  <2>1. times \subseteq Nat /\ times # {} /\ \A u \in times : u <= MaxTime
    BY <1>1
  <2> HIDE DEF times
  <2> QED
    BY <2>1, GreatestNatural, ConsentAssumption
<1> DEFINE latest == {i \in S : h[i].at = t}
           places == {Precedence(h, i) : i \in latest}
<1>3. PICK p \in places : \A q \in places : p <= q
  <2>1. \A i \in latest : Precedence(h, i) \in Nat
    BY <1>1, PrecedenceIsNatural
  <2>2. places \subseteq Nat
    BY <2>1
  <2>3. places # {}
    BY <1>2
  <2> HIDE DEF places
  <2> QED
    BY <2>2, <2>3, LeastNatural
<1>4. PICK i \in latest : p = Precedence(h, i)
  BY <1>3
<1>5. ASSUME NEW j \in S \ {i}
      PROVE  h[j].at < h[i].at \/ (h[j].at = h[i].at /\ Precedence(h, i) < Precedence(h, j))
  <2>1. h[j].at <= t /\ h[i].at = t /\ h[j].at \in Nat /\ t \in Nat
    BY <1>1, <1>2, <1>4
  <2>2. CASE h[j].at = t
    <3>1. Precedence(h, i) <= Precedence(h, j)
      BY <1>3, <1>4, <2>2
    <3>2. Precedence(h, i) # Precedence(h, j)
      BY <1>4, PrecedenceIsUnique
    <3>3. Precedence(h, i) \in Nat /\ Precedence(h, j) \in Nat
      BY <1>1, <1>4, PrecedenceIsNatural
    <3> QED
      BY <2>1, <2>2, <3>1, <3>2, <3>3
  <2> QED
    BY <2>1, <2>2
<1>6. i \in S
  BY <1>4
<1> HIDE DEF times, latest, places
<1> DEFINE Wins(k) == \A j \in S \ {k} : h[j].at < h[k].at \/ (h[j].at = h[k].at /\ Precedence(h, k) < Precedence(h, j))
<1>7. Newest(h, S) \in S /\ Wins(Newest(h, S))
  <2>1. Newest(h, S) = CHOOSE k \in S : Wins(k)
    BY DEF Newest
  <2>2. Wins(i)
    BY <1>5
  <2> HIDE DEF Wins
  <2> QED
    BY <1>6, <2>1, <2>2
<1> QED
  BY <1>1, <1>7

\* Whichever lines a contact may be of, what is picked from are records of its channel.
LEMMA PickedFromOneChannel ==
    ASSUME NEW h, NEW channel, NEW ourLine
    PROVE  /\ OfOneChannel(h, Candidates(h, channel, ourLine))
           /\ OfOneChannel(h, OtherLineBlocks(h, channel, ourLine))
BY DEF OfOneChannel, Candidates, OtherLineBlocks

LEMMA AskedLineIs ==
    ASSUME NEW ourLine
    PROVE  AskedLine(ourLine) = ourLine \/ AskedLine(ourLine) = NoLine
BY DEF AskedLine

\* A stop that reaches our line is among the candidates, unless the line is none that
\* check_contactability knows.
LEMMA StopIsACandidate ==
    ASSUME NEW h, NEW ourLine, NEW i \in Standing(h), Stops(h[i]), Reaches(h[i], ourLine),
           ~(AskedLine(ourLine) = NoLine /\ ~IsGlobal(h[i]))
    PROVE  i \in Candidates(h, "text", AskedLine(ourLine))
<1>1. h[i].bucket.channel = "text"
  BY DEF Stops
<1> QED
  BY <1>1, AskedLineIs DEF Candidates, Reaches

LEMMA StopHoldsOfRecords == RecordsFit => StopHolds
<1> SUFFICES ASSUME RecordsFit,
                    NEW h \in Histories(committed), NEW ourLine \in OurLines, NEW sendType \in SendTypes,
                    NEW i \in Standing(h), Stops(h[i]), Reaches(h[i], ourLine),
                    CheckContactability(h, "text", ourLine, sendType) # "block",
                    ~(AskedLine(ourLine) = NoLine /\ ~IsGlobal(h[i]))
             PROVE  \E j \in Standing(h) :
                        /\ h[j].bucket.channel = "text" /\ h[j].status # "do_not_text"
                        /\ Reaches(h[j], ourLine) /\ h[j].at >= h[i].at
  BY Zenon DEF StopHolds
<1> DEFINE line == AskedLine(ourLine)
           C == Candidates(h, "text", line)
           p == Newest(h, C)
<1>1. i \in C
  BY StopIsACandidate
<1>2. p \in C /\ h[i].at <= h[p].at
  <2>1. OfOneChannel(h, C) /\ C # {}
    BY <1>1, PickedFromOneChannel
  <2> HIDE DEF C
  <2> QED
    BY <1>1, <2>1, NewestIsLatest
<1>3. PickEffective(h, "text", line) = p
  BY <1>1 DEF PickEffective
<1>4. /\ p \in Standing(h) /\ h[p].bucket.channel = "text"
      /\ \/ IsGlobal(h[p])
         \/ line # NoLine /\ h[p].bucket.scope = "line" /\ h[p].bucket.line \in {line, NoLine}
  BY <1>2 DEF Candidates
<1>5. h[p].status # "do_not_text"
  <2> SUFFICES ASSUME h[p].status = "do_not_text" PROVE FALSE
    OBVIOUS
  <2>1. StopDecision(h[p], line, sendType) = "block"
    BY <1>4 DEF StopDecision
  <2>2. Evaluate(h, "text", line, sendType) # "block"
    BY DEF CheckContactability
  <2> HIDE DEF p, C, line
  <2>3. Candidates(h, "text", line) # {}
    BY <1>1 DEF C
  <2> QED
    BY <1>3, <2>1, <2>2, <2>3 DEF Evaluate
<1>6. Reaches(h[p], ourLine)
  BY <1>4, AskedLineIs DEF Reaches
<1>7. h[p].at >= h[i].at
  <2>1. h[p].at \in Nat /\ h[i].at \in Nat
    BY <1>4, HistoryTellsAll, RecordHasABucket DEF Standing
  <2> HIDE DEF p
  <2> QED
    BY <1>2, <2>1
<1> QED
  BY <1>4, <1>5, <1>6, <1>7

\* consent.check_contactability: whatever is recorded and committed in whatever order, a
\* stop for texts is hidden only by a later record that reaches the same line, or from
\* a line that is no number.
THEOREM StopsAlwaysHold == ConsentSpec => []StopHolds
BY RecordsAlwaysFit, StopHoldsOfRecords, PTL

\* Of a bucket whose records have each a time of their own, the last one told is the
\* latest: what stands in a history is what is in force.
LEMMA StandingIsInForce ==
    ASSUME RecordsFit, WellRecorded, NEW h \in Histories(committed)
    PROVE  /\ \A i \in Standing(h) : i \in DOMAIN h /\ InForce(h[i])
           /\ \A r \in committed : InForce(r) => \E i \in Standing(h) : h[i] = r
<1>1. /\ Len(h) \in Nat /\ DOMAIN h = 1 .. Len(h)
      /\ \A i \in DOMAIN h : h[i] \in committed /\ h[i].at \in Nat
      /\ \A i, j \in DOMAIN h : h[i] = h[j] => i = j
      /\ \A i, j \in DOMAIN h : i < j => h[i].at <= h[j].at
      /\ \A r \in committed : \E i \in DOMAIN h : h[i] = r
  BY HistoryTellsAll, RecordHasABucket
<1>2. ASSUME NEW i \in Standing(h) PROVE i \in DOMAIN h /\ InForce(h[i])
  <2>1. i \in DOMAIN h /\ h[i].status # "allowed" /\ \A j \in DOMAIN h : h[j].bucket = h[i].bucket => j <= i
    BY DEF Standing
  <2>2. ASSUME NEW s \in committed, s.bucket = h[i].bucket PROVE s.at <= h[i].at
    <3>1. PICK j \in DOMAIN h : h[j] = s
      BY <1>1
    <3>2. j <= i
      BY <2>1, <2>2, <3>1
    <3> QED
      BY <1>1, <2>1, <3>1, <3>2
  <2> QED
    BY <1>1, <2>1, <2>2 DEF InForce
<1>3. ASSUME NEW r \in committed, InForce(r) PROVE \E i \in Standing(h) : h[i] = r
  <2>1. PICK i \in DOMAIN h : h[i] = r
    BY <1>1
  <2>2. ASSUME NEW j \in DOMAIN h, h[j].bucket = h[i].bucket PROVE j <= i
    <3>1. SUFFICES ASSUME i < j PROVE FALSE
      BY <1>1
    <3>2. h[i].at <= h[j].at /\ h[j].at <= h[i].at
      BY <1>1, <1>3, <2>1, <2>2, <3>1 DEF InForce
    <3>3. h[i].at = h[j].at
      BY <1>1, <3>2
    <3>4. h[j] = h[i]
      BY <1>1, <2>2, <3>3 DEF WellRecorded
    <3> QED
      BY <1>1, <3>1, <3>4
  <2>3. i \in Standing(h)
    BY <1>3, <2>1, <2>2 DEF InForce, Standing
  <2> QED
    BY <2>1, <2>3
<1> QED
  BY <1>2, <1>3

\* Well recorded, what stands for texts and is no wrong number is a stop.
LEMMA PolicyOfRecords == RecordsFit => EvaluateIsPolicy
<1> SUFFICES ASSUME RecordsFit, WellRecorded,
                    NEW h \in Histories(committed), NEW channel \in Channels,
                    NEW ourLine \in ValidLines \cup {NoLine}, NEW sendType \in SendTypes
             PROVE  CheckContactability(h, channel, ourLine, sendType) = Policy(channel, ourLine, sendType)
  BY Zenon DEF EvaluateIsPolicy
<1> DEFINE C == Candidates(h, channel, ourLine)
           O == OtherLineBlocks(h, channel, ourLine)
           r == h[PickEffective(h, channel, ourLine)]
<1>1. CheckContactability(h, channel, ourLine, sendType) = Evaluate(h, channel, ourLine, sendType)
  <2>1. AskedLine(ourLine) = ourLine
    BY DEF AskedLine
  <2> QED
    BY <2>1 DEF CheckContactability
<1>2. /\ \A i \in Standing(h) : h[i] \in committed /\ InForce(h[i])
      /\ \A s \in committed : InForce(s) => \E i \in Standing(h) : h[i] = s
  BY StandingIsInForce, HistoryTellsAll
<1>3. WrongNumber(h) <=> \E s \in committed : InForce(s) /\ IsGlobal(s) /\ s.status = "wrong_number"
  BY <1>2 DEF WrongNumber
<1>4. \A s \in committed : s.status \in Statuses /\ s.bucket.channel \in Channels /\ (InForce(s) => s.status # "allowed")
  BY RecordHasABucket DEF RecordsFit, InForce
<1>5. CASE WrongNumber(h)
  BY <1>1, <1>3, <1>5 DEF Evaluate, Policy
<1>6. CASE ~WrongNumber(h)
  <2>1. \A i \in Standing(h) : h[i].status # "wrong_number"
    BY <1>2, <1>6 DEF WrongNumber, WellRecorded
  <2>2. /\ \A i \in C : i \in Standing(h) /\ h[i].bucket.channel = channel
        /\ \A i \in C : Reaches(h[i], ourLine)
        /\ \A i \in O : i \in Standing(h) /\ h[i].bucket.channel = channel
        /\ \A i \in O : h[i].bucket.scope = "line" /\ h[i].bucket.line \notin {ourLine, NoLine}
    BY DEF Candidates, OtherLineBlocks, Reaches
  <2>3. C # {} => PickEffective(h, channel, ourLine) \in C
    BY PickedFromOneChannel, NewestIsLatest DEF PickEffective
  <2>4. C = {} /\ O # {} => PickEffective(h, channel, ourLine) \in O
    BY PickedFromOneChannel, NewestIsLatest DEF PickEffective
  <2>5. Evaluate(h, channel, ourLine, sendType) =
            IF C \cup O = {} THEN "allow"
            ELSE IF channel = "call" /\ r.status = "do_not_call" THEN "block"
            ELSE IF channel = "text" /\ r.status = "do_not_text" THEN StopDecision(r, ourLine, sendType)
            ELSE "allow"
    BY <1>6 DEF Evaluate
  <2>6. \A i \in Standing(h) : h[i].bucket.channel = channel =>
            h[i].status = IF channel = "call" THEN "do_not_call" ELSE "do_not_text"
    <3> SUFFICES ASSUME NEW i \in Standing(h), h[i].bucket.channel = channel
                 PROVE  h[i].status = IF channel = "call" THEN "do_not_call" ELSE "do_not_text"
      OBVIOUS
    <3>1. /\ h[i] \in committed /\ h[i].status \in Statuses /\ h[i].status # "allowed" /\ h[i].status # "wrong_number"
      BY <1>2, <1>4, <2>1
    <3> QED
      BY <3>1 DEF WellRecorded, Channels, Statuses
  <2>7. ~ \E s \in committed : InForce(s) /\ IsGlobal(s) /\ s.status = "wrong_number"
    BY <1>3, <1>6
  <2>8. CASE channel = "call"
    <3>1. \A i \in Standing(h) : h[i].bucket.channel = "call" => i \in C
      BY <1>2, <2>8 DEF WellRecorded, Candidates
    <3>2. O \subseteq C
      BY <2>2, <2>8, <3>1
    <3>3. C # {} <=> \E s \in committed : InForce(s) /\ s.bucket.channel = "call" /\ s.status = "do_not_call"
      BY <1>2, <2>2, <2>6, <2>8, <3>1
    <3>4. C # {} => r.status = "do_not_call"
      BY <2>2, <2>3, <2>6, <2>8
    <3> HIDE DEF C, O, r
    <3> QED
      BY <1>1, <2>5, <2>7, <2>8, <3>2, <3>3, <3>4 DEF Policy
  <2>9. CASE channel = "text"
    <3>1. C # {} <=> \E s \in committed : Stops(s) /\ Reaches(s, ourLine)
      <4>1. ASSUME NEW i \in C PROVE Stops(h[i]) /\ Reaches(h[i], ourLine) /\ h[i] \in committed
        BY <1>2, <2>2, <2>6, <2>9 DEF Stops, Reaches
      <4>2. ASSUME NEW s \in committed, Stops(s), Reaches(s, ourLine) PROVE C # {}
        <5>1. PICK i \in Standing(h) : h[i] = s
          BY <1>2, <4>2 DEF Stops
        <5>2. i \in C
          BY <2>9, <4>2, <5>1 DEF Stops, Reaches, Candidates
        <5> QED
          BY <5>2
      <4> QED
        BY <4>1, <4>2
    <3>2. O # {} <=> \E s \in committed : Stops(s) /\ OtherLine(s, ourLine)
      <4>1. ASSUME NEW i \in O PROVE Stops(h[i]) /\ OtherLine(h[i], ourLine) /\ h[i] \in committed
        BY <1>2, <2>2, <2>6, <2>9 DEF Stops, OtherLine
      <4>2. ASSUME NEW s \in committed, Stops(s), OtherLine(s, ourLine) PROVE O # {}
        <5>1. PICK i \in Standing(h) : h[i] = s
          BY <1>2, <4>2 DEF Stops
        <5>2. i \in O
          BY <2>9, <4>2, <5>1 DEF Stops, OtherLine, OtherLineBlocks
        <5> QED
          BY <5>2
      <4> QED
        BY <4>1, <4>2
    <3>3. C \cup O # {} => r.status = "do_not_text"
      BY <2>2, <2>3, <2>4, <2>6, <2>9
    <3>4. C # {} => StopDecision(r, ourLine, sendType) = "block"
      BY <2>2, <2>3 DEF StopDecision, Reaches
    <3>5. C = {} /\ O # {} => StopDecision(r, ourLine, sendType) =
              IF ourLine = NoLine /\ sendType # "manual" THEN "block" ELSE "warn"
      <4> SUFFICES ASSUME C = {}, O # {}
                   PROVE  StopDecision(r, ourLine, sendType) =
                              IF ourLine = NoLine /\ sendType # "manual" THEN "block" ELSE "warn"
        OBVIOUS
      <4>1. r.bucket.scope = "line" /\ r.bucket.line \notin {ourLine, NoLine}
        BY <2>2, <2>4
      <4>2. sendType \in {"mass", "automated"} <=> sendType # "manual"
        BY DEF SendTypes
      <4> QED
        BY <4>1, <4>2 DEF StopDecision, IsGlobal
    <3> HIDE DEF C, O, r
    <3> QED
      BY <1>1, <2>5, <2>7, <2>9, <3>1, <3>2, <3>3, <3>4, <3>5 DEF Policy
  <2> QED
    BY <2>8, <2>9 DEF Channels
<1> QED
  BY <1>5, <1>6

\* consent.evaluate: of records as agents, keywords and imports write them, the answer
\* for a contact is what all the records in force together say of it.
THEOREM EvaluateStaysPolicy == ConsentSpec => []EvaluateIsPolicy
BY RecordsAlwaysFit, PolicyOfRecords, PTL

-----------------------------------------------------------------------------
(* Access: what holds of each part alone holds of it where all are walked. *)

LEMMA AccessStepsAreTheParts ==
    ASSUME [AccessNext]_accessVars
    PROVE
      /\ [TokenNext]_tokenVars
      /\ [RolesNext]_roleVars
      /\ [RateNext]_rateVars
      /\ [WindowNext]_windowVars
      /\ [TenancyNext]_tenancyVars
      /\ [ConsentNext]_committed
<1>1. CASE UNCHANGED accessVars
  BY <1>1 DEF accessVars
<1>2. CASE part = "token" /\ TokenNext /\ UNCHANGED <<roleVars, rateVars, windowVars, tenancyVars, committed>>
  BY <1>2
<1>3. CASE part = "roles" /\ RolesNext /\ UNCHANGED <<tokenVars, rateVars, windowVars, tenancyVars, committed>>
  BY <1>3
<1>4. CASE part = "rate" /\ RateNext /\ UNCHANGED <<tokenVars, roleVars, windowVars, tenancyVars, committed>>
  BY <1>4
<1>5. CASE part = "window" /\ WindowNext /\ UNCHANGED <<tokenVars, roleVars, rateVars, tenancyVars, committed>>
  BY <1>5
<1>6. CASE part = "tenancy" /\ TenancyNext /\ UNCHANGED <<tokenVars, roleVars, rateVars, windowVars, committed>>
  BY <1>6
<1>7. CASE part = "consent" /\ ConsentNext /\ UNCHANGED <<tokenVars, roleVars, rateVars, windowVars, tenancyVars>>
  BY <1>7
<1> QED
  BY <1>1, <1>2, <1>3, <1>4, <1>5, <1>6, <1>7 DEF AccessNext

\* A behaviour of Access is one of each of its six parts, so that what is proved of a
\* part is proved of what the run walks.
THEOREM AccessWalksItsParts ==
    AccessSpec =>
        TokenSpec /\ RolesSpec /\ RateSpec /\ WindowSpec /\ TenancySpec /\ ConsentSpec
<1>1. AccessInit => TokenInit /\ RolesInit /\ RateInit /\ WindowInit /\ TenancyInit /\ ConsentInit
  BY DEF AccessInit
<1> QED
  BY <1>1, AccessStepsAreTheParts, PTL DEF AccessSpec, TokenSpec, RolesSpec, RateSpec, WindowSpec, TenancySpec, ConsentSpec
=============================================================================
