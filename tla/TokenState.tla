----------------------------- MODULE TokenState -----------------------------
(***************************************************************************)
(* thecargo.dependencies.auth: whether a bearer token may still be used.   *)
(*                                                                         *)
(* The auth service, outside this library, mints tokens and keeps the      *)
(* state of a person's account in Redis: the second in which every token   *)
(* was revoked, the one in which the account's access changed, the         *)
(* sessions that hold a slot, those that wait for another device's         *)
(* approval, the version of the role. _token_state reads them in a         *)
(* pipeline that is no transaction, so the auth service may write between  *)
(* two reads, and gives up with the first error of Redis.                  *)
(*                                                                         *)
(* One client, which sends one request at a time with the token it holds.  *)
(***************************************************************************)
EXTENDS Naturals, Sequences

CONSTANTS MaxSeconds, MaxVersion    \* bounds on the seconds and on the role's versions

VARIABLES
    second,      \* the time, in seconds from 1
    redisUp,
    revokedAt,   \* user:{id}:revoked_at, or 0
    staleAt,     \* user:{id}:stale_at, or 0
    slot,        \* the client's session: "held" in user:{id}:sids, "pending", or "gone"
    version,     \* role:{id}:version
    token,       \* the token the client holds
    request      \* its request

account == <<revokedAt, staleAt, slot, version>>
tokenVars == <<second, redisUp, account, token, request>>

\* What the dependencies tell apart: the secret and audience of the signature and the type.
Kinds == {"access", "refresh", "portal", "admin"}
Guards == {"get_current_user", "get_current_customer", "get_current_admin"}

NoToken == [iat |-> 0]
NoRequest == [step |-> "none"]

TokenInit ==
    /\ second = 1 /\ redisUp = TRUE
    /\ revokedAt = 0 /\ staleAt = 0 /\ slot = "gone" /\ version = 0
    /\ token = NoToken /\ request = NoRequest

----------------------------------------------------------------------------
(* The auth service. *)

Idle == request.step \in {"none", "done"}

\* The claims that matter: its kind, whether it names a session, whether its
\* role counts (a role, and no superuser) and whether its organization's type is
\* allowed here.
Claims ==
    {[kind |-> "access", sid |-> sid, role |-> role, allowed |-> TRUE] : sid, role \in BOOLEAN}
    \union {[kind |-> kind, sid |-> FALSE, role |-> FALSE, allowed |-> kind # "access"] : kind \in Kinds}

\* revoked and stale are ghosts: the last second in which the token lost its
\* right that way, or 0.
Minted(claims) ==
    [claims |-> claims, iat |-> second, rv |-> version, revoked |-> 0, stale |-> 0]

SignIn ==
    /\ Idle
    /\ \E claims \in Claims : token' = Minted(claims)
    /\ slot' \in {"held", "pending"}
    /\ request' = NoRequest
    /\ UNCHANGED <<second, redisUp, revokedAt, staleAt, version>>

Refresh ==
    /\ Idle
    /\ token # NoToken /\ token.revoked = 0 /\ slot # "gone"
    /\ token' = Minted(token.claims)
    /\ request' = NoRequest
    /\ UNCHANGED <<second, redisUp, account>>

Revoke ==
    /\ redisUp
    /\ revokedAt' = second
    /\ token' = IF token = NoToken THEN token ELSE [token EXCEPT !.revoked = second]
    /\ UNCHANGED <<second, redisUp, staleAt, slot, version, request>>

MarkStale ==
    /\ redisUp
    /\ staleAt' = second
    /\ token' = IF token = NoToken THEN token ELSE [token EXCEPT !.stale = second]
    /\ UNCHANGED <<second, redisUp, revokedAt, slot, version, request>>

\* Another device approves the session, in one transaction of Redis.
Approve ==
    /\ redisUp
    /\ slot = "pending" /\ slot' = "held"
    /\ request' = IF Idle THEN request ELSE [request EXCEPT !.approved = TRUE]
    /\ UNCHANGED <<second, redisUp, revokedAt, staleAt, version, token>>

\* A sign-in elsewhere takes the session's slot.
Displace ==
    /\ redisUp
    /\ slot = "held" /\ slot' = "gone"
    /\ UNCHANGED <<second, redisUp, revokedAt, staleAt, version, token, request>>

ChangeRole ==
    /\ redisUp
    /\ version < MaxVersion /\ version' = version + 1
    /\ UNCHANGED <<second, redisUp, revokedAt, staleAt, slot, token, request>>

SecondPasses ==
    /\ second < MaxSeconds /\ second' = second + 1
    /\ UNCHANGED <<redisUp, account, token, request>>

RedisTurns ==
    /\ redisUp' = ~redisUp
    /\ UNCHANGED <<second, account, token, request>>

----------------------------------------------------------------------------
(* A request. *)

\* jwt.decode refuses a signature of another secret, and a token with an
\* audience nobody expects or without the one expected.
Secret(kind) == IF kind = "portal" THEN "portal" ELSE "jwt"
Audience(kind) == CASE kind = "portal" -> "portal" [] kind = "admin" -> "admin-console" [] OTHER -> "none"
Type(kind) == IF kind = "refresh" THEN "refresh" ELSE "access"

\* Mutant: any token that decodes will do, a refresh token too.
UserOfAnyType(kind) == Secret(kind) = "jwt" /\ Audience(kind) = "none"

CurrentUser(kind)     == Secret(kind) = "jwt" /\ Audience(kind) = "none" /\ Type(kind) = "access"
CurrentCustomer(kind) == Secret(kind) = "portal" /\ Audience(kind) = "portal" /\ Type(kind) = "access"
CurrentAdmin(kind)    == Secret(kind) = "jwt" /\ Audience(kind) = "admin-console" /\ Type(kind) = "access"

Accepts(guard, kind) ==
    CASE guard = "get_current_user"     -> CurrentUser(kind)
      [] guard = "get_current_customer" -> CurrentCustomer(kind)
      [] guard = "get_current_admin"    -> CurrentAdmin(kind)

Answered(answer) == [request EXCEPT !.step = "done", !.answer = answer]

\* The request comes in; before is the ghost of what the account said then.
Come ==
    /\ Idle /\ token # NoToken
    /\ \E guard \in Guards :
          request' =
             [step |-> IF guard = "get_current_user" /\ Accepts(guard, token.claims.kind) THEN "org_type" ELSE "done",
              guard |-> guard, token |-> token, got |-> <<>>, asked |-> FALSE, approved |-> FALSE,
              before |-> [slot |-> slot, version |-> version],
              answer |-> CASE ~Accepts(guard, token.claims.kind) -> "invalid"
                           [] guard = "get_current_user" -> "none"
                           [] OTHER -> "admitted"]
    /\ UNCHANGED <<second, redisUp, account, token>>

EnforceOrgType ==
    /\ request.step = "org_type"
    /\ request' = IF request.token.claims.allowed THEN [request EXCEPT !.step = "read"]
                  ELSE Answered("org_type_not_allowed")
    /\ UNCHANGED <<second, redisUp, account, token>>

\* _token_state: the commands of the pipeline in the order they were queued,
\* the last one only for a token with a role.
Commands == IF request.token.claims.role THEN 5 ELSE 4

Value(n) ==
    CASE n = 1 -> revokedAt
      [] n = 2 -> staleAt
      [] n = 3 -> request.token.claims.sid /\ slot = "held"
      [] n = 4 -> request.token.claims.sid /\ slot = "pending"
      [] n = 5 -> version

Read ==
    /\ request.step = "read" /\ redisUp
    /\ Len(request.got) < Commands
    /\ request' = [request EXCEPT !.got = Append(@, Value(Len(@) + 1))]
    /\ UNCHANGED <<second, redisUp, account, token>>

\* Redis failed somewhere in the pipeline: the token is let through.
ReadFails ==
    /\ request.step = "read" /\ ~redisUp
    /\ request' = Answered("admitted")
    /\ UNCHANGED <<second, redisUp, account, token>>

\* Mutant: a token of the second of the mark is refused too.
OlderOrAsOld(iat, mark) == mark # 0 /\ iat <= mark

\* int(issued_at) < int(mark), both in whole seconds.
Older(iat, mark) == mark # 0 /\ iat < mark

\* Mutant: what Redis has is compared only for the session.
VerdictOnSession(t, got) ==
    IF t.claims.sid /\ got[4] THEN "device_approval_pending"
    ELSE IF t.claims.sid /\ ~got[3] THEN "session_superseded"
    ELSE "admitted"

\* _enforce_token_state: the first reason there is. An account without a
\* version in Redis has none to compare.
Verdict(t, got) ==
    IF Older(t.iat, got[1]) THEN "token_revoked"
    ELSE IF Older(t.iat, got[2]) THEN "token_stale"
    ELSE IF t.claims.sid /\ got[4] THEN "device_approval_pending"
    ELSE IF t.claims.sid /\ ~got[3] THEN "session_superseded"
    ELSE IF t.claims.role /\ got[5] \notin {0, t.rv} THEN "role_changed"
    ELSE "admitted"

Enforce ==
    /\ request.step = "read"
    /\ Len(request.got) = Commands
    /\ request' = [Answered(Verdict(request.token, request.got)) EXCEPT !.asked = TRUE]
    /\ UNCHANGED <<second, redisUp, account, token>>

TokenNext ==
    \/ SignIn \/ Refresh \/ Revoke \/ MarkStale \/ Approve \/ Displace \/ ChangeRole
    \/ SecondPasses \/ RedisTurns
    \/ Come \/ EnforceOrgType \/ Read \/ ReadFails \/ Enforce

TokenSpec == TokenInit /\ [][TokenNext]_tokenVars

----------------------------------------------------------------------------
(* Properties. *)

\* The rights of a request are live: one that get_current_user let through with
\* an answer of Redis had, when it came, an access token that nothing had
\* revoked or made stale since it was minted, except in the very second of its
\* minting, a session that held its slot or was approved while it was asked
\* about, and the role's version of that moment.
RightsAreLive ==
    (request.step = "done" /\ request.answer = "admitted" /\ request.asked) =>
        LET t == request.token IN
        /\ t.claims.kind = "access" /\ t.claims.allowed
        /\ t.revoked \in {0, t.iat} /\ t.stale \in {0, t.iat}
        /\ t.claims.sid => request.before.slot = "held" \/ request.approved
        /\ t.claims.role => t.rv = request.before.version

\* A refusal has a cause: a token is called revoked or stale only for a mark set
\* after it was minted, in a later second, superseded only when its session
\* lost the slot or was approved between the two reads that look for it, and
\* out of date only after its role changed; a refresh ends staleness.
RefusalsHaveCause ==
    request.step = "done" =>
        LET t == request.token IN
        CASE request.answer = "token_revoked"           -> token.revoked > t.iat
          [] request.answer = "token_stale"             -> token.stale > t.iat
          [] request.answer = "session_superseded"      -> request.before.slot = "gone" \/ slot = "gone" \/ request.approved
          [] request.answer = "device_approval_pending" -> request.before.slot = "pending"
          [] request.answer = "role_changed"            -> version > t.rv
          [] OTHER -> TRUE
=============================================================================
