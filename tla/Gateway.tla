------------------------------ MODULE Gateway ------------------------------
(***************************************************************************)
(* The way of a request into one process: thecargo.middleware's            *)
(* CancelOnDisconnectMiddleware, LoadShedMiddleware and RateLimitMiddleware*)
(* around the application, in this order.                                  *)
(*                                                                         *)
(* CancelOnDisconnect runs everything behind it in a task of its own (app) *)
(* while a second one (pump) waits for the client's disconnect, and cancels*)
(* the first when the client leaves before the response is complete. The   *)
(* LoadShed slot a cancelled request holds must come back all the same.    *)
(***************************************************************************)
EXTENDS Integers, FiniteSets

CONSTANTS
    Requests,
    LIMIT        \* LoadShedMiddleware.limit

ASSUME GatewayAssumption == LIMIT \in Nat /\ IsFiniteSet(Requests)

VARIABLES
    kind,       \* kind[r]: a "read" may be cancelled, a "write" not; "internal" ones
                \* are reads that carry the service secret
    app,        \* app[r]: where the application is with r
    sent,       \* sent[r]: how much of the response went out
    client,     \* client[r]: the client is still there
    pump,       \* pump[r]: the task that reads the client's messages
    watch,      \* watch[r]: the request's own task, in CancelOnDisconnect
    cut,        \* cut[r]: app_task.cancel() was called
    inFlight,   \* LoadShedMiddleware.in_flight
    shutdown    \* the server has cancelled the requests still open

gatewayVars == <<kind, app, sent, client, pump, watch, cut, inFlight, shutdown>>

Kinds == {"read", "write", "internal"}
Slotted == {"limiting", "serving", "limited"}    \* behind LoadShed
Ended == {"done", "failed", "cut"}
AppStates == {"none", "entering", "shed"} \cup Slotted \cup Ended

GatewayInit ==
    /\ kind \in [Requests -> Kinds]
    /\ app = [r \in Requests |-> "none"]
    /\ sent = [r \in Requests |-> "nothing"]
    /\ client = [r \in Requests |-> TRUE]
    /\ pump = [r \in Requests |-> "off"]
    /\ watch = [r \in Requests |-> "off"]
    /\ cut = [r \in Requests |-> FALSE]
    /\ inFlight = 0 /\ shutdown = FALSE

Cancellable(r) == kind[r] # "write"
Sheddable(r) == kind[r] # "internal"
HoldsSlot(r) == Sheddable(r) /\ app[r] \in Slotted

----------------------------------------------------------------------------
(* The application's task.                                                 *)

Move(r, state) == app' = [app EXCEPT ![r] = state]

Arrive(r) ==
    /\ app[r] = "none" /\ ~shutdown
    /\ Move(r, "entering")
    /\ pump' = [pump EXCEPT ![r] = IF Cancellable(r) THEN "reading" ELSE "off"]
    /\ watch' = [watch EXCEPT ![r] = IF Cancellable(r) THEN "waiting" ELSE "direct"]
    /\ UNCHANGED <<kind, sent, client, cut, inFlight, shutdown>>

Full == inFlight >= LIMIT

Shed(r) ==
    /\ app[r] = "entering" /\ ~cut[r]
    /\ Sheddable(r) /\ Full
    /\ Move(r, "shed")
    /\ UNCHANGED <<kind, sent, client, pump, watch, cut, inFlight, shutdown>>

Admit(r) ==
    /\ app[r] = "entering" /\ ~cut[r]
    /\ Sheddable(r) => ~Full
    /\ inFlight' = IF Sheddable(r) THEN inFlight + 1 ELSE inFlight
    /\ Move(r, "limiting")
    /\ UNCHANGED <<kind, sent, client, pump, watch, cut, shutdown>>

\* The limiter's verdict. A request with the service secret is not counted;
\* one whose bucket is empty is answered 429 in the mode "enforce". Redis failing
\* lets a request through. The bucket itself is in RateLimit.
Limit(r) ==
    /\ app[r] = "limiting" /\ ~cut[r]
    /\ \/ Move(r, "serving")
       \/ kind[r] # "internal" /\ Move(r, "limited")
    /\ UNCHANGED <<kind, sent, client, pump, watch, cut, inFlight, shutdown>>

Respond(r) ==
    /\ app[r] \in {"serving", "shed", "limited"} /\ ~cut[r]
    /\ \/ sent[r] = "nothing" /\ sent' = [sent EXCEPT ![r] = "started"]
       \/ sent[r] = "started" /\ sent' = [sent EXCEPT ![r] = "complete"]
    /\ UNCHANGED <<kind, app, client, pump, watch, cut, inFlight, shutdown>>

\* Mutant: in_flight goes down after the call, not in a finally.
LeaveOnlyWhenDone(r, state) ==
    /\ Move(r, state)
    /\ inFlight' = IF HoldsSlot(r) /\ state = "done" THEN inFlight - 1 ELSE inFlight

\* The task ends, through LoadShed's finally.
Leave(r, state) ==
    /\ Move(r, state)
    /\ inFlight' = IF HoldsSlot(r) THEN inFlight - 1 ELSE inFlight

\* After the response the request's dependencies are torn down. An application
\* that is told of the disconnect may stop before its response is complete.
Finish(r) ==
    /\ app[r] \in {"serving", "shed", "limited"} /\ ~cut[r]
    /\ sent[r] = "complete" \/ ~client[r]
    /\ Leave(r, "done")
    /\ UNCHANGED <<kind, sent, client, pump, watch, cut, shutdown>>

Fail(r) ==
    /\ app[r] = "serving" /\ ~cut[r]
    /\ Leave(r, "failed")
    /\ UNCHANGED <<kind, sent, client, pump, watch, cut, shutdown>>

\* CancelledError runs through the application, which may fail on the way out
\* or swallow it and return.
BeCut(r) ==
    /\ cut[r] /\ app[r] \notin Ended
    /\ \E state \in Ended : Leave(r, state)
    /\ UNCHANGED <<kind, sent, client, pump, watch, cut, shutdown>>

----------------------------------------------------------------------------
(* The client, and the pump that reads its messages.                       *)

ClientLeaves(r) ==
    /\ app[r] # "none" /\ client[r]
    /\ client' = [client EXCEPT ![r] = FALSE]
    /\ UNCHANGED <<kind, app, sent, pump, watch, cut, inFlight, shutdown>>

\* The server also reports a disconnect once the response is complete.
PumpSees(r) ==
    /\ pump[r] = "reading"
    /\ ~client[r] \/ sent[r] = "complete"
    /\ pump' = [pump EXCEPT ![r] = "disconnect"]
    /\ UNCHANGED <<kind, app, sent, client, watch, cut, inFlight, shutdown>>

PumpFails(r) ==
    /\ pump[r] = "reading"
    /\ pump' = [pump EXCEPT ![r] = "failed"]
    /\ UNCHANGED <<kind, app, sent, client, watch, cut, inFlight, shutdown>>

----------------------------------------------------------------------------
(* CancelOnDisconnect.                                                     *)

StopPump(r) == pump' = [pump EXCEPT ![r] = IF @ = "reading" THEN "off" ELSE @]

\* The application ended, or the request was never watched: its end is the
\* request's.
WatchReturns(r) ==
    /\ watch[r] \in {"waiting", "direct", "joining"}
    /\ app[r] \in Ended
    /\ watch' = [watch EXCEPT ![r] = "returned"]
    /\ StopPump(r)
    /\ UNCHANGED <<kind, app, sent, client, cut, inFlight, shutdown>>

\* Mutant: a response that has begun is taken for a complete one.
LetsFinishOnceStarted(r) == pump[r] = "failed" \/ sent[r] # "nothing"

LetsFinish(r) == pump[r] = "failed" \/ sent[r] = "complete"

\* The pump ended first: wait for the application, or cancel it.
WatchWakes(r) ==
    /\ watch[r] = "waiting"
    /\ app[r] \notin Ended
    /\ pump[r] \in {"disconnect", "failed"}
    /\ watch' = [watch EXCEPT ![r] = IF LetsFinish(r) THEN "joining" ELSE "cancelling"]
    /\ cut' = [cut EXCEPT ![r] = ~LetsFinish(r)]
    /\ UNCHANGED <<kind, app, sent, client, pump, inFlight, shutdown>>

\* A request that was cancelled before its response began is answered 499.
WatchAnswers(r) ==
    /\ watch[r] = "cancelling"
    /\ app[r] \in Ended
    /\ watch' = [watch EXCEPT ![r] = "returned"]
    /\ sent' = [sent EXCEPT ![r] = IF @ = "nothing" /\ app[r] # "failed" THEN "499" ELSE @]
    /\ UNCHANGED <<kind, app, client, pump, cut, inFlight, shutdown>>

\* The server gives up waiting for open requests and cancels their tasks. One
\* in asyncio.wait returns and leaves its application to itself; one that awaits
\* the application passes the cancellation on.
Shutdown ==
    /\ ~shutdown
    /\ shutdown' = TRUE
    /\ cut' = [r \in Requests |-> cut[r] \/ (watch[r] \in {"joining", "direct"} /\ app[r] \notin Ended)]
    /\ watch' = [r \in Requests |-> IF watch[r] = "waiting" THEN "returned" ELSE watch[r]]
    /\ pump' = [r \in Requests |-> IF pump[r] = "reading" THEN "off" ELSE pump[r]]
    /\ UNCHANGED <<kind, app, sent, client, inFlight>>

----------------------------------------------------------------------------
\* What the library's code does by itself once a client has left.
CancelStep(r) == PumpSees(r) \/ WatchWakes(r) \/ BeCut(r) \/ WatchReturns(r) \/ WatchAnswers(r)

AppStep(r) ==
    Arrive(r) \/ Shed(r) \/ Admit(r) \/ Limit(r) \/ Respond(r) \/ Finish(r)
      \/ Fail(r)

GatewayNext ==
    \/ \E r \in Requests : AppStep(r) \/ CancelStep(r) \/ ClientLeaves(r) \/ PumpFails(r)
    \/ Shutdown

GatewaySpec == GatewayInit /\ [][GatewayNext]_gatewayVars

\* The event loop runs the tasks; nothing is said of how long an endpoint takes.
GatewayFairSpec == GatewaySpec /\ \A r \in Requests : WF_gatewayVars(CancelStep(r))

----------------------------------------------------------------------------
(* Properties. *)

\* Every variable has its type.
GatewayTypeOK ==
    /\ kind \in [Requests -> Kinds]
    /\ app \in [Requests -> AppStates]
    /\ sent \in [Requests -> {"nothing", "started", "complete", "499"}]
    /\ client \in [Requests -> BOOLEAN]
    /\ pump \in [Requests -> {"off", "reading", "disconnect", "failed"}]
    /\ watch \in [Requests -> {"off", "direct", "waiting", "joining", "cancelling", "returned"}]
    /\ cut \in [Requests -> BOOLEAN]
    /\ inFlight \in Nat /\ shutdown \in BOOLEAN

\* in_flight is the number of requests behind LoadShed, however they end: done,
\* failed, cut off in the middle or left to themselves at shutdown; it never
\* passes the limit.
SlotsAreCounted ==
    /\ inFlight = Cardinality({r \in Requests : HoldsSlot(r)})
    /\ inFlight <= LIMIT

\* Before shutdown only a read is cut off, only after its client left, and never
\* when its response was complete and its dependencies were being torn down: the
\* disconnect the server reports after a full response is not taken for one.
CutOnlyForLeavers ==
    \A r \in Requests :
        cut[r] /\ ~shutdown => kind[r] # "write" /\ ~client[r] /\ sent[r] # "complete"

\* And of a client that left, nobody loses sight: as long as its request holds a
\* slot, its disconnect is waited for, or found and not yet acted on, or the
\* application was cancelled. Only a failed pump or a shutdown ends the watch.
LeaversAreFollowed ==
    \A r \in Requests :
        Cancellable(r) /\ HoldsSlot(r) /\ ~client[r] /\ sent[r] # "complete" /\ ~shutdown =>
            \/ pump[r] \in {"reading", "failed"}
            \/ pump[r] = "disconnect" /\ watch[r] = "waiting"
            \/ cut[r]

CutsFollowLeaving == CutOnlyForLeavers /\ LeaversAreFollowed

\* A client that leaves gives its slot back although the endpoint may never end,
\* unless its messages could not be read or the server shut down.
DisconnectFreesSlot ==
    \A r \in Requests :
        Cancellable(r) /\ ~client[r] /\ sent[r] # "complete" /\ HoldsSlot(r)
            ~> ~HoldsSlot(r) \/ pump[r] = "failed" \/ sent[r] = "complete" \/ shutdown
=============================================================================
