--------------------------- MODULE GatewayProofs ---------------------------
(* Proofs about Gateway: LoadShed's slots are counted, and only the requests *)
(* of clients that left are cut off, for any number of requests.             *)
EXTENDS Gateway, FiniteSetTheorems, TLAPS

Holders == {r \in Requests : HoldsSlot(r)}

\* What CutOnlyForLeavers rests on: a disconnect is only ever reported of a client
\* that left or whose response is complete, and only reads are watched.
Watched ==
    \A r \in Requests :
        /\ pump[r] = "disconnect" => ~client[r] \/ sent[r] = "complete"
        /\ watch[r] = "waiting" => kind[r] # "write"
        /\ cut[r] /\ ~shutdown => kind[r] # "write" /\ ~client[r] /\ sent[r] # "complete"

\* Everything but the number of requests in flight, whose type depends on the count.
FlagsOK ==
    /\ kind \in [Requests -> Kinds]
    /\ app \in [Requests -> AppStates]
    /\ sent \in [Requests -> {"nothing", "started", "complete", "499"}]
    /\ client \in [Requests -> BOOLEAN]
    /\ pump \in [Requests -> {"off", "reading", "disconnect", "failed"}]
    /\ watch \in [Requests -> {"off", "direct", "waiting", "joining", "cancelling", "returned"}]
    /\ cut \in [Requests -> BOOLEAN]
    /\ shutdown \in BOOLEAN

----------------------------------------------------------------------------
(* The flags. *)

LEMMA FlagsInductive == FlagsOK /\ [GatewayNext]_gatewayVars => FlagsOK'
<1>. SUFFICES ASSUME FlagsOK, [GatewayNext]_gatewayVars
              PROVE  FlagsOK'
    OBVIOUS
<1>. USE DEF FlagsOK
<1>1. ASSUME NEW r \in Requests, AppStep(r)
      PROVE  FlagsOK'
  <2>1. CASE Arrive(r)
    BY <2>1 DEF Arrive, Move, AppStates
  <2>2. CASE Shed(r)
    BY <2>2 DEF Shed, Move, AppStates
  <2>3. CASE Admit(r)
    BY <2>3 DEF Admit, Move, AppStates, Slotted
  <2>4. CASE Limit(r)
    BY <2>4 DEF Limit, Move, AppStates, Slotted
  <2>5. CASE Respond(r)
    BY <2>5 DEF Respond
  <2>6. CASE Finish(r)
    BY <2>6 DEF Finish, Leave, Move, AppStates, Ended
  <2>7. CASE Fail(r)
    BY <2>7 DEF Fail, Leave, Move, AppStates, Ended
  <2>. QED
    BY <1>1, <2>1, <2>2, <2>3, <2>4, <2>5, <2>6, <2>7 DEF AppStep
<1>2. ASSUME NEW r \in Requests, CancelStep(r)
      PROVE  FlagsOK'
  <2>1. CASE PumpSees(r)
    BY <2>1 DEF PumpSees
  <2>2. CASE WatchWakes(r)
    BY <2>2 DEF WatchWakes, LetsFinish
  <2>3. CASE BeCut(r)
    BY <2>3 DEF BeCut, Leave, Move, AppStates
  <2>4. CASE WatchReturns(r)
    BY <2>4 DEF WatchReturns, StopPump
  <2>5. CASE WatchAnswers(r)
    BY <2>5 DEF WatchAnswers
  <2>. QED
    BY <1>2, <2>1, <2>2, <2>3, <2>4, <2>5 DEF CancelStep
<1>3. ASSUME NEW r \in Requests, ClientLeaves(r) \/ PumpFails(r)
      PROVE  FlagsOK'
    BY <1>3 DEF ClientLeaves, PumpFails
<1>4. CASE Shutdown
    BY <1>4 DEF Shutdown
<1>5. CASE UNCHANGED gatewayVars
    BY <1>5 DEF gatewayVars
<1>. QED
    BY <1>1, <1>2, <1>3, <1>4, <1>5 DEF GatewayNext

----------------------------------------------------------------------------
(* The slots. *)

\* A request that moves without passing LoadShed's border changes no count.
LEMMA CountKept ==
    ASSUME Holders' = Holders, inFlight' = inFlight, inFlight \in Nat, SlotsAreCounted
    PROVE  inFlight' \in Nat /\ SlotsAreCounted'
    BY DEF SlotsAreCounted, Holders

LEMMA HoldersFinite == IsFiniteSet(Holders)
    BY GatewayAssumption, FS_Subset DEF Holders

\* A request that moves within LoadShed, or outside it, leaves its slots as they are.
LEMMA MoveKeeps ==
    ASSUME FlagsOK, NEW r \in Requests, NEW state, Move(r, state), UNCHANGED kind,
           app[r] \in Slotted <=> state \in Slotted
    PROVE  Holders' = Holders
    BY DEF FlagsOK, Move, Holders, HoldsSlot, Sheddable

\* Whoever ends gives the slot back, if it had one.
LEMMA LeaveCounts ==
    ASSUME FlagsOK, inFlight \in Nat, SlotsAreCounted,
           NEW r \in Requests, NEW state \in Ended, Leave(r, state), UNCHANGED kind
    PROVE  inFlight' \in Nat /\ SlotsAreCounted'
<1>1. Holders' = Holders \ {r}
    BY DEF FlagsOK, Leave, Move, Holders, HoldsSlot, Sheddable, Slotted, Ended
<1>2. Cardinality(Holders') = IF r \in Holders THEN Cardinality(Holders) - 1 ELSE Cardinality(Holders)
    BY <1>1, HoldersFinite, FS_RemoveElement
<1>3. r \in Holders <=> HoldsSlot(r)
    BY DEF Holders
<1>4. inFlight = Cardinality(Holders)
    BY DEF SlotsAreCounted, Holders
<1>5. inFlight' = Cardinality(Holders')
    BY <1>2, <1>3, <1>4 DEF Leave
<1>6. Cardinality(Holders') \in Nat
  <2>1. IsFiniteSet(Holders')
    BY <1>1, HoldersFinite, FS_RemoveElement
  <2>. QED
    BY <2>1, FS_CardinalityType
<1>7. inFlight' <= LIMIT
    BY <1>2, <1>4, <1>5, GatewayAssumption DEF SlotsAreCounted
<1>. QED
    BY <1>5, <1>6, <1>7 DEF SlotsAreCounted, Holders

LEMMA AdmitCounts ==
    ASSUME FlagsOK, inFlight \in Nat, SlotsAreCounted, NEW r \in Requests, Admit(r)
    PROVE  inFlight' \in Nat /\ SlotsAreCounted'
<1>1. CASE ~Sheddable(r)
  <2>1. Holders' = Holders
    BY <1>1 DEF FlagsOK, Admit, Move, Holders, HoldsSlot, Sheddable
  <2>. QED
    BY <1>1, <2>1, CountKept DEF Admit
<1>2. CASE Sheddable(r)
  <2>1. Holders' = Holders \cup {r} /\ r \notin Holders
    BY <1>2 DEF FlagsOK, Admit, Move, Holders, HoldsSlot, Sheddable, Slotted
  <2>2. Cardinality(Holders') = Cardinality(Holders) + 1
    BY <2>1, HoldersFinite, FS_AddElement
  <2>3. inFlight' = inFlight + 1 /\ inFlight < LIMIT
    BY <1>2, GatewayAssumption DEF Admit, Full
  <2>4. inFlight' <= LIMIT
    BY <2>3, GatewayAssumption
  <2>. QED
    BY <2>2, <2>3, <2>4 DEF SlotsAreCounted, Holders
<1>. QED
    BY <1>1, <1>2

LEMMA SlotsInductive ==
    FlagsOK /\ inFlight \in Nat /\ SlotsAreCounted /\ [GatewayNext]_gatewayVars
        => inFlight' \in Nat /\ SlotsAreCounted'
<1>. SUFFICES ASSUME FlagsOK, inFlight \in Nat, SlotsAreCounted, [GatewayNext]_gatewayVars
              PROVE  inFlight' \in Nat /\ SlotsAreCounted'
    OBVIOUS
<1>1. CASE UNCHANGED <<kind, app, inFlight>>
  <2>1. Holders' = Holders
    BY <1>1 DEF Holders, HoldsSlot, Sheddable
  <2>. QED
    BY <1>1, <2>1, CountKept
<1>2. ASSUME NEW r \in Requests, AppStep(r)
      PROVE  inFlight' \in Nat /\ SlotsAreCounted'
  <2>1. CASE Arrive(r) \/ Shed(r)
    <3>1. UNCHANGED <<kind, inFlight>>
        BY <2>1 DEF Arrive, Shed
    <3>2. \E state \in {"entering", "shed"} : Move(r, state) /\ app[r] \notin Slotted
        BY <2>1 DEF Arrive, Shed, Slotted
    <3>. QED
        BY <3>1, <3>2, MoveKeeps, CountKept DEF Slotted
  <2>2. CASE Admit(r)
    BY <2>2, AdmitCounts
  <2>3. CASE Limit(r)
    <3>1. UNCHANGED <<kind, inFlight>>
        BY <2>3 DEF Limit
    <3>2. \E state \in {"serving", "limited"} : Move(r, state) /\ app[r] \in Slotted
        BY <2>3 DEF Limit, Slotted
    <3>. QED
        BY <3>1, <3>2, MoveKeeps, CountKept DEF Slotted
  <2>4. CASE Respond(r)
    BY <2>4, <1>1 DEF Respond
  <2>5. CASE Finish(r) \/ Fail(r)
    <3>1. \E state \in Ended : Leave(r, state) /\ UNCHANGED kind
        BY <2>5 DEF Finish, Fail, Ended
    <3>. QED
        BY <3>1, LeaveCounts
  <2>. QED
    BY <1>2, <2>1, <2>2, <2>3, <2>4, <2>5 DEF AppStep
<1>3. ASSUME NEW r \in Requests, CancelStep(r)
      PROVE  inFlight' \in Nat /\ SlotsAreCounted'
  <2>1. CASE BeCut(r)
    <3>1. \E state \in Ended : Leave(r, state) /\ UNCHANGED kind
        BY <2>1 DEF BeCut
    <3>. QED
        BY <3>1, LeaveCounts
  <2>2. CASE PumpSees(r) \/ WatchWakes(r) \/ WatchReturns(r) \/ WatchAnswers(r)
    BY <2>2, <1>1 DEF PumpSees, WatchWakes, WatchReturns, WatchAnswers
  <2>. QED
    BY <1>3, <2>1, <2>2 DEF CancelStep
<1>4. ASSUME NEW r \in Requests, ClientLeaves(r) \/ PumpFails(r)
      PROVE  inFlight' \in Nat /\ SlotsAreCounted'
    BY <1>1, <1>4 DEF ClientLeaves, PumpFails
<1>5. CASE Shutdown
    BY <1>1, <1>5 DEF Shutdown
<1>6. CASE UNCHANGED gatewayVars
    BY <1>1, <1>6 DEF gatewayVars
<1>. QED
    BY <1>2, <1>3, <1>4, <1>5, <1>6 DEF GatewayNext

----------------------------------------------------------------------------
(* The cancellations. *)

LEMMA WatchedInductive == FlagsOK /\ Watched /\ [GatewayNext]_gatewayVars => Watched'
<1>. SUFFICES ASSUME FlagsOK, Watched, [GatewayNext]_gatewayVars
              PROVE  Watched'
    OBVIOUS
<1>. USE DEF FlagsOK, Watched
<1>1. ASSUME NEW r \in Requests, AppStep(r)
      PROVE  Watched'
  <2>1. CASE Arrive(r)
    BY <2>1 DEF Arrive, Cancellable
  <2>2. CASE Shed(r) \/ Admit(r) \/ Limit(r) \/ Finish(r) \/ Fail(r)
    BY <2>2 DEF Shed, Admit, Limit, Finish, Fail
  <2>3. CASE Respond(r)
    BY <2>3 DEF Respond
  <2>. QED
    BY <1>1, <2>1, <2>2, <2>3 DEF AppStep
<1>2. ASSUME NEW r \in Requests, CancelStep(r)
      PROVE  Watched'
  <2>1. CASE PumpSees(r)
    BY <2>1 DEF PumpSees
  <2>2. CASE WatchWakes(r)
    BY <2>2 DEF WatchWakes, LetsFinish
  <2>3. CASE BeCut(r)
    BY <2>3 DEF BeCut
  <2>4. CASE WatchReturns(r)
    BY <2>4 DEF WatchReturns, StopPump
  <2>5. CASE WatchAnswers(r)
    BY <2>5 DEF WatchAnswers
  <2>. QED
    BY <1>2, <2>1, <2>2, <2>3, <2>4, <2>5 DEF CancelStep
<1>3. ASSUME NEW r \in Requests, ClientLeaves(r) \/ PumpFails(r)
      PROVE  Watched'
    BY <1>3 DEF ClientLeaves, PumpFails
<1>4. CASE Shutdown
    BY <1>4 DEF Shutdown
<1>5. CASE UNCHANGED gatewayVars
    BY <1>5 DEF gatewayVars
<1>. QED
    BY <1>1, <1>2, <1>3, <1>4, <1>5 DEF GatewayNext

----------------------------------------------------------------------------
(* The watch. *)

\* The strengthening of LeaversAreFollowed: until its application ends a read has
\* its own task, which waits beside the pump, has cancelled the application, or
\* lets it finish for one of the two reasons there are.
Followed ==
    \A r \in Requests :
        Cancellable(r) /\ ~shutdown /\ app[r] \notin Ended \cup {"none"} =>
            \/ watch[r] = "waiting" /\ pump[r] # "off"
            \/ watch[r] = "cancelling" /\ cut[r]
            \/ watch[r] = "joining" /\ (pump[r] = "failed" \/ sent[r] = "complete")

LEMMA FollowedInductive == FlagsOK /\ Followed /\ [GatewayNext]_gatewayVars => Followed'
<1>. SUFFICES ASSUME FlagsOK, Followed, [GatewayNext]_gatewayVars
              PROVE  Followed'
    OBVIOUS
<1>. USE DEF FlagsOK, Followed, Cancellable
<1>1. ASSUME NEW r \in Requests, AppStep(r)
      PROVE  Followed'
  <2>1. CASE Arrive(r)
    BY <2>1 DEF Arrive, Move
  <2>2. CASE Shed(r) \/ Admit(r) \/ Limit(r)
    <3>1. \E state : Move(r, state) /\ app[r] \notin Ended \cup {"none"}
        BY <2>2 DEF Shed, Admit, Limit, Ended
    <3>. QED
        BY <2>2, <3>1 DEF Shed, Admit, Limit, Move
  <2>3. CASE Respond(r)
    BY <2>3 DEF Respond
  <2>4. CASE Finish(r) \/ Fail(r)
    <3>1. \E state \in Ended : Leave(r, state)
        BY <2>4 DEF Finish, Fail, Ended
    <3>. QED
        BY <2>4, <3>1 DEF Finish, Fail, Leave, Move
  <2>. QED
    BY <1>1, <2>1, <2>2, <2>3, <2>4 DEF AppStep
<1>2. ASSUME NEW r \in Requests, CancelStep(r)
      PROVE  Followed'
  <2>1. CASE PumpSees(r)
    BY <2>1 DEF PumpSees
  <2>2. CASE WatchWakes(r)
    BY <2>2 DEF WatchWakes, LetsFinish
  <2>3. CASE BeCut(r)
    BY <2>3 DEF BeCut, Leave, Move
  <2>4. CASE WatchReturns(r)
    BY <2>4 DEF WatchReturns, StopPump
  <2>5. CASE WatchAnswers(r)
    BY <2>5 DEF WatchAnswers
  <2>. QED
    BY <1>2, <2>1, <2>2, <2>3, <2>4, <2>5 DEF CancelStep
<1>3. ASSUME NEW r \in Requests, ClientLeaves(r) \/ PumpFails(r)
      PROVE  Followed'
    BY <1>3 DEF ClientLeaves, PumpFails
<1>4. CASE Shutdown
    BY <1>4 DEF Shutdown
<1>5. CASE UNCHANGED gatewayVars
    BY <1>5 DEF gatewayVars
<1>. QED
    BY <1>1, <1>2, <1>3, <1>4, <1>5 DEF GatewayNext

----------------------------------------------------------------------------
(* The inductive invariant and what follows from it. *)

GatewayInv == FlagsOK /\ inFlight \in Nat /\ SlotsAreCounted /\ Watched /\ Followed

LEMMA GatewayInvInitial == GatewayInit => GatewayInv
<1>. SUFFICES ASSUME GatewayInit
              PROVE  GatewayInv
    OBVIOUS
<1>1. FlagsOK /\ Watched /\ Followed
    BY DEF GatewayInit, FlagsOK, Watched, Followed, AppStates
<1>2. Holders = {}
    BY DEF GatewayInit, Holders, HoldsSlot, Slotted
<1>3. inFlight = Cardinality(Holders) /\ inFlight = 0
    BY <1>2, FS_EmptySet DEF GatewayInit
<1>. QED
    BY <1>1, <1>3, GatewayAssumption DEF GatewayInv, SlotsAreCounted, Holders

LEMMA GatewayInvariant == GatewaySpec => []GatewayInv
<1>1. GatewayInv /\ [GatewayNext]_gatewayVars => GatewayInv'
    BY FlagsInductive, SlotsInductive, WatchedInductive, FollowedInductive DEF GatewayInv
<1>. QED
    BY <1>1, GatewayInvInitial, PTL DEF GatewaySpec

\* Every variable of the gateway keeps its type; in_flight never goes below zero.
THEOREM GatewayTypeCorrect == GatewaySpec => []GatewayTypeOK
<1>1. GatewayInv => GatewayTypeOK
    BY DEF GatewayInv, FlagsOK, GatewayTypeOK
<1>. QED
    BY <1>1, GatewayInvariant, PTL

\* However requests end, LoadShedMiddleware.in_flight is their number behind it
\* and at most the limit.
THEOREM SlotsAreAlwaysCounted == GatewaySpec => []SlotsAreCounted
<1>1. GatewayInv => SlotsAreCounted
    BY DEF GatewayInv
<1>. QED
    BY <1>1, GatewayInvariant, PTL

\* CancelOnDisconnectMiddleware cancels no write, no request whose client is there
\* and none whose response is complete; and it stays after every client that left
\* until its request has given its slot back.
THEOREM OnlyLeaversAreCut == GatewaySpec => []CutsFollowLeaving
<1>1. GatewayInv => CutOnlyForLeavers
    BY DEF GatewayInv, Watched, CutOnlyForLeavers
<1>2. GatewayInv => LeaversAreFollowed
  <2>. SUFFICES ASSUME FlagsOK, Followed, NEW r \in Requests, Cancellable(r), HoldsSlot(r), ~shutdown,
                       sent[r] # "complete"
                PROVE  \/ pump[r] \in {"reading", "failed"}
                       \/ pump[r] = "disconnect" /\ watch[r] = "waiting"
                       \/ cut[r]
    BY DEF GatewayInv, LeaversAreFollowed
  <2>1. app[r] \notin Ended \cup {"none"}
    BY DEF HoldsSlot, Slotted, Ended
  <2>. QED
    BY <2>1 DEF FlagsOK, Followed
<1>. QED
    BY <1>1, <1>2, GatewayInvariant, PTL DEF CutsFollowLeaving
=============================================================================
