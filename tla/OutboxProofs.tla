---------------------------- MODULE OutboxProofs ----------------------------
(***************************************************************************)
(* Theorems about Outbox for every number of processes and rows and every  *)
(* value of the relay's limits.                                            *)
(***************************************************************************)
EXTENDS Outbox, FiniteSetTheorems, TLAPS

\* A claim takes no row that is not due.
LEMMA FirstBatchIsDue == \A D : FirstBatch(D) \subseteq D
BY DEF FirstBatch

\* Only rows that exist are touched by an UPDATE.
LEMMA ExistingIsSubset == \A S : Existing(S) \subseteq S
BY DEF Existing

LEMMA RowsAreNatural == Rows \subseteq Nat
BY OutboxAssumption DEF Rows

-----------------------------------------------------------------------------
(* Type correctness. *)

\* The two UPDATEs of the table keep its columns typed.
LEMMA SetStatusType ==
    ASSUME TypeOK, NEW S, NEW s \in RowStatus, SetStatus(S, s)
    PROVE  status' \in [Rows -> RowStatus] /\ idle' \subseteq Rows
BY DEF TypeOK, SetStatus

LEMMA SetStatusEffect ==
    ASSUME NEW S, NEW s, SetStatus(S, s)
    PROVE  \A r \in Rows : status'[r] = IF r \in S THEN s ELSE status[r]
BY DEF SetStatus

LEMMA CountAttemptType ==
    ASSUME TypeOK, NEW S, CountAttempt(S)
    PROVE  attempts' \in [Rows -> Nat]
BY DEF TypeOK, CountAttempt

LEMMA InitTypeOK == Init => TypeOK
BY OutboxAssumption DEF Init, TypeOK, RowStatus

LEMMA NextTypeOK == TypeOK /\ [Next]_vars => TypeOK'
<1> SUFFICES ASSUME TypeOK, [Next]_vars PROVE TypeOK'
  OBVIOUS
<1> USE OutboxAssumption, RowsAreNatural DEF TypeOK, RowStatus
<1>1. ASSUME NEW p \in Procs, NEW r \in Rows, Commit(p, r) PROVE TypeOK'
  BY <1>1 DEF Commit, relay, broker
<1>2. ASSUME NEW p \in Procs, TaskStep(p) PROVE TypeOK'
  <2>1. ASSUME NEW r \in Rows, PublishOne(p, r) PROVE TypeOK'
    BY <2>1 DEF PublishOne, table, relay, broker
  <2>2. ASSUME NEW r \in Rows, PublishOneFails(p, r) PROVE TypeOK'
    BY <2>2 DEF PublishOneFails, table, relay, broker
  <2>3. ASSUME NEW r \in Rows, PublishOneUnconfirmed(p, r) PROVE TypeOK'
    BY <2>3 DEF PublishOneUnconfirmed, Fault, table, relay, broker
  <2>4. CASE MarkPublished(p)
    <3>1. status' \in [Rows -> RowStatus] /\ idle' \subseteq Rows
      BY <2>4, SetStatusType DEF MarkPublished
    <3>2. attempts' \in [Rows -> Nat]
      BY <2>4, CountAttemptType DEF MarkPublished
    <3> QED
      BY <2>4, <3>1, <3>2 DEF MarkPublished, relay, broker
  <2>5. CASE MarkPublishedFails(p)
    BY <2>5 DEF MarkPublishedFails, Fault, table, relay, broker
  <2> QED
    BY <1>2, <2>1, <2>2, <2>3, <2>4, <2>5 DEF TaskStep
<1>3. ASSUME NEW p \in Procs, RelayStep(p) PROVE TypeOK'
  <2>1. CASE ReclaimStuck(p)
    BY <2>1 DEF ReclaimStuck, SetStatus, broker
  <2>2. CASE SelectDue(p)
    <3>1. FirstBatch(Due) \subseteq Rows
      BY FirstBatchIsDue DEF Due, Rows
    <3> QED
      BY <2>2, <3>1 DEF SelectDue, table, broker
  <2>3. CASE Claim(p)
    <3>1. status' \in [Rows -> RowStatus] /\ idle' \subseteq Rows
      BY <2>3, SetStatusType DEF Claim
    <3>2. attempts' \in [Rows -> Nat]
      BY <2>3, CountAttemptType DEF Claim
    <3> QED
      BY <2>3, <3>1, <3>2 DEF Claim, broker
  <2>4. ASSUME NEW r \in Rows, Deliver(p, r) PROVE TypeOK'
    BY <2>4 DEF Deliver, table, broker
  <2>5. ASSUME NEW r \in Rows, DeliverFails(p, r) PROVE TypeOK'
    BY <2>5 DEF DeliverFails, table, broker
  <2>6. ASSUME NEW r \in Rows, DeliverUnconfirmed(p, r) PROVE TypeOK'
    BY <2>6 DEF DeliverUnconfirmed, Fault, table, broker
  <2>7. CASE Stamp(p)
    BY <2>7 DEF Stamp, EndTick, broker
  <2>8. CASE TickFails(p)
    BY <2>8 DEF TickFails, EndTick, Fault, table, broker
  <2> QED
    BY <1>3, <2>1, <2>2, <2>3, <2>4, <2>5, <2>6, <2>7, <2>8 DEF RelayStep, DeliverNext
<1>4. ASSUME NEW p \in Procs, CleanupPublished(p) PROVE TypeOK'
  BY <1>4 DEF CleanupPublished, SetStatus, relay, broker
<1>5. CASE Environment
  <2>1. CASE GraceRunsOut
    BY <2>1 DEF GraceRunsOut, relay, broker
  <2>2. ASSUME NEW r \in Rows, ClaimGoesStale(r) PROVE TypeOK'
    BY <2>2 DEF ClaimGoesStale, relay, broker
  <2>3. CASE BrokerStops
    <3>1. channel' \in [Procs -> {"open", "closed", "none"}]
      BY <2>3 DEF BrokerStops
    <3>2. faults' \in 0 .. MaxFaults
      BY <2>3 DEF BrokerStops, Fault
    <3> QED
      BY <2>3, <3>1, <3>2 DEF BrokerStops, table, relay
  <2>4. CASE BrokerStarts
    BY <2>4 DEF BrokerStarts, table, relay
  <2>5. ASSUME NEW p \in Procs, Reconnect(p) PROVE TypeOK'
    BY <2>5 DEF Reconnect, table, relay
  <2>6. ASSUME NEW p \in Procs, Restart(p) PROVE TypeOK'
    BY <2>6 DEF Restart, EndTick, Fault, table
  <2> QED
    BY <1>5, <2>1, <2>2, <2>3, <2>4, <2>5, <2>6 DEF Environment
<1>6. CASE UNCHANGED vars
  BY <1>6 DEF vars, table, relay, broker
<1> QED
  BY <1>1, <1>2, <1>3, <1>4, <1>5, <1>6 DEF Next

\* Every reachable state is well typed.
THEOREM OutboxTypeCorrect == Spec => []TypeOK
BY InitTypeOK, NextTypeOK, PTL DEF Spec

-----------------------------------------------------------------------------
(* No event is lost by bookkeeping. PublishedWasDelivered is inductive once *)
(* it also covers the rows about to be stamped: queued marks and the relays'*)
(* lists of published rows.                                                 *)

StampsAreEarned ==
    \A p \in Procs : \A r \in marker[p] \cup sent[p] : delivered[r] > 0

DeliveryInv == TypeOK /\ StampsAreEarned /\ PublishedWasDelivered

LEMMA InitDeliveryInv == Init => DeliveryInv
BY InitTypeOK DEF Init, DeliveryInv, StampsAreEarned, PublishedWasDelivered

LEMMA NextDeliveryInv == DeliveryInv /\ [Next]_vars => DeliveryInv'
<1> SUFFICES ASSUME DeliveryInv, [Next]_vars
             PROVE StampsAreEarned' /\ PublishedWasDelivered'
  BY NextTypeOK DEF DeliveryInv
<1> USE DEF DeliveryInv, TypeOK, StampsAreEarned, PublishedWasDelivered
<1>0. \A r \in Rows : delivered[r] \in Nat
  OBVIOUS
<1>1. ASSUME NEW p \in Procs, NEW r \in Rows, Commit(p, r)
      PROVE StampsAreEarned' /\ PublishedWasDelivered'
  BY <1>1 DEF Commit, relay
<1>2. ASSUME NEW p \in Procs, TaskStep(p)
      PROVE StampsAreEarned' /\ PublishedWasDelivered'
  <2>1. ASSUME NEW r \in Rows, PublishOne(p, r)
        PROVE StampsAreEarned' /\ PublishedWasDelivered'
    BY <1>0, <2>1 DEF PublishOne, table, relay
  <2>2. ASSUME NEW r \in Rows, PublishOneFails(p, r)
        PROVE StampsAreEarned' /\ PublishedWasDelivered'
    BY <2>2 DEF PublishOneFails, table, relay
  <2>3. ASSUME NEW r \in Rows, PublishOneUnconfirmed(p, r)
        PROVE StampsAreEarned' /\ PublishedWasDelivered'
    BY <1>0, <2>3 DEF PublishOneUnconfirmed, table, relay
  <2>4. CASE MarkPublished(p)
    BY <2>4, ExistingIsSubset DEF MarkPublished, SetStatus, relay
  <2>5. CASE MarkPublishedFails(p)
    BY <2>5 DEF MarkPublishedFails, table, relay
  <2> QED
    BY <1>2, <2>1, <2>2, <2>3, <2>4, <2>5 DEF TaskStep
<1>3. ASSUME NEW p \in Procs, RelayStep(p)
      PROVE StampsAreEarned' /\ PublishedWasDelivered'
  <2>1. CASE ReclaimStuck(p)
    BY <2>1 DEF ReclaimStuck, SetStatus
  <2>2. CASE SelectDue(p)
    BY <2>2 DEF SelectDue, table
  <2>3. CASE Claim(p)
    BY <2>3 DEF Claim, SetStatus
  <2>4. ASSUME NEW r \in Rows, Deliver(p, r)
        PROVE StampsAreEarned' /\ PublishedWasDelivered'
    BY <1>0, <2>4 DEF Deliver, table
  <2>5. ASSUME NEW r \in Rows, DeliverFails(p, r)
        PROVE StampsAreEarned' /\ PublishedWasDelivered'
    BY <2>5 DEF DeliverFails, table
  <2>6. ASSUME NEW r \in Rows, DeliverUnconfirmed(p, r)
        PROVE StampsAreEarned' /\ PublishedWasDelivered'
    BY <1>0, <2>6 DEF DeliverUnconfirmed, table
  <2>7. CASE Stamp(p)
    BY <2>7, ExistingIsSubset DEF Stamp, EndTick
  <2>8. CASE TickFails(p)
    BY <2>8 DEF TickFails, EndTick, table
  <2> QED
    BY <1>3, <2>1, <2>2, <2>3, <2>4, <2>5, <2>6, <2>7, <2>8 DEF RelayStep, DeliverNext
<1>4. ASSUME NEW p \in Procs, CleanupPublished(p)
      PROVE StampsAreEarned' /\ PublishedWasDelivered'
  BY <1>4 DEF CleanupPublished, SetStatus, relay
<1>5. CASE Environment
  <2>1. CASE GraceRunsOut
    BY <2>1 DEF GraceRunsOut, relay
  <2>2. ASSUME NEW r \in Rows, ClaimGoesStale(r)
        PROVE StampsAreEarned' /\ PublishedWasDelivered'
    BY <2>2 DEF ClaimGoesStale, relay
  <2>3. CASE BrokerStops
    BY <2>3 DEF BrokerStops, table, relay
  <2>4. CASE BrokerStarts
    BY <2>4 DEF BrokerStarts, table, relay
  <2>5. ASSUME NEW p \in Procs, Reconnect(p)
        PROVE StampsAreEarned' /\ PublishedWasDelivered'
    BY <2>5 DEF Reconnect, table, relay
  <2>6. ASSUME NEW p \in Procs, Restart(p)
        PROVE StampsAreEarned' /\ PublishedWasDelivered'
    BY <2>6 DEF Restart, EndTick, table
  <2> QED
    BY <1>5, <2>1, <2>2, <2>3, <2>4, <2>5, <2>6 DEF Environment
<1>6. CASE UNCHANGED vars
  BY <1>6 DEF vars, table, relay
<1> QED
  BY <1>1, <1>2, <1>3, <1>4, <1>5, <1>6 DEF Next

\* No row is stamped "published", and none is deleted, before the broker took
\* its event.
THEOREM OutboxLosesNothing == Spec => []PublishedWasDelivered
<1>1. DeliveryInv => PublishedWasDelivered
  BY DEF DeliveryInv
<1> QED
  BY <1>1, InitDeliveryInv, NextDeliveryInv, PTL DEF Spec

-----------------------------------------------------------------------------
(* Claims are exclusive. While no tick has outlasted the reclaim limit, a   *)
(* row a relay has selected is pending under its lock, and a row it has     *)
(* claimed is neither pending nor stale: no claim query, no reclaim finds it.*)

ClaimInv ==
    \A p \in Procs :
        /\ pc[p] \in {"sleep", "claim"} => Held(p) = {}
        /\ pc[p] = "selected" =>
              /\ sent[p] = {} /\ failed[p] = {}
              /\ \A r \in todo[p] : status[r] = "pending"
        /\ pc[p] = "deliver" =>
              \A r \in Held(p) : /\ status[r] \in {"publishing", "published", "deleted"}
                                 /\ r \notin idle

Exclusive == \A p, q \in Procs : p # q => Held(p) \cap Held(q) = {}

ExclusiveInv == TypeOK /\ ClaimInv /\ Exclusive

LEMMA InitExclusiveInv == Init => ExclusiveInv
BY InitTypeOK DEF Init, ExclusiveInv, ClaimInv, Exclusive, Held

\* A step that leaves the lists of all relays alone keeps the invariant if it
\* makes no held row stale or pending, and touches no selected row.
LEMMA RelaysAlone ==
    ASSUME ExclusiveInv, UNCHANGED relay,
           \A p \in Procs : \A r \in Held(p) :
              /\ pc[p] = "selected" => status'[r] = status[r]
              /\ pc[p] = "deliver" => /\ status'[r] \in {"publishing", "published", "deleted"}
                                      /\ r \notin idle'
    PROVE  ClaimInv' /\ Exclusive'
BY DEF ExclusiveInv, ClaimInv, Exclusive, Held, relay

\* Ending a tick only lets go of rows.
LEMMA EndTickExclusive ==
    ASSUME ExclusiveInv, NEW p \in Procs, EndTick(p),
           \A q \in Procs \ {p} : \A r \in Held(q) :
              /\ pc[q] = "selected" => status'[r] = status[r]
              /\ pc[q] = "deliver" => /\ status'[r] \in {"publishing", "published", "deleted"}
                                      /\ r \notin idle'
    PROVE  ClaimInv' /\ Exclusive'
<1>1. /\ pc'[p] = "sleep" /\ Held(p)' = {}
      /\ \A q \in Procs \ {p} : pc'[q] = pc[q] /\ Held(q)' = Held(q)
      /\ \A q \in Procs \ {p} : todo'[q] = todo[q] /\ sent'[q] = sent[q] /\ failed'[q] = failed[q]
  BY DEF ExclusiveInv, TypeOK, EndTick, Held
<1>2. ClaimInv'
  BY <1>1 DEF ExclusiveInv, ClaimInv, Held
<1>3. Exclusive'
  BY <1>1 DEF ExclusiveInv, Exclusive
<1> QED
  BY <1>2, <1>3

\* Handling the next row of a batch moves it from one list of p to another.
LEMMA MoveExclusive ==
    ASSUME ExclusiveInv, NEW p \in Procs, pc[p] = "deliver",
           UNCHANGED <<table, pc>>, Held(p)' = Held(p),
           \A q \in Procs \ {p} : /\ todo'[q] = todo[q]
                                  /\ sent'[q] = sent[q]
                                  /\ failed'[q] = failed[q]
    PROVE  ClaimInv' /\ Exclusive'
BY DEF ExclusiveInv, ClaimInv, Exclusive, Held, table

LEMMA OverrunIsHistory == [Next]_vars => overrun \subseteq overrun'
BY DEF Next, Commit, TaskStep, PublishOne, PublishOneFails, PublishOneUnconfirmed, MarkPublished,
       MarkPublishedFails, RelayStep, ReclaimStuck, SelectDue, Claim, DeliverNext, Deliver,
       DeliverFails, DeliverUnconfirmed, Stamp, TickFails, CleanupPublished, Environment,
       GraceRunsOut, ClaimGoesStale, BrokerStops, BrokerStarts, Reconnect, Restart, vars

LEMMA NextExclusiveInv ==
    ASSUME "reclaim" \notin overrun', ExclusiveInv, [Next]_vars
    PROVE  ExclusiveInv'
<1> SUFFICES ClaimInv' /\ Exclusive'
  BY NextTypeOK DEF ExclusiveInv
<1>0. TypeOK /\ ClaimInv /\ Exclusive
  BY DEF ExclusiveInv
<1>1. ASSUME NEW p \in Procs, NEW r \in Rows, Commit(p, r) PROVE ClaimInv' /\ Exclusive'
  <2>1. \A q \in Procs : pc[q] \in {"selected", "deliver"} => r \notin Held(q)
    BY <1>0, <1>1 DEF Commit, ClaimInv, Held
  <2> QED
    BY <1>0, <1>1, <2>1, RelaysAlone DEF Commit, ClaimInv, TypeOK
<1>2. ASSUME NEW p \in Procs, TaskStep(p) PROVE ClaimInv' /\ Exclusive'
  <2>1. CASE MarkPublished(p)
    <3>1. PICK S \in SUBSET marker[p] : /\ \A r \in S : ~Locked(r)
                                       /\ SetStatus(Existing(S), "published")
                                       /\ UNCHANGED relay
      BY <2>1 DEF MarkPublished
    <3>2. \A q \in Procs : \A r \in Held(q) : pc[q] = "selected" => r \notin Existing(S)
      BY <1>0, <3>1, ExistingIsSubset DEF Locked, ClaimInv, Held
    <3> QED
      BY <1>0, <3>1, <3>2, RelaysAlone DEF SetStatus, ClaimInv, TypeOK, Held
  <2>2. CASE UNCHANGED <<table, relay>>
    BY <1>0, <2>2, RelaysAlone DEF ClaimInv, table, Held
  <2> QED
    BY <1>2, <2>1, <2>2 DEF TaskStep, PublishOne, PublishOneFails, PublishOneUnconfirmed,
                            MarkPublishedFails
<1>3. ASSUME NEW p \in Procs, RelayStep(p) PROVE ClaimInv' /\ Exclusive'
  <2>1. CASE ReclaimStuck(p)
    <3>1. \A q \in Procs : \A r \in Held(q) :
             /\ pc[q] = "selected" => status'[r] = status[r]
             /\ pc[q] = "deliver" => /\ status'[r] \in {"publishing", "published", "deleted"}
                                     /\ r \notin idle'
      BY <1>0, <2>1 DEF ReclaimStuck, SetStatus, ClaimInv, TypeOK, Held
    <3>2. /\ \A q \in Procs : Held(q)' = Held(q) /\ todo'[q] = todo[q]
          /\ \A q \in Procs : sent'[q] = sent[q] /\ failed'[q] = failed[q]
          /\ \A q \in Procs \ {p} : pc'[q] = pc[q]
          /\ pc'[p] = "claim" /\ Held(p) = {}
      BY <1>0, <2>1 DEF ReclaimStuck, ClaimInv, TypeOK, Held
    <3> QED
      BY <1>0, <3>1, <3>2 DEF ClaimInv, Exclusive, Held
  <2>2. CASE SelectDue(p)
    <3>1. FirstBatch(Due) \subseteq Due /\ Due \subseteq Rows
      BY FirstBatchIsDue, OutboxAssumption, <1>0 DEF Due, Rows, TypeOK
    <3>2. \A q \in Procs : Held(q) \cap Due = {}
      BY <1>0 DEF Due, Locked, ClaimInv, Held, TypeOK
    <3>3. /\ pc[p] = "claim" /\ Held(p) = {} /\ sent[p] = {} /\ failed[p] = {}
          /\ Held(p)' = FirstBatch(Due) /\ todo'[p] = FirstBatch(Due)
          /\ pc'[p] \in {"sleep", "selected"}
          /\ pc'[p] = "sleep" => Due = {}
      BY <1>0, <2>2 DEF SelectDue, ClaimInv, Held, TypeOK
    <3>4. /\ \A q \in Procs \ {p} : pc'[q] = pc[q] /\ Held(q)' = Held(q) /\ todo'[q] = todo[q]
          /\ UNCHANGED <<status, idle, sent, failed>>
      BY <1>0, <2>2 DEF SelectDue, Held, TypeOK, table
    <3>5. \A r \in Due : status[r] = "pending"
      BY DEF Due
    <3>6. ClaimInv'
      BY <1>0, <3>1, <3>3, <3>4, <3>5 DEF ClaimInv
    <3>7. Exclusive'
      BY <1>0, <3>1, <3>2, <3>3, <3>4 DEF Exclusive
    <3> QED
      BY <3>6, <3>7
  <2>3. CASE Claim(p)
    <3>1. /\ \A q \in Procs : Held(q)' = Held(q) /\ todo'[q] = todo[q]
          /\ \A q \in Procs \ {p} : pc'[q] = pc[q]
          /\ pc'[p] = "deliver" /\ Held(p) = todo[p]
          /\ UNCHANGED <<sent, failed>>
          /\ \A r \in Rows : status'[r] = IF r \in todo[p] THEN "publishing" ELSE status[r]
          /\ idle' = idle \ todo[p]
      BY <1>0, <2>3 DEF Claim, SetStatus, ClaimInv, Held, TypeOK
    <3>2. \A q \in Procs \ {p} : Held(q) \cap todo[p] = {}
      BY <1>0, <3>1 DEF Exclusive
    <3>3. \A q \in Procs : Held(q) \subseteq Rows /\ todo[q] \subseteq Rows
      BY <1>0 DEF TypeOK, Held
    <3>4. ClaimInv'
      BY <1>0, <3>1, <3>2, <3>3 DEF ClaimInv, Held
    <3> QED
      BY <1>0, <3>1, <3>4 DEF Exclusive
  <2>4. ASSUME NEW r \in Rows,
               Deliver(p, r) \/ DeliverFails(p, r) \/ DeliverUnconfirmed(p, r)
        PROVE ClaimInv' /\ Exclusive'
    <3>1. /\ pc[p] = "deliver" /\ UNCHANGED <<table, pc>>
          /\ \A q \in Procs \ {p} : /\ todo'[q] = todo[q]
                                    /\ sent'[q] = sent[q]
                                    /\ failed'[q] = failed[q]
      BY <1>0, <2>4 DEF Deliver, DeliverFails, DeliverUnconfirmed, IsNext, TypeOK
    <3>2. Held(p)' = Held(p)
      BY <1>0, <2>4 DEF Deliver, DeliverFails, DeliverUnconfirmed, IsNext, Held, TypeOK
    <3> QED
      BY <3>1, <3>2, MoveExclusive
  <2>5. CASE Stamp(p)
    <3>1. \A q \in Procs \ {p} : \A r \in Held(q) : r \notin Held(p)
      BY <1>0 DEF Exclusive
    <3>2. \A q \in Procs : \A r \in Held(q) : r \in Rows
      BY <1>0 DEF TypeOK, Held
    <3>3. \A r \in Rows \ Held(p) : status'[r] = status[r] /\ (r \in idle' <=> r \in idle)
      BY <2>5, ExistingIsSubset DEF Stamp, Held
    <3> QED
      BY <1>0, <2>5, <3>1, <3>2, <3>3, EndTickExclusive DEF Stamp, ClaimInv
  <2>6. CASE TickFails(p)
    BY <1>0, <2>6, EndTickExclusive DEF TickFails, table, ClaimInv
  <2> QED
    BY <1>3, <2>1, <2>2, <2>3, <2>4, <2>5, <2>6 DEF RelayStep, DeliverNext
<1>4. ASSUME NEW p \in Procs, CleanupPublished(p) PROVE ClaimInv' /\ Exclusive'
  <2>1. PICK S \in SUBSET {r \in Rows : status[r] = "published"} : SetStatus(S, "deleted")
    BY <1>4 DEF CleanupPublished
  <2>2. \A r \in Rows : \/ status'[r] = status[r]
                        \/ status[r] = "published" /\ status'[r] = "deleted"
    BY <2>1, SetStatusEffect
  <2>3. idle' \subseteq idle
    BY <2>1 DEF SetStatus
  <2>4. \A q \in Procs : Held(q) \subseteq Rows /\ (pc[q] = "selected" => Held(q) = todo[q])
    BY <1>0 DEF TypeOK, ClaimInv, Held
  <2>5. UNCHANGED relay
    BY <1>4 DEF CleanupPublished
  <2> QED
    BY <1>0, <2>2, <2>3, <2>4, <2>5, RelaysAlone DEF ClaimInv
<1>5. CASE Environment
  <2>1. CASE GraceRunsOut
    BY <1>0, <2>1, RelaysAlone DEF GraceRunsOut, ClaimInv
  <2>2. ASSUME NEW r \in Rows, ClaimGoesStale(r) PROVE ClaimInv' /\ Exclusive'
    <3>1. \A p \in Procs : r \notin Held(p)
      BY <2>2 DEF ClaimGoesStale, HeldBySome
    <3> QED
      BY <1>0, <2>2, <3>1, RelaysAlone DEF ClaimGoesStale, ClaimInv
  <2>3. CASE UNCHANGED <<table, relay>>
    BY <1>0, <2>3, RelaysAlone DEF ClaimInv, table
  <2>4. ASSUME NEW p \in Procs, Restart(p) PROVE ClaimInv' /\ Exclusive'
    BY <1>0, <2>4, EndTickExclusive DEF Restart, table, ClaimInv
  <2> QED
    BY <1>5, <2>1, <2>2, <2>3, <2>4 DEF Environment, BrokerStops, BrokerStarts, Reconnect
<1>6. CASE UNCHANGED vars
  BY <1>0, <1>6, RelaysAlone DEF ClaimInv, vars, table
<1> QED
  BY <1>1, <1>2, <1>3, <1>4, <1>5, <1>6 DEF Next

\* As long as every relay tick has ended within the reclaim limit, no row is in
\* the hands of two relays.
THEOREM OutboxClaimsAreExclusive == Spec => []ClaimsAreExclusive
<1> DEFINE Inv == TypeOK /\ ("reclaim" \notin overrun => ExclusiveInv)
<1>1. Init => Inv
  BY InitExclusiveInv DEF ExclusiveInv
<1>2. Inv /\ [Next]_vars => Inv'
  <2> SUFFICES ASSUME Inv, [Next]_vars PROVE Inv'
    OBVIOUS
  <2>1. TypeOK'
    BY NextTypeOK
  <2>2. ASSUME "reclaim" \notin overrun' PROVE ExclusiveInv'
    <3>1. "reclaim" \notin overrun
      BY <2>2, OverrunIsHistory
    <3> QED
      BY <2>2, <3>1, NextExclusiveInv
  <2> QED
    BY <2>1, <2>2
<1>3. Inv => ClaimsAreExclusive
  BY DEF ExclusiveInv, Exclusive, ClaimsAreExclusive
<1> QED
  BY <1>1, <1>2, <1>3, PTL DEF Spec

-----------------------------------------------------------------------------
(* Outbox implements EventDelivery. A copy goes out only for a task or for  *)
(* a claim, and of both there are few: a row is committed once, and claimed *)
(* only while its attempts are below the maximum, which each claim counts.  *)

Publishing(r) == {p \in Procs : r \in tasks[p]}
Delivering(r) == {p \in Procs : pc[p] = "deliver" /\ r \in todo[p]}

\* A row under the lock of a claim stays as the claim query found it.
SelectedStaysDue ==
    \A p \in Procs : pc[p] = "selected" =>
        /\ \A r \in todo[p] : status[r] = "pending" /\ attempts[r] < RELAY_MAX_ATTEMPTS
        /\ \A q \in Procs \ {p} : pc[q] = "selected" => todo[p] \cap todo[q] = {}

\* Nobody has to do with a row before its commit.
AbsentIsUnknown ==
    \A r \in Rows : status[r] = "absent" =>
        /\ delivered[r] = 0
        /\ \A p \in Procs : r \notin tasks[p] \cup todo[p]

Counted(n) == IF n < RELAY_MAX_ATTEMPTS THEN n ELSE RELAY_MAX_ATTEMPTS

\* The copies of a row, those that may yet go out included.
CopiesFit ==
    \A r \in Rows :
        delivered[r] + Cardinality(Publishing(r)) + Cardinality(Delivering(r)) <= Counted(attempts[r]) + 1

CopiesInv == TypeOK /\ SelectedStaysDue /\ AbsentIsUnknown /\ CopiesFit

LEMMA OneMoreProc ==
    ASSUME NEW T, IsFiniteSet(T), NEW x, NEW U, U \subseteq T \cup {x}
    PROVE  IsFiniteSet(U) /\ Cardinality(U) \in Nat /\ Cardinality(U) <= Cardinality(T) + 1
<1>1. /\ IsFiniteSet(T \cup {x})
      /\ Cardinality(T \cup {x}) = Cardinality(T) \/ Cardinality(T \cup {x}) = Cardinality(T) + 1
  BY FS_AddElement
<1>2. IsFiniteSet(U) /\ Cardinality(U) <= Cardinality(T \cup {x})
  BY <1>1, FS_Subset
<1>3. Cardinality(T) \in Nat /\ Cardinality(U) \in Nat
  BY <1>2, FS_CardinalityType
<1> QED
  BY <1>1, <1>2, <1>3

LEMMA OneProcLess ==
    ASSUME NEW T, IsFiniteSet(T), NEW x \in T, NEW U, U \subseteq T \ {x}
    PROVE  IsFiniteSet(U) /\ Cardinality(U) \in Nat /\ Cardinality(U) + 1 <= Cardinality(T)
<1>1. IsFiniteSet(T \ {x}) /\ Cardinality(T \ {x}) = Cardinality(T) - 1
  BY FS_RemoveElement
<1>2. IsFiniteSet(U) /\ Cardinality(U) <= Cardinality(T \ {x})
  BY <1>1, FS_Subset
<1>3. Cardinality(T) \in Nat /\ Cardinality(U) \in Nat
  BY <1>2, FS_CardinalityType
<1> QED
  BY <1>1, <1>2, <1>3

LEMMA FewerProcs ==
    ASSUME NEW T, IsFiniteSet(T), NEW U, U \subseteq T
    PROVE  Cardinality(U) \in Nat /\ Cardinality(U) <= Cardinality(T) /\ Cardinality(T) \in Nat
<1>1. IsFiniteSet(U) /\ Cardinality(U) <= Cardinality(T)
  BY FS_Subset
<1> QED
  BY <1>1, FS_CardinalityType

LEMMA ProcsAreFinite ==
    ASSUME NEW r \in Rows
    PROVE  /\ IsFiniteSet(Publishing(r)) /\ IsFiniteSet(Delivering(r))
           /\ Cardinality(Publishing(r)) \in Nat /\ Cardinality(Delivering(r)) \in Nat
<1>1. Publishing(r) \subseteq Procs /\ Delivering(r) \subseteq Procs
  BY DEF Publishing, Delivering
<1> QED
  BY <1>1, OutboxAssumption, FS_Subset, FS_CardinalityType

\* What one step may do to the copies of one row.
LEMMA RowFits ==
    ASSUME TypeOK, TypeOK', CopiesFit, NEW r \in Rows,
           \/ /\ delivered'[r] = delivered[r] /\ attempts'[r] >= attempts[r]
              /\ Publishing(r)' \subseteq Publishing(r) /\ Delivering(r)' \subseteq Delivering(r)
           \/ /\ delivered'[r] = delivered[r] /\ attempts'[r] = attempts[r] + 1
              /\ attempts[r] < RELAY_MAX_ATTEMPTS
              /\ Publishing(r)' \subseteq Publishing(r)
              /\ \E p \in Procs : Delivering(r)' \subseteq Delivering(r) \cup {p}
           \/ /\ delivered'[r] = delivered[r] + 1 /\ attempts'[r] = attempts[r]
              /\ \E p \in Publishing(r) : Publishing(r)' \subseteq Publishing(r) \ {p}
              /\ Delivering(r)' \subseteq Delivering(r)
           \/ /\ delivered'[r] = delivered[r] + 1 /\ attempts'[r] = attempts[r]
              /\ \E p \in Delivering(r) : Delivering(r)' \subseteq Delivering(r) \ {p}
              /\ Publishing(r)' \subseteq Publishing(r)
    PROVE  delivered'[r] + Cardinality(Publishing(r)') + Cardinality(Delivering(r)') <= Counted(attempts'[r]) + 1
<1> DEFINE P == Publishing(r)
           D == Delivering(r)
           Pn == Publishing(r)'
           Dn == Delivering(r)'
<1>1. IsFiniteSet(P) /\ IsFiniteSet(D) /\ Cardinality(P) \in Nat /\ Cardinality(D) \in Nat
  BY ProcsAreFinite
<1>2. /\ delivered[r] \in Nat /\ delivered'[r] \in Nat /\ attempts[r] \in Nat /\ attempts'[r] \in Nat
      /\ RELAY_MAX_ATTEMPTS \in Nat
  BY OutboxAssumption DEF TypeOK
<1>3. delivered[r] + Cardinality(P) + Cardinality(D) <= Counted(attempts[r]) + 1
  BY DEF CopiesFit
<1>4. Pn \subseteq P => Cardinality(Pn) \in Nat /\ Cardinality(Pn) <= Cardinality(P)
  BY <1>1, FewerProcs
<1>5. Dn \subseteq D => Cardinality(Dn) \in Nat /\ Cardinality(Dn) <= Cardinality(D)
  BY <1>1, FewerProcs
<1>6. (\E p \in P : Pn \subseteq P \ {p}) => Cardinality(Pn) \in Nat /\ Cardinality(Pn) + 1 <= Cardinality(P)
  BY <1>1, OneProcLess
<1>7. (\E p \in D : Dn \subseteq D \ {p}) => Cardinality(Dn) \in Nat /\ Cardinality(Dn) + 1 <= Cardinality(D)
  BY <1>1, OneProcLess
<1>8. (\E p \in Procs : Dn \subseteq D \cup {p}) => Cardinality(Dn) \in Nat /\ Cardinality(Dn) <= Cardinality(D) + 1
  BY <1>1, OneMoreProc
<1> HIDE DEF P, D, Pn, Dn
<1>9. \/ /\ delivered'[r] = delivered[r] /\ attempts'[r] >= attempts[r] /\ Pn \subseteq P /\ Dn \subseteq D
      \/ /\ delivered'[r] = delivered[r] /\ attempts'[r] = attempts[r] + 1 /\ attempts[r] < RELAY_MAX_ATTEMPTS
         /\ Pn \subseteq P /\ \E p \in Procs : Dn \subseteq D \cup {p}
      \/ /\ delivered'[r] = delivered[r] + 1 /\ attempts'[r] = attempts[r]
         /\ (\E p \in P : Pn \subseteq P \ {p}) /\ Dn \subseteq D
      \/ /\ delivered'[r] = delivered[r] + 1 /\ attempts'[r] = attempts[r]
         /\ (\E p \in D : Dn \subseteq D \ {p}) /\ Pn \subseteq P
  BY DEF P, D, Pn, Dn
<1>10. delivered'[r] + Cardinality(Pn) + Cardinality(Dn) <= Counted(attempts'[r]) + 1
  BY ONLY <1>1, <1>2, <1>3, <1>4, <1>5, <1>6, <1>7, <1>8, <1>9 DEF Counted
<1> QED
  BY <1>10 DEF P, D, Pn, Dn

LEMMA InitCopiesInv == Init => CopiesInv
<1> SUFFICES ASSUME Init PROVE CopiesInv
  OBVIOUS
<1>1. TypeOK
  BY InitTypeOK
<1>2. SelectedStaysDue /\ AbsentIsUnknown
  BY DEF Init, SelectedStaysDue, AbsentIsUnknown
<1>3. CopiesFit
  <2> SUFFICES ASSUME NEW r \in Rows
               PROVE  delivered[r] + Cardinality(Publishing(r)) + Cardinality(Delivering(r)) <= Counted(attempts[r]) + 1
    BY DEF CopiesFit
  <2>1. Publishing(r) = {} /\ Delivering(r) = {}
    BY DEF Init, Publishing, Delivering
  <2>2. Cardinality(Publishing(r)) = 0 /\ Cardinality(Delivering(r)) = 0
    BY <2>1, FS_EmptySet
  <2>3. delivered[r] = 0 /\ attempts[r] = 0
    BY DEF Init
  <2> QED
    BY <2>2, <2>3, OutboxAssumption DEF Counted
<1> QED
  BY <1>1, <1>2, <1>3 DEF CopiesInv

\* Most steps send nothing and put nothing up for sending.
LEMMA NothingToSend ==
    ASSUME TypeOK, TypeOK', CopiesFit, UNCHANGED delivered,
           \A r \in Rows : attempts'[r] >= attempts[r],
           \A p \in Procs : tasks'[p] \subseteq tasks[p],
           \A p \in Procs : pc'[p] = "deliver" => pc[p] = "deliver" /\ todo'[p] \subseteq todo[p]
    PROVE  CopiesFit'
<1> SUFFICES ASSUME NEW r \in Rows
             PROVE  delivered'[r] + Cardinality(Publishing(r)') + Cardinality(Delivering(r)') <= Counted(attempts'[r]) + 1
  BY DEF CopiesFit, Counted
<1>1. Publishing(r)' \subseteq Publishing(r) /\ Delivering(r)' \subseteq Delivering(r)
  BY DEF Publishing, Delivering
<1> QED
  BY <1>1, RowFits

\* A step keeps the two small invariants if it creates no row, reaches no
\* absent one, and leaves alone what the claim query has locked.
LEMMA LocksHold ==
    ASSUME TypeOK, TypeOK', SelectedStaysDue, AbsentIsUnknown,
           \A r \in Rows : status'[r] = "absent" => status[r] = "absent" /\ delivered'[r] = delivered[r],
           \A p \in Procs : tasks'[p] \subseteq tasks[p] /\ todo'[p] \subseteq todo[p],
           \A p \in Procs : pc'[p] = "selected" => pc[p] = "selected",
           \A r \in Rows : Locked(r) => status'[r] = status[r] /\ attempts'[r] = attempts[r]
    PROVE  SelectedStaysDue' /\ AbsentIsUnknown'
<1>1. SelectedStaysDue'
  BY DEF SelectedStaysDue, Locked, TypeOK
<1>2. AbsentIsUnknown'
  BY DEF AbsentIsUnknown
<1> QED
  BY <1>1, <1>2

LEMMA NextCopiesInv == CopiesInv /\ [Next]_vars => CopiesInv'
<1> SUFFICES ASSUME CopiesInv, [Next]_vars
             PROVE  SelectedStaysDue' /\ AbsentIsUnknown' /\ CopiesFit'
  BY NextTypeOK DEF CopiesInv
<1>0. TypeOK /\ TypeOK' /\ SelectedStaysDue /\ AbsentIsUnknown /\ CopiesFit
  BY NextTypeOK DEF CopiesInv
<1>t. TypeOK
  BY <1>0
<1>a. \A r \in Rows : Locked(r) => status[r] = "pending"
  BY <1>0 DEF Locked, SelectedStaysDue
<1>b. \A r \in Rows : attempts[r] \in Nat /\ delivered[r] \in Nat
  BY <1>0 DEF TypeOK
<1>1. ASSUME NEW p \in Procs, NEW r \in Rows, Commit(p, r)
      PROVE  SelectedStaysDue' /\ AbsentIsUnknown' /\ CopiesFit'
  <2>1. /\ status[r] = "absent" /\ delivered[r] = 0
        /\ \A q \in Procs : r \notin tasks[q] \cup todo[q]
    BY <1>0, <1>1 DEF Commit, AbsentIsUnknown
  <2>2. /\ \A q \in Rows : status'[q] = IF q = r THEN "pending" ELSE status[q]
        /\ \A q \in Procs : tasks'[q] \subseteq tasks[q] \cup {r}
        /\ \A q \in Procs : q # p => tasks'[q] = tasks[q]
        /\ UNCHANGED <<attempts, delivered, pc, todo>>
    BY <1>0, <1>1 DEF Commit, relay, TypeOK
  <2>3. SelectedStaysDue' /\ AbsentIsUnknown'
    BY <1>0, <2>1, <2>2 DEF SelectedStaysDue, AbsentIsUnknown, TypeOK
  <2>4. SUFFICES ASSUME NEW q \in Rows
                 PROVE  delivered'[q] + Cardinality(Publishing(q)') + Cardinality(Delivering(q)')
                            <= Counted(attempts'[q]) + 1
    BY <2>3 DEF CopiesFit, Counted
  <2>5. CASE q = r
    <3>1. Publishing(q)' \subseteq {} \cup {p} /\ Delivering(q)' = {}
      BY <2>1, <2>2, <2>5 DEF Publishing, Delivering
    <3>2. Cardinality(Publishing(q)') \in Nat /\ Cardinality(Publishing(q)') <= 0 + 1
      BY <3>1, FS_EmptySet, OneMoreProc
    <3>3. Cardinality(Delivering(q)') = 0 /\ delivered'[q] = 0 /\ Counted(attempts'[q]) \in Nat
      BY <1>b, <2>1, <2>2, <2>5, <3>1, FS_EmptySet, OutboxAssumption DEF Counted
    <3> QED
      BY <3>2, <3>3
  <2>6. CASE q # r
    <3>1. Publishing(q)' \subseteq Publishing(q) /\ Delivering(q)' \subseteq Delivering(q)
      BY <2>2, <2>6 DEF Publishing, Delivering
    <3> QED
      BY <1>0, <1>b, <2>2, <3>1, RowFits
  <2> QED
    BY <2>5, <2>6
<1>2. ASSUME NEW p \in Procs, TaskStep(p)
      PROVE  SelectedStaysDue' /\ AbsentIsUnknown' /\ CopiesFit'
  <2>1. ASSUME NEW r \in Rows, PublishOne(p, r) \/ PublishOneUnconfirmed(p, r)
        PROVE  SelectedStaysDue' /\ AbsentIsUnknown' /\ CopiesFit'
    <3>1. /\ r \in tasks[p] /\ tasks' = [tasks EXCEPT ![p] = @ \ {r}]
          /\ delivered' = [delivered EXCEPT ![r] = @ + 1]
          /\ UNCHANGED <<table, relay>>
      BY <2>1 DEF PublishOne, PublishOneUnconfirmed
    <3>2. SelectedStaysDue' /\ AbsentIsUnknown'
      BY <1>0, <3>1, LocksHold DEF AbsentIsUnknown, TypeOK, table, relay
    <3>3. SUFFICES ASSUME NEW q \in Rows
                   PROVE  delivered'[q] + Cardinality(Publishing(q)') + Cardinality(Delivering(q)')
                              <= Counted(attempts'[q]) + 1
      BY <3>2 DEF CopiesFit, Counted
    <3>4. Publishing(q)' \subseteq Publishing(q) /\ Delivering(q)' \subseteq Delivering(q)
      BY <1>0, <3>1 DEF Publishing, Delivering, TypeOK, relay
    <3>5. q = r => p \in Publishing(q) /\ Publishing(q)' \subseteq Publishing(q) \ {p}
      BY <1>0, <3>1 DEF Publishing, TypeOK
    <3>6. /\ attempts'[q] = attempts[q]
          /\ delivered'[q] = IF q = r THEN delivered[q] + 1 ELSE delivered[q]
      BY <1>0, <3>1 DEF TypeOK, table
    <3> QED
      BY <1>0, <1>b, <3>4, <3>5, <3>6, RowFits
  <2>2. ASSUME NEW r \in Rows, PublishOneFails(p, r)
        PROVE  SelectedStaysDue' /\ AbsentIsUnknown' /\ CopiesFit'
    <3>1. (\A q \in Procs : tasks'[q] \subseteq tasks[q]) /\ UNCHANGED <<table, relay, delivered>>
      BY <1>0, <2>2 DEF PublishOneFails, TypeOK
    <3> QED
      BY <1>0, <1>b, <3>1, LocksHold, NothingToSend DEF table, relay
  <2>3. CASE MarkPublished(p)
    <3>1. /\ \A r \in Rows : attempts'[r] >= attempts[r]
          /\ \A r \in Rows : status'[r] = "absent" => status[r] = "absent"
          /\ \A r \in Rows : Locked(r) => status'[r] = status[r] /\ attempts'[r] = attempts[r]
          /\ UNCHANGED <<tasks, relay, delivered>>
      BY <1>b, <2>3, ExistingIsSubset DEF MarkPublished, SetStatus, CountAttempt
    <3> QED
      BY <1>0, <3>1, LocksHold, NothingToSend DEF relay
  <2>4. CASE MarkPublishedFails(p)
    BY <1>0, <1>b, <2>4, LocksHold, NothingToSend DEF MarkPublishedFails, table, relay
  <2> QED
    BY <1>2, <2>1, <2>2, <2>3, <2>4 DEF TaskStep
<1>3. ASSUME NEW p \in Procs, RelayStep(p)
      PROVE  SelectedStaysDue' /\ AbsentIsUnknown' /\ CopiesFit'
  <2>1. CASE ReclaimStuck(p)
    <3>1. /\ \A r \in Rows : status'[r] = status[r] \/ (status[r] = "publishing" /\ status'[r] = "pending")
          /\ \A q \in Procs : pc'[q] \in {"selected", "deliver"} => pc'[q] = pc[q]
          /\ UNCHANGED <<attempts, tasks, todo, delivered>>
      <4>1. \A r \in Rows : status'[r] = status[r] \/ (status[r] = "publishing" /\ status'[r] = "pending")
        <5> DEFINE S == {r \in idle : status[r] = "publishing"}
        <5>1. SetStatus(S, "pending")
          BY <2>1 DEF ReclaimStuck
        <5>2. \A r \in S : status[r] = "publishing"
          OBVIOUS
        <5> HIDE DEF S
        <5> QED
          BY <5>1, <5>2, SetStatusEffect
      <4>2. \A q \in Procs : pc'[q] \in {"selected", "deliver"} => pc'[q] = pc[q]
        BY <1>t, <2>1 DEF ReclaimStuck, TypeOK
      <4> QED
        BY <2>1, <4>1, <4>2 DEF ReclaimStuck
    <3> QED
      BY <1>0, <1>a, <1>b, <3>1, LocksHold, NothingToSend
  <2>2. CASE SelectDue(p)
    <3>1. FirstBatch(Due) \subseteq Due /\ Due \subseteq Rows
      BY FirstBatchIsDue, OutboxAssumption, <1>t DEF Due, Rows, TypeOK
    <3>2. \A r \in Due : status[r] = "pending" /\ attempts[r] < RELAY_MAX_ATTEMPTS /\ ~Locked(r)
      BY DEF Due
    <3>3. /\ pc[p] = "claim" /\ pc'[p] \in {"sleep", "selected"} /\ todo'[p] \subseteq Due
          /\ \A q \in Procs \ {p} : pc'[q] = pc[q] /\ todo'[q] = todo[q]
          /\ UNCHANGED <<table, tasks, delivered>>
      BY <1>0, <2>2, <3>1 DEF SelectDue, TypeOK
    <3>4. SelectedStaysDue'
      BY <1>0, <3>1, <3>2, <3>3 DEF SelectedStaysDue, Locked, table
    <3>5. AbsentIsUnknown'
      BY <1>0, <3>1, <3>2, <3>3 DEF AbsentIsUnknown, table
    <3>6. CopiesFit'
      BY <1>0, <1>b, <3>3, NothingToSend DEF table
    <3> QED
      BY <3>4, <3>5, <3>6
  <2>3. CASE Claim(p)
    <3>1. /\ pc[p] = "selected" /\ pc'[p] = "deliver"
          /\ \A q \in Procs \ {p} : pc'[q] = pc[q]
          /\ \A r \in Rows : status'[r] = IF r \in todo[p] THEN "publishing" ELSE status[r]
          /\ \A r \in Rows : attempts'[r] = IF r \in todo[p] THEN attempts[r] + 1 ELSE attempts[r]
          /\ UNCHANGED <<tasks, todo, delivered>>
      BY <1>0, <2>3 DEF Claim, SetStatus, CountAttempt, TypeOK
    <3>2. SelectedStaysDue'
      <4>1. \A q \in Procs : pc'[q] = "selected" => q # p /\ pc[q] = "selected"
        BY <3>1
      <4>2. \A q \in Procs : pc'[q] = "selected" => todo[q] \cap todo[p] = {} /\ todo[q] \subseteq Rows
        BY <1>0, <1>t, <3>1, <4>1 DEF SelectedStaysDue, TypeOK
      <4>3. \A q \in Procs : pc'[q] = "selected" =>
               \A r \in todo[q] : status'[r] = status[r] /\ attempts'[r] = attempts[r]
        BY <3>1, <4>2
      <4> QED
        BY <1>0, <3>1, <4>1, <4>3 DEF SelectedStaysDue
    <3>3. AbsentIsUnknown'
      BY <1>0, <3>1 DEF AbsentIsUnknown
    <3>4. SUFFICES ASSUME NEW r \in Rows
                   PROVE  delivered'[r] + Cardinality(Publishing(r)') + Cardinality(Delivering(r)')
                              <= Counted(attempts'[r]) + 1
      BY <3>2, <3>3 DEF CopiesFit, Counted
    <3>5. Publishing(r)' \subseteq Publishing(r)
      BY <3>1 DEF Publishing
    <3>6. CASE r \in todo[p]
      <4>1. attempts[r] < RELAY_MAX_ATTEMPTS
        BY <1>0, <3>1, <3>6 DEF SelectedStaysDue
      <4>2. Delivering(r)' \subseteq Delivering(r) \cup {p}
        BY <3>1 DEF Delivering
      <4> QED
        BY <1>0, <3>1, <3>5, <3>6, <4>1, <4>2, RowFits
    <3>7. CASE r \notin todo[p]
      <4>1. Delivering(r)' \subseteq Delivering(r)
        BY <3>1, <3>7 DEF Delivering
      <4> QED
        BY <1>0, <1>b, <3>1, <3>5, <3>7, <4>1, RowFits
    <3> QED
      BY <3>6, <3>7
  <2>4. ASSUME NEW r \in Rows, Deliver(p, r) \/ DeliverUnconfirmed(p, r)
        PROVE  SelectedStaysDue' /\ AbsentIsUnknown' /\ CopiesFit'
    <3>1. /\ pc[p] = "deliver" /\ r \in todo[p] /\ todo' = [todo EXCEPT ![p] = @ \ {r}]
          /\ delivered' = [delivered EXCEPT ![r] = @ + 1]
          /\ UNCHANGED <<table, tasks, pc>>
      BY <2>4 DEF Deliver, DeliverUnconfirmed, IsNext
    <3>2. SelectedStaysDue' /\ AbsentIsUnknown'
      BY <1>0, <3>1, LocksHold DEF AbsentIsUnknown, TypeOK, table
    <3>3. SUFFICES ASSUME NEW q \in Rows
                   PROVE  delivered'[q] + Cardinality(Publishing(q)') + Cardinality(Delivering(q)')
                              <= Counted(attempts'[q]) + 1
      BY <3>2 DEF CopiesFit, Counted
    <3>4. Publishing(q)' \subseteq Publishing(q) /\ Delivering(q)' \subseteq Delivering(q)
      BY <1>0, <3>1 DEF Publishing, Delivering, TypeOK
    <3>5. q = r => p \in Delivering(q) /\ Delivering(q)' \subseteq Delivering(q) \ {p}
      BY <1>0, <3>1 DEF Delivering, TypeOK
    <3>6. /\ attempts'[q] = attempts[q]
          /\ delivered'[q] = IF q = r THEN delivered[q] + 1 ELSE delivered[q]
      BY <1>0, <3>1 DEF TypeOK, table
    <3> QED
      BY <1>0, <1>b, <3>4, <3>5, <3>6, RowFits
  <2>5. ASSUME NEW r \in Rows, DeliverFails(p, r)
        PROVE  SelectedStaysDue' /\ AbsentIsUnknown' /\ CopiesFit'
    <3>1. (\A q \in Procs : todo'[q] \subseteq todo[q]) /\ UNCHANGED <<table, tasks, pc, delivered>>
      BY <1>0, <2>5 DEF DeliverFails, TypeOK
    <3> QED
      BY <1>0, <1>b, <3>1, LocksHold, NothingToSend DEF table
  <2>6. CASE Stamp(p)
    <3>1. /\ \A r \in Rows : status'[r] = "absent" => status[r] = "absent"
          /\ \A r \in Rows : Locked(r) => status'[r] = status[r]
          /\ \A q \in Procs : todo'[q] \subseteq todo[q]
          /\ \A q \in Procs : pc'[q] \in {"selected", "deliver"} => pc'[q] = pc[q]
          /\ UNCHANGED <<attempts, tasks, delivered>>
      BY <1>0, <2>6, ExistingIsSubset DEF Stamp, EndTick, Held, TypeOK
    <3> QED
      BY <1>0, <1>b, <3>1, LocksHold, NothingToSend
  <2>7. CASE TickFails(p)
    <3>1. /\ \A q \in Procs : todo'[q] \subseteq todo[q]
          /\ \A q \in Procs : pc'[q] \in {"selected", "deliver"} => pc'[q] = pc[q]
          /\ UNCHANGED <<table, tasks, delivered>>
      BY <1>0, <2>7 DEF TickFails, EndTick, TypeOK
    <3> QED
      BY <1>0, <1>b, <3>1, LocksHold, NothingToSend DEF table
  <2> QED
    BY <1>3, <2>1, <2>2, <2>3, <2>4, <2>5, <2>6, <2>7 DEF RelayStep, DeliverNext
<1>4. ASSUME NEW p \in Procs, CleanupPublished(p)
      PROVE  SelectedStaysDue' /\ AbsentIsUnknown' /\ CopiesFit'
  <2>1. PICK S \in SUBSET {r \in Rows : status[r] = "published"} : SetStatus(S, "deleted")
    BY <1>4 DEF CleanupPublished
  <2>2. \A r \in Rows : \/ status'[r] = status[r]
                        \/ status[r] = "published" /\ status'[r] = "deleted"
    BY <2>1, SetStatusEffect
  <2> QED
    BY <1>0, <1>a, <1>b, <1>4, <2>2, LocksHold, NothingToSend DEF CleanupPublished, relay
<1>5. CASE Environment
  <2>1. CASE UNCHANGED <<status, attempts, tasks, relay, delivered>>
    BY <1>0, <1>b, <2>1, LocksHold, NothingToSend DEF relay
  <2>2. ASSUME NEW p \in Procs, Restart(p)
        PROVE  SelectedStaysDue' /\ AbsentIsUnknown' /\ CopiesFit'
    <3>1. /\ \A q \in Procs : todo'[q] \subseteq todo[q] /\ tasks'[q] \subseteq tasks[q]
          /\ \A q \in Procs : pc'[q] \in {"selected", "deliver"} => pc'[q] = pc[q]
          /\ UNCHANGED <<table, delivered>>
      BY <1>0, <2>2 DEF Restart, EndTick, TypeOK
    <3> QED
      BY <1>0, <1>b, <3>1, LocksHold, NothingToSend DEF table
  <2> QED
    BY <1>5, <2>1, <2>2 DEF Environment, GraceRunsOut, ClaimGoesStale, BrokerStops, BrokerStarts,
                            Reconnect, table
<1>6. CASE UNCHANGED vars
  BY <1>0, <1>b, <1>6, LocksHold, NothingToSend DEF vars, table, relay
<1> QED
  BY <1>1, <1>2, <1>3, <1>4, <1>5, <1>6 DEF Next

\* The attempts column accounts for every copy but the immediate one.
THEOREM OutboxCountsCopies == Spec => []CopiesAreCounted
<1>1. CopiesInv => CopiesAreCounted
  <2> SUFFICES ASSUME CopiesInv, NEW r \in Rows PROVE delivered[r] <= attempts[r] + 1
    BY DEF CopiesAreCounted
  <2>1. Cardinality(Publishing(r)) \in Nat /\ Cardinality(Delivering(r)) \in Nat
    BY ProcsAreFinite
  <2>2. delivered[r] + Cardinality(Publishing(r)) + Cardinality(Delivering(r)) <= Counted(attempts[r]) + 1
    BY DEF CopiesInv, CopiesFit
  <2>3. delivered[r] \in Nat /\ attempts[r] \in Nat
    BY DEF CopiesInv, TypeOK
  <2> QED
    BY <2>1, <2>2, <2>3, OutboxAssumption DEF Counted
<1> QED
  BY <1>1, InitCopiesInv, NextCopiesInv, PTL DEF Spec

-----------------------------------------------------------------------------
(* The refinement: a commit is an Accept, a copy a Send, a cleanup a Forget, *)
(* and every other step leaves what EventDelivery sees as it is.             *)

LEMMA NothingSeen ==
    ASSUME UNCHANGED delivered,
           \A r \in Rows : /\ status'[r] = "absent" <=> status[r] = "absent"
                           /\ status'[r] = "deleted" <=> status[r] = "deleted"
    PROVE  UNCHANGED Promise!promise
BY DEF Promise!promise

\* A copy that is about to go out is one of those CopiesFit has counted.
LEMMA CopyIsSent ==
    ASSUME CopiesInv, UNCHANGED status,
           NEW r \in Rows, delivered' = [delivered EXCEPT ![r] = @ + 1],
           NEW p \in Procs, p \in Publishing(r) \/ p \in Delivering(r)
    PROVE  Promise!Next
<1>1. status[r] # "absent"
  BY DEF CopiesInv, AbsentIsUnknown, Publishing, Delivering
<1>2. /\ IsFiniteSet(Publishing(r)) /\ IsFiniteSet(Delivering(r))
      /\ Cardinality(Publishing(r)) \in Nat /\ Cardinality(Delivering(r)) \in Nat
  BY ProcsAreFinite
<1>3. p \in Publishing(r) => 1 <= Cardinality(Publishing(r))
  <2>1. p \in Publishing(r) => Cardinality({}) + 1 <= Cardinality(Publishing(r))
    BY <1>2, OneProcLess
  <2> QED
    BY <2>1, FS_EmptySet
<1>4. p \in Delivering(r) => 1 <= Cardinality(Delivering(r))
  <2>1. p \in Delivering(r) => Cardinality({}) + 1 <= Cardinality(Delivering(r))
    BY <1>2, OneProcLess
  <2> QED
    BY <2>1, FS_EmptySet
<1>5. delivered[r] < RELAY_MAX_ATTEMPTS + 1
  <2>1. delivered[r] + Cardinality(Publishing(r)) + Cardinality(Delivering(r)) <= Counted(attempts[r]) + 1
    BY DEF CopiesInv, CopiesFit
  <2>2. delivered[r] \in Nat /\ attempts[r] \in Nat
    BY DEF CopiesInv, TypeOK
  <2> QED
    BY <1>2, <1>3, <1>4, <2>1, <2>2, OutboxAssumption DEF Counted
<1>6. Promise!Send(r)
  BY <1>1, <1>5 DEF Promise!Send
<1> QED
  BY <1>6 DEF Promise!Next

LEMMA InitKeepsPromise == Init => Promise!Init
BY DEF Init, Promise!Init

LEMMA NextKeepsPromise ==
    CopiesInv /\ DeliveryInv /\ [Next]_vars => Promise!Next \/ UNCHANGED Promise!promise
<1> SUFFICES ASSUME CopiesInv, DeliveryInv, [Next]_vars
             PROVE  Promise!Next \/ UNCHANGED Promise!promise
  OBVIOUS
<1>0. TypeOK /\ SelectedStaysDue
  BY DEF CopiesInv
<1>1. ASSUME NEW p \in Procs, NEW r \in Rows, Commit(p, r) PROVE Promise!Next
  <2>1. /\ status[r] = "absent" /\ UNCHANGED delivered
        /\ \A q \in Rows : status'[q] = IF q = r THEN "pending" ELSE status[q]
    BY <1>0, <1>1 DEF Commit, TypeOK
  <2>2. Promise!Accept(r)
    BY <2>1 DEF Promise!Accept
  <2> QED
    BY <2>2 DEF Promise!Next
<1>2. ASSUME NEW p \in Procs, TaskStep(p) PROVE Promise!Next \/ UNCHANGED Promise!promise
  <2>1. ASSUME NEW r \in Rows, PublishOne(p, r) \/ PublishOneUnconfirmed(p, r) PROVE Promise!Next
    BY <2>1, CopyIsSent DEF PublishOne, PublishOneUnconfirmed, Publishing, table
  <2>2. CASE MarkPublished(p)
    <3>0. PICK S \in SUBSET marker[p] : SetStatus(Existing(S), "published")
      BY <2>2 DEF MarkPublished
    <3>1. \A r \in Rows : status'[r] = IF r \in Existing(S) THEN "published" ELSE status[r]
      BY <3>0, SetStatusEffect
    <3>2. \A r \in Existing(S) : status[r] \notin {"absent", "deleted"}
      BY DEF Existing
    <3> QED
      BY <2>2, <3>1, <3>2, NothingSeen DEF MarkPublished
  <2>3. CASE UNCHANGED <<status, delivered>>
    BY <2>3, NothingSeen
  <2> QED
    BY <1>2, <2>1, <2>2, <2>3 DEF TaskStep, PublishOneFails, MarkPublishedFails, table
<1>3. ASSUME NEW p \in Procs, RelayStep(p) PROVE Promise!Next \/ UNCHANGED Promise!promise
  <2>1. CASE ReclaimStuck(p)
    <3> DEFINE S == {r \in idle : status[r] = "publishing"}
    <3>1. SetStatus(S, "pending") /\ UNCHANGED delivered
      BY <2>1 DEF ReclaimStuck
    <3>2. \A r \in S : status[r] = "publishing"
      OBVIOUS
    <3> HIDE DEF S
    <3>3. \A r \in Rows : status'[r] = IF r \in S THEN "pending" ELSE status[r]
      BY <3>1, SetStatusEffect
    <3> QED
      BY <3>1, <3>2, <3>3, NothingSeen
  <2>2. CASE Claim(p)
    <3>1. \A r \in todo[p] : status[r] = "pending"
      BY <1>0, <2>2 DEF Claim, SelectedStaysDue
    <3>2. \A r \in Rows : status'[r] = IF r \in todo[p] THEN "publishing" ELSE status[r]
      BY <2>2, SetStatusEffect DEF Claim
    <3> QED
      BY <2>2, <3>1, <3>2, NothingSeen DEF Claim
  <2>3. ASSUME NEW r \in Rows, Deliver(p, r) \/ DeliverUnconfirmed(p, r) PROVE Promise!Next
    BY <2>3, CopyIsSent DEF Deliver, DeliverUnconfirmed, IsNext, Delivering, table
  <2>4. CASE Stamp(p)
    <3>1. \A r \in Rows : \/ status'[r] = status[r]
                          \/ /\ status'[r] \in {"pending", "published"}
                             /\ r \in Existing(failed[p]) \/ r \in Existing(sent[p])
      BY <2>4 DEF Stamp
    <3>2. \A S : \A r \in Existing(S) : status[r] \notin {"absent", "deleted"}
      BY DEF Existing
    <3> QED
      BY <2>4, <3>1, <3>2, NothingSeen DEF Stamp
  <2>5. CASE UNCHANGED <<status, delivered>>
    BY <2>5, NothingSeen
  <2> QED
    BY <1>3, <2>1, <2>2, <2>3, <2>4, <2>5 DEF RelayStep, DeliverNext, SelectDue, DeliverFails,
                                              TickFails, table
<1>4. ASSUME NEW p \in Procs, CleanupPublished(p) PROVE Promise!Next
  <2>1. PICK S \in SUBSET {r \in Rows : status[r] = "published"} : SetStatus(S, "deleted")
    BY <1>4 DEF CleanupPublished
  <2>2. S \subseteq Rows /\ \A r \in S : status[r] = "published" /\ delivered[r] > 0
    BY DEF DeliveryInv, PublishedWasDelivered
  <2>3. \A r \in Rows : status'[r] = IF r \in S THEN "deleted" ELSE status[r]
    BY <2>1, SetStatusEffect
  <2>4. Promise!Forget(S)
    BY <1>4, <2>2, <2>3 DEF Promise!Forget, CleanupPublished
  <2> QED
    BY <2>2, <2>4 DEF Promise!Next
<1>5. CASE Environment
  BY <1>5, NothingSeen DEF Environment, GraceRunsOut, ClaimGoesStale, BrokerStops, BrokerStarts,
                           Reconnect, Restart, table
<1>6. CASE UNCHANGED vars
  BY <1>6, NothingSeen DEF vars, table
<1> QED
  BY <1>1, <1>2, <1>3, <1>4, <1>5, <1>6 DEF Next

\* The outbox keeps EventDelivery's promise: it sends nothing that was not
\* committed, sends nothing more than RELAY_MAX_ATTEMPTS + 1 times, and forgets
\* nothing unsent.
THEOREM OutboxKeepsPromise == Spec => KeepsPromise
<1>1. CopiesInv /\ DeliveryInv /\ [Next]_vars => [Promise!Next]_(Promise!promise)
  BY NextKeepsPromise
<1> QED
  BY <1>1, InitKeepsPromise, InitCopiesInv, NextCopiesInv, InitDeliveryInv, NextDeliveryInv, PTL
  DEF Spec, KeepsPromise, Promise!Spec

-----------------------------------------------------------------------------
(* In time: nobody late. Then a row has one publisher at a time: its task    *)
(* while it is young, the relay that holds it afterwards; and whoever sends   *)
(* again what was sent before has a fault to thank for it.                   *)

\* A task publishes a young row nobody else has to do with.
Fresh ==
    \A p \in Procs : \A r \in tasks[p] :
        /\ status[r] = "pending" /\ delivered[r] = 0 /\ r > cutoff
        /\ \A q \in Procs : r \notin marker[q] /\ (q # p => r \notin tasks[q])

\* Marks are written before the grace period ends.
Marked == \A p \in Procs : \A r \in marker[p] : r > cutoff /\ status[r] # "absent"

\* A relay's undelivered rows are old, and every copy of one was a fault's.
Undone ==
    \A p \in Procs : /\ \A r \in todo[p] : r <= cutoff /\ delivered[r] <= faults
                     /\ \A r \in failed[p] : delivered[r] <= faults /\ r \notin todo[p]

\* So was every copy of a row that waits, unless its mark is on the way, and of
\* one whose claim has lost its relay.
Unsent ==
    \A r \in Rows : status[r] \in {"absent", "pending"} =>
        delivered[r] <= faults \/ \E p \in Procs : r \in marker[p]

Claimed == \A r \in Rows : status[r] = "publishing" => HeldBySome(r) \/ delivered[r] <= faults

\* No row is committed late, and none is sent before its commit.
NotYet == \A r \in Rows : status[r] = "absent" => r > cutoff /\ delivered[r] = 0

OnceAndFaults == \A r \in Rows : delivered[r] <= 1 + faults

TimelyInv == Fresh /\ Marked /\ Undone /\ Unsent /\ NotYet /\ Claimed /\ OnceAndFaults

\* A fault counts one and makes nobody late; every other step counts none.
LEMMA FaultsAreCounted ==
    ASSUME TypeOK
    PROVE  faults \in Nat /\ (Fault => faults' = faults + 1 /\ faults' \in Nat)
BY OutboxAssumption DEF TypeOK, Fault

\* A fault pays for a copy more of every row.
LEMMA FaultPays ==
    ASSUME TypeOK, TimelyInv, UNCHANGED <<status, cutoff>>,
           \A r \in Rows : delivered'[r] \in Nat /\ delivered'[r] <= faults',
           \A r \in Rows : status[r] = "absent" => delivered'[r] = delivered[r],
           faults' \in Nat,
           \A p \in Procs : /\ tasks'[p] \subseteq tasks[p] /\ marker'[p] \subseteq marker[p]
                            /\ todo'[p] \subseteq todo[p] /\ failed'[p] \subseteq Rows \ todo'[p]
                            /\ \A r \in tasks'[p] : delivered'[r] = delivered[r]
    PROVE  TimelyInv'
<1>0. \A p \in Procs : tasks[p] \subseteq Rows /\ marker[p] \subseteq Rows /\ todo[p] \subseteq Rows
  BY DEF TypeOK
<1>1. Fresh' /\ Marked' /\ NotYet'
  BY <1>0 DEF TimelyInv, Fresh, Marked, NotYet
<1>2. Undone'
  BY <1>0 DEF TimelyInv, Undone
<1>3. Unsent' /\ Claimed'
  BY DEF Unsent, Claimed
<1>4. OnceAndFaults'
  BY DEF OnceAndFaults
<1> QED
  BY <1>1, <1>2, <1>3, <1>4 DEF TimelyInv

LEMMA InitTimelyInv == Init => TimelyInv
BY OutboxAssumption DEF Init, TimelyInv, Fresh, Marked, Undone, Unsent, NotYet, Claimed, OnceAndFaults, Rows

LEMMA NextTimelyInv ==
    ASSUME ExclusiveInv, TimelyInv, [Next]_vars, overrun' = {}
    PROVE  TimelyInv'
<1>0. TypeOK /\ ClaimInv /\ Exclusive
  BY DEF ExclusiveInv
<1> USE DEF TimelyInv, Fresh, Marked, Undone, Unsent, NotYet, Claimed, OnceAndFaults, HeldBySome
<1>a. cutoff \in Int /\ \A r \in Rows : r \in Int
  BY <1>0, RowsAreNatural DEF TypeOK
<1>b. \A p \in Procs : tasks[p] \subseteq Rows /\ marker[p] \subseteq Rows /\ todo[p] \subseteq Rows
  BY <1>0 DEF TypeOK
<1>c. faults \in Nat /\ \A r \in Rows : delivered[r] \in Nat
  BY <1>0, FaultsAreCounted DEF TypeOK
\* Where a step is a fault, what was sent before is paid for.
<1>d. ASSUME Fault, UNCHANGED <<status, cutoff, delivered>>,
             \A p \in Procs : /\ tasks'[p] \subseteq tasks[p] /\ marker'[p] \subseteq marker[p]
                              /\ todo'[p] \subseteq todo[p] /\ failed'[p] \subseteq failed[p]
      PROVE  TimelyInv'
  <2>1. faults' \in Nat /\ \A r \in Rows : delivered'[r] \in Nat /\ delivered'[r] <= faults'
    BY <1>0, <1>c, <1>d, FaultsAreCounted
  <2>2. \A p \in Procs : failed'[p] \subseteq Rows \ todo'[p]
    BY <1>0, <1>d DEF TypeOK
  <2> HIDE DEF TimelyInv, Fresh, Marked, Undone, Unsent, NotYet, Claimed, OnceAndFaults
  <2> QED
    BY <1>0, <1>d, <2>1, <2>2, FaultPays
<1>1. ASSUME NEW p \in Procs, NEW r \in Rows, Commit(p, r) PROVE TimelyInv'
  <2>1. /\ status[r] = "absent" /\ r > cutoff
        /\ \A q \in Procs : r \notin tasks[q] \cup marker[q]
    BY <1>1 DEF Commit
  <2>2. delivered[r] = 0 /\ delivered[r] <= faults
    BY <1>c, <2>1
  <2>3. /\ \A q \in Rows : status'[q] = IF q = r THEN "pending" ELSE status[q]
        /\ \A q \in Procs \ {p} : tasks'[q] = tasks[q]
        /\ tasks'[p] \subseteq tasks[p] \cup {r}
        /\ UNCHANGED <<cutoff, marker, todo, sent, failed, delivered, faults>>
    BY <1>0, <1>1 DEF Commit, relay, TypeOK
  <2>4. \A q \in Procs : tasks[q] \subseteq Rows /\ marker[q] \subseteq Rows
    BY <1>0 DEF TypeOK
  <2>5. Fresh'
    BY <2>1, <2>2, <2>3, <2>4
  <2>6. Marked' /\ Undone' /\ Unsent' /\ NotYet' /\ OnceAndFaults'
    BY <2>1, <2>2, <2>3, <2>4
  <2>7. Claimed'
    BY <2>3 DEF Held
  <2> QED
    BY <2>5, <2>6, <2>7
<1>2. ASSUME NEW p \in Procs, TaskStep(p) PROVE TimelyInv'
  <2>1. ASSUME NEW r \in Rows, PublishOne(p, r) PROVE TimelyInv'
    <3>1. \A q \in Procs : r \notin todo[q] \cup failed[q]
      <4>1. r \in tasks[p] /\ status[r] = "pending" /\ r > cutoff /\ cutoff \in Int /\ r \in Int
        BY <1>0, <2>1, RowsAreNatural DEF PublishOne, TypeOK
      <4>2. \A q \in Procs : r \notin todo[q]
        BY <4>1
      <4>3. \A q \in Procs : r \notin failed[q]
        BY <1>0, <4>1 DEF ClaimInv, TypeOK, Held
      <4> QED
        BY <4>2, <4>3
    <3> QED
      BY <1>0, <1>c, <2>1, <3>1 DEF PublishOne, table, relay, TypeOK, Held
  <2>2. ASSUME NEW r \in Rows, PublishOneFails(p, r) PROVE TimelyInv'
    BY <1>0, <2>2 DEF PublishOneFails, table, relay, TypeOK, Held
  <2>3. CASE MarkPublished(p)
    <3>1. PICK S \in SUBSET marker[p] :
                  /\ SetStatus(Existing(S), "published")
                  /\ marker' = [marker EXCEPT ![p] = @ \ S]
                  /\ UNCHANGED <<cutoff, tasks, relay, delivered, faults>>
      BY <2>3 DEF MarkPublished
    <3>2. /\ \A r \in Rows : \/ status'[r] = status[r] /\ r \notin Existing(S)
                             \/ status'[r] = "published" /\ r \in Existing(S)
          /\ \A r \in S : status[r] \in {"absent", "deleted"} \/ r \in Existing(S)
          /\ \A r \in Existing(S) : r \in S /\ status[r] # "absent"
      BY <3>1, SetStatusEffect DEF Existing
    <3>3. \A r \in S : status[r] # "absent" /\ r > cutoff
      OBVIOUS
    <3>4. /\ \A q \in Procs \ {p} : marker'[q] = marker[q]
          /\ marker'[p] = marker[p] \ S
      BY <1>0, <3>1 DEF TypeOK
    <3>5. Fresh' /\ Marked'
      BY <1>b, <3>1, <3>2, <3>4
    <3>6. Unsent'
      BY <1>b, <3>1, <3>2, <3>3, <3>4
    <3>7. Undone' /\ NotYet' /\ OnceAndFaults' /\ Claimed'
      BY <1>b, <3>1, <3>2 DEF relay, Held
    <3> QED
      BY <3>5, <3>6, <3>7
  <2>4. CASE MarkPublishedFails(p)
    BY <1>0, <1>d, <2>4 DEF MarkPublishedFails, table, relay, TypeOK
  <2>5. ASSUME NEW r \in Rows, PublishOneUnconfirmed(p, r) PROVE TimelyInv'
    <3>1. r \in tasks[p] /\ delivered[r] = 0 /\ status[r] # "absent"
      BY <2>5 DEF PublishOneUnconfirmed
    <3>2. faults' = faults + 1 /\ faults' \in Nat
      BY <1>0, <2>5, FaultsAreCounted DEF PublishOneUnconfirmed
    <3>3. /\ \A q \in Rows : delivered'[q] = IF q = r THEN 1 ELSE delivered[q]
          /\ UNCHANGED <<status, cutoff, marker, todo, failed>>
      BY <1>0, <2>5, <3>1 DEF PublishOneUnconfirmed, table, relay, TypeOK
    <3>4. \A q \in Procs : tasks'[q] \subseteq tasks[q] \ {r}
      BY <1>0, <2>5, <3>1 DEF PublishOneUnconfirmed, TypeOK
    <3>5. \A q \in Rows : delivered'[q] \in Nat /\ delivered'[q] <= faults'
      BY <1>c, <3>1, <3>2, <3>3
    <3>6. \A q \in Procs : failed'[q] \subseteq Rows \ todo'[q]
      BY <1>0, <3>3 DEF TypeOK
    <3>7. \A q \in Procs : \A i \in tasks'[q] : delivered'[i] = delivered[i]
      BY <1>b, <3>3, <3>4
    <3>8. TimelyInv
      OBVIOUS
    <3> HIDE DEF TimelyInv, Fresh, Marked, Undone, Unsent, NotYet, Claimed, OnceAndFaults
    <3> QED
      BY <1>0, <3>1, <3>2, <3>3, <3>4, <3>5, <3>6, <3>7, <3>8, FaultPays
  <2> QED
    BY <1>2, <2>1, <2>2, <2>3, <2>4, <2>5 DEF TaskStep
<1>3. ASSUME NEW p \in Procs, RelayStep(p) PROVE TimelyInv'
  <2>1. CASE ReclaimStuck(p)
    <3>1. \A r \in idle : r \in Rows /\ (status[r] = "publishing" => delivered[r] <= faults)
      <4>1. \A r \in idle : status[r] = "publishing" => ~HeldBySome(r)
        BY <1>0 DEF ClaimInv, TypeOK, Held
      <4> QED
        BY <1>0, <4>1 DEF TypeOK
    <3>2. /\ \A r \in Rows : \/ status'[r] = status[r]
                             \/ /\ status'[r] = "pending" /\ status[r] = "publishing"
                                /\ delivered[r] <= faults
          /\ UNCHANGED <<cutoff, tasks, marker, todo, sent, failed, delivered, faults>>
      BY <2>1, <3>1 DEF ReclaimStuck, SetStatus
    <3> QED
      BY <1>b, <3>2 DEF Held
  <2>2. CASE SelectDue(p)
    <3>1. FirstBatch(Due) \subseteq Due
      BY FirstBatchIsDue
    <3>2. \A r \in Due : r \in Rows /\ r <= cutoff /\ status[r] = "pending"
      BY <1>0, OutboxAssumption DEF Due, TypeOK, Rows
    <3>3. \A r \in Due : delivered[r] <= faults
      <4>1. \A r \in Due, q \in Procs : r \notin marker[q]
        BY <1>a, <1>b, <3>2
      <4> QED
        BY <3>2, <4>1
    <3>4. /\ todo'[p] \subseteq Due /\ \A q \in Procs \ {p} : todo'[q] = todo[q]
          /\ UNCHANGED <<status, cutoff, tasks, marker, sent, failed, delivered, faults>>
      BY <1>0, <2>2, <3>1 DEF SelectDue, TypeOK, table
    <3>5. Held(p) = {} /\ \A q \in Procs \ {p} : Held(q)' = Held(q)
      BY <1>0, <2>2, <3>4 DEF SelectDue, ClaimInv, Held
    <3>6. Claimed'
      BY <3>4, <3>5
    <3>7. Undone'
      BY <3>2, <3>3, <3>4, <3>5 DEF Held
    <3> QED
      BY <3>4, <3>6, <3>7
  <2>3. CASE Claim(p)
    <3>1. /\ \A r \in Rows : status'[r] = IF r \in todo[p] THEN "publishing" ELSE status[r]
          /\ UNCHANGED <<cutoff, tasks, marker, todo, sent, failed, delivered, faults>>
      BY <2>3, SetStatusEffect DEF Claim
    <3>2. \A q \in Procs : Held(q)' = Held(q) /\ tasks[q] \subseteq Rows /\ marker[q] \subseteq Rows
      BY <1>0, <3>1 DEF Held, TypeOK
    <3>3. \A q \in Procs : tasks[q] \cap todo[p] = {}
      BY <1>a, <1>b
    <3>4. Fresh'
      BY <3>1, <3>2, <3>3
    <3>5. Claimed'
      BY <3>1, <3>2 DEF Held
    <3>6. Marked' /\ Undone' /\ Unsent' /\ NotYet' /\ OnceAndFaults'
      BY <3>1, <3>2
    <3> QED
      BY <3>4, <3>5, <3>6
  <2>4. ASSUME NEW r \in Rows, Deliver(p, r) PROVE TimelyInv'
    <3>1. /\ pc[p] = "deliver" /\ r \in todo[p] /\ r <= cutoff /\ delivered[r] <= faults
          /\ status[r] \in {"publishing", "published", "deleted"}
      BY <1>0, <2>4 DEF Deliver, IsNext, ClaimInv, Held
    <3>2. /\ \A q \in Procs \ {p} : todo'[q] = todo[q]
          /\ todo'[p] = todo[p] \ {r}
          /\ \A q \in Rows : delivered'[q] = IF q = r THEN delivered[q] + 1 ELSE delivered[q]
          /\ UNCHANGED <<status, cutoff, tasks, marker, failed, faults>>
      BY <1>0, <2>4, <3>1 DEF Deliver, TypeOK, table
    <3>3. /\ \A q \in Procs : tasks[q] \subseteq Rows /\ todo[q] \subseteq Rows /\ failed[q] \subseteq Rows
          /\ \A q \in Procs : r \notin tasks[q]
          /\ \A q \in Procs : q # p => r \notin todo[q]
          /\ \A q \in Procs : q # p => r \notin failed[q]
      BY <1>0, <3>1 DEF TypeOK, Exclusive, Held
    <3>4. r \notin failed'[p]
      BY <3>1, <3>2
    <3>5. Fresh' /\ Marked' /\ Unsent' /\ NotYet'
      BY <3>1, <3>2, <3>3
    <3>6. Undone'
      BY <3>2, <3>3, <3>4
    <3>7. \A q \in Procs : Held(q)' = Held(q)
      BY <1>0, <2>4 DEF Deliver, IsNext, TypeOK, Held
    <3>8. Claimed'
      BY <3>1, <3>2, <3>7 DEF Held
    <3>9. OnceAndFaults'
      BY <1>c, <3>1, <3>2
    <3> QED
      BY <3>5, <3>6, <3>8, <3>9
  <2>5. ASSUME NEW r \in Rows, DeliverFails(p, r) PROVE TimelyInv'
    BY <1>0, <2>5 DEF DeliverFails, IsNext, TypeOK, Held, table
  <2>6. CASE Stamp(p)
    <3>1. /\ \A r \in Rows : \/ status'[r] = status[r]
                             \/ /\ status'[r] = "published" /\ status[r] # "absent"
                             \/ /\ status'[r] = "pending" /\ r \in failed[p] /\ status[r] # "absent"
          /\ \A r \in Held(p) : status[r] = "publishing" => status'[r] # "publishing"
          /\ UNCHANGED <<cutoff, tasks, marker, delivered, faults>>
      <4>1. \A S : \A r \in Existing(S) : r \in S /\ status[r] # "absent"
        BY DEF Existing
      <4>2. \A r \in Held(p) : r \in Rows /\ (status[r] = "publishing" => r \in Existing(sent[p]) \cup Existing(failed[p]))
        BY <1>0, <2>6 DEF Stamp, Held, Existing, TypeOK
      <4>3. \A r \in Rows : status'[r] = IF r \in Existing(failed[p]) THEN "pending"
                                         ELSE IF r \in Existing(sent[p]) THEN "published" ELSE status[r]
        BY <2>6 DEF Stamp
      <4> QED
        BY <2>6, <4>1, <4>2, <4>3 DEF Stamp
    <3>2. /\ pc[p] = "deliver" /\ todo'[p] = {} /\ failed'[p] = {}
          /\ \A q \in Procs \ {p} : todo'[q] = todo[q] /\ failed'[q] = failed[q] /\ Held(q)' = Held(q)
      BY <1>0, <2>6 DEF Stamp, EndTick, TypeOK, Held
    <3>3. \A q \in Procs : tasks[q] \subseteq Rows /\ marker[q] \subseteq Rows
      BY <1>b
    <3>4. \A q \in Procs : \A r \in tasks[q] : r \notin Held(p)
      BY <1>0, <3>2 DEF ClaimInv
    <3>5. Fresh'
      <4>1. \A q \in Procs : \A r \in tasks[q] : status'[r] = "pending"
        BY <1>0, <2>6, <3>3, <3>4, ExistingIsSubset DEF Stamp, Held
      <4> QED
        BY <3>1, <3>3, <4>1
    <3>6. Claimed'
      BY <3>1, <3>2
    <3>7. Marked' /\ Undone' /\ Unsent' /\ NotYet' /\ OnceAndFaults'
      BY <3>1, <3>2, <3>3
    <3> QED
      BY <3>5, <3>6, <3>7
  <2>7. CASE TickFails(p)
    <3>1. \A q \in Procs : todo'[q] \subseteq todo[q] /\ failed'[q] \subseteq failed[q]
      BY <1>0, <2>7 DEF TickFails, EndTick, TypeOK
    <3> QED
      BY <1>d, <2>7, <3>1 DEF TickFails, table
  <2>8. ASSUME NEW r \in Rows, DeliverUnconfirmed(p, r) PROVE TimelyInv'
    <3>1. r \in todo[p] /\ r <= cutoff /\ delivered[r] <= faults /\ status[r] # "absent"
      BY <1>a, <2>8 DEF DeliverUnconfirmed, IsNext
    <3>2. faults' = faults + 1 /\ faults' \in Nat
      BY <1>0, <2>8, FaultsAreCounted DEF DeliverUnconfirmed
    <3>3. /\ \A q \in Rows : delivered'[q] = IF q = r THEN delivered[q] + 1 ELSE delivered[q]
          /\ UNCHANGED <<status, cutoff, tasks, marker>>
      BY <1>0, <2>8 DEF DeliverUnconfirmed, table, TypeOK
    <3>4. \A q \in Procs : /\ todo'[q] \subseteq todo[q]
                           /\ failed'[q] \subseteq Rows \ todo'[q]
      BY <1>0, <2>8 DEF DeliverUnconfirmed, TypeOK
    <3>5. \A q \in Rows : delivered'[q] \in Nat /\ delivered'[q] <= faults'
      BY <1>c, <3>1, <3>2, <3>3
    <3>6. \A q \in Procs : r \notin tasks[q]
      BY <1>a, <3>1
    <3>7. \A q \in Procs : \A i \in tasks'[q] : delivered'[i] = delivered[i]
      BY <1>b, <3>3, <3>6
    <3>8. TimelyInv
      OBVIOUS
    <3> HIDE DEF TimelyInv, Fresh, Marked, Undone, Unsent, NotYet, Claimed, OnceAndFaults
    <3> QED
      BY <1>0, <3>1, <3>2, <3>3, <3>4, <3>5, <3>7, <3>8, FaultPays
  <2> QED
    BY <1>3, <2>1, <2>2, <2>3, <2>4, <2>5, <2>6, <2>7, <2>8 DEF RelayStep, DeliverNext
<1>4. ASSUME NEW p \in Procs, CleanupPublished(p) PROVE TimelyInv'
  <2>1. PICK S \in SUBSET {r \in Rows : status[r] = "published"} : SetStatus(S, "deleted")
    BY <1>4 DEF CleanupPublished
  <2>2. \A r \in Rows : \/ status'[r] = status[r]
                        \/ status[r] = "published" /\ status'[r] = "deleted"
    BY <2>1, SetStatusEffect
  <2> QED
    BY <1>0, <1>4, <2>2 DEF CleanupPublished, relay, TypeOK, Held
<1>5. CASE Environment
  <2>1. CASE GraceRunsOut
    <3>1. /\ cutoff' = cutoff + 1 /\ cutoff \in Int /\ cutoff + 1 \in Rows
          /\ status[cutoff + 1] # "absent"
          /\ \A p \in Procs : cutoff + 1 \notin tasks[p] \cup marker[p]
          /\ UNCHANGED <<status, tasks, marker, todo, sent, failed, delivered, faults>>
      BY <1>0, <2>1, OutboxAssumption DEF GraceRunsOut, relay, TypeOK, Rows
    <3>2. \A r \in Rows : r \in Int
      BY RowsAreNatural
    <3>3. \A p \in Procs : tasks[p] \cup marker[p] \cup todo[p] \subseteq Rows
      BY <1>0 DEF TypeOK
    <3> QED
      BY <3>1, <3>2, <3>3 DEF Held
  <2>2. CASE UNCHANGED <<status, cutoff, tasks, marker, relay, delivered, faults>>
    BY <2>2 DEF relay, Held
  <2>3. CASE BrokerStops
    BY <1>d, <2>3 DEF BrokerStops, table, relay
  <2>4. ASSUME NEW p \in Procs, Restart(p) PROVE TimelyInv'
    <3>1. \A q \in Procs : /\ tasks'[q] \subseteq tasks[q] /\ marker'[q] \subseteq marker[q]
                           /\ todo'[q] \subseteq todo[q] /\ failed'[q] \subseteq failed[q]
      BY <1>0, <2>4 DEF Restart, EndTick, TypeOK
    <3> QED
      BY <1>d, <2>4, <3>1 DEF Restart, table
  <2> QED
    BY <1>5, <2>1, <2>2, <2>3, <2>4 DEF Environment, ClaimGoesStale, BrokerStarts, Reconnect, table
<1>6. CASE UNCHANGED vars
  BY <1>6 DEF vars, table, relay, Held
<1> QED
  BY <1>1, <1>2, <1>3, <1>4, <1>5, <1>6 DEF Next

\* While nobody is late, a second copy of an event is paid for by a fault, so
\* that without a fault no event goes out twice.
THEOREM OutboxDuplicatesHaveFaults == Spec => []DuplicatesHaveFaults
<1> DEFINE Inv == TypeOK /\ (overrun = {} => ExclusiveInv /\ TimelyInv)
<1>1. Init => Inv
  BY InitExclusiveInv, InitTimelyInv DEF ExclusiveInv
<1>2. Inv /\ [Next]_vars => Inv'
  <2> SUFFICES ASSUME Inv, [Next]_vars PROVE Inv'
    OBVIOUS
  <2>1. TypeOK'
    BY NextTypeOK
  <2>2. ASSUME overrun' = {} PROVE ExclusiveInv' /\ TimelyInv'
    <3>1. overrun = {}
      BY <2>2, OverrunIsHistory
    <3> QED
      BY <2>2, <3>1, NextExclusiveInv, NextTimelyInv
  <2> QED
    BY <2>1, <2>2
<1>3. Inv => DuplicatesHaveFaults
  BY DEF TimelyInv, OnceAndFaults, DuplicatesHaveFaults
<1> QED
  BY <1>1, <1>2, <1>3, PTL DEF Spec
=============================================================================
