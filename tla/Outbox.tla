------------------------------- MODULE Outbox -------------------------------
(***************************************************************************)
(* The transactional outbox of thecargo.events.outbox.                     *)
(*                                                                         *)
(* A committed transaction leaves a pending row in outbox_events. The      *)
(* process that committed it publishes the row at once and, on success,    *)
(* queues a mark that a Coalescer later writes. Independently every        *)
(* process runs a relay: it returns claims gone stale to pending, claims a *)
(* batch of due rows under FOR UPDATE SKIP LOCKED, publishes the batch     *)
(* outside of any transaction and stamps the outcome.                      *)
(*                                                                         *)
(* Rows are numbered in the order of created_at, which the database sets   *)
(* to the start of the inserting transaction: rows may become visible in   *)
(* another order, and late. Time is three conditions that clocks bring     *)
(* about: cutoff (created_at is past the grace period), idle (updated_at   *)
(* is past the reclaim limit) and the retention of published rows.         *)
(***************************************************************************)
EXTENDS Integers, FiniteSets

CONSTANTS
    Procs,               \* the processes, each with tasks, a marker, a relay
    NumRows,             \* rows are 1 .. NumRows, by created_at
    RELAY_MAX_ATTEMPTS,  \* a pending row with this many attempts is left alone
    RELAY_BATCH,         \* how many rows one claim takes
    MaxFaults            \* bound: crashes, outages, database errors, lost confirms

ASSUME OutboxAssumption ==
    /\ IsFiniteSet(Procs)
    /\ NumRows \in Nat
    /\ RELAY_MAX_ATTEMPTS \in Nat
    /\ RELAY_BATCH \in Nat \ {0}
    /\ MaxFaults \in Nat

Rows == 1 .. NumRows

VARIABLES
    status,     \* status[r]; "absent" before the commit, "deleted" after cleanup
    attempts,   \* attempts[r]
    cutoff,     \* rows 1 .. cutoff were created before the grace period
    idle,       \* rows whose updated_at is older than the reclaim limit
    tasks,      \* tasks[p]: rows with an immediate publish in flight
    marker,     \* marker[p]: rows queued in the process's marking Coalescer
    pc,         \* pc[p]: where relay_once of p is
    todo,       \* todo[p]: rows the relay still has to deliver
    sent,       \* sent[p]: its list "published"
    failed,     \* failed[p]: its list "failed"
    channel,    \* channel[p]: the publisher module's channel
    brokerUp,   \* RabbitMQ accepts connections
    delivered,  \* delivered[r]: copies of r the broker was handed
    faults,     \* faults so far, bounded by MaxFaults
    overrun     \* the time limits somebody has overrun so far

table == <<status, attempts, cutoff, idle>>
relay == <<pc, todo, sent, failed>>
broker == <<channel, brokerUp>>
vars == <<table, tasks, marker, relay, broker, delivered, faults, overrun>>

RowStatus == {"absent", "pending", "publishing", "published", "deleted"}

----------------------------------------------------------------------------
(* The rows a relay holds, and the row locks of its open claim transaction. *)

Held(p) == todo[p] \cup sent[p] \cup failed[p]
HeldBySome(r) == \E p \in Procs : r \in Held(p)
Locked(r) == \E p \in Procs : pc[p] = "selected" /\ r \in todo[p]

\* UPDATE outbox_events SET status = s WHERE id IN S; onupdate moves updated_at.
SetStatus(S, s) ==
    /\ status' = [r \in Rows |-> IF r \in S THEN s ELSE status[r]]
    /\ idle' = idle \ S

CountAttempt(S) ==
    attempts' = [r \in Rows |-> IF r \in S THEN attempts[r] + 1 ELSE attempts[r]]

Existing(S) == {r \in S : status[r] \notin {"absent", "deleted"}}

PublisherReady(p) == channel[p] = "open"

Fault ==
    /\ faults < MaxFaults
    /\ faults' = faults + 1

----------------------------------------------------------------------------
Init ==
    /\ status = [r \in Rows |-> "absent"]
    /\ attempts = [r \in Rows |-> 0]
    /\ cutoff = 0
    /\ idle = {}
    /\ tasks = [p \in Procs |-> {}]
    /\ marker = [p \in Procs |-> {}]
    /\ pc = [p \in Procs |-> "sleep"]
    /\ todo = [p \in Procs |-> {}]
    /\ sent = [p \in Procs |-> {}]
    /\ failed = [p \in Procs |-> {}]
    /\ channel = [p \in Procs |-> "open"]
    /\ brokerUp = TRUE
    /\ delivered = [r \in Rows |-> 0]
    /\ faults = 0
    /\ overrun = {}

----------------------------------------------------------------------------
(* Publishing right after the commit. *)

\* after_commit finds the staged row; without a running loop it starts no task.
Commit(p, r) ==
    /\ status[r] = "absent"
    /\ status' = [status EXCEPT ![r] = "pending"]
    /\ \/ tasks' = [tasks EXCEPT ![p] = @ \cup {r}]
       \/ UNCHANGED tasks
    /\ UNCHANGED <<attempts, cutoff, idle, marker, relay, broker, delivered, faults, overrun>>

\* The immediate publish got through and queues its mark.
PublishOne(p, r) ==
    /\ r \in tasks[p]
    /\ PublisherReady(p)
    /\ brokerUp
    /\ tasks' = [tasks EXCEPT ![p] = @ \ {r}]
    /\ marker' = [marker EXCEPT ![p] = @ \cup {r}]
    /\ delivered' = [delivered EXCEPT ![r] = @ + 1]
    /\ UNCHANGED <<table, relay, broker, faults, overrun>>

\* Mutant: the mark is queued in a finally block.
PublishOneFailsMarksAnyway(p, r) ==
    /\ r \in tasks[p]
    /\ tasks' = [tasks EXCEPT ![p] = @ \ {r}]
    /\ marker' = [marker EXCEPT ![p] = @ \cup {r}]
    /\ UNCHANGED <<table, relay, broker, delivered, faults, overrun>>

\* The immediate publish raised; the row is left to the relay.
PublishOneFails(p, r) ==
    /\ r \in tasks[p]
    /\ tasks' = [tasks EXCEPT ![p] = @ \ {r}]
    /\ UNCHANGED <<table, marker, relay, broker, delivered, faults, overrun>>

\* The broker took the row but the confirm was lost, so the publish raised.
PublishOneUnconfirmed(p, r) ==
    /\ r \in tasks[p]
    /\ PublisherReady(p)
    /\ brokerUp
    /\ Fault
    /\ tasks' = [tasks EXCEPT ![p] = @ \ {r}]
    /\ delivered' = [delivered EXCEPT ![r] = @ + 1]
    /\ UNCHANGED <<table, marker, relay, broker, overrun>>

\* A drain of the Coalescer: one UPDATE for the marks it took, which are those
\* queued when it woke up, whatever status the rows have by then. It waits for the
\* row locks of a claim.
MarkPublished(p) ==
    \E S \in SUBSET marker[p] \ {{}} :
        /\ \A r \in S : ~Locked(r)
        /\ SetStatus(Existing(S), "published")
        /\ CountAttempt(Existing(S))
        /\ marker' = [marker EXCEPT ![p] = @ \ S]
        /\ UNCHANGED <<cutoff, tasks, relay, broker, delivered, faults, overrun>>

\* The UPDATE raised: the exception is logged and the marks are gone.
MarkPublishedFails(p) ==
    /\ Fault
    /\ \E S \in SUBSET marker[p] \ {{}} : marker' = [marker EXCEPT ![p] = @ \ S]
    /\ UNCHANGED <<table, tasks, relay, broker, delivered, overrun>>

----------------------------------------------------------------------------
(* The relay. *)

\* Mutant: a tick does not look for stale claims.
ReclaimNothing(p) ==
    /\ pc[p] = "sleep"
    /\ PublisherReady(p)
    /\ pc' = [pc EXCEPT ![p] = "claim"]
    /\ UNCHANGED <<table, tasks, marker, todo, sent, failed, broker, delivered, faults, overrun>>

\* _reclaim_stuck, the first transaction of a tick that finds a channel.
ReclaimStuck(p) ==
    /\ pc[p] = "sleep"
    /\ PublisherReady(p)
    /\ SetStatus({r \in idle : status[r] = "publishing"}, "pending")
    /\ pc' = [pc EXCEPT ![p] = "claim"]
    /\ UNCHANGED <<attempts, cutoff, tasks, marker, todo, sent, failed, broker, delivered, faults, overrun>>

\* Mutants: the claim query without its attempts bound, without FOR UPDATE
\* SKIP LOCKED, and without the grace period.
DueForEver == {r \in 1 .. cutoff : status[r] = "pending" /\ ~Locked(r)}

DueUnlocked == {r \in 1 .. cutoff : /\ status[r] = "pending"
                                    /\ attempts[r] < RELAY_MAX_ATTEMPTS}

DueAtOnce == {r \in Rows : /\ status[r] = "pending"
                           /\ attempts[r] < RELAY_MAX_ATTEMPTS
                           /\ ~Locked(r)}

Due == {r \in 1 .. cutoff : /\ status[r] = "pending"
                            /\ attempts[r] < RELAY_MAX_ATTEMPTS
                            /\ ~Locked(r)}

\* The oldest RELAY_BATCH rows of D.
FirstBatch(D) ==
    {r \in D : Cardinality({d \in D : d < r}) < RELAY_BATCH}

\* SELECT ... ORDER BY created_at LIMIT ... FOR UPDATE SKIP LOCKED.
SelectDue(p) ==
    /\ pc[p] = "claim"
    /\ todo' = [todo EXCEPT ![p] = FirstBatch(Due)]
    /\ pc' = [pc EXCEPT ![p] = IF Due = {} THEN "sleep" ELSE "selected"]
    /\ UNCHANGED <<table, tasks, marker, sent, failed, broker, delivered, faults, overrun>>

\* Mutant: attempts is left to the final stamp, which a crash skips.
ClaimUncounted(p) ==
    /\ pc[p] = "selected"
    /\ SetStatus(todo[p], "publishing")
    /\ pc' = [pc EXCEPT ![p] = "deliver"]
    /\ UNCHANGED <<attempts, cutoff, tasks, marker, todo, sent, failed, broker, delivered, faults, overrun>>

\* The claim is written and committed, which releases the row locks.
Claim(p) ==
    /\ pc[p] = "selected"
    /\ SetStatus(todo[p], "publishing")
    /\ CountAttempt(todo[p])
    /\ pc' = [pc EXCEPT ![p] = "deliver"]
    /\ UNCHANGED <<cutoff, tasks, marker, todo, sent, failed, broker, delivered, faults, overrun>>

IsNext(p, r) ==
    /\ pc[p] = "deliver"
    /\ r \in todo[p]
    /\ \A q \in todo[p] : r <= q

Deliver(p, r) ==
    /\ IsNext(p, r)
    /\ PublisherReady(p)
    /\ brokerUp
    /\ todo' = [todo EXCEPT ![p] = @ \ {r}]
    /\ sent' = [sent EXCEPT ![p] = @ \cup {r}]
    /\ delivered' = [delivered EXCEPT ![r] = @ + 1]
    /\ UNCHANGED <<table, tasks, marker, pc, failed, broker, faults, overrun>>

DeliverFails(p, r) ==
    /\ IsNext(p, r)
    /\ todo' = [todo EXCEPT ![p] = @ \ {r}]
    /\ failed' = [failed EXCEPT ![p] = @ \cup {r}]
    /\ UNCHANGED <<table, tasks, marker, pc, sent, broker, delivered, faults, overrun>>

DeliverUnconfirmed(p, r) ==
    /\ IsNext(p, r)
    /\ PublisherReady(p)
    /\ brokerUp
    /\ Fault
    /\ todo' = [todo EXCEPT ![p] = @ \ {r}]
    /\ failed' = [failed EXCEPT ![p] = @ \cup {r}]
    /\ delivered' = [delivered EXCEPT ![r] = @ + 1]
    /\ UNCHANGED <<table, tasks, marker, pc, sent, broker, overrun>>

\* relay_once is left, normally or not: its lists are local variables.
EndTick(p) ==
    /\ pc' = [pc EXCEPT ![p] = "sleep"]
    /\ todo' = [todo EXCEPT ![p] = {}]
    /\ sent' = [sent EXCEPT ![p] = {}]
    /\ failed' = [failed EXCEPT ![p] = {}]

\* The last transaction stamps both lists by id, whatever status the rows have.
Stamp(p) ==
    /\ pc[p] = "deliver"
    /\ todo[p] = {}
    /\ \A r \in Held(p) : ~Locked(r)
    /\ status' = [r \in Rows |-> IF r \in Existing(failed[p]) THEN "pending"
                                 ELSE IF r \in Existing(sent[p]) THEN "published"
                                 ELSE status[r]]
    /\ idle' = idle \ Held(p)
    /\ EndTick(p)
    /\ UNCHANGED <<attempts, cutoff, tasks, marker, broker, delivered, faults, overrun>>

\* One of the tick's transactions raised: run_outbox_relay logs it and goes on.
TickFails(p) ==
    /\ pc[p] \in {"claim", "selected"} \/ (pc[p] = "deliver" /\ todo[p] = {})
    /\ Fault
    /\ EndTick(p)
    /\ UNCHANGED <<table, tasks, marker, broker, delivered, overrun>>

\* cleanup_published, between ticks: published rows past their retention go.
CleanupPublished(p) ==
    /\ pc[p] = "sleep"
    /\ \E S \in SUBSET {r \in Rows : status[r] = "published"} \ {{}} :
          SetStatus(S, "deleted")
    /\ UNCHANGED <<attempts, cutoff, tasks, marker, relay, broker, delivered, faults, overrun>>

----------------------------------------------------------------------------
(* Clocks, the broker and crashes. *)

\* One more row is older than RELAY_GRACE_SECONDS; its commit, its immediate
\* publish or its mark may have taken longer.
GraceRunsOut ==
    /\ cutoff < NumRows
    /\ cutoff' = cutoff + 1
    /\ overrun' = IF \/ status[cutoff + 1] = "absent"
                     \/ \E p \in Procs : cutoff + 1 \in tasks[p] \cup marker[p]
                  THEN overrun \cup {"grace"} ELSE overrun
    /\ UNCHANGED <<status, attempts, idle, tasks, marker, relay, broker, delivered, faults>>

\* A claim is older than RECLAIM_AFTER_SECONDS; its relay may still be at it.
ClaimGoesStale(r) ==
    /\ status[r] = "publishing"
    /\ r \notin idle
    /\ idle' = idle \cup {r}
    /\ overrun' = IF HeldBySome(r) THEN overrun \cup {"reclaim"} ELSE overrun
    /\ UNCHANGED <<status, attempts, cutoff, tasks, marker, relay, broker, delivered, faults>>

BrokerStops ==
    /\ brokerUp
    /\ Fault
    /\ brokerUp' = FALSE
    /\ channel' = [p \in Procs |-> IF channel[p] = "open" THEN "closed" ELSE channel[p]]
    /\ UNCHANGED <<table, tasks, marker, relay, delivered, overrun>>

BrokerStarts ==
    /\ ~brokerUp
    /\ brokerUp' = TRUE
    /\ UNCHANGED <<table, tasks, marker, relay, channel, delivered, faults, overrun>>

\* connect_robust reopens a channel it once had.
Reconnect(p) ==
    /\ channel[p] = "closed"
    /\ brokerUp
    /\ channel' = [channel EXCEPT ![p] = "open"]
    /\ UNCHANGED <<table, tasks, marker, relay, brokerUp, delivered, faults, overrun>>

\* p dies, taking its tasks, queued marks and relay with it (an open claim
\* transaction rolls back), and starts again. publisher.connect tries once: a
\* broker that is down then leaves the process without a channel for good.
Restart(p) ==
    /\ Fault
    /\ tasks' = [tasks EXCEPT ![p] = {}]
    /\ marker' = [marker EXCEPT ![p] = {}]
    /\ EndTick(p)
    /\ channel' = [channel EXCEPT ![p] = IF brokerUp THEN "open" ELSE "none"]
    /\ UNCHANGED <<table, brokerUp, delivered, overrun>>

----------------------------------------------------------------------------
DeliverNext(p) ==
    \E r \in Rows : Deliver(p, r) \/ DeliverFails(p, r) \/ DeliverUnconfirmed(p, r)

RelayStep(p) ==
    ReclaimStuck(p) \/ SelectDue(p) \/ Claim(p) \/ DeliverNext(p) \/ Stamp(p) \/ TickFails(p)

TaskStep(p) ==
    \/ \E r \in Rows : PublishOne(p, r) \/ PublishOneFails(p, r) \/ PublishOneUnconfirmed(p, r)
    \/ MarkPublished(p)
    \/ MarkPublishedFails(p)

Environment ==
    \/ GraceRunsOut
    \/ \E r \in Rows : ClaimGoesStale(r)
    \/ BrokerStops
    \/ BrokerStarts
    \/ \E p \in Procs : Reconnect(p) \/ Restart(p)

Next ==
    \/ \E p \in Procs : \/ \E r \in Rows : Commit(p, r)
                        \/ TaskStep(p)
                        \/ RelayStep(p)
                        \/ CleanupPublished(p)
    \/ Environment

Spec == Init /\ [][Next]_vars

\* Tasks and relays are scheduled, clocks advance, the broker comes back, and
\* a relay that tries a row for ever gets it through some time.
Fairness ==
    /\ \A p \in Procs : /\ WF_vars(RelayStep(p))
                        /\ WF_vars(TaskStep(p))
                        /\ WF_vars(Reconnect(p))
                        /\ \A r \in Rows : SF_vars(Deliver(p, r))
    /\ WF_vars(GraceRunsOut)
    /\ \A r \in Rows : WF_vars(ClaimGoesStale(r))
    /\ WF_vars(BrokerStarts)

FairSpec == Spec /\ Fairness

----------------------------------------------------------------------------
(* Properties. *)

\* Every variable has its type; a relay outside its tick holds no rows.
TypeOK ==
    /\ status \in [Rows -> RowStatus]
    /\ attempts \in [Rows -> Nat]
    /\ cutoff \in 0 .. NumRows
    /\ idle \subseteq Rows
    /\ tasks \in [Procs -> SUBSET Rows]
    /\ marker \in [Procs -> SUBSET Rows]
    /\ pc \in [Procs -> {"sleep", "claim", "selected", "deliver"}]
    /\ todo \in [Procs -> SUBSET Rows]
    /\ sent \in [Procs -> SUBSET Rows]
    /\ failed \in [Procs -> SUBSET Rows]
    /\ channel \in [Procs -> {"open", "closed", "none"}]
    /\ brokerUp \in BOOLEAN
    /\ delivered \in [Rows -> Nat]
    /\ faults \in 0 .. MaxFaults
    /\ overrun \subseteq {"grace", "reclaim"}

\* No event is lost by bookkeeping: a row is never stamped "published", and so
\* never deleted, before the broker took it, whichever of _publish_one, a
\* marking Coalescer and any number of relays handled it and wherever they died.
PublishedWasDelivered ==
    \A r \in Rows : status[r] \in {"published", "deleted"} => delivered[r] > 0

\* The claim of relay_once is exclusive: as long as every tick has ended within
\* RECLAIM_AFTER_SECONDS, no two relays work on the same row, and a row some
\* relay is delivering cannot be claimed again.
ClaimsAreExclusive ==
    "reclaim" \notin overrun =>
        \A p, q \in Procs : p # q => Held(p) \cap Held(q) = {}

\* The attempts column accounts for every copy but the one of the immediate
\* publish, whose mark may be late or lost.
CopiesAreCounted ==
    \A r \in Rows : delivered[r] <= attempts[r] + 1

\* As long as publishes are marked within the grace period and ticks end within
\* the reclaim limit, a second copy of an event has a crash, an outage, a database
\* error or a lost confirm of its own to show for it: until the first of them no
\* event goes out twice, though immediate publishes and relays compete for it and
\* deliveries fail, and each of them costs an event one copy at most.
DuplicatesHaveFaults ==
    overrun = {} => \A r \in Rows : delivered[r] <= 1 + faults

\* The relays no longer reach the broker: every process started during an
\* outage, and publisher.connect does not try again.
NoPublisher == \A p \in Procs : channel[p] = "none"

\* A committed event gets out, or uses up RELAY_MAX_ATTEMPTS trying.
EventGetsOutOrExhausted ==
    \A r \in Rows : status[r] = "pending"
        ~> delivered[r] > 0 \/ attempts[r] >= RELAY_MAX_ATTEMPTS \/ NoPublisher

\* What the docstrings of _deliver and relay_once say of every row, while some
\* process can publish: "Delivery is at-least-once".
DeliveryIsAtLeastOnce ==
    \A r \in Rows : status[r] = "pending" ~> delivered[r] > 0 \/ NoPublisher

\* No claim outlives its relay: a row does not stay "publishing" for good,
\* which neither _publish_one nor the claim query would ever look at again.
ClaimsEnd ==
    \A r \in Rows : status[r] = "publishing"
        ~> status[r] # "publishing" \/ NoPublisher

\* The outbox implements EventDelivery, at most RELAY_MAX_ATTEMPTS relayed
\* copies of an event and one immediate one.
Promise == INSTANCE EventDelivery WITH
    Events <- Rows,
    MaxCopies <- RELAY_MAX_ATTEMPTS + 1,
    accepted <- {r \in Rows : status[r] # "absent"},
    copies <- delivered,
    forgotten <- {r \in Rows : status[r] = "deleted"}

KeepsPromise == Promise!Spec
=============================================================================
