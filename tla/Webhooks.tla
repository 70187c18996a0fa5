------------------------------ MODULE Webhooks ------------------------------
(***************************************************************************)
(* thecargo.webhook_archive: one event of a sender that repeats it until it *)
(* is acknowledged, and its rows in the ClickHouse archive.                *)
(*                                                                         *)
(* A worker asks is_new, which marks the event seen in Redis at once,      *)
(* stores a row, processes the event and stamps the row. An insert stays   *)
(* in ClickHouse's async-insert buffer for a while, where no query sees    *)
(* it; a stamp is an insert of the whole row, one version higher; the      *)
(* version decides which row is read. Inserts may fail, which only the log *)
(* tells, and workers may crash.                                           *)
(***************************************************************************)
EXTENDS Naturals, FiniteSets

CONSTANTS
    Workers,
    MaxDeliveries,    \* bound on how often the sender sends the event
    MaxStamps         \* bound on the stamps

VARIABLES
    seen,          \* Redis has webhook:seen:{source}:{event_id}
    step,          \* worker -> what it does next
    row,           \* worker -> the row it holds
    buffer,        \* rows inserted but not visible yet
    visible,       \* rows a query can see
    deliveries,    \* how often the event was sent
    stamps,        \* how many stamps were made
    called,        \* ghost: a delivery was called a duplicate
    processed,     \* ghost: how often the event was processed
    crashed,       \* ghost: a worker crashed between its mark and the processing
    excused        \* ghost: Redis failed or forgot the event

archive == <<buffer, visible>>
history == <<called, processed, crashed, excused>>
webhookVars == <<seen, step, row, archive, deliveries, stamps, history>>

NoRow == [key |-> 0, version |-> 0, has |-> {}]

WebhookInit ==
    /\ seen = FALSE
    /\ step = [w \in Workers |-> "idle"] /\ row = [w \in Workers |-> NoRow]
    /\ buffer = {} /\ visible = {}
    /\ deliveries = 0 /\ stamps = 0
    /\ called = FALSE /\ processed = 0 /\ crashed = FALSE /\ excused = FALSE

Goto(w, next) == step' = [step EXCEPT ![w] = next]

\* The sender sends the event, to any worker that is free.
Deliver(w) ==
    /\ step[w] = "idle" /\ deliveries < MaxDeliveries
    /\ deliveries' = deliveries + 1
    /\ Goto(w, "dedup")
    /\ UNCHANGED <<seen, row, archive, stamps, history>>

\* Mutant: without an answer of Redis the event is taken for a duplicate.
IsNewFailsClosed(w) ==
    /\ step[w] = "dedup"
    /\ \/ /\ ~seen /\ seen' = TRUE
          /\ Goto(w, "store") /\ UNCHANGED <<called, excused>>
       \/ /\ Goto(w, "idle") /\ called' = TRUE
          /\ UNCHANGED <<seen, excused>>
    /\ UNCHANGED <<row, archive, deliveries, stamps, processed, crashed>>

\* is_new: SET NX decides; without an answer the event counts as new.
IsNew(w) ==
    /\ step[w] = "dedup"
    /\ \/ /\ ~seen /\ seen' = TRUE
          /\ Goto(w, "store") /\ UNCHANGED <<called, excused>>
       \/ /\ seen
          /\ Goto(w, "idle") /\ called' = TRUE
          /\ UNCHANGED <<seen, excused>>
       \/ /\ Goto(w, "store") /\ excused' = TRUE
          /\ UNCHANGED <<seen, called>>
    /\ UNCHANGED <<row, archive, deliveries, stamps, processed, crashed>>

\* insert: the row is buffered, or the error logged.
Insert(r) == buffer' \in {buffer, buffer \union {r}}

\* store: a row of its own key, by the time it was received; the worker keeps it
\* whether or not it was inserted.
Store(w) ==
    /\ step[w] = "store"
    /\ LET new == [key |-> deliveries, version |-> 1, has |-> {}]
       IN row' = [row EXCEPT ![w] = new] /\ Insert(new)
    /\ Goto(w, "process")
    /\ UNCHANGED <<seen, visible, deliveries, stamps, history>>

Process(w) ==
    /\ step[w] = "process"
    /\ processed' = processed + 1
    /\ Goto(w, "stamp")
    /\ UNCHANGED <<seen, row, archive, deliveries, stamps, called, crashed, excused>>

\* changed: the same row one version higher; has is the ghost of its stamps.
Changed(r, change) ==
    [key |-> r.key, version |-> r.version + 1, has |-> r.has \union {change}]

\* Mutant: any version of the row will do.
AnyVersion == visible

\* fetch: ORDER BY version DESC LIMIT 1, of whatever key.
NewestRow == {r \in visible : \A q \in visible : q.version <= r.version}

\* restamp without a row first reads the newest; with none visible it gives up.
Fetch(w) ==
    /\ step[w] \in {"idle", "stamp"} /\ stamps < MaxStamps
    /\ \/ /\ \E r \in NewestRow : row' = [row EXCEPT ![w] = r]
          /\ Goto(w, "write")
       \/ /\ visible = {} /\ step[w] = "stamp"
          /\ Goto(w, "idle") /\ row' = [row EXCEPT ![w] = NoRow]
    /\ UNCHANGED <<seen, archive, deliveries, stamps, history>>

\* The rest of restamp, or all of it with the row the worker holds.
Restamp(w) ==
    /\ step[w] \in {"stamp", "write"} /\ stamps < MaxStamps
    /\ stamps' = stamps + 1
    /\ LET updated == Changed(row[w], stamps + 1)
       IN /\ Insert(updated)
          /\ \/ Goto(w, "stamp") /\ row' = [row EXCEPT ![w] = updated]
             \/ Goto(w, "idle") /\ row' = [row EXCEPT ![w] = NoRow]
    /\ UNCHANGED <<seen, visible, deliveries, history>>

Crash(w) ==
    /\ step[w] # "idle"
    /\ crashed' = (crashed \/ step[w] \in {"store", "process"})
    /\ Goto(w, "idle") /\ row' = [row EXCEPT ![w] = NoRow]
    /\ UNCHANGED <<seen, archive, deliveries, stamps, called, processed, excused>>

----------------------------------------------------------------------------
(* Redis and ClickHouse. *)

\* DEDUP_TTL_SECONDS have passed.
Forget ==
    /\ seen /\ seen' = FALSE /\ excused' = TRUE
    /\ UNCHANGED <<step, row, archive, deliveries, stamps, called, processed, crashed>>

FlushBuffer ==
    /\ \E rows \in SUBSET buffer \ {{}} :
          visible' = visible \union rows /\ buffer' = buffer \ rows
    /\ UNCHANGED <<seen, step, row, deliveries, stamps, history>>

\* ReplacingMergeTree drops a row for a newer version of its key.
Merge ==
    /\ \E r \in visible :
          /\ \E q \in visible : q.key = r.key /\ q # r /\ q.version >= r.version
          /\ visible' = visible \ {r}
    /\ UNCHANGED <<seen, step, row, buffer, deliveries, stamps, history>>

\* purge_organization deletes what is visible.
Purge ==
    /\ visible # {} /\ visible' = {}
    /\ UNCHANGED <<seen, step, row, buffer, deliveries, stamps, history>>

WebhookNext ==
    \/ \E w \in Workers :
          Deliver(w) \/ IsNew(w) \/ Store(w) \/ Process(w) \/ Fetch(w) \/ Restamp(w) \/ Crash(w)
    \/ Forget \/ FlushBuffer \/ Merge \/ Purge

WebhookSpec == WebhookInit /\ [][WebhookNext]_webhookVars

----------------------------------------------------------------------------
(* Properties. *)

\* An event is lost, or processed again, only for a cause: called a duplicate, it
\* has been processed, a worker is still at it or crashed before it got there;
\* processed twice, Redis had failed or forgotten it.
DedupHasCause ==
    /\ called => \/ processed > 0 \/ crashed
               \/ \E w \in Workers : step[w] \in {"store", "process"}
    /\ processed > 1 => excused

\* The row that is read is never an earlier one of its line: no other row that is
\* visible has all its stamps and more, whatever was lost, buffered, merged or
\* written over.
NewestIsLatest ==
    \A r \in NewestRow, q \in visible : ~(r.has \subseteq q.has /\ r.has # q.has)
=============================================================================
