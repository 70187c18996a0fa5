----------------------------- MODULE UnitOfWork -----------------------------
(***************************************************************************)
(* Database sessions of one process, and what their commits leave behind:  *)
(* thecargo.db.routing.RoutingSession, the session hooks of thecargo.audit *)
(* (and of thecargo.events.outbox, which stage and hand over alike), and   *)
(* thecargo.coalesce.Coalescer.                                            *)
(*                                                                         *)
(* A flush stages an audit entry in session.info, if the capture does not  *)
(* fail; after_commit hands the staged entries over, or forgets them where *)
(* no event loop runs; after_rollback drops them. SQLAlchemy fires both    *)
(* hooks for a savepoint too, and neither for close(). Entries handed over *)
(* wait in the Coalescer, where one drain task at a time sleeps and then   *)
(* flushes all of them, or, without a session maker to resolve labels      *)
(* with, go out in a task of their own. A drain runs in the context, and   *)
(* so under the company, of the commit that started it.                    *)
(*                                                                         *)
(* The event loop may end and another one take its place: asyncio.run      *)
(* cancels the tasks and waits for them, a loop that is merely closed      *)
(* takes them with it.                                                     *)
(***************************************************************************)
EXTENDS Integers, FiniteSets

CONSTANTS
    Sessions,
    Companies,
    ANY_COMPANY,    \* the active company when nobody is signed in
    MaxEntries,     \* bound on the audited changes
    MaxLoops        \* bound on the event loops

ASSUME UnitOfWorkAssumption ==
    /\ MaxEntries \in Nat
    /\ MaxLoops \in Nat \ {0}
    /\ ANY_COMPANY \notin Companies

VARIABLES
    company,     \* company[s]: the active company of the request that uses s
    resolving,   \* register_audit_listeners was given a session maker
    writing,     \* writing[s]: s is in its write transaction (_writing)
    depth,       \* depth[s]: savepoints open in s, 0 or 1
    owner,       \* owner[e]: the session of the change behind entry e
    fate,        \* fate[e]: what the database did with that change
    staged,      \* staged[s]: the entries in session.info
    handed,      \* entries an after_commit hook has handed over
    queue,       \* Coalescer._items
    task,        \* the loop of Coalescer._task, or NoTask
    drains,      \* the live drain and publish tasks
    loop,        \* the number of the current event loop
    closing,     \* it is ending
    out,         \* entries published, and whether with labels
    lost,        \* entries whose publish failed
    loose,       \* entries a savepoint handed over, or close() left in session.info
    forsaken     \* entries never staged, or gone from session.info before their commit

frozen == <<company, resolving>>
session == <<writing, depth, owner, fate, staged, handed, loose, forsaken>>
coalescer == <<queue, task, drains>>
results == <<out, lost>>
vars == <<frozen, session, coalescer, loop, closing, results>>

NoTask == 0
Nobody == "nobody"
Entries == 1 .. MaxEntries

Init ==
    /\ company \in [Sessions -> Companies \cup {ANY_COMPANY}]
    /\ resolving \in BOOLEAN
    /\ writing = [s \in Sessions |-> FALSE]
    /\ depth = [s \in Sessions |-> 0]
    /\ owner = [e \in Entries |-> Nobody]
    /\ fate = [e \in Entries |-> "new"]
    /\ staged = [s \in Sessions |-> {}]
    /\ handed = {} /\ loose = {} /\ forsaken = {}
    /\ queue = {} /\ task = NoTask /\ drains = {}
    /\ loop = 1 /\ closing = FALSE
    /\ out = {} /\ lost = {}

----------------------------------------------------------------------------
(* The Coalescer. *)

Drain(phase, comp, batch) == [phase |-> phase, company |-> comp, batch |-> batch]

\* Mutant: the items take the place of those that wait.
AddReplaces(S, comp) ==
    /\ queue' = S
    /\ task' = loop
    /\ drains' = IF task # loop THEN drains \cup {Drain("created", comp, {})} ELSE drains

\* add: a task of another loop, and what was queued with it, is forgotten.
Add(S, comp) ==
    LET kept == task \in {NoTask, loop}
        fresh == task # loop
    IN /\ queue' = (IF kept THEN queue ELSE {}) \cup S
       /\ task' = loop
       /\ drains' = IF fresh THEN drains \cup {Drain("created", comp, {})} ELSE drains

\* Mutant of Take: the task stays.
TakeKeepsTask == queue' = {} /\ task' = task

Take == queue' = {} /\ task' = NoTask

DrainStarts(d) ==
    /\ d.phase = "created"
    /\ drains' = (drains \ {d}) \cup {Drain("waiting", d.company, {})}
    /\ UNCHANGED <<frozen, session, queue, task, loop, closing, results>>

DrainWakes(d) ==
    /\ d.phase = "waiting"
    /\ Take
    /\ drains' = (drains \ {d}) \cup
         (IF queue = {} THEN {} ELSE {Drain("flushing", d.company, queue)})
    /\ UNCHANGED <<frozen, session, loop, closing, results>>

----------------------------------------------------------------------------
(* Publishing a batch, entry by entry. *)

\* _resolve_refs reads the referenced rows under the drain's active company, and
\* a referenced row belongs to the company of the request that wrote the change.
Labelled(d, e) == resolving /\ d.company \in {ANY_COMPANY, company[owner[e]]}

Published(d, e) ==
    drains' = (drains \ {d}) \cup
        (IF d.batch = {e} THEN {} ELSE {[d EXCEPT !.batch = @ \ {e}]})

PublishOne(d, e) ==
    /\ d.phase = "flushing"
    /\ Published(d, e)
    /\ out' = out \cup {[entry |-> e, labelled |-> Labelled(d, e)]}
    /\ UNCHANGED <<frozen, session, queue, task, loop, closing, lost>>

PublishOneFails(d, e) ==
    /\ d.phase = "flushing"
    /\ Published(d, e)
    /\ lost' = lost \cup {e}
    /\ UNCHANGED <<frozen, session, queue, task, loop, closing, out>>

----------------------------------------------------------------------------
(* Sessions. *)

Own(s, fates) == {e \in Entries : owner[e] = s /\ fate[e] \in fates}

Settle(S, f) == fate' = [e \in Entries |-> IF e \in S THEN f ELSE fate[e]]

\* after_commit. The entries are forgotten in a thread without a running loop.
HandOver(s) ==
    /\ staged' = [staged EXCEPT ![s] = {}]
    /\ \/ /\ staged[s] # {}
          /\ forsaken' = forsaken \cup staged[s]
          /\ UNCHANGED <<handed, coalescer>>
       \/ /\ handed' = handed \cup staged[s]
          /\ \/ staged[s] = {} /\ UNCHANGED coalescer
             \/ staged[s] # {} /\ resolving /\ Add(staged[s], company[s])
             \/ staged[s] # {} /\ ~resolving
                  /\ drains' = drains \cup {Drain("flushing", company[s], staged[s])}
                  /\ UNCHANGED <<queue, task>>
          /\ UNCHANGED forsaken

\* after_rollback.
Drop(s) ==
    /\ staged' = [staged EXCEPT ![s] = {}]
    /\ UNCHANGED <<handed, coalescer>>

\* Mutant: the list is set anew by each flush.
StageOnly(s, e) == [staged EXCEPT ![s] = {e}]

Stage(s, e) == [staged EXCEPT ![s] = @ \cup {e}]

\* A flush of an audited change opens the write transaction (get_bind). Its entry
\* is staged, unless the capture raises.
Write(s) ==
    /\ ~closing
    /\ \E e \in Entries :
          /\ fate[e] = "new"
          /\ \A q \in Entries : q < e => fate[q] # "new"
          /\ owner' = [owner EXCEPT ![e] = s]
          /\ fate' = [fate EXCEPT ![e] = IF depth[s] = 0 THEN "open" ELSE "nested"]
          /\ \/ staged' = Stage(s, e) /\ UNCHANGED forsaken
             \/ forsaken' = forsaken \cup {e} /\ UNCHANGED staged
    /\ writing' = [writing EXCEPT ![s] = TRUE]
    /\ UNCHANGED <<frozen, depth, handed, loose, coalescer, loop, closing, results>>

BeginNested(s) ==
    /\ ~closing
    /\ depth[s] = 0
    /\ depth' = [depth EXCEPT ![s] = 1]
    /\ writing' = [writing EXCEPT ![s] = TRUE]
    /\ UNCHANGED <<frozen, owner, fate, staged, handed, loose, forsaken, coalescer, loop, closing, results>>

\* RELEASE SAVEPOINT fires after_commit.
ReleaseNested(s) ==
    /\ ~closing
    /\ depth[s] = 1
    /\ depth' = [depth EXCEPT ![s] = 0]
    /\ Settle(Own(s, {"nested"}), "open")
    /\ HandOver(s)
    /\ loose' = loose \cup staged[s]
    /\ UNCHANGED <<frozen, writing, owner, loop, closing, results>>

\* ROLLBACK TO SAVEPOINT fires after_rollback.
RollbackNested(s) ==
    /\ ~closing
    /\ depth[s] = 1
    /\ depth' = [depth EXCEPT ![s] = 0]
    /\ Settle(Own(s, {"nested"}), "undone")
    /\ Drop(s)
    /\ forsaken' = forsaken \cup staged[s]
    /\ UNCHANGED <<frozen, writing, owner, loose, loop, closing, results>>

\* A session may commit what it wrote, or go on after close() and commit reads.
Commit(s) ==
    /\ ~closing
    /\ depth[s] = 0
    /\ writing[s] \/ staged[s] # {}
    /\ writing' = [writing EXCEPT ![s] = FALSE]
    /\ Settle(Own(s, {"open"}), "committed")
    /\ HandOver(s)
    /\ UNCHANGED <<frozen, depth, owner, loose, loop, closing, results>>

\* The database commits, the connection is lost before it says so, and the session
\* is rolled back or just closed.
CommitUnanswered(s) ==
    /\ ~closing
    /\ writing[s] /\ depth[s] = 0
    /\ writing' = [writing EXCEPT ![s] = FALSE]
    /\ Settle(Own(s, {"open"}), "committed")
    /\ Drop(s) \/ UNCHANGED <<staged, handed, coalescer>>
    /\ forsaken' = forsaken \cup staged[s]
    /\ UNCHANGED <<frozen, depth, owner, loose, loop, closing, results>>

Undo(s) ==
    /\ writing' = [writing EXCEPT ![s] = FALSE]
    /\ depth' = [depth EXCEPT ![s] = 0]
    /\ Settle(Own(s, {"open", "nested"}), "undone")
    /\ UNCHANGED <<frozen, owner, forsaken, loop, closing, results>>

\* Mutant: after_rollback is not listened to.
RollbackKeepsStaged(s) ==
    /\ writing[s] \/ staged[s] # {}
    /\ Undo(s)
    /\ UNCHANGED <<staged, handed, loose, coalescer>>

\* rollback(), or a flush or commit that fails: all the way out.
Rollback(s) ==
    /\ writing[s] \/ staged[s] # {}
    /\ Undo(s)
    /\ Drop(s)
    /\ UNCHANGED loose

\* close(), with the transaction still open. The session may be used again.
Close(s) ==
    /\ writing[s]
    /\ Undo(s)
    /\ loose' = loose \cup staged[s]
    /\ UNCHANGED <<staged, handed, coalescer>>

----------------------------------------------------------------------------
(* The event loop. *)

\* asyncio.run has its result and cancels every task. A drain that has not had
\* its first step never runs; one that waits flushes under a shield; one that
\* flushes is cut off.
CloseLoop ==
    /\ ~closing
    /\ \A s \in Sessions : ~writing[s]
    /\ closing' = TRUE
    /\ LET waiting == {d \in drains : d.phase = "waiting"}
       IN /\ drains' = {Drain("flushing", d.company, queue) : d \in waiting}
          /\ IF waiting # {} THEN Take ELSE UNCHANGED <<queue, task>>
    /\ UNCHANGED <<frozen, session, loop, results>>

NextLoop ==
    /\ closing
    /\ drains = {}
    /\ loop < MaxLoops
    /\ loop' = loop + 1
    /\ closing' = FALSE
    /\ UNCHANGED <<frozen, session, coalescer, results>>

\* The loop is closed as it is.
DropLoop ==
    /\ ~closing
    /\ \A s \in Sessions : ~writing[s]
    /\ loop < MaxLoops
    /\ loop' = loop + 1
    /\ drains' = {}
    /\ UNCHANGED <<frozen, session, queue, task, closing, results>>

----------------------------------------------------------------------------
DrainStep ==
    \E d \in drains :
        \/ DrainStarts(d) \/ DrainWakes(d)
        \/ \E e \in d.batch : PublishOne(d, e) \/ PublishOneFails(d, e)

SessionStep ==
    \E s \in Sessions :
        \/ Write(s) \/ BeginNested(s) \/ ReleaseNested(s) \/ RollbackNested(s)
        \/ Commit(s) \/ CommitUnanswered(s) \/ Rollback(s) \/ Close(s)

Next == DrainStep \/ SessionStep \/ CloseLoop \/ NextLoop \/ DropLoop

Spec == Init /\ [][Next]_vars

\* The loop gives every task its turns.
FairSpec == Spec /\ WF_vars(DrainStep)

----------------------------------------------------------------------------
(* Properties. *)

\* An entry is published only for a change that was committed, but for those that
\* went out with a savepoint, whose transaction may roll back yet, and those that
\* close() left behind for whatever the session commits next.
PublishedWasCommitted ==
    \A r \in out : fate[r.entry] # "committed" => r.entry \in loose

\* Every committed change has its entry handed over at once, whatever else was
\* rolled back before: one is missing only because its capture failed, a savepoint
\* was rolled back after it, the commit went unanswered or ran without a loop.
CommittedIsHandedOver ==
    \A e \in Entries : fate[e] = "committed" /\ e \notin forsaken => e \in handed

\* What is queued in this loop has a drain coming for it, and only one, as long
\* as the loop lasts.
QueueHasDrain ==
    ~closing /\ queue # {} /\ task \in {NoTask, loop} =>
        Cardinality({d \in drains : d.phase \in {"created", "waiting"}}) = 1

\* What has been published, or tried in vain.
Gone == {r.entry : r \in out} \cup lost

\* The Coalescer keeps its promise, whatever is added while a drain wakes up or
\* publishes, and wherever the loop ends: what is queued has its one drain, and
\* the queue, the drains' batches and the tasks that publish without a Coalescer
\* implement Batching, for as long as the first loop lasts.
Promise == INSTANCE Batching WITH
    Items <- Entries,
    waiting <- queue \cup UNION {d.batch : d \in drains},
    flushed <- Gone,
    open <- loop = 1 /\ ~closing

QueueIsFlushedOnce == []QueueHasDrain /\ Promise!Spec

\* Every entry handed over is published in the end, or its publish fails, unless
\* the loop it was handed over in comes to its end first.
HandedGetsOut ==
    \A e \in Entries :
        e \in handed /\ ~closing /\ loop = 1
            ~> e \in lost \/ (\E r \in out : r.entry = e) \/ closing \/ loop > 1

\* What coalescing relies on, in the words of the Coalescer's docstring: "one
\* transaction can carry all of them". The label of a reference does not depend
\* on which other request's commit started the drain.
LabelsAreResolved ==
    resolving => \A r \in out : r.labelled
=============================================================================
