---------------------------- MODULE ReplicaSync ----------------------------
(***************************************************************************)
(* thecargo.events.customer_sync and user_sync: a service's replica of one *)
(* customer or one user of another service.                                *)
(*                                                                         *)
(* The handlers touch no other row, so one row shows everything the events *)
(* can do. The owning service commits a change and sends an event with the *)
(* columns it changed. A handler run reads the replica row in a            *)
(* transaction of its own and, on commit, writes only the columns whose    *)
(* value differs from what it read. A run that raises is sent back to the  *)
(* queue of the users once, and dropped by that of the customers. A user   *)
(* moves between organizations, by an event of its own.                    *)
(*                                                                         *)
(* The queue brings the events sent since it was bound. The bootstrap      *)
(* inserts the row it fetched from the owning service unless there is one. *)
(* Nothing orders the two: a service may call them in either order, and    *)
(* handles events from the moment it has bound the queue.                  *)
(*                                                                         *)
(* inOrder tells two uses apart: either the events are so far between that *)
(* they are handled one after the other, each perhaps again before the     *)
(* next; or any of them may be handled at any time, and again, by          *)
(* overlapping runs.                                                       *)
(***************************************************************************)
EXTENDS Integers, Sequences, FiniteSets

CONSTANTS
    Fields,       \* the replicated columns (a customer's company_id is one)
    NumOrgs,      \* organizations are 1 .. NumOrgs, in the order a user joins
    MaxEvents,    \* bound on the changes of the row
    MaxRuns,      \* bound on handler runs
    PREFETCH      \* how many runs may overlap

ASSUME ReplicaSyncAssumption ==
    /\ NumOrgs \in Nat \ {0}
    /\ MaxEvents \in Nat
    /\ MaxRuns \in Nat
    /\ PREFETCH \in Nat \ {0}

VARIABLES
    entity,     \* what the row is: a "customer" or a "user"
    inOrder,    \* events are handled in the order of their commits
    source,     \* the owning service's row
    log,        \* the events it sent, in the order of the commits
    replica,    \* this service's row
    runs,       \* the handler runs under way
    count,      \* how many runs were started
    bound,      \* how many events had been sent when the queue was bound
    turn,       \* in order: the last event some run was of, or before the queue
    answered,   \* the events whose message was acknowledged once
    handled,    \* those of them that some run handled to its end
    boot        \* the bootstrap: where it is, and what it found

kind == <<entity, inOrder>>
queue == <<bound, turn, answered, handled>>
vars == <<kind, source, log, replica, runs, count, queue, boot>>

NoOrg == 0     \* an organization id that is missing, None or no UUID
Orgs == 1 .. NumOrgs

\* A row is a record [org, cols]; a column holds the number of the change that
\* set it, or 0 for NULL.
NoRow == [org |-> NoOrg, cols |-> [f \in {} |-> 0]]

Unbound == -1

\* The page tells of the first seen events, 0 if it has no row to store; when it
\* was stored, it was event turn's turn, and left says whether there was a row then.
NoBoot == [at |-> "off", row |-> NoRow, seen |-> 0, turn |-> Unbound, left |-> FALSE]

Init ==
    /\ entity \in {"customer", "user"}
    /\ inOrder \in BOOLEAN
    /\ source = NoRow
    /\ log = <<>>
    /\ replica = NoRow
    /\ runs = {}
    /\ count = 0
    /\ bound = Unbound /\ turn = Unbound
    /\ answered = {} /\ handled = {}
    /\ boot = NoBoot

----------------------------------------------------------------------------
(* The owning service. An event has the organization it names, if any, the *)
(* columns it carries and, for a move, the organization left.              *)

Change(row, type, org, left, cols) ==
    /\ Len(log) < MaxEvents
    /\ source' = row
    /\ log' = Append(log, [type |-> type, org |-> org, left |-> left, cols |-> cols])
    /\ UNCHANGED <<kind, replica, runs, count, queue, boot>>

SourceCreates ==
    /\ log = <<>>
    /\ \E org \in {NoOrg, 1} :
          LET cols == [f \in Fields |-> 1]
          IN Change([org |-> org, cols |-> cols], "created", org, NoOrg, cols)

\* An update carries the changed columns and need not name the organization.
SourceUpdates ==
    /\ source # NoRow
    /\ \E S \in SUBSET Fields \ {{}}, org \in {source.org, NoOrg} :
          LET cols == [f \in S |-> Len(log) + 1]
              row == [f \in Fields |-> IF f \in S THEN cols[f] ELSE source.cols[f]]
          IN Change([source EXCEPT !.cols = row], "updated", org, NoOrg, cols)

\* A user joins an organization, none of them twice.
SourceMoves ==
    /\ source # NoRow
    /\ entity = "user"
    /\ \E org \in Orgs :
          /\ org > source.org
          /\ Change([source EXCEPT !.org = org], "moved", org, source.org, NoRow.cols)

SourceDeletes ==
    /\ source # NoRow
    /\ Change(NoRow, "deleted", NoOrg, NoOrg, NoRow.cols)

----------------------------------------------------------------------------
(* Handler runs: an event, the row the run read and the step it is at.     *)

Event(run) == log[run.event]

\* A created replica has every column, NULL where the event has none.
Values(event) ==
    [f \in Fields |-> IF f \in DOMAIN event.cols THEN event.cols[f] ELSE 0]

\* Mutant: every column is set, with None where the event says nothing.
ChangedAll(run) == Fields

\* Setting an attribute to the value it has leaves it out of the UPDATE.
Changed(run) ==
    {f \in DOMAIN Event(run).cols : Event(run).cols[f] # run.row.cols[f]}

FirstStep ==
    [created |-> "create", updated |-> "look", moved |-> "move", deleted |-> "look"]

\* A message may come redelivered, or be another one of the same event. Only the
\* queue of the users sends a failed message back, each once.
Start(e, redelivered) ==
    /\ count < MaxRuns
    /\ bound # Unbound /\ e > bound
    /\ Cardinality(runs) < PREFETCH
    /\ IF inOrder
       THEN /\ runs = {}
            /\ e \in {turn, turn + 1}
            /\ e > turn => turn \in answered \cup {bound}
            /\ turn' = e
       ELSE UNCHANGED turn
    /\ count' = count + 1
    /\ \E no \in 1 .. PREFETCH :
          /\ \A run \in runs : run.event = e => run.no # no
          /\ runs' = runs \cup
               {[no |-> no, event |-> e, again |-> entity = "user" /\ ~redelivered,
                 row |-> NoRow, step |-> FirstStep[log[e].type]]}
    /\ UNCHANGED <<kind, source, log, replica, bound, answered, handled, boot>>

Goto(run, step) ==
    /\ runs' = (runs \ {run}) \cup {[run EXCEPT !.step = step, !.row = replica]}
    /\ UNCHANGED <<kind, source, log, replica, count, queue, boot>>

\* The run's transaction commits, and the message is acknowledged.
End(run, row) ==
    /\ runs' = runs \ {run}
    /\ replica' = row
    /\ handled' = handled \cup {run.event}
    /\ answered' = answered \cup {run.event}
    /\ UNCHANGED <<kind, source, log, count, bound, turn, boot>>

\* The transaction rolls back, and the message is acknowledged all the same.
Drop(run) ==
    /\ runs' = runs \ {run}
    /\ answered' = answered \cup {run.event}
    /\ UNCHANGED <<kind, source, log, replica, count, bound, turn, handled, boot>>

\* The process dies, or loses its connection to the broker: the transaction rolls
\* back, and the message comes again.
Crash(run) ==
    /\ runs' = runs \ {run}
    /\ UNCHANGED <<kind, source, log, replica, count, queue, boot>>

\* The consumer gives the message of a run that raised back, or drops it.
Raise(run) == IF run.again THEN Crash(run) ELSE Drop(run)

\* The database fails the run, at any step.
Fail(run) == Raise(run)

\* The SELECT of an update or a deletion. An update of a missing row goes on as
\* a creation.
Look(run) ==
    /\ run.step = "look"
    /\ IF replica # NoRow THEN Goto(run, "write")
       ELSE IF Event(run).type = "updated" THEN Goto(run, "create")
       ELSE End(run, replica)

\* A creation looks for the row itself, and needs an organization.
Create(run) ==
    /\ run.step = "create"
    /\ IF Event(run).org # NoOrg /\ replica = NoRow THEN Goto(run, "insert") ELSE End(run, replica)

\* INSERT raises when the row has appeared since.
Insert(run) ==
    /\ run.step = "insert"
    /\ IF replica = NoRow THEN End(run, [org |-> Event(run).org, cols |-> Values(Event(run))])
       ELSE Raise(run)

\* UPDATE by primary key raises when the row has gone since. The organization
\* is not among the columns an update sets.
Update(run) ==
    /\ run.step = "write"
    /\ Event(run).type = "updated"
    /\ IF replica = NoRow /\ Changed(run) # {} THEN Raise(run)
       ELSE End(run, [replica EXCEPT !.cols =
                        [f \in DOMAIN @ |-> IF f \in Changed(run) THEN Values(Event(run))[f]
                                            ELSE @[f]]])

\* Mutant: a move does not ask which organization the replica has.
Moves(event) ==
    event.left # NoOrg /\ event.org # NoOrg /\ replica # NoRow

\* UPDATE ... WHERE organization_id = left, if the event names both.
MovesFrom(event) ==
    event.left # NoOrg /\ event.org # NoOrg /\ replica # NoRow /\ replica.org = event.left

Move(run) ==
    /\ run.step = "move"
    /\ End(run, IF MovesFrom(Event(run)) THEN [replica EXCEPT !.org = Event(run).org] ELSE replica)

Delete(run) ==
    /\ run.step = "write"
    /\ Event(run).type = "deleted"
    /\ End(run, NoRow)

----------------------------------------------------------------------------
(* The queue and the bootstrap.                                            *)

\* start_consumer binds the queue and consumes: events sent before never reach it.
Bind ==
    /\ bound = Unbound
    /\ bound' = Len(log) /\ turn' = Len(log)
    /\ UNCHANGED <<kind, source, log, replica, runs, count, answered, handled, boot>>

\* A fetch that fails misses the row, and so may the top-up of a table that has
\* rows: bootstrap_customers then reads one page, bootstrap_users nothing. A row
\* without an organization is left out.
BootFetch ==
    /\ boot.at = "off"
    /\ \E row \in {source, NoRow} :
          boot' = [boot EXCEPT !.at = "fetched", !.row = IF row.org = NoOrg THEN NoRow ELSE row,
                               !.seen = IF row.org = NoOrg THEN 0 ELSE Len(log)]
    /\ UNCHANGED <<kind, source, log, replica, runs, count, queue>>

Store(row) ==
    /\ boot.at = "fetched"
    /\ replica' = row
    /\ boot' = [at |-> "done", row |-> NoRow, seen |-> IF replica = NoRow THEN boot.seen ELSE 0,
                turn |-> IF inOrder THEN turn ELSE Unbound, left |-> row # NoRow]
    /\ UNCHANGED <<kind, source, log, runs, count, queue>>

\* INSERT ... ON CONFLICT DO NOTHING.
BootStore == Store(IF replica = NoRow THEN boot.row ELSE replica)

----------------------------------------------------------------------------
CustomerHandlers(run) ==
    /\ entity = "customer"
    /\ \/ Look(run) \/ Create(run) \/ Insert(run) \/ Update(run) \/ Delete(run)
       \/ Crash(run) \/ Fail(run)

UserHandlers(run) ==
    /\ entity = "user"
    /\ \/ Look(run) \/ Create(run) \/ Insert(run) \/ Update(run) \/ Move(run) \/ Delete(run)
       \/ Crash(run) \/ Fail(run)

Next ==
    \/ SourceCreates \/ SourceUpdates \/ SourceMoves \/ SourceDeletes
    \/ \E e \in 1 .. Len(log), redelivered \in BOOLEAN : Start(e, redelivered)
    \/ \E run \in runs : CustomerHandlers(run) \/ UserHandlers(run)
    \/ Bind \/ BootFetch \/ BootStore

Spec == Init /\ [][Next]_vars

----------------------------------------------------------------------------
(* Properties. *)

\* Late, repeated and overlapping events cannot move a user back: while the row
\* stays, its organization only changes to one the user joined later.
NeverMovesBack ==
    [][replica # NoRow /\ replica' # NoRow => replica'.org >= replica.org]_vars

\* A user, or a customer, who had an organization all along.
AlwaysInOrganization ==
    \A i \in 1 .. Len(log) : log[i].type = "created" => log[i].org # NoOrg

\* Every event was handled, or dropped, that the queue will bring.
Quiet == boot.at = "done" /\ bound # Unbound /\ runs = {} /\ answered = bound + 1 .. Len(log)

Dropped == answered \ handled

\* The replica is the owning service's row, or neither has one, whatever ran twice
\* or died, unless something was lost between the bootstrap and the queue: an
\* event sent before the queue was bound, or handled before the page was stored,
\* that the page does not tell, or one dropped that no page made up for.
WholeUnlessLost ==
    LET before == IF boot.seen # 0 THEN boot.turn ELSE 0
    IN bound <= boot.seen /\ before <= boot.seen /\ (\A e \in Dropped : e <= before)
         => replica = source

\* A creation, or an update that has to do as one.
Lays(e) == log[e].type \in {"created", "updated"} /\ log[e].org # NoOrg

\* And whatever was lost so, what is handled after the bootstrap arrives: a row
\* that was deleted is gone, however old the page, and a column that changed has
\* the value it changed to last, unless there is no row yet to change.
LaterChangesArrive ==
    LET late == {e \in handled : e > boot.turn}
        after(e) == e + 1 .. Len(log)
    IN \A e \in late :
          /\ log[e].type = "deleted" => replica = NoRow
          /\ boot.left \/ (\E q \in late : q <= e /\ Lays(q)) =>
               \A f \in DOMAIN log[e].cols :
                  (\A q \in after(e) : f \notin DOMAIN log[q].cols /\ log[q].type # "deleted")
                      => replica # NoRow /\ replica.cols[f] = log[e].cols[f]

\* When events are handled in order, once those sent so far have been, of a row
\* that always had an organization.
CaughtUp ==
    inOrder /\ AlwaysInOrganization /\ Quiet => WholeUnlessLost /\ LaterChangesArrive

\* What _publish_one's docstring relies on: "consumers drop the replay by its
\* event_id". A run of an event that was handled before, and a later one after it,
\* leaves the row as it is.
ReplayIsDropped ==
    [][\A run \in runs :
          run \notin runs' /\ run.event \in handled /\ (\E q \in handled : q > run.event)
              => replica' = replica]_vars
=============================================================================
