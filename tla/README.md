# A verification development of thecargo-lib

`thecargo-lib` is the library every TheCargo service is built on: the outbox and
the consumers that carry events between services, the replicas those events keep,
tenant scoping and read/write routing of database sessions, the audit trail,
consent to contact a customer, authentication and feature gates, admission of
requests, and clients of the other services. This directory models, with TLA+, the
parts whose correctness depends on order, on failure or on a rule with many cases;
TLC checks the models on small instances and TLAPS proves theorems about all of them,
for every value of the constants.

Paths below are relative to `src/thecargo/`.

## 1. Inventory

| component | state it keeps | operations | hard behaviour | what makes it correct | module |
|---|---|---|---|---|---|
| outbox, publisher (`events/outbox.py`, `events/publisher.py`) | rows of `outbox_events`; tasks and queued marks of a process; lists of a relay tick; the channel | commit hooks, immediate publish, coalesced mark, reclaim, claim, deliver, stamp, cleanup | many relays, crashes between any two steps, lost confirms, ticks that outlast the reclaim limit, marks that outlast the grace period | nothing is lost or stamped unsent, claims are exclusive, repeats have a cause, every event gets out | `Outbox`, `EventDelivery` |
| consumer (`events/consumer.py`) | the queue, unacknowledged messages, handler runs | deliver, handle, ack, reject | overlapping runs, redelivery after a lost connection, death between commit and ack | nothing leaves unhandled, no message spins or is left unacknowledged | `Consumer` |
| replicas (`events/customer_sync.py`, `events/user_sync.py`) | one row per customer or user | created, updated, moved, deleted, bootstrap | repeated and reordered events, partial updates, a page of any age before or after the queue is bound, runs that die or are dropped | the replica ends equal to the owner's row unless something was lost between page and queue, and later changes arrive all the same; a user never moves back | `ReplicaSync` |
| sessions (`db/routing.py`, `db/engine.py`) | `_writing` of a session | bind a statement, refuse it, end a transaction | savepoints, statements whose writes do not show to the router or to SQLAlchemy | what needs a transaction and shows it runs in one | `Sessions`, `UnitOfWork` |
| audit trail (`audit.py`) | entries staged in `session.info` | capture, stage, hand over, drop, label, publish | savepoints, close() without a rollback, unanswered commits, captures that fail, commits without a loop, labels read in another request's context, columns that were never loaded | committed changes, and only those, are announced but for named causes; the entries add up to the row | `UnitOfWork`, `AuditEntries` |
| coalescer (`coalesce.py`) | `_items`, `_task` | add, drain | cancellation at every await, loops that follow each other | no item is stranded or flushed twice | `UnitOfWork`, `Batching` |
| admission (`middleware/cancel_on_disconnect.py`, `middleware/load_shed.py`) | `in_flight`; two tasks per request | watch, cancel, shed | clients that leave at any moment, endpoints that never end, shutdown | slots are counted, only leavers are cut off | `Gateway` |
| rate limits (`middleware/rate_limit.py`) | a bucket per organization and a window per address and path in Redis, a pause | take a token; count a request | clock set back, clocks that differ, key expiry, Redis away | the rate is kept, and nobody under it refused | `RateLimit`, `SlidingWindow` |
| consent (`consent.py`, `repositories/consent.py`) | append-only records of a number | record, evaluate | ties and transaction times, records that mask each other, unknown lines | a stop holds until it is lifted | `Consent` |
| tokens (`dependencies/auth.py`, `dependencies/portal.py`) | marks and sessions in Redis, kept by the auth service | decode, read the state, decide | seconds of `iat`, a pipeline that is no transaction, outages | rights are live, refusals have a cause | `TokenState` |
| permissions (`permissions.py`, `role_templates.py`, `features.py`) | none: tables | expand a template, filter by plan, check, show in the editor | three tables kept by hand | the tables agree | `Roles` |
| tenant scoping (`db/company_scope.py`, `context.py`, `repositories/`) | the active company of a context | enter, leave, narrow a statement, stamp a row | a session used under two companies, statements and loads the scope does not reach | rows stay in their company but for named causes | `Tenancy` |
| caches, entitlements (`cache.py`, `features.py`, `clients/auth.py`) | Redis and process caches | load, store, invalidate, fall back | invalidation against a load in flight, double outages | staleness is bounded, made-up answers fit the outage | `Caches` |
| webhook archive (`webhook_archive.py`) | `seen` keys, replacing rows | mark, insert, restamp, merge, purge | buffered inserts, lost updates, crash after the mark | an event is lost only for a cause, the newest row is read | `Webhooks` |
| clients of a loop (`clickhouse.py`, `clients/service.py`, `mongodb.py`) | a client per loop, two per process | get, connect, close | two tasks at a time, loops that end | nobody gets another loop's client, none is left open | `Clients` |
| storage (`storage.py`) | the objects of a bucket | upload, download, delete, look | lost answers, retries, overlapping calls | what was answered is so, every reference leads to its object | `Storage` |
| lead fields (`lead_fields.py`) | none | read an email | labels inside one another, places in the lower case used on the text | each word is read once | `LeadFields` |
| negotiation (`negotiation.py`) | the prices named | next step | rounding, inverted bands | prices stay within the band | `Negotiation` |
| dashboard periods, days of a zone (`dashboard/period.py`, `utils/timezone.py`, `dependencies/timezone.py`) | none | take a zone, resolve a period | changes of clocks, months of other lengths | days cover time, periods are comparable | `Periods` |
| dashboard shapers, templating, SMS, PDF, metrics, errors, public storage | see `PROJECT.json` | | | | not modelled |

How they interact. A request passes admission and the rate limit (`Gateway` with
`RateLimit`'s verdict), shows its token (`TokenState`), which carries the grants its role
and the plan left it (`Roles`) and its zone (`Periods`), and sets the active company
(`Tenancy`). It opens a session (`Sessions`) whose commits hand staged audit entries and
outbox rows over (`UnitOfWork`); each outbox row goes through `Outbox` to RabbitMQ,
from there through `Consumer` of another service to a handler of `ReplicaSync`. What
`Consumer` and `Outbox` guarantee (in commit order when nothing fails; any event, any
number of times, otherwise) enters `ReplicaSync` as its variable `inOrder`. A consent
record is a row and an outbox event of one transaction.

## 2. The modules

**EventDelivery** is the outbox's promise in three actions: `Accept` an event, `Send` a
copy of it at most `MaxCopies` times, `Forget` it once it was sent. `Outbox` implements
it: accepted events are the rows that exist or existed, copies are what the broker was
handed, forgotten rows are deleted ones, `MaxCopies` is `RELAY_MAX_ATTEMPTS + 1`.

**Outbox**. `status`, `attempts` are columns; `cutoff` and `idle` are what clocks make of
`created_at` and `updated_at`; `tasks[p]` and `marker[p]` are the `_publish_one` tasks
and the items of the marking Coalescer of process p, which drains may be flushing in
several batches; `pc`, `todo`, `sent`, `failed` are `relay_once` and its locals. One
action per transaction or publish: `Commit`, `PublishOne(Fails|Unconfirmed)`,
`MarkPublished(Fails)`, `ReclaimStuck`, `SelectDue` and `Claim` (one transaction with row
locks between them), `Deliver(Fails|Unconfirmed)`, `Stamp`, `TickFails`,
`CleanupPublished`; the environment is `GraceRunsOut`, `ClaimGoesStale`, `BrokerStops`,
`BrokerStarts`, `Reconnect`, `Restart`. Rows are numbered by `created_at`, the start of
their transaction, so they may appear in another order.
`overrun` remembers that a tick or a publish took longer than the limit meant to cover it.

**Consumer**. `place[m]` is where the broker has message m, `runs` the `_process` calls
under way, each with the delivery it belongs to; an answer to a delivery the broker has
given up (`~Answers`) changes nothing. `requeueFailed` is a frozen variable, so that one
run covers both kinds of queue.

**ReplicaSync** follows one row of either table. `log` holds the owner's events with only
the columns each carries; a handler run reads (`Look`), then inserts, updates or deletes
in a later step, as a transaction with a `SELECT` does; `UPDATE` writes only the columns
whose value differs from what was read, as the ORM does. `Raise` is what an exception in
a run does on each queue: the users' sends the message back if it was not redelivered,
the customers' drops it. `Bind` is `start_consumer`, which takes the events sent from then
on (`bound`) and handles them at once; the bootstrap fetches and stores at any time before
or after, since the library leaves their order to the service. `answered` and `handled`
tell an event that was dropped from one that was applied, `turn` is the last event whose
turn it was, and `boot` remembers what the page knew and when it was stored.

**UnitOfWork** joins the parts of one process that share a session. `writing` is
`RoutingSession._writing`; `staged` is `session.info`; `Commit`, `ReleaseNested` hand over
and `Rollback`, `RollbackNested` drop, because SQLAlchemy fires `after_commit` and
`after_rollback` for savepoints too. `Close` fires neither hook, so what was staged waits
in `session.info` for the next commit of that session. A capture that fails (`Write`)
leaves a change without its entry, a commit without a running loop pops its entries and
drops them (`HandOver`), and a commit whose answer was lost may end in a rollback or in a
close. `queue` and `task` are the Coalescer's, `drains` the live tasks with the company of
the context they were created in. `CloseLoop` is `asyncio.run` cancelling all tasks (a
waiting drain flushes under its shield), `DropLoop` a loop closed as it is. Two history
variables name the exceptions entry by entry: `loose` are those a savepoint handed over or
a close left behind, `forsaken` those never staged or gone before their commit.

**Batching** is what the Coalescer promises to those who hand it items: `Hand` items over,
`Flush` some that wait, `End` the loop and give up what waits. `UnitOfWork` implements it:
what waits is the queue, the batches of the drains and the entries published without a
Coalescer, what is flushed was published or failed to be, and the loop is the first one.

**Gateway**. `app[r]` is where the application's task is, `pump[r]` the task that reads
messages, `watch[r]` the request's own task in `CancelOnDisconnectMiddleware.__call__`.
`Limit` takes every verdict the limiter can give. The library leaves the order of the
middlewares to the services; the module puts CancelOnDisconnect outside LoadShed outside
the limiter, in which a cancellation has the most to undo.

**Process** (`Consumer`, `Gateway`, `UnitOfWork`), **Access** and **Services** join modules
that share no state: a behaviour of any of them walks one of its modules (`part`) and
leaves the others as they began, so that one run checks each over all its states. What one of them hands to the next (a token, a role, a
company) the next one's module takes in every combination.

*In Access:*

**RateLimit** counts tokens in parts (`COST` parts are one token, `RATE` parts come back
per tick), so that fractional rates stay integers. `Level` is the refill expression of
the script, `Grant` and `Deny` its two outcomes, `Expire` its `PEXPIRE`. `EXPIRY` is only
assumed long enough for an empty bucket to fill in the meantime and one tick more;
`grantedAt` is a history variable, what had been let through by each tick.

**SlidingWindow** has the sorted set of one key. The script is atomic, but its `now` is
`time.time()` of the server that calls it (`ahead`), and the key expires by the clock of
Redis. `passed` remembers when which member was added; two requests of one time and one
drawn number are one member, as in the code.

**TokenState** follows one client, its tokens (minted by sign-in and refresh, of every
type) and a request: `Come` decodes, `Read` is one command of the pipeline, with the
auth service's `Revoke`, `MarkStale`, `Approve`, `Displace` and `ChangeRole` in between
and `RedisTurns` before any of them, `Verdict` the order of the checks. `before` is what
held when the request came.

**Roles** has the tables themselves: resources, stages, toolbar sections, groups,
features and every template of three kinds of organization, with `Expand`,
`AllowedResources`, `Menu`, `Requires` and `CheckStagePermission`. A question is a
person's role and an organization's features.

**Tenancy** is one session of one request after another. `Enter` and `Leave` are
`as_company`; `Scope` the criteria added to a statement; `Flush` the stamp and the insert;
`Get` and `Change` reach the session's own rows by key, without one; `LoadRelated` brings
whatever rows a relationship joins, of any company, and `Unreached` stands for the
statements the scope does not narrow: a subquery that names the model in its `WHERE` only,
a Core statement, a text. `outside` is what an operation handed back or changed beyond the
active company, `moved` that the session was used under another one before, `past` the
rows that came into it past the scope.

**Consent** has the set of committed records; `Histories` are the orders in which `ORDER BY
created_at` may return them. `Standing` is `_latest_by_bucket` without permissions,
`Newest` is Python's `max` with its rule for ties, `Evaluate` the decision.
`Policy` is the reference: no fold and no pick, only which records are in force.

*In Services:*

**Caches** is one organization's entitlements: Redis, else billing, else what the type of
the organization allows, which is cached too and asked of the auth service; a value kept
in the process beside them. A call takes its reads and stores one by one, while
`ChangePlan` and `Invalidate` happen and any service fails. `age` is how long ago a value
had stopped being true when it was read.

**Webhooks** is one event sent again and again: `IsNew` marks it seen before `Store` and
`Process`; inserts go to `buffer`, become `visible` later or fail; `Fetch` and `Restamp`
are two steps of a worker. `has` is the set of stamps a row carries.

**Clients** is a process whose loops follow one another. `GetClient` runs up to its await,
`Connected` from there; `LoopEnds` cancels what is under way and runs the generators that
close ClickHouse clients. The pooled HTTP client and MongoDB's are one variable each.

**Sessions** sends statements by kind through a routing session, a plain one and a
read-only one. Two kinds show to nobody: DML that the pattern of `routing.py:54-57` does
not fit (`missed`), and DML on `session.connection()` (`direct`), which passes no hook.
`alone` is what ran by itself, `apart` that something ran beside an open write transaction.

**LeadFields** has an email as its matches of labels, its newlines and its blanks.
Matches have places in `text.lower()`; `stretched` are the second characters lower() makes
of one, and `TextPlace` is where a place of the lower case lies in the text. `ScanLabels`
keeps matches in order, `Value` uses their places on the text as the code does, `Found` is
what a field is given.

**Negotiation** counts prices from the opening one, so a seller's and a buyer's band are
the same; `LadderOf` is what `ladder` makes of a band and a number of moves, which may be
zero or less, and `NextStep` the decision.

**AuditEntries** is one row, its object in a session (`held`, `committed` as
SQLAlchemy's `committed_state`), and the entry the hook stages before each flush, as `Jsonify` writes it:
`NO_VALUE` becomes 4, a long text its beginning. `Missed` is a flush whose capture failed.
`reading` is what a reader of the entries alone would take the row to be.

**Storage** runs calls in threads, each in up to three tries; a try that fails may have
had its effect (`Fail`). References are a URL, the key behind the bucket's name, or the
key; `settled` is what the answers so far say of an object.

**Periods** numbers days from the first of a calendar and hours of UTC from its midnight.
A zone is a sequence of offsets; `AtLocal` is `zoneinfo` with `fold=0`, by which a
midnight that comes twice is the first one and one that is skipped has the offset before. What is
assumed of zones is what the tz database has: changes lie apart by any clock, and no midnight
lies inside one; of the calendar, that it has whole quarters and reaches a quarter back
from every day asked for.

## 3. What the runs check

| run | bounds | checks |
|---|---|---|
| `outbox_safety` | 2 processes, 2 rows, 2 attempts, batch 2, 1 fault | `PublishedWasDelivered`, `ClaimsAreExclusive`, `CopiesAreCounted`, `DuplicatesHaveFaults`, `KeepsPromise` |
| `outbox_liveness` | 2 processes, 1 row, 2 attempts, 2 faults, fair | `EventGetsOutOrExhausted`, `ClaimsEnd` |
| `outbox_at_least_once` | as liveness, 1 fault | violated: `DeliveryIsAtLeastOnce` |
| `process` | 2 messages, prefetch 2, 1 loss; 2 requests of every kind, limit 1; 2 sessions, 2 entries, 2 loops; fair | `MessagesAreAnswered`, `TriesAreBounded`, `QueueDrains` (Consumer); `SlotsAreCounted`, `CutsFollowLeaving`, `DisconnectFreesSlot` (Gateway); `PublishedWasCommitted`, `CommittedIsHandedOver`, `QueueIsFlushedOnce`, `HandedGetsOut` (UnitOfWork) |
| `consumer_second_failure` | 1 message, prefetch 1, 1 loss | violated: `SecondFailureDrops` |
| `replica_sync` | 2 columns, 3 organizations, 3 events, 3 runs, 2 at a time | `CaughtUp`, `NeverMovesBack` |
| `replica_replay` | 1 column, 2 organizations, 3 events, 3 runs, 1 at a time | violated: `ReplayIsDropped` |
| `unit_of_work_labels` | 2 sessions, 2 companies, 2 entries, 2 loops | violated: `LabelsAreResolved` |
| `access` | see below | `RightsAreLive`, `RefusalsHaveCause` (TokenState); `TablesAgree` (Roles); `RateIsKept`; `WindowIsKept`; `RowsStayInCompany`, `FiledWhereMeant` (Tenancy); `EvaluateIsPolicy`, `StopHolds` (Consent) |
| `services` | see below | `AnswersAreRecent`, `AnswersFitTheOutage` (Caches); `DedupHasCause`, `NewestIsLatest` (Webhooks); `ClientsAreKept`; `WritesHaveATransaction` (Sessions); `WordsAreReadOnce` (LeadFields); `PricesStayInBand` (Negotiation); `EntriesTellTheRow`; `UploadsAreFound`; `DaysCoverTime`, `PriorIsComparable` (Periods) |
| `caches_outage` | 1 caller, lifetimes 2, 1 and 1, a call of 1 tick | violated: `PhoneGetsNothing` |
| `sessions_read_only` | routing sessions, every kind of statement | violated: `ReadOnlyWritesFail` |

Why these bounds are enough. Two relays, two rows and a batch of two give every overlap
of two ticks and every partial batch; a third relay can only do to one of them what the
second does, and the proofs cover any number. One fault suffices for a crash at each
step or a lost confirm; the liveness run has two, so that a relay can die after an
outage, on a single row. One lost connection separates a redelivery by the broker from
one by the consumer. Three events make every pair of changes with a third before or
between; three runs let two overlap and one repeat. Two sessions and two entries
give a shared batch, a batch of one session in two transactions, and an `add` at every
step of a drain; no property of the run `process` depends on companies, so all its requests
are of one, and two companies meet in `unit_of_work_labels`. Two requests are the least
that compete for a slot.

In `access`: two seconds are before and after a mark, and its second itself; one change
of the role's version makes a token old. A rate of 2, a cost of 3 and a burst of 7 have
no common divisor, so a bucket stops at every fraction of a token. A window of 3 seconds
for 2 requests, with 2 servers a second apart, lets a member leave while another stays.
Two companies, a row of each, of which one is deleted and related to the other, a row of
another organization that is no company's, and a new row, which may be of either company or
none, meet every clause of the scope; one switch of the company is all that `moved` tells
apart. Three consent records are a bucket's record, its
successor and one that masks them; two times give both orders and every tie. `Roles` has
no bound: every template under every set of features is asked.

In `services`: two callers, workers, tasks and threads (symmetric, as nothing tells them
apart) are a reader and one that overtakes it. Cache lifetimes of 2, 1 and 1 ticks and a
call of one tick put a store before, at and after an expiry. Three deliveries are a
first, a duplicate and one after the mark is gone. Two loops and four clients replace
each kind once. Three matches in six characters overlap in every way, or leave two of them a value, with
a character that lower() lengthens before some of them or none. Bands are every
remainder of the rounding to 5, with inverted, empty and narrow ones; three moves
give a first, a middle and a last one, and one below zero counts as none. A row of one significant and one secret column with
three flushes has a creation and two changes with anything in between. Four calls on two
keys, one with the bucket's name in front, with three tries each, put a retry after any
other call. The calendar has one leap February and a quarter on either side; the zones
put clocks forward and back at two, at midnight, over midnight, and leave a date out. Not
covered: zones of broken hours, and one that turned back a minute past midnight, as
Newfoundland's did until 2011, where the present may be in no day for a minute.

What cfgs say about deadlock. Every bounded model stops when its bounds are used up:
`CHECK_DEADLOCK FALSE` throughout, with liveness properties where something must go on.

Fairness. `Outbox`: tasks and relays are asyncio tasks that loop for ever, clocks advance,
a broker comes back; strong fairness of `Deliver` says that a relay which tries a row
again and again gets it through some time, without which at-least-once means nothing.
In `process` each part has its own fairness where it is walked. `Consumer`: the broker
delivers and handlers end. `UnitOfWork`: the loop gives its tasks
turns, until it ends. `Gateway`: only the library's own steps after a disconnect and
the unwinding of a cancelled application are fair; nothing makes an endpoint end.
No fairness is assumed of faults, of clients or of commits.

### Disagreements between code and documentation

* An event whose claims all failed stays pending for good, though `outbox.py:49` and
  `:145` call delivery at-least-once (`outbox_at_least_once`).
* A first failure after a lost connection drops the message, though `consumer.py:26`
  says a second failure does (`consumer_second_failure`).
* The handlers of the library apply replayed events again, though `outbox.py:104` and
  `:146` say consumers drop them by `event_id`: a creation and the deletion after it are
  handled, the creation comes again, and the deleted row is back (`replica_replay`).
* Labels of all commits of a second are read under the company of the first one, so where
  the company scope is installed the others get none (`unit_of_work_labels`).
* With billing and the auth service both away, a phone organization gets every feature
  (`features.py:161`), though the docstring at `:171` says it gets nothing until billing
  answers (`caches_outage`).
* `forbid_writes` means to "fail a write on a read-only session" (`engine.py:115`), and
  one that SQLAlchemy does not report as DML runs, statement by statement: a text, a CTE,
  or anything on the session's connection (`sessions_read_only`).

More was met on the way that has no run of its own; the properties are stated with it:

* `PickEffective` looks at the newest record in force only, so a wrong number recorded
  later for one line hides a do-not-text; and for a line that is no valid US number the
  customer's legacy stop is not looked at. `StopHolds` says that nothing else hides one;
  `EvaluateIsPolicy` compares only histories that are `WellRecorded`.
* A customer.updated that finds no row, while a concurrent customer.created inserts it,
  returns without applying its values (`customer_sync.py:41`); `CaughtUp` therefore
  speaks of runs one after the other. Events sent before `start_consumer` has bound the
  queue reach nobody, and one that is handled before an older bootstrap page is stored is
  undone by it, for which `WholeUnlessLost` makes exceptions. A bulk send decides from histories read when it began
  (`consent.py:266`), and a consent record's time is the start of its transaction
  (`consent.py:129`): nothing here promises more.
* "Between the opening price and that limit the moves shrink" (`negotiation.py:4`): with
  the rounding to 5, a gap of 16 in two moves goes 5, then 11.
* `role_templates.expand_template` drops a grant whose key is not spelled as the catalogue
  does, and `telephony.update` is beyond the actions of its resource.
* A custom period may have 367 days, though its message says that it cannot exceed 366
  (`period.py:103`).
* For a column set while it was not loaded, an audit entry tells 4 as the old value:
  `_jsonify` takes the value of an Enum member (`audit.py:63-64`), and SQLAlchemy's mark
  `NO_VALUE` is one; so a change to the number 4 looks like none. `_pending_refs` takes care of the mark
  (`:209`). Long texts are cut, so two that begin alike read as unchanged in the entry
  of their change; texts of one number, as "07001" and "7001", count as unchanged. A
  capture that fails leaves the change untold (`:421`); `EntriesTellTheRow` allows all this.
* `close()` drops no staged entries (`audit.py:443-445` listens to rollbacks only): a
  session that is used again announces with its next commit what never was committed.
* `WITH u AS (UPDATE t AS a SET ...) SELECT ...` does not fit the pattern of
  `routing.py:54-57`, which wants one word between `UPDATE` and `SET`, and runs outside a
  transaction on a routing session.
* The scope narrows no subquery that names a model in its `WHERE` only, no Core statement,
  no text and no load of a relationship (`company_scope.py:16`, `:41-43`), which the
  module's docstring says; `RowsStayInCompany` counts what comes that way.
* `lead_fields.py:445` searches labels in `text.lower()` and `:491-493` cuts values out of
  `text` at the places found there; 'İ' is two characters in lower case, so behind one each
  value is shifted and may take in a character of the next label.
* `object_exists` answers no for any error of the bucket (`storage.py:222`).

## 4. What is proved

Liveness under fairness and `ENABLED` are out of TLAPS's reach and stay with TLC. The
library's induction theorems are too, since they take an operator; where a proof needs
induction over data, it takes the least counterexample of a set instead (`WFMin` with the
order of the naturals, or of the finite sets). No module uses a `RECURSIVE` operator.

* `OutboxProofs`, from `OutboxAssumption`, for any finite set of processes and any number
  of rows, attempts, batches and faults. `OutboxTypeCorrect`; `OutboxLosesNothing`, from the invariant
  `DeliveryInv`: whatever waits to be stamped "published", in a marker or in a relay's
  list `sent`, was delivered; this is what makes `PublishedWasDelivered` inductive, since
  marks and stamps come long after the publish they stand for. `OutboxClaimsAreExclusive`,
  from `ExclusiveInv`: a row a relay has selected is pending under its lock, and one it has
  claimed is neither pending nor idle, so no claim query and no reclaim finds it; proved
  while `overrun` has no "reclaim", and `overrun` is history that never loses a member.
  `OutboxCountsCopies`, from `CopiesInv`: the copies that went out, the tasks about to send
  one and the relays about to send one are together at most one more than the attempts,
  and than their limit: a claim puts one copy up for sending, counts it, and takes only
  rows below the limit; that holds over the row locks (`SelectedStaysDue`).
  `OutboxKeepsPromise` is the refinement of `EventDelivery`, by `CopiesInv` and
  `DeliveryInv`: a commit is an `Accept`, a copy a `Send`, a cleanup a `Forget`, and every
  other step a stutter. `OutboxDuplicatesHaveFaults`, from `TimelyInv` beside `ExclusiveInv`,
  while nobody was late: a row younger than the grace period is with its task or has its
  mark on the way; and of an older one that is pending, in a relay's hands undelivered, or
  claimed by a relay that is gone, no more copies went out than there were faults. So
  whoever sends a row again has a fault to thank for it, each fault is good for one copy of a
  row, and until the first fault a relay never takes what a task has published.
* `AccessProofs`, of `RateLimit`, from `RateLimitAssumption`, for any rate, burst, cost and
  expiry.
  `RateTypeCorrect`; `RateLimitHolds`, from `Account`: from any tick on, what was let
  through since, plus what the bucket holds, plus what the next touch will pay out, is at
  most the burst and what the ticks brought. An expired key counts as a full bucket, which `EXPIRY` pays for. A clock
  that is set back only delays the refill.
  Of `Tenancy`, from `CompaniesAssumption` (companies are none of the markers), for any
  companies, rows, blocks and relationships, across companies or not: `CompaniesKeepTheirRows`,
  from `ScopeInv`: a row that a session holds and did not make is of the company it was first
  used under, or came past the scope, or the session has moved since; so the identity map
  gives away no row that was not given away before. And the middleware's own value is at
  the bottom of the nest of blocks, whatever is entered and left. `RowsAreFiledWhereMeant`,
  from `FiledInv`: while the session has not moved, a row not flushed yet and the repository
  are of the company it is used under, so that stamping files the row where it was meant to
  be; a row that names its company fits under any.
  Of `TokenState`, for any seconds and any number of changes: `RightsStayLive` and
  `RefusalsAreCaused`, from `TokenInv`. A mark of the auth service that a token bears is no
  older than the token and no newer than what Redis has (`TokenFits`); a request's token is
  the client's with marks of an earlier moment (`Snapshot`), and each reply it has read so
  far is one Redis could have given since it came (`GotFits`): so the verdict, which joins
  replies of different moments, is one some cause stands behind.
  Of `SlidingWindow`, from `SlidingWindowAssumption`: `WindowStaysKept`, from `PassedFits`:
  a request that passed is still a member while the window, less what the clocks differ by, has
  not passed, and the key outlives it. Members that differ are counted by an injection.
  Of `Consent`, from `ConsentAssumption`, for any lines and times: `StopsAlwaysHold` and
  `EvaluateStaysPolicy`, which need of the state only that the records are well formed and
  finitely many (`RecordsFit`); the rest is about evaluate. That a history holds every record
  (`HistoryTellsAll`) is the pigeonhole principle, that the fold leaves of each bucket the
  latest (`NewestIsLatest`) takes the last index of that bucket, and the one record evaluate
  picks is in force and masks the rest (`StandingIsInForce`).
* `GatewayProofs`, from `GatewayAssumption` (a finite set of requests), for any number of
  requests and any limit. `GatewayTypeCorrect`, `SlotsAreAlwaysCounted` and
  `OnlyLeaversAreCut`, from `GatewayInv`, which joins the count of slots (without it
  `in_flight` could go below zero) and `Watched`: a disconnect is only ever reported of a
  client that left or whose response is complete, and only reads are watched. With
  `Followed`, a request's watch is ahead of what there is to see: until its application was
  cancelled, a client that left is still to be read of, or was and the watch is not past it.

* `ConsumerProofs`, for any number of messages, prefetch and losses. `NoMessageDisappears`
  needs that a run that ended left its mark, and for `OneRunOwes` that a delivery has one run
  and a lost connection takes the answers of all runs with it (`RunsOfDeliveries`). `NoMessageSpins` joins two counts:
  whoever waits in the queue again has a loss or a repeat to show for each delivery
  (`DeliveriesHaveCause`), and a delivery takes effect once at most (`OneEffectEach`: the
  effects and the runs still handling are no more than the deliveries).
* `ReplicaSyncProofs`, from `ReplicaSyncAssumption`, for any columns, organizations, events
  and overlapping runs. `ReplicasNeverMoveBack`, from `ReplicaInv`: every move in the log
  goes to an organization joined later than the one it names as left, so the handler's
  `WHERE organization_id = left` lets no move but a later one through.
  `ReplicasCatchUp`, from `CaughtInv`. `CaughtUp` says nothing before the queue is empty, so
  the invariant says what holds on the way: the log tells the owner's row (`LogTells`: the
  row has each column from the last event that carries it, and the last organization
  joined); one event has its turn and the one run there is is of it (`InTurn`), whether it
  comes the first time, again, or was dropped; the page tells what was sent before it was
  fetched (`PageFits`); and the replica tells the events handled and the page's, and perhaps
  later ones (`Whole`, by `Fits`). A handler that ends leaves a row that tells its own event
  besides (`Serves`, one lemma per handler), because no event before that one is missing
  from the row, unless something was lost (`ToldIsTurn`), and because only one move leaves
  an organization. `Later` says what remains if something was, `FirstTold` that the page
  does not keep a late creation out.
* `UnitOfWorkProofs`, from `UnitOfWorkAssumption`, for any number of sessions, companies,
  entries and loops. `OnlyCommittedGoesOut` and `EveryCommitIsHandedOver`, from
  `SessionInv`: an entry in `session.info` is of a change of that session that its
  transaction will settle, or is loose; a change that its transaction has yet to settle has
  its entry staged, handed over or forsaken; and what was handed over was committed or is
  loose. Failed captures, savepoints, close(), unanswered commits and commits without a loop
  are all in the model, and each puts into `loose` or `forsaken` no more than the entries it touched.
  `QueuedIsFlushed`, from `TaskIsComing`: `_task` is of this loop exactly while one drain
  of it has not taken the queue; and, for the refinement of `Batching`, from `OneWay` (an
  entry is queued, in one batch, or gone) and `OnlyFlushersCarry` (only a drain that flushes
  carries a batch). `NothingIsForgotten` follows from `Batching` alone: nothing flushed waits,
  and in the first loop each entry handed over waits or was flushed.
* `ServicesProofs`, of `Sessions`: `WritesAlwaysHaveATransaction`, with the kinds of statements
  that the router and SQLAlchemy do not see among those that may run. The strengthening is that
  an open write transaction is the one statements are bound to: `_writing` is not taken back before
  the end.
  Of `Caches`, from `CachesAssumption`, for any set of callers and any times to live:
  `OldAnswersEnd`, from `RecentInv`: the age of an old plan and the time its key has left
  add up to no more than the time to live and one call, and what a call is about to store
  is no younger than the change. `OutageAnswersFit`, from `OutageInv`: a call carries what
  it found away with it, from step to step, and asks for the type before it makes anything up.
  Of `Webhooks`, for any number of workers, deliveries and stamps.
  `NoEventIsLostForNothing`, from `DedupInv`: whoever set the mark is at it, is done or
  crashed, and while Redis keeps the mark one worker at most was let past it.
  `LatestRowIsRead`, from `RowsInv`: a row's version counts its stamps, so that of two rows
  the one with more of them has the higher version.
  Of `Clients`, for any tasks and loops: `ClientsStayKept`, from `ClientsInv`: only the
  loop that runs has a ClickHouse client and then a generator that will close it
  (`ClickhouseFits`), and a MongoDB client that is being initialised is its task's alone
  (`MongoFits`), so that the one whose place is taken is the one counted lost.
  Of `AuditEntries`, from `AuditAssumption`, for any columns: `EntriesAlwaysTellTheRow`, from
  `AuditInv`: what an object holds of a column that was not set is what the database has or
  is not loaded, and what it was set from is that or the mark of a column never loaded
  (`HeldFits`); so a change that is left out because both ends count for the same leaves
  the entries as true as they were, which `Jsonify` keeps so (`JsonifyTells`: it tells
  every value but a long text as it is).
  Of `Storage`, from `StorageAssumption` (keys are sequences of strings, none empty):
  `ReferencesLeadToTheKey`; and `AnswersHold`, from `StorageInv`: an object that a call under
  way may change is open, so no try that failed with its effect contradicts an answer.
* `RulesProofs`, of the modules that decide by a rule and keep little.
  Of `LeadFields`, from `LeadAssumption`, for any text and labels: `WordsStayReadOnce`, from
  `LeadInv`: from any place on, the labels the scan keeps lie apart and behind that place, and
  each one it drops overlaps an earlier or longer one (`ScanFits`, by taking the last place where
  it would not hold). A value ends at the next label kept, and both ends are shifted by the same rule, so no two
  values overlap; and where nothing is stretched from a label on, no value takes of it.
  Of `Negotiation`, from `NegotiationAssumption` (all numbers are integers), for any band,
  moves and asks: `PricesAlwaysStayInBand`, from `HaggleInv`: the prices named are the first
  ones of the ladder, and one that was answered with a counter was beyond the ask. The rest
  is `LaddersFit`: every price of a ladder is within the band, they grow, they are at most one
  more than the moves, and the last is the limit. It rests on two things that the source takes
  for granted: a sum does not depend on the order of its terms (`SumTakesAny`), so the weights'
  sum grows (`SumsGrow`), and ranking a finite set of integers reaches each one
  (`RanksAreAll`).
  Of `Periods`, from `ZonesAssumption` and `CalendarAssumption`, for any zones and calendar:
  `DaysAlwaysCoverTime`, by `DayBegins`: an instant is on a day or a later one, by the zone's
  own clock, just if that day has begun; so days meet without a gap and the present is in
  today. `PriorIsAlwaysComparable`, from `ViewFits`: the window shown was resolved from a day of
  the calendar, behind which there is a quarter to compare with.
  Of `Roles`: `RolesTablesAgree`, for every type, plan and role. It is about the tables as
  they stand, but not a look at each case: that a template grants, and the menu lists, only
  what the catalogue of its type has is shown of each table once (`GiveWithin` and what
  follows it), that the scope shown is the scope a request gets, of any role (`MenuShows`),
  and what a plan leaves from the resources that no feature, or one of its own, unlocks
  (`PlansLeave`).

What the runs `process`, `access` and `services` walk are the compositions, and the theorems above are about
their parts: `ProcessWalksItsParts` (in `UnitOfWorkProofs`), `AccessWalksItsParts` and `ServicesWalksItsParts` close the gap. Each is a
refinement with the identity for a mapping: a step of the composition is a step of one
part and a stutter of all others. With them, every invariant of those three runs is proved of
the specification that the run checks.

Proved but not run: the type invariants, which the runs' own properties would not get
past. Model-checked only: the six disagreements of section 3, which are there to
fail; and every liveness property (`EventGetsOutOrExhausted`, `ClaimsEnd`, `QueueDrains`,
`HandedGetsOut`, `DisconnectFreesSlot`).

## 5. What is not modelled, and the plan

Left aside for good: formatting, rendering, shaping of dashboards, external SDK calls,
metrics, translations. `PROJECT.json` gives the reason for each component, and for what
of a component is left out.

To come, most important first:

1. `customer_scoped.py` in `Tenancy`, the bulk send's cache in `Consent`, signed URLs and
   the public store beside `Storage`.
2. Abstract specifications beside `EventDelivery` and `Batching`: what `Webhooks` promises (an event is
   processed once while the mark stands) and what `Storage` does (a map of keys), with
   their refinements.

Runs that would repeat the same question at another size are not added: new modules
share a run where they answer one question, as both queues of `Consumer` do.

## 6. Running

In this directory, `tlc -config MCOutbox_safety.cfg MCOutbox` checks one run (the list is
in `PROJECT.json`) and `tlapm OutboxProofs.tla` one module of proofs. Operators commented
as mutants are plausible bugs of the definition that follows them: put in its place, each
must break the property it is listed with.
