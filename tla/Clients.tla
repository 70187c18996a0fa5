------------------------------ MODULE Clients ------------------------------
(***************************************************************************)
(* thecargo.clickhouse, clients.service and mongodb: the connections a     *)
(* process keeps, each bound to the event loop that made it.               *)
(*                                                                         *)
(* Loops run one after another, as Celery tasks under asyncio.run do, and  *)
(* the tasks of a loop interleave at their awaits. ClickHouse has a client *)
(* for each loop and an asynchronous generator that closes it when the     *)
(* loop shuts its generators down; the pooled HTTP client and the MongoDB  *)
(* client are one variable each.                                           *)
(***************************************************************************)
EXTENDS Naturals, FiniteSets

CONSTANTS
    Tasks,
    MaxLoops,      \* bound on the loops of the process
    MaxClients     \* bound on the clients it makes

VARIABLES
    loop,        \* the loop that runs, or ran last
    running,     \* it runs
    clients,     \* _clients: loop -> its ClickHouse client, where it has one
    closers,     \* _closers: the loops with a generator
    shared,      \* _shared of the service clients
    mongo,       \* _client of MongoDB
    open,        \* every client that is open: [sort, loop, n]
    made,        \* how many clients were made
    task,        \* task -> what it awaits
    given,       \* task -> the client it was given, or NoClient
    lost         \* ghost: clients whose place was taken by another, or whose init was cancelled

resources == <<clients, closers, shared, mongo, open, made, lost>>
clientVars == <<loop, running, resources, task, given>>

NoClient == [sort |-> "none", loop |-> 0, n |-> 0]
Client(sort) == [sort |-> sort, loop |-> loop, n |-> made + 1]

ClientsInit ==
    /\ loop = 1 /\ running = TRUE
    /\ clients = [l \in {} |-> NoClient] /\ closers = {}
    /\ shared = NoClient /\ mongo = NoClient
    /\ open = {} /\ made = 0
    /\ task = [t \in Tasks |-> "idle"] /\ given = [t \in Tasks |-> NoClient]
    /\ lost = {}

Without(l) == [k \in DOMAIN clients \ {l} |-> clients[k]]

Make(c) ==
    /\ made < MaxClients /\ made' = made + 1
    /\ open' = open \union {c}

----------------------------------------------------------------------------
(* ClickHouse. *)

\* get_client up to its await: what closed loops left behind is dropped, then
\* the loop's client is returned, or one is asked for.
GetClient(t) ==
    /\ running /\ task[t] = "idle"
    /\ closers' = closers \intersect {loop}
    /\ clients' = [l \in DOMAIN clients \ (closers \ {loop}) |-> clients[l]]
    /\ IF loop \in DOMAIN clients
       THEN given' = [given EXCEPT ![t] = clients[loop]] /\ UNCHANGED task
       ELSE task' = [task EXCEPT ![t] = "connects"] /\ UNCHANGED given
    /\ UNCHANGED <<loop, running, shared, mongo, open, made, lost>>

\* Mutant: a new client alone gets no generator.
ConnectedNoCloser(t) ==
    /\ task[t] = "connects"
    /\ LET c == Client("clickhouse") IN
          /\ Make(c)
          /\ clients' = [l \in DOMAIN clients \union {loop} |-> IF l = loop THEN c ELSE clients[l]]
          /\ lost' = lost \union (IF loop \in DOMAIN clients THEN {clients[loop]} ELSE {})
          /\ given' = [given EXCEPT ![t] = c]
    /\ task' = [task EXCEPT ![t] = "idle"]
    /\ UNCHANGED <<loop, running, closers, shared, mongo>>

\* ... and the rest of it, once the client is connected.
Connected(t) ==
    /\ task[t] = "connects"
    /\ LET c == Client("clickhouse") IN
          /\ Make(c)
          /\ clients' = [l \in DOMAIN clients \union {loop} |-> IF l = loop THEN c ELSE clients[l]]
          /\ lost' = lost \union (IF loop \in DOMAIN clients THEN {clients[loop]} ELSE {})
          /\ given' = [given EXCEPT ![t] = c]
    /\ closers' = closers \union {loop}
    /\ task' = [task EXCEPT ![t] = "idle"]
    /\ UNCHANGED <<loop, running, shared, mongo>>

ConnectFails(t) ==
    /\ task[t] = "connects"
    /\ task' = [task EXCEPT ![t] = "idle"]
    /\ UNCHANGED <<loop, running, resources, given>>

\* close_clickhouse: the loop's client leaves the map and is closed; whoever
\* was given it may not use it any more.
CloseClickhouse(t) ==
    /\ running /\ task[t] = "idle" /\ loop \in DOMAIN clients
    /\ clients' = Without(loop)
    /\ open' = open \ {clients[loop]}
    /\ given' = [s \in Tasks |-> IF given[s] = clients[loop] THEN NoClient ELSE given[s]]
    /\ UNCHANGED <<loop, running, closers, shared, mongo, made, lost, task>>

\* asyncio.run ends: its tasks are cancelled, the generator, if there is one,
\* closes the loop's client, and the loop is closed. init_mongo closes its client
\* for an Exception, which a cancellation is not.
LoopEnds ==
    /\ running /\ running' = FALSE
    /\ task' = [t \in Tasks |-> "idle"] /\ given' = [t \in Tasks |-> NoClient]
    /\ IF loop \in closers /\ loop \in DOMAIN clients
       THEN clients' = Without(loop) /\ open' = open \ {clients[loop]}
       ELSE UNCHANGED <<clients, open>>
    /\ lost' = lost \union {given[t] : t \in {s \in Tasks : task[s] = "pings"}}
    /\ UNCHANGED <<loop, closers, shared, mongo, made>>

LoopStarts ==
    /\ ~running /\ loop < MaxLoops
    /\ running' = TRUE /\ loop' = loop + 1
    /\ UNCHANGED <<resources, task, given>>

----------------------------------------------------------------------------
(* The pooled HTTP client and MongoDB. *)

Usable == shared.loop = loop /\ shared \in open

\* shared_client, which awaits nothing.
SharedClient(t) ==
    /\ running /\ task[t] = "idle"
    /\ IF Usable
       THEN /\ given' = [given EXCEPT ![t] = shared]
            /\ UNCHANGED <<shared, open, made, lost>>
       ELSE LET c == Client("http") IN
            /\ Make(c) /\ shared' = c
            /\ lost' = lost \union ({shared} \ {NoClient})
            /\ given' = [given EXCEPT ![t] = c]
    /\ UNCHANGED <<loop, running, clients, closers, mongo, task>>

\* init_mongo up to its await; a second call returns at once.
InitMongo(t) ==
    /\ running /\ task[t] = "idle" /\ mongo = NoClient
    /\ task' = [task EXCEPT ![t] = "pings"]
    /\ LET c == Client("mongo") IN Make(c) /\ given' = [given EXCEPT ![t] = c]
    /\ UNCHANGED <<loop, running, clients, closers, shared, mongo, lost>>

\* The ping succeeded and the models are registered; or not, and the client is closed.
MongoAnswers(t) ==
    /\ task[t] = "pings"
    /\ task' = [task EXCEPT ![t] = "idle"]
    /\ \/ /\ mongo' = given[t] /\ lost' = lost \union ({mongo} \ {NoClient})
          /\ UNCHANGED <<open, given>>
       \/ /\ open' = open \ {given[t]} /\ given' = [given EXCEPT ![t] = NoClient]
          /\ UNCHANGED <<mongo, lost>>
    /\ UNCHANGED <<loop, running, clients, closers, shared, made>>

\* get_client of mongodb: the one client, whatever loop made it.
GetMongo(t) ==
    /\ running /\ task[t] = "idle" /\ mongo # NoClient
    /\ given' = [given EXCEPT ![t] = mongo]
    /\ UNCHANGED <<loop, running, resources, task>>

CloseMongo ==
    /\ running /\ mongo # NoClient
    /\ open' = open \ {mongo} /\ mongo' = NoClient
    /\ given' = [s \in Tasks |-> IF given[s] = mongo THEN NoClient ELSE given[s]]
    /\ UNCHANGED <<loop, running, clients, closers, shared, made, lost, task>>

ClientsNext ==
    \/ \E t \in Tasks :
          \/ GetClient(t) \/ Connected(t) \/ ConnectFails(t) \/ CloseClickhouse(t)
          \/ SharedClient(t) \/ InitMongo(t) \/ MongoAnswers(t) \/ GetMongo(t)
    \/ LoopEnds \/ LoopStarts \/ CloseMongo

ClientsSpec == ClientsInit /\ [][ClientsNext]_clientVars

----------------------------------------------------------------------------
(* Properties. *)

\* A task is given a client that is open and, MongoDB's aside, one of the loop it
\* runs in.
ClientsBelong ==
    \A t \in Tasks : given[t] # NoClient =>
        given[t] \in open /\ (given[t].sort = "mongo" \/ given[t].loop = loop)

\* No client is lost sight of: each one that is open is in its variable, or about
\* to be put there, unless its place was taken, as when two tasks connect at a
\* time, or it was being initialised when its loop ended; and a ClickHouse client
\* outlives its loop only so.
ClientsAreClosed ==
    \A c \in open \ lost :
        \/ c.sort = "clickhouse" /\ running /\ c.loop = loop /\ clients[loop] = c
        \/ c = shared \/ c = mongo
        \/ \E t \in Tasks : given[t] = c /\ task[t] = "pings"

\* The clients of a process are kept right: nobody is given one of another loop or
\* one that is closed, and none stays open that nobody can reach.
ClientsAreKept == ClientsBelong /\ ClientsAreClosed
=============================================================================
