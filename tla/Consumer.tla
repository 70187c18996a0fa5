------------------------------ MODULE Consumer ------------------------------
(***************************************************************************)
(* thecargo.events.consumer.start_consumer: one RabbitMQ queue and the     *)
(* handler runs its consumers start.                                       *)
(*                                                                         *)
(* The queue hands out the oldest queued message while fewer than PREFETCH *)
(* are unacknowledged, so several handler runs overlap. A run that raises  *)
(* sends the message back or drops it. When a connection is lost the       *)
(* broker queues its unacknowledged messages again, in their old places    *)
(* and marked redelivered; the runs on them go on, unless the process died *)
(* too, and what they then answer no longer counts.                        *)
(***************************************************************************)
EXTENDS Integers, FiniteSets

CONSTANTS
    NumMessages,    \* messages are 1 .. NumMessages, in queue order
    PREFETCH,       \* prefetch_count
    MaxLosses       \* bound on lost connections and dead consumers

ASSUME ConsumerAssumption ==
    /\ NumMessages \in Nat
    /\ PREFETCH \in Nat \ {0}
    /\ MaxLosses \in Nat

Messages == 1 .. NumMessages

VARIABLES
    requeueFailed,  \* requeue_failed, for good: both kinds of queue are behaviours
    place,     \* place[m]: where the broker has message m
    tries,     \* tries[m]: how often m was delivered
    runs,      \* the handler runs under way
    works,     \* works[m]: how many runs on m took effect
    raises,    \* raises[m]: how many runs on m raised
    losses     \* connections lost so far

consumerVars == <<requeueFailed, place, tries, runs, works, raises, losses>>

\* A message is "unsent", "queued", "unacked" or "gone"; a run is a record [msg, try, phase].
ConsumerInit ==
    /\ requeueFailed \in BOOLEAN
    /\ place = [m \in Messages |-> "unsent"]
    /\ tries = [m \in Messages |-> 0]
    /\ runs = {}
    /\ works = [m \in Messages |-> 0]
    /\ raises = [m \in Messages |-> 0]
    /\ losses = 0

----------------------------------------------------------------------------
Unacked == {m \in Messages : place[m] = "unacked"}

\* The broker still waits for the answer of this run.
Answers(run) == place[run.msg] = "unacked" /\ tries[run.msg] = run.try

\* message.redelivered as the run sees it.
Redelivered(run) == run.try > 1

\* Mutant: any failure goes back.
SendsBackAlways(run) == run.phase = "raised" /\ requeueFailed

SendsBack(run) == run.phase = "raised" /\ requeueFailed /\ ~Redelivered(run)

Become(run, phase) == runs' = (runs \ {run}) \cup {[run EXCEPT !.phase = phase]}

----------------------------------------------------------------------------
Enqueue(m) ==
    /\ place[m] = "unsent"
    /\ \A q \in Messages : q < m => place[q] # "unsent"
    /\ place' = [place EXCEPT ![m] = "queued"]
    /\ UNCHANGED <<requeueFailed, tries, runs, works, raises, losses>>

Deliver(m) ==
    /\ place[m] = "queued"
    /\ \A q \in Messages : q < m => place[q] # "queued"
    /\ Cardinality(Unacked) < PREFETCH
    /\ place' = [place EXCEPT ![m] = "unacked"]
    /\ tries' = [tries EXCEPT ![m] = @ + 1]
    /\ runs' = runs \cup {[msg |-> m, try |-> tries[m] + 1, phase |-> "handling"]}
    /\ UNCHANGED <<requeueFailed, works, raises, losses>>

HandlerSurvives(run) ==
    /\ run.phase = "handling"
    /\ Become(run, "survived")
    /\ works' = [works EXCEPT ![run.msg] = @ + 1]
    /\ UNCHANGED <<requeueFailed, place, tries, raises, losses>>

\* The handler raised, before or after its work took effect.
HandlerRaises(run) ==
    /\ run.phase = "handling"
    /\ Become(run, "raised")
    /\ raises' = [raises EXCEPT ![run.msg] = @ + 1]
    /\ \/ UNCHANGED works
       \/ works' = [works EXCEPT ![run.msg] = @ + 1]
    /\ UNCHANGED <<requeueFailed, place, tries, losses>>

\* reject(requeue=True), after requeue_delay.
SendBack(run) ==
    /\ SendsBack(run)
    /\ runs' = runs \ {run}
    /\ place' = IF Answers(run) THEN [place EXCEPT ![run.msg] = "queued"] ELSE place
    /\ UNCHANGED <<requeueFailed, tries, works, raises, losses>>

\* Mutant of Ack: the branch that drops a failed message returns without it.
AckOnlySurvivors(run) ==
    /\ run.phase # "handling"
    /\ ~SendsBack(run)
    /\ runs' = runs \ {run}
    /\ place' = IF Answers(run) /\ run.phase = "survived"
                THEN [place EXCEPT ![run.msg] = "gone"] ELSE place
    /\ UNCHANGED <<requeueFailed, tries, works, raises, losses>>

Ack(run) ==
    /\ run.phase # "handling"
    /\ ~SendsBack(run)
    /\ runs' = runs \ {run}
    /\ place' = IF Answers(run) THEN [place EXCEPT ![run.msg] = "gone"] ELSE place
    /\ UNCHANGED <<requeueFailed, tries, works, raises, losses>>

\* The connection that held the messages S is lost; alive says whether the
\* process behind it, and so the runs on S, survive.
LoseConnection(S, alive) ==
    /\ losses < MaxLosses
    /\ losses' = losses + 1
    /\ place' = [m \in Messages |-> IF m \in S THEN "queued" ELSE place[m]]
    /\ runs' = IF alive THEN runs ELSE {run \in runs : run.msg \notin S}
    /\ UNCHANGED <<requeueFailed, tries, works, raises>>

----------------------------------------------------------------------------
ConsumerStep ==
    \/ \E m \in Messages : Deliver(m)
    \/ \E run \in runs : HandlerSurvives(run) \/ HandlerRaises(run) \/ SendBack(run) \/ Ack(run)

ConsumerNext ==
    \/ \E m \in Messages : Enqueue(m)
    \/ ConsumerStep
    \/ \E S \in SUBSET Unacked \ {{}}, alive \in BOOLEAN : LoseConnection(S, alive)

ConsumerSpec == ConsumerInit /\ [][ConsumerNext]_consumerVars

\* The broker delivers, and every handler run ends.
ConsumerFairSpec == ConsumerSpec /\ WF_consumerVars(ConsumerStep)

----------------------------------------------------------------------------
(* Properties. *)

\* A message the consumer has taken leaves the queue only after a handler run
\* on it came to its end: no crash or lost connection makes one disappear.
GoneOnlyWhenHandled ==
    \A m \in Messages : place[m] = "gone" => works[m] + raises[m] > 0

\* Every message the broker has handed out is owed one answer, by one run: no
\* message is left unacknowledged with nobody to answer for it, and no two runs
\* on it, of a connection before and one after, are both heard.
OneRunOwes ==
    \A m \in Unacked : Cardinality({run \in runs : run.msg = m /\ Answers(run)}) = 1

MessagesAreAnswered == GoneOnlyWhenHandled /\ OneRunOwes

\* A message the handler can never process does not spin: it is delivered
\* twice, and once more for each lost connection; and it takes effect more than
\* once only after such a loss or, on a queue that asked for it, in the one
\* repeat after a run that raised.
TriesAreBounded ==
    \A m \in Messages :
        /\ tries[m] <= 2 + losses
        /\ works[m] <= 1 + losses + (IF requeueFailed /\ raises[m] > 0 THEN 1 ELSE 0)

\* Every message that reaches the queue is dealt with in the end.
QueueDrains ==
    \A m \in Messages : place[m] = "queued" ~> place[m] = "gone"

\* What start_consumer's docstring says of requeue_failed: a handler that raises
\* sends the message back once, and a second failure drops it.
SecondFailureDrops ==
    requeueFailed => \A m \in Messages :
        place[m] = "gone" /\ works[m] = 0 => raises[m] >= 2
=============================================================================
