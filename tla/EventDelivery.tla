--------------------------- MODULE EventDelivery ---------------------------
(***************************************************************************)
(* What the transactional outbox promises to the services that publish     *)
(* through it, with none of its machinery: an event exists from the moment *)
(* its transaction commits, only an existing event is ever sent, it is     *)
(* sent at most MaxCopies times, and the library forgets it only after it  *)
(* has been sent.                                                          *)
(***************************************************************************)
EXTENDS Integers

CONSTANTS
    Events,      \* the events transactions may commit
    MaxCopies    \* how many copies of one event may ever go out, a natural number

VARIABLES
    accepted,    \* the events of committed transactions
    copies,      \* copies[e]: how often the broker was handed e
    forgotten    \* the events the database no longer holds

promise == <<accepted, copies, forgotten>>

Init ==
    /\ accepted = {}
    /\ copies = [e \in Events |-> 0]
    /\ forgotten = {}

\* A transaction that staged e commits.
Accept(e) ==
    /\ e \notin accepted
    /\ accepted' = accepted \cup {e}
    /\ UNCHANGED <<copies, forgotten>>

\* The broker takes one copy of e.
Send(e) ==
    /\ e \in accepted
    /\ copies[e] < MaxCopies
    /\ copies' = [copies EXCEPT ![e] = @ + 1]
    /\ UNCHANGED <<accepted, forgotten>>

\* Retention removes events that have been sent.
Forget(S) ==
    /\ S \subseteq accepted
    /\ \A e \in S : copies[e] > 0
    /\ forgotten' = forgotten \cup S
    /\ UNCHANGED <<accepted, copies>>

Next ==
    \/ \E e \in Events : Accept(e) \/ Send(e)
    \/ \E S \in SUBSET Events : Forget(S)

Spec == Init /\ [][Next]_promise
=============================================================================
