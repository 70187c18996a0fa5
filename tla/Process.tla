------------------------------ MODULE Process ------------------------------
(***************************************************************************)
(* What one service process does at a time: it lets requests in (Gateway), *)
(* commits their work and sends what the commits leave behind              *)
(* (UnitOfWork), and handles the messages of a queue (Consumer).           *)
(*                                                                         *)
(* The three share no state: what a request does with its session, and     *)
(* which message a commit sends, the next one's module takes in every      *)
(* combination. A behaviour walks one of them and leaves the others as     *)
(* they began.                                                             *)
(***************************************************************************)
EXTENDS Consumer, Gateway, UnitOfWork

VARIABLE part    \* the one that is walked

processVars == <<consumerVars, gatewayVars, vars, part>>

\* What is left alone begins in one way.
ProcessInit ==
    /\ part \in {"queue", "requests", "sessions"}
    /\ ConsumerInit /\ GatewayInit /\ Init
    /\ part # "queue" => ~requeueFailed
    /\ part # "requests" => \A r \in Requests : kind[r] = "read"
    /\ part # "sessions" => ~resolving /\ \A s \in Sessions : company[s] = ANY_COMPANY

ProcessNext ==
    /\ UNCHANGED part
    /\ \/ part = "queue" /\ ConsumerNext /\ UNCHANGED <<gatewayVars, vars>>
       \/ part = "requests" /\ GatewayNext /\ UNCHANGED <<consumerVars, vars>>
       \/ part = "sessions" /\ Next /\ UNCHANGED <<consumerVars, gatewayVars>>

ProcessSpec == ProcessInit /\ [][ProcessNext]_processVars

\* The fairness of each, where it is walked.
ProcessFairSpec ==
    /\ ProcessSpec
    /\ WF_consumerVars(part = "queue" /\ ConsumerStep)
    /\ \A r \in Requests : WF_gatewayVars(part = "requests" /\ CancelStep(r))
    /\ WF_vars(part = "sessions" /\ DrainStep)
=============================================================================
