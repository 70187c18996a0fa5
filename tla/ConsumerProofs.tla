--------------------------- MODULE ConsumerProofs ---------------------------
(***************************************************************************)
(* What Consumer promises, for any number of messages, any prefetch and    *)
(* any number of lost connections.                                         *)
(***************************************************************************)
EXTENDS Consumer, FiniteSetTheorems, TLAPS

Places == {"unsent", "queued", "unacked", "gone"}
Runs == [msg : Messages, try : Nat, phase : {"handling", "survived", "raised"}]

ConsumerTypes ==
    /\ requeueFailed \in BOOLEAN
    /\ place \in [Messages -> Places]
    /\ tries \in [Messages -> Nat]
    /\ runs \subseteq Runs
    /\ works \in [Messages -> Nat]
    /\ raises \in [Messages -> Nat]
    /\ losses \in Nat

\* A run that has ended left its mark.
EndedRunsCount ==
    \A run \in runs :
        /\ run.phase = "survived" => works[run.msg] > 0
        /\ run.phase = "raised" => raises[run.msg] > 0

\* What a repeat on the queue's own account may add to the deliveries of m.
Repeats(m) == IF requeueFailed /\ raises[m] > 0 THEN 1 ELSE 0

\* Whoever waits in the queue a second time has a loss or a repeat to show for it.
DeliveriesHaveCause ==
    \A m \in Messages :
        /\ place[m] = "unsent" => tries[m] = 0
        /\ place[m] = "queued" => tries[m] <= losses + Repeats(m)
        /\ tries[m] <= 1 + losses + Repeats(m)

\* The runs on m that may still take effect.
Handling(m) == {run \in runs : run.msg = m /\ run.phase = "handling"}

\* A delivery takes effect once at most.
OneEffectEach ==
    /\ IsFiniteSet(runs)
    /\ \A m \in Messages : works[m] + Cardinality(Handling(m)) <= tries[m]

ConsumerInv ==
    /\ ConsumerTypes
    /\ EndedRunsCount
    /\ DeliveriesHaveCause
    /\ OneEffectEach
    /\ GoneOnlyWhenHandled

----------------------------------------------------------------------------
\* One more member, one less: what it does to the size of a finite set.
LEMMA OneMore ==
    ASSUME NEW T, IsFiniteSet(T), NEW x, NEW U, U = T \cup {x}
    PROVE  /\ IsFiniteSet(U) /\ Cardinality(U) \in Nat
           /\ Cardinality(U) <= Cardinality(T) + 1
<1>1. IsFiniteSet(U) /\ (Cardinality(U) = Cardinality(T) \/ Cardinality(U) = Cardinality(T) + 1)
  BY FS_AddElement
<1>2. Cardinality(T) \in Nat
  BY FS_CardinalityType
<1> QED
  BY <1>1, <1>2

LEMMA OneLess ==
    ASSUME NEW T, IsFiniteSet(T), NEW x \in T, NEW U, U = T \ {x}
    PROVE  IsFiniteSet(U) /\ Cardinality(U) \in Nat /\ Cardinality(U) + 1 = Cardinality(T)
<1>1. IsFiniteSet(U) /\ Cardinality(U) = Cardinality(T) - 1
  BY FS_RemoveElement
<1>2. Cardinality(T) \in Nat /\ Cardinality(U) \in Nat
  BY <1>1, FS_CardinalityType
<1> QED
  BY <1>1, <1>2

\* The sets of runs are as finite as runs, and fewer runs are no more.
LEMMA HandlingIsFinite ==
    ASSUME IsFiniteSet(runs), NEW m \in Messages
    PROVE  IsFiniteSet(Handling(m)) /\ Cardinality(Handling(m)) \in Nat
<1>1. Handling(m) \subseteq runs
  BY DEF Handling
<1> QED
  BY <1>1, FS_Subset, FS_CardinalityType

LEMMA FewerRunsKeepOneEffect ==
    ASSUME OneEffectEach, ConsumerTypes, runs' \subseteq runs, UNCHANGED <<works, tries>>
    PROVE  OneEffectEach'
<1>1. IsFiniteSet(runs')
  BY FS_Subset DEF OneEffectEach
<1>2. ASSUME NEW m \in Messages
      PROVE  works'[m] + Cardinality(Handling(m)') <= tries'[m]
  <2>1. Handling(m)' \subseteq Handling(m)
    BY DEF Handling
  <2>2. IsFiniteSet(Handling(m)) /\ Cardinality(Handling(m)) \in Nat
    BY HandlingIsFinite DEF OneEffectEach
  <2>3. IsFiniteSet(Handling(m)') /\ Cardinality(Handling(m)') <= Cardinality(Handling(m))
    BY <2>1, <2>2, FS_Subset
  <2>4. Cardinality(Handling(m)') \in Nat
    BY <2>3, FS_CardinalityType
  <2>5. works[m] + Cardinality(Handling(m)) <= tries[m] /\ works[m] \in Nat /\ tries[m] \in Nat
    BY DEF OneEffectEach, ConsumerTypes
  <2> QED
    BY <2>2, <2>3, <2>4, <2>5
<1> QED
  BY <1>1, <1>2 DEF OneEffectEach

LEMMA ConsumerInitInv == ConsumerInit => ConsumerInv
<1> SUFFICES ASSUME ConsumerInit PROVE ConsumerInv
  OBVIOUS
<1>1. ConsumerTypes /\ EndedRunsCount /\ DeliveriesHaveCause /\ GoneOnlyWhenHandled
  BY DEF ConsumerInit, ConsumerTypes, Places, EndedRunsCount, DeliveriesHaveCause, Repeats, GoneOnlyWhenHandled
<1>2. OneEffectEach
  <2>1. \A m \in Messages : Handling(m) = {}
    BY DEF ConsumerInit, Handling
  <2> QED
    BY <2>1, FS_EmptySet DEF ConsumerInit, OneEffectEach
<1> QED
  BY <1>1, <1>2 DEF ConsumerInv

LEMMA EnqueueKeepsInv ==
    ASSUME ConsumerInv, NEW m \in Messages, Enqueue(m)
    PROVE  ConsumerInv'
<1> USE DEF ConsumerInv, ConsumerTypes, Enqueue
<1>1. ConsumerTypes' /\ EndedRunsCount' /\ GoneOnlyWhenHandled'
  BY DEF Places, EndedRunsCount, GoneOnlyWhenHandled
<1>2. DeliveriesHaveCause'
  BY DEF DeliveriesHaveCause, Repeats
<1>3. OneEffectEach'
  BY DEF OneEffectEach, Handling
<1> QED
  BY <1>1, <1>2, <1>3

LEMMA DeliverKeepsInv ==
    ASSUME ConsumerInv, NEW m \in Messages, Deliver(m)
    PROVE  ConsumerInv'
<1> DEFINE new == [msg |-> m, try |-> tries[m] + 1, phase |-> "handling"]
<1> USE DEF ConsumerInv, ConsumerTypes, Deliver
<1>1. new \in Runs /\ runs' = runs \cup {new}
  BY DEF Runs
<1>2. ConsumerTypes'
  BY <1>1 DEF Places
<1>3. EndedRunsCount'
  BY <1>1 DEF EndedRunsCount
<1>4. GoneOnlyWhenHandled'
  BY DEF GoneOnlyWhenHandled, Places
<1>5. DeliveriesHaveCause'
  BY DEF DeliveriesHaveCause, Repeats
<1>6. OneEffectEach'
  <2>1. IsFiniteSet(runs')
    <3>1. IsFiniteSet(runs)
      BY DEF OneEffectEach
    <3> QED
      BY ONLY <1>1, <3>1, OneMore
  <2>2. ASSUME NEW q \in Messages
        PROVE  works'[q] + Cardinality(Handling(q)') <= tries'[q]
    <3>1. IsFiniteSet(Handling(q)) /\ Cardinality(Handling(q)) \in Nat
      BY HandlingIsFinite DEF OneEffectEach
    <3>2. CASE q = m
      <4>1. Handling(q)' = Handling(q) \cup {new}
        BY <1>1, <3>2 DEF Handling
      <4>2. Cardinality(Handling(q)') \in Nat /\ Cardinality(Handling(q)') <= Cardinality(Handling(q)) + 1
        BY ONLY <3>1, <4>1, OneMore
      <4> QED
        BY <3>1, <3>2, <4>2 DEF OneEffectEach
    <3>3. CASE q # m
      <4>1. Handling(q)' = Handling(q)
        BY <1>1, <3>3 DEF Handling
      <4> QED
        BY <3>1, <3>3, <4>1 DEF OneEffectEach
    <3> QED
      BY <3>2, <3>3
  <2> QED
    BY <2>1, <2>2 DEF OneEffectEach
<1> QED
  BY <1>2, <1>3, <1>4, <1>5, <1>6

\* A run that ends is no longer among those that may take effect, so its effect
\* is paid for.
LEMMA EndedRunHandlesNoMore ==
    ASSUME ConsumerInv, NEW run \in runs, run.phase = "handling",
           NEW phase \in {"survived", "raised"}, Become(run, phase)
    PROVE  /\ runs' \subseteq Runs /\ IsFiniteSet(runs')
           /\ Cardinality(Handling(run.msg)') + 1 = Cardinality(Handling(run.msg))
           /\ \A q \in Messages \ {run.msg} : Handling(q)' = Handling(q)
<1> DEFINE ended == [run EXCEPT !.phase = phase]
<1> USE DEF ConsumerInv, ConsumerTypes, OneEffectEach
<1>1. ended \in Runs /\ ended.msg = run.msg /\ ended.phase = phase /\ run \in Runs
  BY DEF Runs
<1>2. runs' = (runs \ {run}) \cup {ended}
  BY DEF Become
<1>3. IsFiniteSet(runs')
  BY <1>2, FS_RemoveElement, FS_AddElement
<1>4. Handling(run.msg)' = Handling(run.msg) \ {run}
  BY <1>1, <1>2 DEF Handling
<1>5. run \in Handling(run.msg) /\ run.msg \in Messages
  BY <1>1 DEF Handling, Runs
<1>6. IsFiniteSet(Handling(run.msg))
  BY <1>5, HandlingIsFinite
<1>7. Cardinality(Handling(run.msg)') + 1 = Cardinality(Handling(run.msg))
  BY ONLY <1>4, <1>5, <1>6, OneLess
<1>8. \A q \in Messages \ {run.msg} : Handling(q)' = Handling(q)
  BY <1>1, <1>2 DEF Handling
<1> QED
  BY <1>1, <1>2, <1>3, <1>7, <1>8

LEMMA HandlerSurvivesKeepsInv ==
    ASSUME ConsumerInv, NEW run \in runs, HandlerSurvives(run)
    PROVE  ConsumerInv'
<1> USE DEF ConsumerInv, ConsumerTypes, HandlerSurvives
<1>1. run \in Runs /\ run.msg \in Messages
  BY DEF Runs
<1>2. /\ runs' \subseteq Runs /\ IsFiniteSet(runs')
      /\ Cardinality(Handling(run.msg)') + 1 = Cardinality(Handling(run.msg))
      /\ \A q \in Messages \ {run.msg} : Handling(q)' = Handling(q)
  BY EndedRunHandlesNoMore
<1>3. ConsumerTypes'
  BY <1>1, <1>2
<1>4. EndedRunsCount'
  <2>1. \A q \in runs' : q \in runs \/ (q.msg = run.msg /\ q.phase = "survived")
    BY <1>1 DEF Become, Runs
  <2>2. \A q \in runs' : q.msg \in Messages
    BY <1>2 DEF Runs
  <2> QED
    BY <1>1, <2>1, <2>2 DEF EndedRunsCount
<1>5. GoneOnlyWhenHandled'
  BY <1>1 DEF GoneOnlyWhenHandled
<1>6. DeliveriesHaveCause'
  BY DEF DeliveriesHaveCause, Repeats
<1>7. OneEffectEach'
  <2>1. \A q \in Messages : Cardinality(Handling(q)) \in Nat /\ Cardinality(Handling(q)') \in Nat
    BY <1>2, HandlingIsFinite, FS_Subset, FS_CardinalityType DEF OneEffectEach, Handling
  <2> QED
    BY <1>1, <1>2, <2>1 DEF OneEffectEach
<1> QED
  BY <1>3, <1>4, <1>5, <1>6, <1>7

LEMMA HandlerRaisesKeepsInv ==
    ASSUME ConsumerInv, NEW run \in runs, HandlerRaises(run)
    PROVE  ConsumerInv'
<1> USE DEF ConsumerInv, ConsumerTypes, HandlerRaises
<1>1. run \in Runs /\ run.msg \in Messages
  BY DEF Runs
<1>2. /\ runs' \subseteq Runs /\ IsFiniteSet(runs')
      /\ Cardinality(Handling(run.msg)') + 1 = Cardinality(Handling(run.msg))
      /\ \A q \in Messages \ {run.msg} : Handling(q)' = Handling(q)
  BY EndedRunHandlesNoMore
<1>3. ConsumerTypes' /\ \A q \in Messages : works'[q] >= works[q] /\ raises'[q] >= raises[q]
  BY <1>1, <1>2
<1>4. EndedRunsCount'
  <2>1. \A q \in runs' : q \in runs \/ (q.msg = run.msg /\ q.phase = "raised")
    BY <1>1 DEF Become, Runs
  <2>2. \A q \in runs' : q.msg \in Messages
    BY <1>2 DEF Runs
  <2> QED
    BY <1>1, <1>3, <2>1, <2>2 DEF EndedRunsCount
<1>5. GoneOnlyWhenHandled'
  BY <1>3 DEF GoneOnlyWhenHandled
<1>6. DeliveriesHaveCause'
  <2>1. \A q \in Messages : Repeats(q) \in {0, 1} /\ Repeats(q)' \in {0, 1} /\ Repeats(q) <= Repeats(q)'
    BY <1>3 DEF Repeats
  <2> QED
    BY <2>1 DEF DeliveriesHaveCause
<1>7. OneEffectEach'
  <2>1. \A q \in Messages : Cardinality(Handling(q)) \in Nat /\ Cardinality(Handling(q)') \in Nat
    BY <1>2, HandlingIsFinite, FS_Subset, FS_CardinalityType DEF OneEffectEach, Handling
  <2> QED
    BY <1>1, <1>2, <2>1 DEF OneEffectEach
<1> QED
  BY <1>3, <1>4, <1>5, <1>6, <1>7

LEMMA SendBackKeepsInv ==
    ASSUME ConsumerInv, NEW run \in runs, SendBack(run)
    PROVE  ConsumerInv'
<1> USE DEF ConsumerInv, ConsumerTypes, SendBack
<1>1. run \in Runs /\ run.msg \in Messages /\ run.try \in Nat
  BY DEF Runs
<1>2. ConsumerTypes'
  BY DEF Places
<1>3. EndedRunsCount' /\ GoneOnlyWhenHandled'
  BY <1>1 DEF EndedRunsCount, GoneOnlyWhenHandled
<1>4. DeliveriesHaveCause'
  <2>1. Answers(run) => tries[run.msg] <= 1 /\ Repeats(run.msg) = 1
    BY <1>1 DEF Answers, SendsBack, Redelivered, EndedRunsCount, Repeats
  <2>2. \A q \in Messages : Repeats(q)' = Repeats(q)
    BY DEF Repeats
  <2>3. ASSUME NEW q \in Messages
        PROVE  /\ place'[q] = "unsent" => tries'[q] = 0
               /\ place'[q] = "queued" => tries'[q] <= losses' + Repeats(q)'
               /\ tries'[q] <= 1 + losses' + Repeats(q)'
    <3>1. Repeats(q) \in {0, 1}
      BY DEF Repeats
    <3> QED
      BY <1>1, <2>1, <2>2, <3>1 DEF DeliveriesHaveCause
  <2> QED
    BY <2>3 DEF DeliveriesHaveCause
<1>5. OneEffectEach'
  BY FewerRunsKeepOneEffect
<1> QED
  BY <1>2, <1>3, <1>4, <1>5

LEMMA AckKeepsInv ==
    ASSUME ConsumerInv, NEW run \in runs, Ack(run)
    PROVE  ConsumerInv'
<1> USE DEF ConsumerInv, ConsumerTypes, Ack
<1>1. run \in Runs /\ run.msg \in Messages
  BY DEF Runs
<1>2. ConsumerTypes'
  BY DEF Places
<1>3. EndedRunsCount'
  BY DEF EndedRunsCount
<1>4. GoneOnlyWhenHandled'
  <2>1. works[run.msg] + raises[run.msg] > 0
    BY <1>1 DEF EndedRunsCount, Runs
  <2> QED
    BY <1>1, <2>1 DEF GoneOnlyWhenHandled
<1>5. DeliveriesHaveCause'
  BY <1>1 DEF DeliveriesHaveCause, Repeats
<1>6. OneEffectEach'
  BY FewerRunsKeepOneEffect
<1> QED
  BY <1>2, <1>3, <1>4, <1>5, <1>6

\* A loss puts back only messages that were out, and it is counted.
LEMMA LoseConnectionKeepsInv ==
    ASSUME ConsumerInv, NEW S \in SUBSET Unacked, NEW alive \in BOOLEAN, LoseConnection(S, alive)
    PROVE  ConsumerInv'
<1> USE DEF ConsumerInv, ConsumerTypes, LoseConnection
<1>1. S \subseteq Messages /\ \A m \in S : place[m] = "unacked"
  BY DEF Unacked
<1>2. runs' \subseteq runs
  OBVIOUS
<1>3. ConsumerTypes'
  BY DEF Places
<1>4. EndedRunsCount' /\ GoneOnlyWhenHandled'
  BY <1>2 DEF EndedRunsCount, GoneOnlyWhenHandled
<1>5. DeliveriesHaveCause'
  <2>1. \A q \in Messages : Repeats(q)' = Repeats(q) /\ Repeats(q) \in {0, 1}
    BY DEF Repeats
  <2> QED
    BY <1>1, <2>1 DEF DeliveriesHaveCause
<1>6. OneEffectEach'
  BY <1>2, FewerRunsKeepOneEffect
<1> QED
  BY <1>3, <1>4, <1>5, <1>6

----------------------------------------------------------------------------
LEMMA ConsumerNextInv == ConsumerInv /\ [ConsumerNext]_consumerVars => ConsumerInv'
<1> SUFFICES ASSUME ConsumerInv, [ConsumerNext]_consumerVars PROVE ConsumerInv'
  OBVIOUS
<1>1. ASSUME NEW m \in Messages, Enqueue(m) PROVE ConsumerInv'
  BY <1>1, EnqueueKeepsInv
<1>2. ASSUME NEW m \in Messages, Deliver(m) PROVE ConsumerInv'
  BY <1>2, DeliverKeepsInv
<1>3. ASSUME NEW run \in runs, HandlerSurvives(run) PROVE ConsumerInv'
  BY <1>3, HandlerSurvivesKeepsInv
<1>4. ASSUME NEW run \in runs, HandlerRaises(run) PROVE ConsumerInv'
  BY <1>4, HandlerRaisesKeepsInv
<1>5. ASSUME NEW run \in runs, SendBack(run) PROVE ConsumerInv'
  BY <1>5, SendBackKeepsInv
<1>6. ASSUME NEW run \in runs, Ack(run) PROVE ConsumerInv'
  BY <1>6, AckKeepsInv
<1>7. ASSUME NEW S \in SUBSET Unacked, NEW alive \in BOOLEAN, LoseConnection(S, alive) PROVE ConsumerInv'
  BY <1>7, LoseConnectionKeepsInv
<1>8. CASE UNCHANGED consumerVars
  BY <1>8 DEF consumerVars, ConsumerInv, ConsumerTypes, EndedRunsCount, DeliveriesHaveCause, Repeats,
     OneEffectEach, Handling, GoneOnlyWhenHandled
<1> QED
  BY <1>1, <1>2, <1>3, <1>4, <1>5, <1>6, <1>7, <1>8 DEF ConsumerNext, ConsumerStep

LEMMA ConsumerAlwaysInv == ConsumerSpec => []ConsumerInv
BY ConsumerInitInv, ConsumerNextInv, PTL DEF ConsumerSpec

----------------------------------------------------------------------------
(* Who answers for a message. *)

\* The strengthening of OneRunOwes: no run is of a delivery yet to come, no two
\* are of the same one, and one is there for whatever is out.
RunsOfDeliveries ==
    /\ \A run \in runs : run.try <= tries[run.msg]
    /\ \A run, other \in runs : run.msg = other.msg /\ run.try = other.try => run = other
    /\ \A m \in Messages : place[m] = "unacked" => \E run \in runs : run.msg = m /\ run.try = tries[m]

LEMMA DeliverKeepsRuns ==
    ASSUME ConsumerTypes, RunsOfDeliveries, NEW m \in Messages, Deliver(m)
    PROVE  RunsOfDeliveries'
<1> DEFINE new == [msg |-> m, try |-> tries[m] + 1, phase |-> "handling"]
<1>1. runs' = runs \cup {new} /\ new.msg = m /\ new.try = tries[m] + 1
  BY DEF Deliver
<1>2. /\ tries' = [tries EXCEPT ![m] = @ + 1] /\ place' = [place EXCEPT ![m] = "unacked"]
      /\ \A q \in Messages : tries[q] \in Nat
      /\ DOMAIN tries = Messages /\ DOMAIN place = Messages
      /\ \A run \in runs : run.msg \in Messages /\ run.try \in Nat
  BY DEF Deliver, ConsumerTypes, Runs
<1> HIDE DEF new
<1>3. \A run \in runs' : run.try <= tries'[run.msg]
  BY <1>1, <1>2 DEF RunsOfDeliveries
<1>4. \A run, other \in runs' : run.msg = other.msg /\ run.try = other.try => run = other
  <2>1. \A run \in runs : run.msg = m => run.try # tries[m] + 1
    BY <1>2 DEF RunsOfDeliveries
  <2> QED
    BY <1>1, <2>1 DEF RunsOfDeliveries
<1>5. \A q \in Messages : place'[q] = "unacked" => \E run \in runs' : run.msg = q /\ run.try = tries'[q]
  BY <1>1, <1>2 DEF RunsOfDeliveries
<1> QED
  BY <1>3, <1>4, <1>5 DEF RunsOfDeliveries

LEMMA BecomeKeepsRuns ==
    ASSUME ConsumerTypes, RunsOfDeliveries, NEW run \in runs, NEW phase, Become(run, phase),
           UNCHANGED <<tries, place>>
    PROVE  RunsOfDeliveries'
<1> DEFINE ended == [run EXCEPT !.phase = phase]
<1>1. ended.msg = run.msg /\ ended.try = run.try
  BY DEF ConsumerTypes, Runs
<1>2. runs' = (runs \ {run}) \cup {ended}
  BY DEF Become
<1> HIDE DEF ended
<1> QED
  BY <1>1, <1>2 DEF RunsOfDeliveries

\* An answer takes its run away, and the message with it if it is heard; so does
\* a lost connection, with any of its runs.
LEMMA FewerRunsKeepRuns ==
    ASSUME RunsOfDeliveries, runs' \subseteq runs, UNCHANGED tries,
           \A m \in Messages : place'[m] = "unacked" => place[m] = "unacked",
           \A run \in runs \ runs' : run.msg \in Messages /\ run.try = tries[run.msg] => place'[run.msg] # "unacked"
    PROVE  RunsOfDeliveries'
BY DEF RunsOfDeliveries

LEMMA RunsNext == ConsumerInv /\ RunsOfDeliveries /\ [ConsumerNext]_consumerVars => RunsOfDeliveries'
<1> SUFFICES ASSUME ConsumerInv, RunsOfDeliveries, [ConsumerNext]_consumerVars PROVE RunsOfDeliveries'
  OBVIOUS
<1>0. ConsumerTypes
  BY DEF ConsumerInv
<1>1. ASSUME NEW m \in Messages, Enqueue(m) PROVE RunsOfDeliveries'
  <2>1. \A q \in Messages : place'[q] = "unacked" => place[q] = "unacked"
    BY <1>0, <1>1 DEF Enqueue, ConsumerTypes
  <2> QED
    BY <1>1, <2>1, FewerRunsKeepRuns DEF Enqueue
<1>2. ASSUME NEW m \in Messages, Deliver(m) PROVE RunsOfDeliveries'
  BY <1>0, <1>2, DeliverKeepsRuns
<1>3. ASSUME NEW run \in runs, HandlerSurvives(run) \/ HandlerRaises(run) PROVE RunsOfDeliveries'
  <2>1. Become(run, "survived") \/ Become(run, "raised")
    BY <1>3 DEF HandlerSurvives, HandlerRaises
  <2>2. UNCHANGED <<tries, place>>
    BY <1>3 DEF HandlerSurvives, HandlerRaises
  <2> QED
    BY <1>0, <2>1, <2>2, BecomeKeepsRuns
<1>4. ASSUME NEW run \in runs, SendBack(run) \/ Ack(run) PROVE RunsOfDeliveries'
  <2>1. /\ runs' = runs \ {run} /\ UNCHANGED tries
        /\ \/ Answers(run) /\ place' \in {[place EXCEPT ![run.msg] = "queued"], [place EXCEPT ![run.msg] = "gone"]}
           \/ ~Answers(run) /\ place' = place
    BY <1>4 DEF SendBack, Ack
  <2>2. run.msg \in Messages /\ DOMAIN place = Messages
    BY <1>0 DEF ConsumerTypes, Runs
  <2>3. \A m \in Messages : place'[m] = "unacked" => place[m] = "unacked"
    BY <2>1, <2>2
  <2>4. run.try = tries[run.msg] => place'[run.msg] # "unacked"
    BY <2>1, <2>2 DEF Answers
  <2> QED
    BY <2>1, <2>3, <2>4, FewerRunsKeepRuns
<1>5. ASSUME NEW S \in SUBSET Unacked, NEW alive \in BOOLEAN, LoseConnection(S, alive) PROVE RunsOfDeliveries'
  <2>1. /\ \A m \in Messages : place'[m] = IF m \in S THEN "queued" ELSE place[m]
        /\ runs' \in {runs, {run \in runs : run.msg \notin S}} /\ UNCHANGED tries
    BY <1>5 DEF LoseConnection
  <2> QED
    BY <2>1, FewerRunsKeepRuns
<1>6. CASE UNCHANGED consumerVars
  BY <1>6 DEF consumerVars, RunsOfDeliveries
<1> QED
  BY <1>1, <1>2, <1>3, <1>4, <1>5, <1>6 DEF ConsumerNext, ConsumerStep

LEMMA RunsOwe == ConsumerTypes /\ RunsOfDeliveries => OneRunOwes
<1> SUFFICES ASSUME ConsumerTypes, RunsOfDeliveries, NEW m \in Unacked
             PROVE  Cardinality({run \in runs : run.msg = m /\ Answers(run)}) = 1
  BY DEF OneRunOwes
<1>1. m \in Messages /\ place[m] = "unacked"
  BY DEF Unacked
<1>2. PICK run \in runs : run.msg = m /\ run.try = tries[m]
  BY <1>1 DEF RunsOfDeliveries
<1>3. {r \in runs : r.msg = m /\ Answers(r)} = {run}
  BY <1>1, <1>2 DEF RunsOfDeliveries, Answers
<1> QED
  BY <1>3, FS_Singleton

\* No message disappears: events/consumer.py acknowledges one only after the
\* handler's run on it ended, and every message it has taken has one run whose
\* answer counts, however many runs overlap and connections are lost.
THEOREM NoMessageDisappears == ConsumerSpec => []MessagesAreAnswered
<1>1. ConsumerInit => RunsOfDeliveries
  BY DEF ConsumerInit, RunsOfDeliveries
<1>2. ConsumerSpec => []RunsOfDeliveries
  BY <1>1, RunsNext, ConsumerAlwaysInv, PTL DEF ConsumerSpec
<1>3. ConsumerInv /\ RunsOfDeliveries => MessagesAreAnswered
  BY RunsOwe DEF ConsumerInv, MessagesAreAnswered
<1> QED
  BY <1>2, <1>3, ConsumerAlwaysInv, PTL

\* A poison message does not spin, and a message takes effect again only for a
\* lost connection or the one repeat its queue asked for (events/consumer.py's
\* requeue_failed and redelivered).
THEOREM NoMessageSpins == ConsumerSpec => []TriesAreBounded
<1>1. ConsumerInv => TriesAreBounded
  <2> SUFFICES ASSUME ConsumerInv, NEW m \in Messages
               PROVE  /\ tries[m] <= 2 + losses
                      /\ works[m] <= 1 + losses + (IF requeueFailed /\ raises[m] > 0 THEN 1 ELSE 0)
    BY DEF TriesAreBounded
  <2>1. Repeats(m) \in {0, 1} /\ tries[m] <= 1 + losses + Repeats(m)
    BY DEF ConsumerInv, DeliveriesHaveCause, Repeats
  <2>2. Cardinality(Handling(m)) \in Nat /\ works[m] + Cardinality(Handling(m)) <= tries[m]
    BY HandlingIsFinite DEF ConsumerInv, OneEffectEach
  <2>3. tries[m] \in Nat /\ works[m] \in Nat /\ losses \in Nat
    BY DEF ConsumerInv, ConsumerTypes
  <2>4. works[m] <= 1 + losses + Repeats(m) /\ tries[m] <= 2 + losses
    BY <2>1, <2>2, <2>3
  <2> QED
    BY <2>4 DEF Repeats
<1> QED
  BY <1>1, ConsumerAlwaysInv, PTL
=============================================================================
