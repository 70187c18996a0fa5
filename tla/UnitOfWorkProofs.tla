-------------------------- MODULE UnitOfWorkProofs --------------------------
(***************************************************************************)
(* What UnitOfWork promises, for any number of sessions, companies,        *)
(* entries and event loops; and that Process, which the run walks, is made *)
(* of it, of Gateway and of Consumer.                                      *)
(***************************************************************************)
EXTENDS Process, FiniteSetTheorems, TLAPS

Fates == {"new", "open", "nested", "committed", "undone"}
Phases == {"created", "waiting", "flushing"}
Drains == [phase : Phases, company : Companies \cup {ANY_COMPANY}, batch : SUBSET Entries]

UowTypeOK ==
    /\ company \in [Sessions -> Companies \cup {ANY_COMPANY}]
    /\ depth \in [Sessions -> {0, 1}]
    /\ DOMAIN owner = Entries
    /\ fate \in [Entries -> Fates]
    /\ staged \in [Sessions -> SUBSET Entries]
    /\ handed \subseteq Entries /\ queue \subseteq Entries
    /\ drains \subseteq Drains
    /\ task \in Nat /\ loop \in Nat \ {0} /\ task <= loop

\* A change made in a savepoint is in one that is open.
NestedIsOpen ==
    \A s \in Sessions, e \in Entries : owner[e] = s /\ fate[e] = "nested" => depth[s] = 1

\* What a session has staged is its own, and none of it was undone but what close()
\* left behind.
StagedIsOwn ==
    \A s \in Sessions : \A e \in staged[s] :
        owner[e] = s /\ fate[e] # "new" /\ (fate[e] = "undone" => e \in loose)

\* A change that may still be committed has its entry staged, or it was handed over
\* with a savepoint, or is missing for good.
ChangesAreStaged ==
    \A s \in Sessions, e \in Entries :
        owner[e] = s /\ fate[e] \in {"open", "nested"} => e \in staged[s] \cup handed \cup forsaken

\* What was handed over was committed, but for what a savepoint or close() let loose.
HandedWasCommitted ==
    \A e \in handed : fate[e] = "committed" \/ (fate[e] # "new" /\ e \in loose)

\* Only what was handed over is on its way, or out.
OnlyHandedGoesOut ==
    /\ queue \subseteq handed
    /\ \A d \in drains : d.batch \subseteq handed
    /\ \A r \in out : r.entry \in handed

SessionInv ==
    /\ UowTypeOK
    /\ NestedIsOpen
    /\ StagedIsOwn
    /\ ChangesAreStaged
    /\ HandedWasCommitted
    /\ OnlyHandedGoesOut
    /\ CommittedIsHandedOver

\* The drains that will take what is queued.
Coming == {d \in drains : d.phase \in {"created", "waiting"}}

\* Coalescer._task is there exactly while a drain of this loop will come.
TaskIsComing ==
    /\ queue # {} => task # NoTask
    /\ ~closing => IF task = loop THEN \E d \in drains : Coming = {d} ELSE Coming = {}

DrainInv == UowTypeOK /\ TaskIsComing

----------------------------------------------------------------------------
(* What the steps do to the drains. *)

LEMMA DrainIsTyped ==
    ASSUME NEW phase \in Phases, NEW comp \in Companies \cup {ANY_COMPANY}, NEW batch \in SUBSET Entries
    PROVE  /\ Drain(phase, comp, batch) \in Drains
           /\ Drain(phase, comp, batch).phase = phase
           /\ Drain(phase, comp, batch).batch = batch
BY DEF Drain, Drains

\* What is staged is handed over, to the Coalescer or to a task, or forgotten.
Forget(s) == staged[s] \subseteq forsaken' /\ UNCHANGED <<handed, coalescer>>

Hands(s) ==
    /\ handed' = handed \cup staged[s]
    /\ \/ staged[s] = {} /\ UNCHANGED coalescer
       \/ Add(staged[s], company[s])
       \/ drains' = drains \cup {Drain("flushing", company[s], staged[s])} /\ UNCHANGED <<queue, task>>

LEMMA HandOverIs ==
    ASSUME NEW s \in Sessions, HandOver(s)
    PROVE  /\ staged' = [staged EXCEPT ![s] = {}] /\ forsaken \subseteq forsaken'
           /\ Forget(s) \/ Hands(s)
<1>1. CASE staged[s] # {} /\ forsaken' = forsaken \cup staged[s] /\ UNCHANGED <<handed, coalescer>>
  BY <1>1 DEF HandOver, Forget
<1>2. CASE forsaken' = forsaken /\ Hands(s)
  BY <1>2 DEF HandOver
<1> QED
  BY <1>1, <1>2 DEF HandOver, Hands

LEMMA HandOverMoves ==
    ASSUME UowTypeOK, NEW s \in Sessions, HandOver(s)
    PROVE  /\ staged' = [staged EXCEPT ![s] = {}] /\ forsaken \subseteq forsaken'
           /\ handed' \in {handed, handed \cup staged[s]} /\ staged[s] \subseteq Entries
           /\ staged[s] \subseteq handed' \cup forsaken'
           /\ queue' \subseteq queue \cup (staged[s] \cap handed')
           /\ drains' \subseteq Drains
           /\ \A d \in drains' : d \in drains \/ d.batch \subseteq staged[s] \cap handed'
           /\ task' \in {task, loop}
<1> USE DEF UowTypeOK
<1>1. staged' = [staged EXCEPT ![s] = {}] /\ forsaken \subseteq forsaken' /\ staged[s] \subseteq Entries
  BY HandOverIs
<1>2. company[s] \in Companies \cup {ANY_COMPANY}
  OBVIOUS
<1>3. CASE Forget(s)
  BY <1>1, <1>3 DEF Forget, coalescer
<1>4. CASE Hands(s) /\ UNCHANGED coalescer
  BY <1>1, <1>4 DEF Hands, coalescer
<1>5. CASE Hands(s) /\ Add(staged[s], company[s])
  <2> DEFINE new == Drain("created", company[s], {})
  <2>1. new \in Drains /\ new.batch = {}
    BY <1>2, DrainIsTyped DEF Phases
  <2>2. drains' \in {drains, drains \cup {new}} /\ queue' \subseteq queue \cup staged[s] /\ task' = loop
    BY <1>5 DEF Add
  <2> HIDE DEF new
  <2> QED
    BY <1>1, <1>5, <2>1, <2>2 DEF Hands
<1>6. CASE Hands(s) /\ drains' = drains \cup {Drain("flushing", company[s], staged[s])} /\ UNCHANGED <<queue, task>>
  <2> DEFINE new == Drain("flushing", company[s], staged[s])
  <2>1. new \in Drains /\ new.batch = staged[s]
    BY <1>1, <1>2, DrainIsTyped DEF Phases
  <2> HIDE DEF new
  <2>2. drains' = drains \cup {new} /\ queue' = queue /\ task' = task
    BY <1>6 DEF new
  <2> QED
    BY <1>1, <1>6, <2>1, <2>2 DEF Hands
<1> QED
  BY <1>3, <1>4, <1>5, <1>6, HandOverIs DEF Hands

LEMMA DrainStepMoves ==
    ASSUME UowTypeOK, DrainStep
    PROVE  /\ UNCHANGED <<frozen, session, loop, closing>>
           /\ drains' \subseteq Drains /\ queue' \subseteq queue /\ task' \in {task, NoTask}
           /\ \A d \in drains' : d.batch \subseteq queue \/ \E b \in drains : d.batch \subseteq b.batch
           /\ \A r \in out' : r \in out \/ \E b \in drains : r.entry \in b.batch
<1> USE DEF UowTypeOK
<1>1. PICK d \in drains : \/ DrainStarts(d) \/ DrainWakes(d)
                          \/ \E e \in d.batch : PublishOne(d, e) \/ PublishOneFails(d, e)
  BY DEF DrainStep
<1>2. d \in Drains /\ d.company \in Companies \cup {ANY_COMPANY} /\ d.batch \subseteq Entries
  BY DEF Drains
<1>3. CASE DrainStarts(d)
  <2> DEFINE new == Drain("waiting", d.company, {})
  <2>1. new \in Drains /\ new.batch = {}
    BY <1>2, DrainIsTyped DEF Phases
  <2>2. drains' = (drains \ {d}) \cup {new} /\ UNCHANGED <<frozen, session, queue, task, loop, closing, results>>
    BY <1>3 DEF DrainStarts
  <2> HIDE DEF new
  <2> QED
    BY <2>1, <2>2 DEF results
<1>4. CASE DrainWakes(d)
  <2> DEFINE new == Drain("flushing", d.company, queue)
  <2>1. new \in Drains /\ new.batch = queue
    BY <1>2, DrainIsTyped DEF Phases
  <2>2. /\ drains' \in {drains \ {d}, (drains \ {d}) \cup {new}}
        /\ queue' = {} /\ task' = NoTask
        /\ UNCHANGED <<frozen, session, loop, closing, results>>
    BY <1>4 DEF DrainWakes, Take
  <2> HIDE DEF new
  <2> QED
    BY <2>1, <2>2 DEF results
<1>5. ASSUME NEW e \in d.batch, PublishOne(d, e) \/ PublishOneFails(d, e)
      PROVE  /\ UNCHANGED <<frozen, session, loop, closing>>
             /\ drains' \subseteq Drains /\ queue' \subseteq queue /\ task' \in {task, NoTask}
             /\ \A b \in drains' : b.batch \subseteq queue \/ \E c \in drains : b.batch \subseteq c.batch
             /\ \A r \in out' : r \in out \/ \E b \in drains : r.entry \in b.batch
  <2> DEFINE rest == [d EXCEPT !.batch = @ \ {e}]
  <2>1. rest \in Drains /\ rest.batch \subseteq d.batch
    BY <1>2 DEF Drains
  <2>2. drains' \in {drains \ {d}, (drains \ {d}) \cup {rest}}
    BY <1>5 DEF PublishOne, PublishOneFails, Published
  <2>3. UNCHANGED <<frozen, session, queue, task, loop, closing>>
    BY <1>5 DEF PublishOne, PublishOneFails
  <2>4. out' = out \/ out' = out \cup {[entry |-> e, labelled |-> Labelled(d, e)]}
    BY <1>5 DEF PublishOne, PublishOneFails
  <2>5. \A r \in out' : r \in out \/ r.entry = e
    BY <2>4
  <2> HIDE DEF rest
  <2> QED
    BY <2>1, <2>2, <2>3, <2>5
<1> QED
  BY <1>1, <1>3, <1>4, <1>5

\* The loop's own steps: nothing goes anywhere but from the queue to a drain.
LEMMA LoopStepMoves ==
    ASSUME UowTypeOK, CloseLoop \/ NextLoop \/ DropLoop
    PROVE  /\ UNCHANGED <<frozen, session, results>>
           /\ drains' \subseteq Drains /\ queue' \subseteq queue /\ task' \in {task, NoTask}
           /\ loop' \in {loop, loop + 1}
           /\ \A d \in drains' : d \in drains \/ d.batch \subseteq queue
<1> USE DEF UowTypeOK
<1>1. CASE CloseLoop
  <2>1. /\ drains' = {Drain("flushing", d.company, queue) : d \in {b \in drains : b.phase = "waiting"}}
        /\ UNCHANGED <<frozen, session, loop, results>>
        /\ queue' \in {queue, {}} /\ task' \in {task, NoTask}
    BY <1>1 DEF CloseLoop, Take
  <2>2. ASSUME NEW d \in drains
        PROVE  Drain("flushing", d.company, queue) \in Drains /\ Drain("flushing", d.company, queue).batch = queue
    <3>1. d.company \in Companies \cup {ANY_COMPANY}
      BY DEF Drains
    <3> QED
      BY <3>1, DrainIsTyped DEF Phases
  <2> QED
    BY <2>1, <2>2
<1>2. CASE NextLoop
  BY <1>2 DEF NextLoop, coalescer
<1>3. CASE DropLoop
  BY <1>3 DEF DropLoop
<1> QED
  BY <1>1, <1>2, <1>3

----------------------------------------------------------------------------
(* Entries follow the commits they belong to. *)

LEMMA SessionInitInv == Init => SessionInv
<1> SUFFICES ASSUME Init PROVE SessionInv
  OBVIOUS
<1>1. UowTypeOK
  BY UnitOfWorkAssumption DEF Init, UowTypeOK, Fates, NoTask
<1>2. NestedIsOpen /\ ChangesAreStaged /\ HandedWasCommitted /\ OnlyHandedGoesOut /\ CommittedIsHandedOver
  BY DEF Init, NestedIsOpen, ChangesAreStaged, HandedWasCommitted, OnlyHandedGoesOut, CommittedIsHandedOver
<1>3. StagedIsOwn
  BY DEF Init, StagedIsOwn
<1> QED
  BY <1>1, <1>2, <1>3 DEF SessionInv

\* A change is written, and its entry staged or missing.
LEMMA WriteKeepsInv ==
    ASSUME SessionInv, NEW s \in Sessions, Write(s)
    PROVE  SessionInv'
<1> USE DEF SessionInv, UowTypeOK
<1>1. PICK e \in Entries :
         /\ fate[e] = "new"
         /\ owner' = [owner EXCEPT ![e] = s]
         /\ fate' = [fate EXCEPT ![e] = IF depth[s] = 0 THEN "open" ELSE "nested"]
         /\ \/ staged' = [staged EXCEPT ![s] = @ \cup {e}] /\ forsaken' = forsaken
            \/ staged' = staged /\ forsaken' = forsaken \cup {e}
  BY DEF Write, Stage
<1>2. UNCHANGED <<company, resolving, depth, handed, loose, queue, task, drains, loop, closing, out, lost>>
  BY DEF Write, frozen, coalescer, results
<1>3. UowTypeOK'
  <2>1. fate' \in [Entries -> Fates] /\ staged' \in [Sessions -> SUBSET Entries] /\ DOMAIN owner' = Entries
    BY <1>1 DEF Fates
  <2> QED
    BY <1>2, <2>1
<1>4. OnlyHandedGoesOut'
  BY <1>2 DEF OnlyHandedGoesOut
<1>5. NestedIsOpen'
  BY <1>1, <1>2 DEF NestedIsOpen
<1>6. e \notin handed
  BY <1>1 DEF HandedWasCommitted
<1>7. HandedWasCommitted' /\ CommittedIsHandedOver'
  <2>1. forsaken \subseteq forsaken'
    BY <1>1
  <2> QED
    BY <1>1, <1>2, <1>6, <2>1 DEF HandedWasCommitted, CommittedIsHandedOver
<1>8. ASSUME NEW t \in Sessions PROVE staged[t] \subseteq Entries /\ e \notin staged[t] /\ staged[t] \subseteq staged'[t]
  BY <1>1 DEF StagedIsOwn
<1>9. StagedIsOwn'
  <2> SUFFICES ASSUME NEW t \in Sessions, NEW q \in staged'[t]
               PROVE  owner'[q] = t /\ fate'[q] # "new" /\ (fate'[q] = "undone" => q \in loose')
    BY DEF StagedIsOwn
  <2>1. CASE q \in staged[t]
    BY <1>1, <1>2, <1>8, <2>1 DEF StagedIsOwn
  <2>2. CASE q \notin staged[t]
    <3>1. q = e /\ t = s
      BY <1>1, <2>2
    <3> QED
      BY <1>1, <3>1
  <2> QED
    BY <2>1, <2>2
<1>10. ChangesAreStaged'
  <2> SUFFICES ASSUME NEW t \in Sessions, NEW q \in Entries, owner'[q] = t, fate'[q] \in {"open", "nested"}
               PROVE  q \in staged'[t] \cup handed' \cup forsaken'
    BY DEF ChangesAreStaged
  <2>1. CASE q = e
    BY <1>1, <2>1
  <2>2. CASE q # e
    BY <1>1, <1>2, <1>8, <2>2 DEF ChangesAreStaged
  <2> QED
    BY <2>1, <2>2
<1> QED
  BY <1>3, <1>4, <1>5, <1>7, <1>9, <1>10

LEMMA BeginNestedKeepsInv ==
    ASSUME SessionInv, NEW s \in Sessions, BeginNested(s)
    PROVE  SessionInv'
<1> USE DEF SessionInv, UowTypeOK
<1>1. /\ depth' = [depth EXCEPT ![s] = 1]
      /\ UNCHANGED <<company, resolving, owner, fate, staged, handed, loose, forsaken, queue, task, drains, loop, closing, out, lost>>
  BY DEF BeginNested, frozen, coalescer, results
<1>2. UowTypeOK' /\ NestedIsOpen' /\ OnlyHandedGoesOut'
  BY <1>1 DEF NestedIsOpen, OnlyHandedGoesOut
<1>3. StagedIsOwn' /\ ChangesAreStaged'
  BY <1>1 DEF StagedIsOwn, ChangesAreStaged
<1>4. HandedWasCommitted' /\ CommittedIsHandedOver'
  BY <1>1 DEF HandedWasCommitted, CommittedIsHandedOver
<1> QED
  BY <1>2, <1>3, <1>4

\* The steps that settle changes of s, some as committed and others as undone or
\* open again, and hand over what is staged, drop it or leave it.
LEMMA SettleKeepsInv ==
    ASSUME SessionInv, NEW s \in Sessions,
           NEW fates \in SUBSET {"open", "nested"}, NEW f \in {"open", "committed", "undone"},
           Settle(Own(s, fates), f),
           depth' = depth \/ (depth' = [depth EXCEPT ![s] = 0] /\ "nested" \in fates),
           UNCHANGED <<company, owner, loop, out>>,
           staged' \in {staged, [staged EXCEPT ![s] = {}]},
           loose' \in {loose, loose \cup staged[s]}, forsaken \subseteq forsaken',
           UNCHANGED <<handed, queue, task, drains>> \/ HandOver(s),
           f = "undone" => staged'[s] = {} \/ staged[s] \subseteq loose',
           handed' # handed => staged[s] \subseteq loose' \/ (f = "committed" /\ "open" \in fates /\ depth[s] = 0),
           staged'[s] # {} \/ staged[s] \subseteq handed' \cup forsaken' \/ (f = "undone" /\ fates = {"open", "nested"}),
           f = "committed" => staged[s] \subseteq handed' \cup forsaken'
    PROVE  SessionInv'
<1> USE DEF SessionInv, UowTypeOK
<1>1. /\ fate' = [e \in Entries |-> IF e \in Own(s, fates) THEN f ELSE fate[e]]
      /\ \A e \in Own(s, fates) : e \in Entries /\ owner[e] = s /\ fate[e] \in fates
      /\ staged[s] \subseteq Entries
  BY DEF Settle, Own
<1>2. /\ handed' \in {handed, handed \cup staged[s]}
      /\ queue' \subseteq queue \cup handed' /\ queue' \subseteq Entries
      /\ drains' \subseteq Drains /\ task' \in {task, loop}
      /\ \A d \in drains' : d \in drains \/ d.batch \subseteq handed'
  <2>1. CASE UNCHANGED <<handed, queue, task, drains>>
    BY <2>1
  <2>2. CASE HandOver(s)
    BY <1>1, <2>2, HandOverMoves
  <2> QED
    BY <2>1, <2>2
<1>3. UowTypeOK'
  <2>1. fate' \in [Entries -> Fates] /\ staged' \in [Sessions -> SUBSET Entries] /\ depth' \in [Sessions -> {0, 1}]
    BY <1>1 DEF Fates
  <2> QED
    BY <1>1, <1>2, <2>1
<1>4. \A t \in Sessions : t # s => staged'[t] = staged[t] /\ depth'[t] = depth[t]
  OBVIOUS
<1>5. \A e \in Entries : owner[e] # s => fate'[e] = fate[e]
  BY <1>1
<1>6. NestedIsOpen'
  <2> SUFFICES ASSUME NEW t \in Sessions, NEW e \in Entries, owner[e] = t, fate'[e] = "nested" PROVE depth'[t] = 1
    BY DEF NestedIsOpen
  <2>1. e \notin Own(s, fates) /\ fate[e] = "nested"
    BY <1>1
  <2>2. depth[t] = 1
    BY <2>1 DEF NestedIsOpen
  <2>3. t = s => "nested" \notin fates
    BY <2>1 DEF Own
  <2> QED
    BY <1>4, <2>2, <2>3
<1>7. OnlyHandedGoesOut'
  BY <1>2 DEF OnlyHandedGoesOut
<1>8. ASSUME NEW e \in staged[s]
      PROVE  e \in Entries /\ owner[e] = s /\ fate[e] # "new" /\ (fate[e] = "undone" => e \in loose)
  BY <1>1 DEF StagedIsOwn
<1>9. HandedWasCommitted'
  <2> SUFFICES ASSUME NEW e \in handed'
               PROVE  fate'[e] = "committed" \/ (fate'[e] # "new" /\ e \in loose')
    BY DEF HandedWasCommitted
  <2>1. e \in Entries
    BY <1>1, <1>2
  <2>2. CASE e \in handed
    <3>1. fate[e] = "committed" \/ (fate[e] # "new" /\ e \in loose)
      BY <2>2 DEF HandedWasCommitted
    <3>2. fate[e] = "committed" => fate'[e] = "committed"
      BY <1>1, <2>1
    <3>3. fate[e] # "new" => fate'[e] # "new"
      BY <1>1, <2>1
    <3> QED
      BY <3>1, <3>2, <3>3
  <2>3. CASE e \notin handed
    <3>1. e \in staged[s] /\ handed' # handed
      BY <1>2, <2>3
    <3>2. fate'[e] # "new"
      BY <1>1, <1>8, <2>1, <3>1
    <3>3. CASE staged[s] \subseteq loose'
      BY <3>1, <3>2, <3>3
    <3>4. CASE f = "committed" /\ "open" \in fates /\ depth[s] = 0
      <4>1. fate[e] # "nested"
        BY <1>8, <2>1, <3>1, <3>4 DEF NestedIsOpen
      <4>2. fate[e] = "open" => fate'[e] = "committed"
        BY <1>1, <1>8, <2>1, <3>1, <3>4 DEF Own
      <4>3. fate[e] # "open" => fate'[e] = fate[e]
        BY <1>1, <2>1, <4>1
      <4>4. fate[e] \in Fates
        BY <2>1
      <4> QED
        BY <1>8, <3>1, <4>1, <4>2, <4>3, <4>4 DEF Fates
    <3> QED
      BY <3>1, <3>3, <3>4
  <2> QED
    BY <2>2, <2>3
<1>10. StagedIsOwn'
  <2> SUFFICES ASSUME NEW t \in Sessions, NEW e \in staged'[t]
               PROVE  owner[e] = t /\ fate'[e] # "new" /\ (fate'[e] = "undone" => e \in loose')
    BY DEF StagedIsOwn
  <2>1. e \in staged[t] /\ e \in Entries
    OBVIOUS
  <2>2. owner[e] = t /\ fate[e] # "new" /\ (fate[e] = "undone" => e \in loose)
    BY <2>1 DEF StagedIsOwn
  <2>3. fate'[e] = fate[e] \/ (fate'[e] = f /\ e \in Own(s, fates) /\ t = s)
    BY <1>1, <2>1, <2>2
  <2>4. fate'[e] = f /\ t = s /\ f = "undone" => e \in loose'
    BY <2>1
  <2> QED
    BY <2>2, <2>3, <2>4
<1>11. ChangesAreStaged'
  <2> SUFFICES ASSUME NEW t \in Sessions, NEW e \in Entries, owner[e] = t, fate'[e] \in {"open", "nested"}
               PROVE  e \in staged'[t] \cup handed' \cup forsaken'
    BY DEF ChangesAreStaged
  <2>1. fate[e] \in {"open", "nested"}
    BY <1>1
  <2>2. e \in staged[t] \cup handed \cup forsaken /\ handed \subseteq handed'
    BY <1>2, <2>1 DEF ChangesAreStaged
  <2>3. CASE t = s /\ staged'[s] = {}
    <3>1. ~(f = "undone" /\ fates = {"open", "nested"})
      BY <1>1, <2>1, <2>3 DEF Own
    <3> QED
      BY <2>2, <2>3, <3>1
  <2>4. CASE ~(t = s /\ staged'[s] = {})
    <3>1. staged'[t] = staged[t]
      BY <2>4
    <3> QED
      BY <2>2, <3>1
  <2> QED
    BY <2>3, <2>4
<1>12. CommittedIsHandedOver'
  <2> SUFFICES ASSUME NEW e \in Entries, fate'[e] = "committed", e \notin forsaken'
               PROVE  e \in handed'
    BY DEF CommittedIsHandedOver
  <2>1. handed \subseteq handed' /\ e \notin forsaken
    BY <1>2
  <2>2. CASE e \in Own(s, fates)
    <3>1. f = "committed" /\ fate[e] \in {"open", "nested"} /\ owner[e] = s
      BY <1>1, <2>2
    <3>2. e \in staged[s] \cup handed
      BY <2>1, <3>1 DEF ChangesAreStaged
    <3> QED
      BY <2>1, <3>1, <3>2
  <2>3. CASE e \notin Own(s, fates)
    BY <1>1, <2>1, <2>3 DEF CommittedIsHandedOver
  <2> QED
    BY <2>2, <2>3
<1> QED
  BY <1>3, <1>6, <1>7, <1>9, <1>10, <1>11, <1>12

LEMMA SessionStepKeepsInv ==
    ASSUME SessionInv, NEW s \in Sessions,
           \/ Write(s) \/ BeginNested(s) \/ ReleaseNested(s) \/ RollbackNested(s)
           \/ Commit(s) \/ CommitUnanswered(s) \/ Rollback(s) \/ Close(s)
    PROVE  SessionInv'
<1>1. UowTypeOK /\ [staged EXCEPT ![s] = {}][s] = {}
  BY DEF SessionInv, UowTypeOK
<1>2. CASE ReleaseNested(s)
  <2>1. /\ depth' = [depth EXCEPT ![s] = 0]
        /\ Settle(Own(s, {"nested"}), "open") /\ HandOver(s) /\ loose' = loose \cup staged[s]
        /\ UNCHANGED <<company, owner, loop, out>>
    BY <1>2 DEF ReleaseNested, frozen, results
  <2>2. /\ staged' = [staged EXCEPT ![s] = {}] /\ forsaken \subseteq forsaken'
        /\ staged[s] \subseteq handed' \cup forsaken' /\ staged[s] \subseteq loose'
    BY <1>1, <2>1, HandOverMoves
  <2> QED
    BY <1>1, <2>1, <2>2, SettleKeepsInv
<1>3. CASE RollbackNested(s)
  <2>1. /\ depth' = [depth EXCEPT ![s] = 0]
        /\ Settle(Own(s, {"nested"}), "undone")
        /\ staged' = [staged EXCEPT ![s] = {}] /\ forsaken' = forsaken \cup staged[s]
        /\ UNCHANGED <<company, owner, loose, loop, out, handed, queue, task, drains>>
    BY <1>3 DEF RollbackNested, frozen, results, Drop, coalescer
  <2> QED
    BY <1>1, <2>1, SettleKeepsInv
<1>4. CASE Commit(s)
  <2>1. /\ depth[s] = 0 /\ depth' = depth
        /\ Settle(Own(s, {"open"}), "committed") /\ HandOver(s)
        /\ UNCHANGED <<company, owner, loose, loop, out>>
    BY <1>4 DEF Commit, frozen, results
  <2>2. /\ staged' = [staged EXCEPT ![s] = {}] /\ forsaken \subseteq forsaken'
        /\ staged[s] \subseteq handed' \cup forsaken'
    BY <1>1, <2>1, HandOverMoves
  <2> QED
    BY <1>1, <2>1, <2>2, SettleKeepsInv
<1>5. CASE CommitUnanswered(s)
  <2>1. /\ depth' = depth /\ forsaken' = forsaken \cup staged[s]
        /\ Settle(Own(s, {"open"}), "committed")
        /\ staged' \in {staged, [staged EXCEPT ![s] = {}]}
        /\ UNCHANGED <<company, owner, loose, loop, out, handed, queue, task, drains>>
    BY <1>5 DEF CommitUnanswered, frozen, results, Drop, coalescer
  <2> QED
    BY <1>1, <2>1, SettleKeepsInv
<1>6. CASE Rollback(s)
  <2>1. /\ depth' = [depth EXCEPT ![s] = 0]
        /\ Settle(Own(s, {"open", "nested"}), "undone")
        /\ staged' = [staged EXCEPT ![s] = {}]
        /\ UNCHANGED <<company, owner, loose, forsaken, loop, out, handed, queue, task, drains>>
    BY <1>6 DEF Rollback, Undo, frozen, results, Drop, coalescer
  <2> QED
    BY <1>1, <2>1, SettleKeepsInv
<1>7. CASE Close(s)
  <2>1. /\ depth' = [depth EXCEPT ![s] = 0]
        /\ Settle(Own(s, {"open", "nested"}), "undone")
        /\ staged' = staged /\ loose' = loose \cup staged[s]
        /\ UNCHANGED <<company, owner, forsaken, loop, out, handed, queue, task, drains>>
    BY <1>7 DEF Close, Undo, frozen, results, coalescer
  <2> QED
    BY <1>1, <2>1, SettleKeepsInv
<1> QED
  BY <1>2, <1>3, <1>4, <1>5, <1>6, <1>7, WriteKeepsInv, BeginNestedKeepsInv

\* What the drains and the loop do leaves the sessions alone.
LEMMA OthersKeepInv ==
    ASSUME SessionInv, UowTypeOK', UNCHANGED <<frozen, session>>,
           queue' \subseteq queue,
           \A d \in drains' : d.batch \subseteq handed,
           \A r \in out' : r.entry \in handed
    PROVE  SessionInv'
<1>1. UNCHANGED <<depth, owner, fate, staged, handed, loose, forsaken>>
  BY DEF session
<1>2. NestedIsOpen' /\ HandedWasCommitted' /\ CommittedIsHandedOver'
  BY <1>1 DEF SessionInv, NestedIsOpen, HandedWasCommitted, CommittedIsHandedOver
<1>3. StagedIsOwn' /\ ChangesAreStaged'
  BY <1>1 DEF SessionInv, StagedIsOwn, ChangesAreStaged
<1>4. OnlyHandedGoesOut'
  BY <1>1 DEF SessionInv, OnlyHandedGoesOut
<1> QED
  BY <1>2, <1>3, <1>4 DEF SessionInv

LEMMA SessionNextInv == SessionInv /\ [Next]_vars => SessionInv'
<1> SUFFICES ASSUME SessionInv, [Next]_vars PROVE SessionInv'
  OBVIOUS
<1>1. UowTypeOK /\ OnlyHandedGoesOut
  BY DEF SessionInv
<1>2. CASE DrainStep
  <2>1. /\ UNCHANGED <<frozen, session, loop, closing>>
        /\ drains' \subseteq Drains /\ queue' \subseteq queue /\ task' \in {task, NoTask}
        /\ \A d \in drains' : d.batch \subseteq queue \/ \E b \in drains : d.batch \subseteq b.batch
        /\ \A r \in out' : r \in out \/ \E b \in drains : r.entry \in b.batch
    BY <1>1, <1>2, DrainStepMoves
  <2>2. UowTypeOK'
    BY <1>1, <2>1 DEF UowTypeOK, frozen, session, NoTask
  <2>3. /\ \A d \in drains' : d.batch \subseteq handed
        /\ \A r \in out' : r.entry \in handed
    BY <1>1, <2>1 DEF OnlyHandedGoesOut
  <2> QED
    BY <2>1, <2>2, <2>3, OthersKeepInv
<1>3. CASE CloseLoop \/ NextLoop \/ DropLoop
  <2>1. /\ UNCHANGED <<frozen, session, results>>
        /\ drains' \subseteq Drains /\ queue' \subseteq queue /\ task' \in {task, NoTask}
        /\ loop' \in {loop, loop + 1}
        /\ \A d \in drains' : d \in drains \/ d.batch \subseteq queue
    BY <1>1, <1>3, LoopStepMoves
  <2>2. UowTypeOK'
    BY <1>1, <2>1 DEF UowTypeOK, frozen, session, NoTask
  <2>3. /\ \A d \in drains' : d.batch \subseteq handed
        /\ \A r \in out' : r.entry \in handed
    BY <1>1, <2>1 DEF OnlyHandedGoesOut, results
  <2> QED
    BY <2>1, <2>2, <2>3, OthersKeepInv
<1>4. CASE UNCHANGED vars
  <2>1. UNCHANGED <<frozen, session, queue, task, drains, loop, out>>
    BY <1>4 DEF vars, coalescer, results
  <2>2. UowTypeOK'
    BY <1>1, <2>1 DEF UowTypeOK, frozen, session
  <2> QED
    BY <1>1, <2>1, <2>2, OthersKeepInv DEF OnlyHandedGoesOut
<1> QED
  BY <1>2, <1>3, <1>4, SessionStepKeepsInv DEF Next, SessionStep

LEMMA SessionAlwaysInv == Spec => []SessionInv
BY SessionInitInv, SessionNextInv, PTL DEF Spec

\* An audit entry or an outbox event goes out only for a change that was
\* committed: the session hooks of audit.py and events/outbox.py hand over what
\* is staged on a commit and drop it on a rollback. What a savepoint hands over
\* when it is released, and what close() leaves in session.info, is excepted,
\* as in the code.
THEOREM OnlyCommittedGoesOut == Spec => []PublishedWasCommitted
<1>1. SessionInv => PublishedWasCommitted
  BY DEF SessionInv, OnlyHandedGoesOut, HandedWasCommitted, PublishedWasCommitted
<1> QED
  BY <1>1, SessionAlwaysInv, PTL

\* And every committed change has its entry handed over, at once, unless _capture
\* failed, a savepoint's rollback dropped it, the commit's answer was lost or
\* after_commit found no running loop.
THEOREM EveryCommitIsHandedOver == Spec => []CommittedIsHandedOver
<1>1. SessionInv => CommittedIsHandedOver
  BY DEF SessionInv
<1> QED
  BY <1>1, SessionAlwaysInv, PTL

----------------------------------------------------------------------------
(* What is queued has its drain. *)

LEMMA DrainInitInv == Init => TaskIsComing
BY UnitOfWorkAssumption DEF Init, TaskIsComing, Coming, NoTask

\* Handing over in a loop that is not closing: the drain of this loop stays, or
\* the first one is made.
LEMMA HandOverKeepsTask ==
    ASSUME DrainInv, NEW s \in Sessions, HandOver(s), ~closing, loop' = loop, closing' = closing
    PROVE  TaskIsComing'
<1> USE DEF DrainInv, UowTypeOK, TaskIsComing, NoTask
<1>1. CASE Forget(s) \/ UNCHANGED coalescer
  BY <1>1 DEF Forget, coalescer, Coming
<1>2. CASE Add(staged[s], company[s])
  <2> DEFINE new == Drain("created", company[s], {})
  <2>1. new.phase = "created"
    BY DEF Drain
  <2>2. task' = loop /\ drains' = IF task # loop THEN drains \cup {new} ELSE drains
    BY <1>2 DEF Add
  <2> HIDE DEF new
  <2>3. CASE task # loop
    <3>1. Coming' = {new}
      BY <2>1, <2>2, <2>3 DEF Coming
    <3> QED
      BY <2>2, <2>3, <3>1
  <2>4. CASE task = loop
    BY <2>2, <2>4 DEF Coming
  <2> QED
    BY <2>3, <2>4
<1>3. CASE drains' = drains \cup {Drain("flushing", company[s], staged[s])} /\ UNCHANGED <<queue, task>>
  <2>1. Coming' = Coming
    BY <1>3 DEF Coming, Drain
  <2> QED
    BY <1>3, <2>1
<1> QED
  BY <1>1, <1>2, <1>3, HandOverIs DEF Hands

LEMMA DrainStepKeepsTask ==
    ASSUME DrainInv, DrainStep
    PROVE  TaskIsComing'
<1> USE DEF DrainInv, UowTypeOK, TaskIsComing, NoTask
<1>1. PICK d \in drains : \/ DrainStarts(d) \/ DrainWakes(d)
                          \/ \E e \in d.batch : PublishOne(d, e) \/ PublishOneFails(d, e)
  BY DEF DrainStep
<1>2. UNCHANGED <<loop, closing>>
  BY DrainStepMoves
<1>3. CASE DrainStarts(d)
  <2> DEFINE new == Drain("waiting", d.company, {})
  <2>1. new.phase = "waiting"
    BY DEF Drain
  <2>2. d.phase = "created" /\ drains' = (drains \ {d}) \cup {new} /\ UNCHANGED <<queue, task>>
    BY <1>3 DEF DrainStarts
  <2> HIDE DEF new
  <2>3. d \in Coming /\ Coming' = (Coming \ {d}) \cup {new}
    BY <2>1, <2>2 DEF Coming
  <2> QED
    BY <1>2, <2>2, <2>3 DEF Coming
<1>4. CASE DrainWakes(d)
  <2>1. d.phase = "waiting" /\ queue' = {} /\ task' = 0
    BY <1>4 DEF DrainWakes, Take
  <2>2. \A b \in drains' : b \in drains \ {d} \/ b.phase = "flushing"
    BY <1>4 DEF DrainWakes, Drain
  <2>3. ~closing => Coming = {d}
    BY <2>1 DEF Coming
  <2>4. ~closing => Coming' = {}
    BY <2>2, <2>3 DEF Coming
  <2> QED
    BY <1>2, <2>1, <2>4
<1>5. ASSUME NEW e \in d.batch, PublishOne(d, e) \/ PublishOneFails(d, e)
      PROVE  TaskIsComing'
  <2> DEFINE rest == [d EXCEPT !.batch = @ \ {e}]
  <2>1. d.phase = "flushing" /\ rest.phase = "flushing"
    BY <1>5 DEF PublishOne, PublishOneFails, Drains
  <2>2. drains' \in {drains \ {d}, (drains \ {d}) \cup {rest}} /\ UNCHANGED <<queue, task>>
    BY <1>5 DEF PublishOne, PublishOneFails, Published
  <2> HIDE DEF rest
  <2>3. Coming' = Coming
    BY <2>1, <2>2 DEF Coming
  <2>4. \A b \in Coming : b \in drains'
    BY <2>3 DEF Coming
  <2> QED
    BY <1>2, <2>2, <2>3, <2>4
<1> QED
  BY <1>1, <1>3, <1>4, <1>5

LEMMA DrainNextInv == DrainInv /\ [Next]_vars => TaskIsComing'
<1> SUFFICES ASSUME DrainInv, [Next]_vars PROVE TaskIsComing'
  OBVIOUS
<1>1. ASSUME UNCHANGED <<coalescer, loop, closing>> PROVE TaskIsComing'
  BY <1>1 DEF DrainInv, TaskIsComing, Coming, coalescer
<1>2. ASSUME NEW s \in Sessions,
             \/ Write(s) \/ BeginNested(s) \/ RollbackNested(s)
             \/ CommitUnanswered(s) \/ Rollback(s) \/ Close(s)
      PROVE  TaskIsComing'
  BY <1>1, <1>2 DEF Write, BeginNested, RollbackNested, CommitUnanswered, Rollback, Close, Undo, Drop
<1>3. ASSUME NEW s \in Sessions, ReleaseNested(s) \/ Commit(s) PROVE TaskIsComing'
  BY <1>3, HandOverKeepsTask DEF ReleaseNested, Commit
<1>4. CASE CloseLoop
  <2>1. closing' = TRUE /\ (queue' # {} => task' # NoTask)
    BY <1>4 DEF CloseLoop, Take, DrainInv, TaskIsComing
  <2> QED
    BY <2>1 DEF TaskIsComing
<1>5. CASE NextLoop \/ DropLoop
  <2>1. loop' = loop + 1 /\ drains' = {} /\ UNCHANGED <<queue, task>>
    BY <1>5 DEF NextLoop, DropLoop, coalescer
  <2>2. task' # loop' /\ Coming' = {}
    BY <2>1 DEF DrainInv, UowTypeOK, Coming
  <2> QED
    BY <2>1, <2>2 DEF DrainInv, TaskIsComing
<1>6. CASE UNCHANGED vars
  BY <1>1, <1>6 DEF vars
<1> QED
  BY <1>2, <1>3, <1>4, <1>5, <1>6, DrainStepKeepsTask DEF Next, SessionStep

\* Of what TaskIsComing says, QueueHasDrain counts the drains.
LEMMA ComingIsOne == TaskIsComing => QueueHasDrain
<1> SUFFICES ASSUME TaskIsComing, ~closing, queue # {}, task \in {NoTask, loop}
             PROVE  Cardinality(Coming) = 1
  BY DEF QueueHasDrain, Coming
<1>1. PICK d : Coming = {d}
  BY DEF TaskIsComing
<1> QED
  BY <1>1, FS_Singleton

----------------------------------------------------------------------------
(* An entry goes one way. *)

\* It waits in the queue or in one batch, and when it was published, or its
\* publish failed, nobody has it any more.
FlushedOnce ==
    /\ queue \cap Gone = {}
    /\ \A d \in drains : d.batch \cap (queue \cup Gone) = {}
    /\ \A d, other \in drains : d # other => d.batch \cap other.batch = {}

\* And what a session has staged is not on its way yet, and what is out or lost had
\* been handed over.
OneWay ==
    /\ \A s \in Sessions : staged[s] \cap handed = {}
    /\ Gone \subseteq handed
    /\ FlushedOnce

OneWayInv == SessionInv /\ TaskIsComing /\ OneWay

LEMMA OneWayInit == Init => OneWay
BY DEF Init, OneWay, FlushedOnce, Gone

\* The steps in which nothing moves but what is staged is dropped.
LEMMA NothingMoves ==
    ASSUME OneWay, UNCHANGED <<handed, queue, drains, out, lost>>,
           \A s \in Sessions : staged'[s] \subseteq staged[s]
    PROVE  OneWay'
<1>1. Gone' = Gone
  BY DEF Gone
<1> QED
  BY <1>1 DEF OneWay, FlushedOnce

\* A change not seen before is staged, or missed.
LEMMA WriteKeepsOneWay ==
    ASSUME OneWayInv, NEW s \in Sessions, Write(s)
    PROVE  OneWay'
<1>1. PICK e \in Entries : fate[e] = "new" /\ staged' \in {staged, [staged EXCEPT ![s] = @ \cup {e}]}
  BY DEF Write, Stage
<1>2. UNCHANGED <<handed, queue, drains, out, lost>>
  BY DEF Write, coalescer, results
<1>3. e \notin handed
  <2>1. \A x \in handed : fate[x] # "new"
    BY DEF OneWayInv, SessionInv, HandedWasCommitted
  <2> QED
    BY <1>1, <2>1
<1>4. \A t \in Sessions : staged'[t] \cap handed' = {}
  BY <1>1, <1>2, <1>3 DEF OneWayInv, OneWay, SessionInv, UowTypeOK
<1>5. Gone' = Gone
  BY <1>2 DEF Gone
<1> QED
  BY <1>2, <1>4, <1>5 DEF OneWayInv, OneWay, FlushedOnce

\* What is handed over was on no way before, and takes one.
LEMMA HandOverKeepsOneWay ==
    ASSUME OneWayInv, NEW s \in Sessions, HandOver(s), UNCHANGED <<owner, out, lost>>
    PROVE  OneWay'
<1> DEFINE S == staged[s]
<1>1. SessionInv /\ OneWay /\ UowTypeOK
  BY DEF OneWayInv, SessionInv
<1>2. Gone' = Gone /\ Gone \subseteq handed
  BY <1>1 DEF OneWay, Gone
<1>3. S \cap handed = {} /\ queue \subseteq handed /\ \A d \in drains : d.batch \subseteq handed
  BY <1>1 DEF OneWay, SessionInv, OnlyHandedGoesOut
<1>4. /\ staged' = [staged EXCEPT ![s] = {}]
      /\ Forget(s) \/ Hands(s)
      /\ handed \subseteq handed' /\ handed' \subseteq handed \cup S
  BY HandOverIs DEF Forget, Hands
<1>5. \A t \in Sessions : staged'[t] \cap handed' = {}
  <2>1. ASSUME NEW t \in Sessions, t # s PROVE staged[t] \cap S = {}
    BY <1>1, <2>1 DEF SessionInv, StagedIsOwn
  <2> QED
    BY <1>1, <1>4, <2>1 DEF OneWay, UowTypeOK
<1>6. FlushedOnce'
  <2>1. CASE Forget(s) \/ UNCHANGED coalescer
    BY <1>1, <1>2, <2>1 DEF OneWay, FlushedOnce, Forget, coalescer
  <2>2. CASE Add(S, company[s])
    <3> DEFINE new == Drain("created", company[s], {})
    <3>1. new.batch = {}
      BY DEF Drain
    <3>2. queue' \subseteq queue \cup S /\ drains' \in {drains, drains \cup {new}}
      BY <2>2 DEF Add
    <3> HIDE DEF new, S
    <3> QED
      BY <1>1, <1>2, <1>3, <3>1, <3>2 DEF OneWay, FlushedOnce
  <2>3. CASE drains' = drains \cup {Drain("flushing", company[s], S)} /\ UNCHANGED <<queue, task>>
    <3> DEFINE new == Drain("flushing", company[s], S)
    <3>1. new.batch = S
      BY DEF Drain
    <3>2. queue' = queue /\ drains' = drains \cup {new}
      BY <2>3
    <3> HIDE DEF new, S
    <3> QED
      BY <1>1, <1>2, <1>3, <3>1, <3>2 DEF OneWay, FlushedOnce
  <2> QED
    BY <1>4, <2>1, <2>2, <2>3 DEF Hands
<1> QED
  BY <1>2, <1>4, <1>5, <1>6 DEF OneWay

\* A drain takes the whole queue, and its batch shrinks by what it publishes.
LEMMA DrainStepKeepsOneWay ==
    ASSUME OneWayInv, DrainStep
    PROVE  OneWay'
<1>1. OneWay /\ SessionInv
  BY DEF OneWayInv
<1>2. PICK d \in drains : \/ DrainStarts(d) \/ DrainWakes(d)
                          \/ \E e \in d.batch : PublishOne(d, e) \/ PublishOneFails(d, e)
  BY DEF DrainStep
<1>3. UNCHANGED <<staged, handed>>
  BY <1>2 DEF DrainStarts, DrainWakes, PublishOne, PublishOneFails, session
<1>4. CASE DrainStarts(d)
  <2> DEFINE new == Drain("waiting", d.company, {})
  <2>1. new.batch = {}
    BY DEF Drain
  <2>2. drains' = (drains \ {d}) \cup {new} /\ queue' = queue /\ Gone' = Gone
    BY <1>4 DEF DrainStarts, results, Gone
  <2> HIDE DEF new
  <2> QED
    BY <1>1, <1>3, <2>1, <2>2 DEF OneWay, FlushedOnce
<1>5. CASE DrainWakes(d)
  <2> DEFINE new == Drain("flushing", d.company, queue)
  <2>1. new.batch = queue
    BY DEF Drain
  <2>2. drains' \in {drains \ {d}, (drains \ {d}) \cup {new}} /\ queue' = {} /\ Gone' = Gone
    BY <1>5 DEF DrainWakes, Take, results, Gone
  <2> HIDE DEF new
  <2> QED
    BY <1>1, <1>3, <2>1, <2>2 DEF OneWay, FlushedOnce
<1>6. ASSUME NEW e \in d.batch, PublishOne(d, e) \/ PublishOneFails(d, e)
      PROVE  OneWay'
  <2> DEFINE rest == [d EXCEPT !.batch = @ \ {e}]
  <2>1. rest.batch = d.batch \ {e}
    BY <1>1 DEF SessionInv, UowTypeOK, Drains
  <2>2. drains' \in {drains \ {d}, (drains \ {d}) \cup {rest}} /\ queue' = queue
    BY <1>6 DEF PublishOne, PublishOneFails, Published
  <2>3. Gone' = Gone \cup {e}
    <3>1. CASE PublishOne(d, e)
      <4>1. out' = out \cup {[entry |-> e, labelled |-> Labelled(d, e)]} /\ lost' = lost
        BY <3>1 DEF PublishOne
      <4>2. [entry |-> e, labelled |-> Labelled(d, e)].entry = e
        OBVIOUS
      <4> QED
        BY <4>1, <4>2 DEF Gone
    <3>2. CASE PublishOneFails(d, e)
      BY <3>2 DEF PublishOneFails, Gone
    <3> QED
      BY <1>6, <3>1, <3>2
  <2>4. e \in handed /\ e \notin queue /\ \A other \in drains \ {d} : e \notin other.batch
    BY <1>1 DEF OneWay, FlushedOnce, SessionInv, OnlyHandedGoesOut
  <2> HIDE DEF rest
  <2>5. FlushedOnce'
    BY <1>1, <2>1, <2>2, <2>3, <2>4 DEF OneWay, FlushedOnce
  <2> QED
    BY <1>1, <1>3, <2>3, <2>4, <2>5 DEF OneWay
<1> QED
  BY <1>2, <1>4, <1>5, <1>6

\* The loop's end cuts the one waiting drain short, which takes the whole queue.
LEMMA LoopStepKeepsOneWay ==
    ASSUME OneWayInv, CloseLoop \/ NextLoop \/ DropLoop
    PROVE  OneWay'
<1>1. OneWay /\ TaskIsComing
  BY DEF OneWayInv
<1>2. UNCHANGED <<staged, handed>> /\ Gone' = Gone
  BY DEF CloseLoop, NextLoop, DropLoop, session, results, Gone
<1>3. CASE CloseLoop
  <2> DEFINE waiting == {d \in drains : d.phase = "waiting"}
  <2>1. /\ ~closing /\ drains' = {Drain("flushing", d.company, queue) : d \in waiting}
        /\ IF waiting # {} THEN queue' = {} ELSE queue' = queue
    BY <1>3 DEF CloseLoop, Take
  <2>2. \A d, other \in waiting : d = other
    BY <1>1, <2>1 DEF TaskIsComing, Coming
  <2>3. \A d \in waiting : Drain("flushing", d.company, queue).batch = queue
    BY DEF Drain
  <2> HIDE DEF waiting
  <2>4. \A d, other \in drains' : d = other /\ d.batch = queue /\ queue' = {}
    BY <2>1, <2>2, <2>3
  <2>5. queue' \subseteq queue
    BY <2>1
  <2> QED
    BY <1>1, <1>2, <2>4, <2>5 DEF OneWay, FlushedOnce
<1>4. CASE NextLoop \/ DropLoop
  <2>1. drains' \subseteq drains /\ queue' = queue
    BY <1>4 DEF NextLoop, DropLoop, coalescer
  <2> QED
    BY <1>1, <1>2, <2>1 DEF OneWay, FlushedOnce
<1> QED
  BY <1>3, <1>4

LEMMA OneWayNext == OneWayInv /\ [Next]_vars => OneWay'
<1> SUFFICES ASSUME OneWayInv, [Next]_vars PROVE OneWay'
  OBVIOUS
<1>1. OneWay /\ UowTypeOK
  BY DEF OneWayInv, SessionInv
<1>2. ASSUME NEW s \in Sessions, BeginNested(s) PROVE OneWay'
  BY <1>1, <1>2, NothingMoves DEF BeginNested, coalescer, results
<1>3. ASSUME NEW s \in Sessions, RollbackNested(s) \/ CommitUnanswered(s) \/ Rollback(s) \/ Close(s)
      PROVE  OneWay'
  <2>1. /\ Drop(s) \/ UNCHANGED <<staged, handed, coalescer>>
        /\ UNCHANGED <<out, lost>>
    BY <1>3 DEF RollbackNested, CommitUnanswered, Rollback, Close, Undo, results
  <2>2. UNCHANGED <<handed, queue, drains>> /\ \A t \in Sessions : staged'[t] \subseteq staged[t]
    BY <1>1, <2>1 DEF Drop, coalescer, UowTypeOK
  <2> QED
    BY <1>1, <2>1, <2>2, NothingMoves
<1>4. ASSUME NEW s \in Sessions, ReleaseNested(s) \/ Commit(s) PROVE OneWay'
  BY <1>4, HandOverKeepsOneWay DEF ReleaseNested, Commit, results
<1>5. CASE UNCHANGED vars
  BY <1>1, <1>5, NothingMoves DEF vars, session, coalescer, results
<1> QED
  BY <1>2, <1>3, <1>4, <1>5, WriteKeepsOneWay, DrainStepKeepsOneWay, LoopStepKeepsOneWay DEF Next, SessionStep

----------------------------------------------------------------------------
(* The Coalescer and its drains implement Batching. *)

\* A drain that has not taken the queue has no batch to go on without.
OnlyFlushersCarry == \A d \in drains : d.phase # "flushing" => d.batch = {}

LEMMA CarryInit == Init => OnlyFlushersCarry
BY DEF Init, OnlyFlushersCarry

LEMMA CarryNext == UowTypeOK /\ OnlyFlushersCarry /\ [Next]_vars => OnlyFlushersCarry'
<1> SUFFICES ASSUME UowTypeOK, OnlyFlushersCarry, [Next]_vars PROVE OnlyFlushersCarry'
  OBVIOUS
<1>1. ASSUME NEW comp PROVE \A batch : /\ Drain("flushing", comp, batch).phase = "flushing"
                                       /\ Drain("created", comp, {}).batch = {}
                                       /\ Drain("waiting", comp, {}).batch = {}
  BY DEF Drain
<1>2. ASSUME drains' \subseteq drains PROVE OnlyFlushersCarry'
  BY <1>2 DEF OnlyFlushersCarry
<1>3. ASSUME NEW s \in Sessions, HandOver(s) PROVE OnlyFlushersCarry'
  <2>1. CASE Forget(s) \/ UNCHANGED coalescer
    BY <1>2, <2>1 DEF Forget, coalescer
  <2>2. CASE Add(staged[s], company[s])
    BY <1>1, <2>2 DEF Add, OnlyFlushersCarry
  <2>3. CASE drains' = drains \cup {Drain("flushing", company[s], staged[s])}
    BY <1>1, <2>3 DEF OnlyFlushersCarry
  <2> QED
    BY <1>3, <2>1, <2>2, <2>3, HandOverIs DEF Hands
<1>4. ASSUME NEW s \in Sessions,
             \/ Write(s) \/ BeginNested(s) \/ RollbackNested(s)
             \/ CommitUnanswered(s) \/ Rollback(s) \/ Close(s)
      PROVE  OnlyFlushersCarry'
  BY <1>2, <1>4 DEF Write, BeginNested, RollbackNested, CommitUnanswered, Rollback, Close, Undo, Drop, coalescer
<1>5. ASSUME NEW d \in drains, DrainStarts(d) \/ DrainWakes(d) PROVE OnlyFlushersCarry'
  BY <1>1, <1>5 DEF DrainStarts, DrainWakes, OnlyFlushersCarry
<1>6. ASSUME NEW d \in drains, NEW e, PublishOne(d, e) \/ PublishOneFails(d, e) PROVE OnlyFlushersCarry'
  <2>1. [d EXCEPT !.batch = @ \ {e}].phase = "flushing"
    BY <1>6 DEF UowTypeOK, Drains, PublishOne, PublishOneFails
  <2> QED
    BY <1>6, <2>1 DEF PublishOne, PublishOneFails, Published, OnlyFlushersCarry
<1>7. CASE CloseLoop
  BY <1>1, <1>7 DEF CloseLoop, OnlyFlushersCarry
<1>8. CASE NextLoop \/ DropLoop \/ UNCHANGED vars
  BY <1>2, <1>8 DEF NextLoop, DropLoop, vars, coalescer
<1> QED
  BY <1>3, <1>4, <1>5, <1>6, <1>7, <1>8 DEF Next, SessionStep, DrainStep, ReleaseNested, Commit

\* What waits, in the queue or in a batch.
Batches == UNION {d.batch : d \in drains}
Waiting == queue \cup Batches

LEMMA BatchesAre ==
    /\ \A x : x \in Batches <=> \E d \in drains : x \in d.batch
    /\ \A x : x \in Batches' <=> \E d \in drains' : x \in d.batch
BY DEF Batches

LEMMA WaitingAreEntries == UowTypeOK => Waiting \subseteq Entries
BY BatchesAre DEF UowTypeOK, Drains, Waiting

\* Batching's actions, of what the mapping makes of them.
LEMMA PromisedActions ==
    /\ \A S, T : Promise!Hand(S, T) <=>
          /\ S \cap handed = {} /\ T \subseteq Waiting
          /\ loop = 1 /\ ~closing => T = {}
          /\ handed' = handed \cup S /\ Waiting' = (Waiting \ T) \cup S
          /\ UNCHANGED <<Gone, (loop = 1 /\ ~closing)>>
    /\ \A S : Promise!Flush(S) <=>
          /\ S \subseteq Waiting /\ Waiting' = Waiting \ S /\ Gone' = Gone \cup S
          /\ UNCHANGED <<handed, (loop = 1 /\ ~closing)>>
    /\ \A T : Promise!End(T) <=>
          /\ T \subseteq Waiting /\ Waiting' = Waiting \ T
          /\ ~(loop = 1 /\ ~closing)'
          /\ UNCHANGED <<handed, Gone>>
BY DEF Promise!Hand, Promise!Flush, Promise!End, Waiting, Batches

LEMMA NothingPromised ==
    ASSUME UNCHANGED <<handed, queue, drains, out, lost, loop, closing>>
    PROVE  UNCHANGED Promise!promise
BY DEF Promise!promise, Gone

LEMMA HandOverIsHand ==
    ASSUME OneWayInv, NEW s \in Sessions, Hands(s), UNCHANGED <<out, lost, loop, closing>>
    PROVE  Promise!Next
<1> DEFINE S == staged[s]
<1>1. UowTypeOK /\ FlushedOnce /\ S \cap handed = {} /\ S \subseteq Entries
  BY DEF OneWayInv, SessionInv, OneWay, UowTypeOK
<1>2. Gone' = Gone /\ handed' = handed \cup S
  BY DEF Gone, Hands
<1>3. queue \cap Batches = {} /\ queue \subseteq Entries
  BY <1>1, BatchesAre DEF FlushedOnce, UowTypeOK
<1>4. PICK T \in {{}, queue} : /\ loop = 1 => T = {}
                               /\ Waiting' = (Waiting \ T) \cup S
  <2>1. CASE UNCHANGED coalescer /\ S = {}
    <3>1. Waiting' = Waiting
      BY <2>1, BatchesAre DEF Waiting, coalescer
    <3> QED
      BY <2>1, <3>1
  <2>2. CASE Add(S, company[s])
    <3> DEFINE new == Drain("created", company[s], {})
               T == IF task \in {NoTask, loop} THEN {} ELSE queue
    <3>1. new.batch = {}
      BY DEF Drain
    <3>2. drains' \in {drains, drains \cup {new}} /\ queue' = (queue \ T) \cup S
      BY <2>2 DEF Add
    <3>3. loop = 1 => T = {}
      BY <1>1 DEF UowTypeOK, NoTask
    <3>4. T \in {{}, queue}
      OBVIOUS
    <3> HIDE DEF new, S, T
    <3>5. \A x : x \in Batches' <=> x \in Batches
      BY <3>1, <3>2, BatchesAre
    <3>6. Waiting' = (Waiting \ T) \cup S
      BY <1>3, <3>2, <3>4, <3>5 DEF Waiting
    <3> QED
      BY <3>3, <3>4, <3>6
  <2>3. CASE drains' = drains \cup {Drain("flushing", company[s], S)} /\ UNCHANGED <<queue, task>>
    <3> DEFINE new == Drain("flushing", company[s], S)
    <3>1. new.batch = S
      BY DEF Drain
    <3>2. queue' = queue /\ drains' = drains \cup {new}
      BY <2>3
    <3> HIDE DEF new, S
    <3>3. \A x : x \in Batches' <=> x \in Batches \cup S
      BY <3>1, <3>2, BatchesAre
    <3>4. Waiting' = Waiting \cup S
      BY <3>2, <3>3 DEF Waiting
    <3> QED
      BY <3>4
  <2> QED
    BY <2>1, <2>2, <2>3 DEF Hands
<1> HIDE DEF S
<1>5. T \subseteq Waiting /\ T \in SUBSET Entries /\ S \in SUBSET Entries
  BY <1>1, <1>3 DEF Waiting
<1>6. Promise!Hand(S, T)
  BY <1>1, <1>2, <1>4, <1>5, PromisedActions
<1> QED
  BY <1>5, <1>6 DEF Promise!Next

LEMMA DrainStepIsFlush ==
    ASSUME OneWayInv, OnlyFlushersCarry, DrainStep
    PROVE  Promise!Next \/ UNCHANGED Promise!promise
<1>1. UowTypeOK /\ FlushedOnce
  BY DEF OneWayInv, SessionInv, OneWay
<1>2. PICK d \in drains : \/ DrainStarts(d) \/ DrainWakes(d)
                          \/ \E e \in d.batch : PublishOne(d, e) \/ PublishOneFails(d, e)
  BY DEF DrainStep
<1>3. UNCHANGED <<handed, loop, closing>>
  BY <1>2 DEF DrainStarts, DrainWakes, PublishOne, PublishOneFails, session
<1>4. ASSUME Waiting' = Waiting, Gone' = Gone PROVE UNCHANGED Promise!promise
  BY <1>3, <1>4 DEF Promise!promise, Waiting, Batches
<1>5. CASE DrainStarts(d)
  <2> DEFINE new == Drain("waiting", d.company, {})
  <2>1. new.batch = {}
    BY DEF Drain
  <2>2. drains' = (drains \ {d}) \cup {new} /\ queue' = queue /\ Gone' = Gone /\ d.phase = "created"
    BY <1>5 DEF DrainStarts, results, Gone
  <2>3. d.batch = {}
    BY <2>2 DEF OnlyFlushersCarry
  <2> HIDE DEF new
  <2>4. \A x : x \in Batches' <=> x \in Batches
    BY <2>1, <2>2, <2>3, BatchesAre
  <2> QED
    BY <1>4, <2>2, <2>4 DEF Waiting
<1>6. CASE DrainWakes(d)
  <2> DEFINE new == Drain("flushing", d.company, queue)
  <2>1. new.batch = queue
    BY DEF Drain
  <2>2. /\ drains' = (drains \ {d}) \cup (IF queue = {} THEN {} ELSE {new})
        /\ queue' = {} /\ Gone' = Gone /\ d.phase = "waiting"
    BY <1>6 DEF DrainWakes, Take, results, Gone
  <2>3. d.batch = {}
    BY <2>2 DEF OnlyFlushersCarry
  <2> HIDE DEF new
  <2>4. \A x : x \in Batches' <=> x \in Batches \cup queue
    BY <2>1, <2>2, <2>3, BatchesAre
  <2> QED
    BY <1>4, <2>2, <2>4 DEF Waiting
<1>7. ASSUME NEW e \in d.batch, PublishOne(d, e) \/ PublishOneFails(d, e)
      PROVE  Promise!Next
  <2> DEFINE rest == [d EXCEPT !.batch = @ \ {e}]
  <2>1. rest.batch = d.batch \ {e} /\ e \in Entries
    BY <1>1 DEF UowTypeOK, Drains
  <2>2. drains' = (drains \ {d}) \cup (IF d.batch = {e} THEN {} ELSE {rest}) /\ queue' = queue
    BY <1>7 DEF PublishOne, PublishOneFails, Published
  <2>3. Gone' = Gone \cup {e}
    <3>1. CASE PublishOne(d, e)
      <4>1. out' = out \cup {[entry |-> e, labelled |-> Labelled(d, e)]} /\ lost' = lost
        BY <3>1 DEF PublishOne
      <4>2. [entry |-> e, labelled |-> Labelled(d, e)].entry = e
        OBVIOUS
      <4> QED
        BY <4>1, <4>2 DEF Gone
    <3>2. CASE PublishOneFails(d, e)
      BY <3>2 DEF PublishOneFails, Gone
    <3> QED
      BY <1>7, <3>1, <3>2
  <2>4. e \notin queue /\ \A other \in drains \ {d} : e \notin other.batch
    BY <1>1 DEF FlushedOnce
  <2> HIDE DEF rest
  <2>5. \A x : x \in Batches' <=> x \in Batches /\ x # e
    BY <2>1, <2>2, <2>4, BatchesAre
  <2>6. {e} \subseteq Waiting /\ Waiting' = Waiting \ {e}
    BY <2>2, <2>4, <2>5, BatchesAre DEF Waiting
  <2>7. Promise!Flush({e})
    BY <1>3, <2>3, <2>6, PromisedActions
  <2> QED
    BY <2>1, <2>7 DEF Promise!Next
<1> QED
  BY <1>2, <1>5, <1>6, <1>7

LEMMA LoopStepIsEnd ==
    ASSUME UowTypeOK, CloseLoop \/ NextLoop \/ DropLoop
    PROVE  Promise!Next \/ UNCHANGED Promise!promise
<1>1. handed' = handed /\ Gone' = Gone
  BY DEF CloseLoop, NextLoop, DropLoop, session, results, Gone
<1>2. ASSUME Waiting' \subseteq Waiting, ~(loop = 1 /\ ~closing)' PROVE Promise!Next
  <2>1. PICK T \in SUBSET Entries : T \subseteq Waiting /\ Waiting' = Waiting \ T
    <3>1. /\ Waiting \ Waiting' \in SUBSET Entries
          /\ Waiting' = Waiting \ (Waiting \ Waiting')
      BY <1>2, WaitingAreEntries
    <3> QED
      BY <3>1
  <2>2. Promise!End(T)
    BY <1>1, <1>2, <2>1, PromisedActions
  <2> QED
    BY <2>1, <2>2 DEF Promise!Next
<1>3. CASE CloseLoop
  <2>1. /\ drains' = {Drain("flushing", d.company, queue) : d \in {b \in drains : b.phase = "waiting"}}
        /\ closing' = TRUE /\ queue' \in {queue, {}}
    BY <1>3 DEF CloseLoop, Take
  <2>2. \A comp : Drain("flushing", comp, queue).batch = queue
    BY DEF Drain
  <2>3. \A x : x \in Batches' => x \in queue
    BY <2>1, <2>2, BatchesAre
  <2> QED
    BY <1>2, <2>1, <2>3 DEF Waiting
<1>4. CASE NextLoop
  <2>1. UNCHANGED <<queue, drains>> /\ closing /\ loop' # 1
    BY <1>4 DEF NextLoop, coalescer, UowTypeOK
  <2> QED
    BY <1>1, <2>1 DEF Promise!promise
<1>5. CASE DropLoop
  <2>1. queue' = queue /\ drains' = {} /\ loop' # 1
    BY <1>5 DEF DropLoop, UowTypeOK
  <2>2. \A x : x \notin Batches'
    BY <2>1, BatchesAre
  <2> QED
    BY <1>2, <2>1, <2>2 DEF Waiting
<1> QED
  BY <1>3, <1>4, <1>5

LEMMA InitIsPromised == Init => Promise!Init
BY DEF Init, Promise!Init, Gone

LEMMA NextIsPromised ==
    OneWayInv /\ OnlyFlushersCarry /\ [Next]_vars => [Promise!Next]_Promise!promise
<1> SUFFICES ASSUME OneWayInv, OnlyFlushersCarry, [Next]_vars
             PROVE  Promise!Next \/ UNCHANGED Promise!promise
  OBVIOUS
<1>1. UowTypeOK
  BY DEF OneWayInv, SessionInv
<1>2. ASSUME NEW s \in Sessions,
             \/ Write(s) \/ BeginNested(s) \/ RollbackNested(s)
             \/ CommitUnanswered(s) \/ Rollback(s) \/ Close(s)
      PROVE  UNCHANGED Promise!promise
  BY <1>2, NothingPromised
  DEF Write, BeginNested, RollbackNested, CommitUnanswered, Rollback, Close, Undo, Drop, coalescer, results
<1>3. ASSUME NEW s \in Sessions, ReleaseNested(s) \/ Commit(s)
      PROVE  Promise!Next \/ UNCHANGED Promise!promise
  <2>1. HandOver(s) /\ UNCHANGED <<out, lost, loop, closing>>
    BY <1>3 DEF ReleaseNested, Commit, results
  <2>2. Hands(s) \/ UNCHANGED <<handed, queue, drains>>
    BY <2>1, HandOverIs DEF Forget, coalescer
  <2> QED
    BY <2>1, <2>2, HandOverIsHand, NothingPromised
<1>4. CASE UNCHANGED vars
  BY <1>4, NothingPromised DEF vars, session, coalescer, results
<1> QED
  BY <1>1, <1>2, <1>3, <1>4, DrainStepIsFlush, LoopStepIsEnd DEF Next, SessionStep

\* The Coalescer: what is queued has one drain coming for it, and the queue with the
\* batches of its drains implements Batching (coalesce.py's add, _drain and _take).
THEOREM QueuedIsFlushed == Spec => QueueIsFlushedOnce
<1>1. SessionInv => UowTypeOK
  BY DEF SessionInv
<1>2. Spec => [](SessionInv /\ TaskIsComing)
  BY <1>1, SessionAlwaysInv, DrainInitInv, DrainNextInv, PTL DEF Spec, DrainInv
<1>3. Spec => []OneWay
  BY <1>2, OneWayInit, OneWayNext, PTL DEF Spec, OneWayInv
<1>4. Spec => []OnlyFlushersCarry
  BY <1>1, SessionAlwaysInv, CarryInit, CarryNext, PTL DEF Spec
<1>5. Spec => []QueueHasDrain
  BY <1>2, ComingIsOne, PTL
<1>6. Spec => Promise!Spec
  BY <1>2, <1>3, <1>4, InitIsPromised, NextIsPromised, PTL DEF Spec, OneWayInv, Promise!Spec
<1> QED
  BY <1>5, <1>6 DEF QueueIsFlushedOnce

\* What Batching is good for: nothing that was flushed waits, and while the loop goes
\* on whatever was handed over was flushed or waits.
Batched ==
    /\ Waiting \cap Gone = {} /\ Waiting \cup Gone \subseteq handed
    /\ loop = 1 /\ ~closing => handed = Waiting \cup Gone

THEOREM NothingIsForgotten == Spec => []Batched
<1>1. Promise!Init => Batched
  BY DEF Promise!Init, Batched, Waiting, Batches
<1>2. Batched /\ [Promise!Next]_Promise!promise => Batched'
  <2>1. ASSUME Batched, NEW S, NEW T, Promise!Hand(S, T) PROVE Batched'
    BY <2>1, PromisedActions DEF Batched
  <2>2. ASSUME Batched, NEW S, Promise!Flush(S) PROVE Batched'
    BY <2>2, PromisedActions DEF Batched
  <2>3. ASSUME Batched, NEW T, Promise!End(T) PROVE Batched'
    BY <2>3, PromisedActions DEF Batched
  <2>4. ASSUME Batched, UNCHANGED Promise!promise PROVE Batched'
    BY <2>4 DEF Batched, Waiting, Batches, Promise!promise
  <2> QED
    BY <2>1, <2>2, <2>3, <2>4 DEF Promise!Next
<1> QED
  BY <1>1, <1>2, QueuedIsFlushed, PTL DEF QueueIsFlushedOnce, Promise!Spec

----------------------------------------------------------------------------
(* What Process walks. *)

LEMMA ProcessStepsAreTheParts ==
    [ProcessNext]_processVars =>
      /\ [ConsumerNext]_consumerVars
      /\ [GatewayNext]_gatewayVars
      /\ [Next]_vars
<1> SUFFICES ASSUME [ProcessNext]_processVars
    PROVE
      /\ [ConsumerNext]_consumerVars
      /\ [GatewayNext]_gatewayVars
      /\ [Next]_vars
  OBVIOUS
<1>1. CASE UNCHANGED processVars
  BY <1>1 DEF processVars
<1>2. CASE part = "queue" /\ ConsumerNext /\ UNCHANGED <<gatewayVars, vars>>
  BY <1>2
<1>3. CASE part = "requests" /\ GatewayNext /\ UNCHANGED <<consumerVars, vars>>
  BY <1>3
<1>4. CASE part = "sessions" /\ Next /\ UNCHANGED <<consumerVars, gatewayVars>>
  BY <1>4
<1> QED
  BY <1>1, <1>2, <1>3, <1>4 DEF ProcessNext

\* A behaviour of Process is one of each of its three parts, so that what is proved of
\* a part is proved of what the run walks.
THEOREM ProcessWalksItsParts == ProcessSpec => ConsumerSpec /\ GatewaySpec /\ Spec
<1>1. ProcessInit => ConsumerInit /\ GatewayInit /\ Init
  BY DEF ProcessInit
<1> QED
  BY <1>1, ProcessStepsAreTheParts, PTL DEF ProcessSpec, ConsumerSpec, GatewaySpec, Spec
=============================================================================
