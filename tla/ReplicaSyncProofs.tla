------------------------- MODULE ReplicaSyncProofs -------------------------
(* Proofs about ReplicaSync, for any columns, organizations, events and runs: *)
(* a replica is never moved back, and handled in order the events lead it to  *)
(* the owning service's row.                                                  *)
EXTENDS ReplicaSync, TLAPS

Cols == UNION {[S -> Nat] : S \in SUBSET Fields}
Rows == [org : Nat, cols : Cols]
Events == [type : {"created", "updated", "moved", "deleted"}, org : Nat, left : Nat, cols : Cols]
Steps == {"create", "look", "move", "write", "insert"}
Runs == [no : Nat, event : Nat, again : BOOLEAN, row : Rows, step : Steps]
Boots == [at : {"off", "fetched", "done"}, row : Rows, seen : Nat, turn : Int, left : BOOLEAN]

ReplicaTypeOK ==
    /\ source \in Rows /\ replica \in Rows /\ boot \in Boots
    /\ source # NoRow => source.cols \in [Fields -> Nat]
    /\ log \in Seq(Events)
    /\ count \in Nat /\ runs \subseteq Runs /\ turn \in Int

\* The events the runs are at were sent, and a move is to an organization joined
\* later than the one it names as left.
MovesGoOn == \A i \in 1 .. Len(log) : log[i].left # NoOrg /\ log[i].org # NoOrg => log[i].left < log[i].org

ReplicaInv ==
    /\ ReplicaTypeOK
    /\ MovesGoOn
    /\ \A run \in runs : run.event \in 1 .. Len(log)

LEMMA RowWithoutColumns == NoRow \in Rows /\ NoRow.org = NoOrg
<1>1. [f \in {} |-> 0] \in [{} -> Nat] /\ {} \in SUBSET Fields
  OBVIOUS
<1>2. [f \in {} |-> 0] \in Cols
  BY <1>1 DEF Cols
<1> QED
  BY <1>2 DEF NoRow, NoOrg, Rows

LEMMA InitReplicaInv == Init => ReplicaInv
<1> SUFFICES ASSUME Init PROVE ReplicaInv
  OBVIOUS
<1>1. log \in Seq(Events) /\ Len(log) = 0
  BY DEF Init
<1> QED
  BY <1>1, RowWithoutColumns DEF Init, ReplicaInv, ReplicaTypeOK, MovesGoOn, Boots, NoBoot, Unbound

\* A change sends one event more.
LEMMA ChangeKeepsInv ==
    ASSUME ReplicaInv, NEW row \in Rows, row # NoRow => row.cols \in [Fields -> Nat], NEW type, NEW org, NEW left, NEW cols,
           [type |-> type, org |-> org, left |-> left, cols |-> cols] \in Events,
           left # NoOrg /\ org # NoOrg => left < org,
           Change(row, type, org, left, cols)
    PROVE  ReplicaInv' /\ replica' = replica
<1> DEFINE event == [type |-> type, org |-> org, left |-> left, cols |-> cols]
<1>1. event \in Events /\ (event.left # NoOrg /\ event.org # NoOrg => event.left < event.org)
  OBVIOUS
<1>2. source' = row /\ log' = Append(log, event) /\ UNCHANGED <<replica, boot, runs, count, turn>>
  BY DEF Change, queue
<1> HIDE DEF event
<1>3. /\ log' \in Seq(Events) /\ Len(log') = Len(log) + 1 /\ Len(log) \in Nat
      /\ \A i \in 1 .. Len(log) : log'[i] = log[i]
      /\ log'[Len(log) + 1] = event
  BY <1>1, <1>2 DEF ReplicaInv, ReplicaTypeOK
<1>4. ReplicaTypeOK'
  BY <1>2, <1>3 DEF ReplicaInv, ReplicaTypeOK
<1>5. MovesGoOn'
  <2>1. \A i \in 1 .. Len(log') : i \in 1 .. Len(log) \/ i = Len(log) + 1
    BY <1>3
  <2> QED
    BY <1>1, <1>3, <2>1 DEF ReplicaInv, MovesGoOn
<1>6. \A run \in runs' : run.event \in 1 .. Len(log')
  BY <1>2, <1>3 DEF ReplicaInv
<1> QED
  BY <1>2, <1>4, <1>5, <1>6 DEF ReplicaInv

\* The end of a run writes the row it has.
LEMMA EndKeepsInv ==
    ASSUME ReplicaInv, NEW run \in runs, NEW row \in Rows, End(run, row)
    PROVE  ReplicaInv' /\ replica' = row
BY DEF End, ReplicaInv, ReplicaTypeOK, MovesGoOn

LEMMA RaiseKeepsInv ==
    ASSUME ReplicaInv, NEW run \in runs, Raise(run) \/ Crash(run) \/ Fail(run)
    PROVE  ReplicaInv' /\ replica' = replica
BY DEF Crash, Drop, Raise, Fail, queue, ReplicaInv, ReplicaTypeOK, MovesGoOn

LEMMA GotoKeepsInv ==
    ASSUME ReplicaInv, NEW run \in runs, NEW step \in Steps, Goto(run, step)
    PROVE  ReplicaInv' /\ replica' = replica
<1>1. run \in Runs /\ replica \in Rows
  BY DEF ReplicaInv, ReplicaTypeOK
<1>2. [run EXCEPT !.step = step, !.row = replica] \in Runs /\ [run EXCEPT !.step = step, !.row = replica].event = run.event
  BY <1>1 DEF Runs
<1> QED
  BY <1>2 DEF Goto, queue, ReplicaInv, ReplicaTypeOK, MovesGoOn

\* The columns an event carries, put into a row.
LEMMA WrittenRows ==
    ASSUME NEW event \in Events, NEW row \in Rows, NEW S, S \subseteq DOMAIN event.cols
    PROVE  /\ Values(event) \in Cols
           /\ [row EXCEPT !.cols = [f \in DOMAIN @ |-> IF f \in S THEN Values(event)[f] ELSE @[f]]] \in Rows
           /\ [row EXCEPT !.cols = [f \in DOMAIN @ |-> IF f \in S THEN Values(event)[f] ELSE @[f]]].org = row.org
<1>1. PICK T \in SUBSET Fields : event.cols \in [T -> Nat]
  BY DEF Events, Cols
<1>2. Values(event) \in [Fields -> Nat]
  BY <1>1 DEF Values
<1>3. PICK U \in SUBSET Fields : row.cols \in [U -> Nat]
  BY DEF Rows, Cols
<1> DEFINE cols == [f \in DOMAIN row.cols |-> IF f \in S THEN Values(event)[f] ELSE row.cols[f]]
<1>4. cols \in [U -> Nat]
  BY <1>2, <1>3
<1>5. cols \in Cols /\ Values(event) \in Cols
  BY <1>2, <1>4 DEF Cols
<1> HIDE DEF cols
<1>6. [row EXCEPT !.cols = cols] \in Rows /\ [row EXCEPT !.cols = cols].org = row.org
  BY <1>5 DEF Rows
<1> QED
  BY <1>5, <1>6 DEF cols

\* What one step does to the replica's organization.
Stays == replica # NoRow /\ replica' # NoRow => replica'.org >= replica.org

LEMMA StaysPut ==
    ASSUME ReplicaInv, replica' = replica
    PROVE  Stays
BY DEF Stays, ReplicaInv, ReplicaTypeOK, Rows

LEMMA NextReplicaInv == ReplicaInv /\ [Next]_vars => ReplicaInv' /\ Stays
<1> SUFFICES ASSUME ReplicaInv, [Next]_vars PROVE ReplicaInv' /\ Stays
  OBVIOUS
<1>0. /\ source \in Rows /\ replica \in Rows /\ boot.row \in Rows /\ log \in Seq(Events) /\ Len(log) \in Nat
      /\ source # NoRow => source.cols \in [Fields -> Nat]
      /\ runs \subseteq Runs /\ count \in Nat /\ NoRow \in Rows /\ NoRow.cols \in Cols
      /\ \A run \in runs : run.event \in 1 .. Len(log) /\ Event(run) \in Events
      /\ \A run \in runs : Event(run).left # NoOrg /\ Event(run).org # NoOrg => Event(run).left < Event(run).org
  BY RowWithoutColumns DEF ReplicaInv, ReplicaTypeOK, MovesGoOn, Event, Rows, Boots
<1>1. CASE SourceCreates
  <2>1. PICK org \in {NoOrg, 1} : LET cols == [f \in Fields |-> 1]
          IN Change([org |-> org, cols |-> cols], "created", org, NoOrg, cols)
    BY <1>1 DEF SourceCreates
  <2> DEFINE cols == [f \in Fields |-> 1]
  <2>2. cols \in [Fields -> Nat]
    OBVIOUS
  <2>a. cols \in Cols
    BY <2>2 DEF Cols
  <2>3. Change([org |-> org, cols |-> cols], "created", org, NoOrg, cols)
    BY <2>1
  <2> HIDE DEF cols
  <2>4. [org |-> org, cols |-> cols] \in Rows /\ [type |-> "created", org |-> org, left |-> NoOrg, cols |-> cols] \in Events
    BY <2>a DEF Rows, Events, NoOrg
  <2> QED
    BY <2>2, <2>3, <2>4, ChangeKeepsInv, StaysPut
<1>2. CASE SourceUpdates
  <2>1. PICK S \in SUBSET Fields, org \in {source.org, NoOrg} :
          LET cols == [f \in S |-> Len(log) + 1]
              row == [f \in Fields |-> IF f \in S THEN cols[f] ELSE source.cols[f]]
          IN Change([source EXCEPT !.cols = row], "updated", org, NoOrg, cols)
    BY <1>2 DEF SourceUpdates
  <2> DEFINE cols == [f \in S |-> Len(log) + 1]
             row == [f \in Fields |-> IF f \in S THEN cols[f] ELSE source.cols[f]]
  <2>2. cols \in [S -> Nat] /\ row \in [Fields -> Nat]
    <3>1. source.cols \in [Fields -> Nat] /\ Len(log) + 1 \in Nat
      BY <1>0, <1>2 DEF SourceUpdates
    <3> QED
      BY <3>1
  <2>a. cols \in Cols /\ row \in Cols
    BY <2>2 DEF Cols
  <2>3. Change([source EXCEPT !.cols = row], "updated", org, NoOrg, cols)
    BY <2>1
  <2> HIDE DEF cols, row
  <2>4. [source EXCEPT !.cols = row] \in Rows /\ [type |-> "updated", org |-> org, left |-> NoOrg, cols |-> cols] \in Events
    <3>1. org \in Nat /\ NoOrg \in Nat
      BY <1>0 DEF Rows, NoOrg
    <3>2. [source EXCEPT !.cols = row] \in Rows
      BY <1>0, <2>a DEF Rows
    <3>3. [type |-> "updated", org |-> org, left |-> NoOrg, cols |-> cols] \in Events
      BY <2>a, <3>1 DEF Events
    <3> QED
      BY <3>2, <3>3
  <2>5. [source EXCEPT !.cols = row].cols \in [Fields -> Nat]
    BY <1>0, <2>2 DEF Rows
  <2> QED
    BY <2>3, <2>4, <2>5, ChangeKeepsInv, StaysPut
<1>3. CASE SourceMoves
  <2>1. PICK org \in Orgs : org > source.org /\ Change([source EXCEPT !.org = org], "moved", org, source.org, NoRow.cols)
    BY <1>3 DEF SourceMoves
  <2>2. org \in Nat /\ source.org \in Nat /\ source.org < org
    BY <1>0, <2>1, ReplicaSyncAssumption DEF Rows, Orgs
  <2>3. [source EXCEPT !.org = org] \in Rows /\ [source EXCEPT !.org = org].cols = source.cols
    BY <1>0, <2>2 DEF Rows
  <2>4. [type |-> "moved", org |-> org, left |-> source.org, cols |-> NoRow.cols] \in Events
    BY <1>0, <2>2 DEF Events
  <2>5. source.cols \in [Fields -> Nat]
    BY <1>0, <1>3 DEF SourceMoves
  <2> QED
    BY <2>1, <2>2, <2>3, <2>4, <2>5, ChangeKeepsInv, StaysPut
<1>4. CASE SourceDeletes
  <2>1. [type |-> "deleted", org |-> NoOrg, left |-> NoOrg, cols |-> NoRow.cols] \in Events
    BY <1>0 DEF Events, NoOrg
  <2> QED
    BY <1>0, <1>4, <2>1, ChangeKeepsInv, StaysPut DEF SourceDeletes
<1>5. ASSUME NEW e \in 1 .. Len(log), NEW redelivered \in BOOLEAN, Start(e, redelivered) PROVE ReplicaInv' /\ Stays
  <2>0. PICK no \in 1 .. PREFETCH :
           runs' = runs \cup {[no |-> no, event |-> e, again |-> entity = "user" /\ ~redelivered,
                               row |-> NoRow, step |-> FirstStep[log[e].type]]}
    BY <1>5 DEF Start
  <2> DEFINE run == [no |-> no, event |-> e, again |-> entity = "user" /\ ~redelivered, row |-> NoRow,
                     step |-> FirstStep[log[e].type]]
  <2>1. log[e].type \in {"created", "updated", "moved", "deleted"}
    <3>1. log[e] \in Events
      BY <1>0
    <3> QED
      BY <3>1 DEF Events
  <2>a. FirstStep[log[e].type] \in Steps /\ e \in Nat
    <3>1. CASE log[e].type = "created"
      BY <1>0, <3>1 DEF FirstStep, Steps
    <3>2. CASE log[e].type = "moved"
      BY <1>0, <3>2 DEF FirstStep, Steps
    <3>3. CASE log[e].type \in {"updated", "deleted"}
      BY <1>0, <3>3 DEF FirstStep, Steps
    <3> QED
      BY <2>1, <3>1, <3>2, <3>3
  <2>2. run \in Runs /\ run.event = e
    <3>1. no \in Nat /\ (entity = "user" /\ ~redelivered) \in BOOLEAN
      BY ReplicaSyncAssumption
    <3> QED
      BY <1>0, <2>a, <3>1 DEF Runs
  <2>3. /\ runs' = runs \union {run} /\ count' = count + 1 /\ turn' \in Int
        /\ UNCHANGED <<source, log, replica, boot>>
    BY <1>5, <2>0 DEF Start, ReplicaInv, ReplicaTypeOK
  <2> HIDE DEF run
  <2> QED
    BY <1>0, <2>2, <2>3, StaysPut DEF ReplicaInv, ReplicaTypeOK, MovesGoOn
<1>6. ASSUME NEW run \in runs, Look(run) \/ Create(run) \/ Crash(run) \/ Fail(run) PROVE ReplicaInv' /\ Stays
  <2>1. (\E step \in Steps : Goto(run, step)) \/ End(run, replica) \/ Crash(run) \/ Fail(run)
    BY <1>6 DEF Look, Create, Steps
  <2>2. CASE \E step \in Steps : Goto(run, step)
    BY <2>2, GotoKeepsInv, StaysPut
  <2>3. CASE End(run, replica)
    BY <1>0, <2>3, EndKeepsInv, StaysPut
  <2>4. CASE Crash(run) \/ Fail(run)
    BY <2>4, RaiseKeepsInv, StaysPut
  <2> QED
    BY <2>1, <2>2, <2>3, <2>4
<1>7. ASSUME NEW run \in runs, Insert(run) PROVE ReplicaInv' /\ Stays
  <2>1. CASE replica = NoRow /\ End(run, [org |-> Event(run).org, cols |-> Values(Event(run))])
    <3>1. [org |-> Event(run).org, cols |-> Values(Event(run))] \in Rows
      BY <1>0, WrittenRows DEF Rows, Events
    <3> QED
      BY <2>1, <3>1, EndKeepsInv DEF Stays
  <2>2. CASE Raise(run)
    BY <2>2, RaiseKeepsInv, StaysPut
  <2> QED
    BY <1>7, <2>1, <2>2 DEF Insert
<1>8. ASSUME NEW run \in runs, Update(run) PROVE ReplicaInv' /\ Stays
  <2> DEFINE row == [replica EXCEPT !.cols = [f \in DOMAIN @ |-> IF f \in Changed(run) THEN Values(Event(run))[f] ELSE @[f]]]
  <2>1. Changed(run) \subseteq DOMAIN Event(run).cols
    BY DEF Changed
  <2>2. row \in Rows /\ row.org = replica.org
    <3>1. Event(run) \in Events /\ replica \in Rows
      BY <1>0
    <3> DEFINE event == Event(run)
               S == Changed(run)
    <3>2. event \in Events /\ S \subseteq DOMAIN event.cols
      BY <2>1, <3>1
    <3> HIDE DEF event, S
    <3>3. LET new == [replica EXCEPT !.cols = [f \in DOMAIN @ |-> IF f \in S THEN Values(event)[f] ELSE @[f]]]
          IN new \in Rows /\ new.org = replica.org
      BY <3>1, <3>2, WrittenRows
    <3> QED
      BY <3>3 DEF event, S
  <2>3. End(run, row) \/ Raise(run)
    BY <1>8 DEF Update
  <2> HIDE DEF row
  <2> QED
    BY <1>0, <2>2, <2>3, EndKeepsInv, RaiseKeepsInv, StaysPut DEF Stays, Rows
<1>9. ASSUME NEW run \in runs, Move(run) PROVE ReplicaInv' /\ Stays
  <2>1. CASE MovesFrom(Event(run)) /\ End(run, [replica EXCEPT !.org = Event(run).org])
    <3>1. [replica EXCEPT !.org = Event(run).org] \in Rows /\ Event(run).org \in Nat
      BY <1>0 DEF Rows, Events
    <3>2. replica.org < Event(run).org
      BY <1>0, <2>1 DEF MovesFrom
    <3> QED
      BY <1>0, <2>1, <3>1, <3>2, EndKeepsInv DEF Stays, Rows
  <2>2. CASE End(run, replica)
    BY <1>0, <2>2, EndKeepsInv, StaysPut
  <2> QED
    BY <1>9, <2>1, <2>2 DEF Move
<1>10. ASSUME NEW run \in runs, Delete(run) PROVE ReplicaInv' /\ Stays
  BY <1>0, <1>10, EndKeepsInv DEF Delete, Stays
<1>11. CASE Bind \/ BootFetch \/ BootStore \/ UNCHANGED vars
  <2>1. UNCHANGED <<source, log, runs, count>> /\ replica' \in {replica, boot.row} /\ (replica # NoRow => replica' = replica)
    BY <1>11 DEF Bind, BootFetch, BootStore, Store, vars
  <2>2. boot' \in Boots /\ turn' \in Int
    <3>0. boot \in Boots /\ turn \in Int
      BY DEF ReplicaInv, ReplicaTypeOK
    <3>1. CASE Bind
      BY <1>0, <3>0, <3>1 DEF Bind
    <3>2. CASE BootFetch
      <4>1. PICK row \in {source, NoRow} :
               boot' = [boot EXCEPT !.at = "fetched", !.row = IF row.org = NoOrg THEN NoRow ELSE row,
                                    !.seen = IF row.org = NoOrg THEN 0 ELSE Len(log)]
        BY <3>2 DEF BootFetch
      <4> QED
        BY <1>0, <3>0, <3>2, <4>1 DEF BootFetch, queue, Boots
    <3>3. CASE BootStore
      <4>1. PICK row : Store(row)
        BY <3>3 DEF BootStore
      <4>2. (IF replica = NoRow THEN boot.seen ELSE 0) \in Nat /\ (IF inOrder THEN turn ELSE Unbound) \in Int
        BY <3>0 DEF Boots, Unbound
      <4> QED
        BY <1>0, <3>0, <4>1, <4>2 DEF Store, queue, Boots
    <3>4. CASE UNCHANGED vars
      BY <3>0, <3>4 DEF vars, queue
    <3> QED
      BY <1>11, <3>1, <3>2, <3>3, <3>4
  <2>3. ReplicaInv'
    BY <1>0, <2>1, <2>2 DEF ReplicaInv, ReplicaTypeOK, MovesGoOn
  <2> QED
    BY <1>0, <2>1, <2>3 DEF Stays, Rows
<1> QED
  BY <1>1, <1>2, <1>3, <1>4, <1>5, <1>6, <1>7, <1>8, <1>9, <1>10, <1>11
  DEF Next, CustomerHandlers, UserHandlers

\* However late, repeated or overlapping its events are, a replica that stays is
\* only moved to an organization joined later.
THEOREM ReplicasNeverMoveBack == Spec => NeverMovesBack
<1>1. ReplicaInv /\ [Next]_vars => [replica # NoRow /\ replica' # NoRow => replica'.org >= replica.org]_vars
  BY NextReplicaInv DEF Stays
<1> QED
  BY <1>1, InitReplicaInv, NextReplicaInv, PTL DEF Spec, NeverMovesBack

----------------------------------------------------------------------------
(* Handled in order, the events lead the replica to the owner's row, unless   *)
(* something was lost between the bootstrap and the queue. The argument: the  *)
(* log tells the source's row (LogTells); the events that reached the replica *)
(* are those up to one, and in order each has its turn (InTurn); a row that   *)
(* tells some of them, and perhaps later ones (Fits), still does after the    *)
(* next event's handler, because of the last event that sets a column, and of *)
(* the organization a move leaves, there is only one in the log.              *)

Joins == {i \in 1 .. Len(log) : log[i].type \in {"created", "moved"}}
Moved == {i \in 1 .. Len(log) : log[i].type = "moved"}

\* The first event, and only it, creates the row; one that deletes it is the last.
EventsFit ==
    /\ Len(log) = 0 => source = NoRow
    /\ \A i \in 1 .. Len(log) :
          /\ log[i].type = "created" <=> i = 1
          /\ log[i].type = "deleted" <=> (i = Len(log) /\ source = NoRow)
          /\ \A f \in DOMAIN log[i].cols : log[i].cols[f] = i
          /\ log[i].type = "created" => DOMAIN log[i].cols = Fields
          /\ log[i].type \in {"moved", "deleted"} => DOMAIN log[i].cols = {}

\* A column holds the number of the last event that carries it.
ColumnsFit ==
    source # NoRow =>
        \A f \in Fields :
            /\ source.cols[f] \in 1 .. Len(log)
            /\ f \in DOMAIN log[source.cols[f]].cols
            /\ \A i \in 1 .. Len(log) : f \in DOMAIN log[i].cols => i <= source.cols[f]

\* The organization is the last one joined; each move leaves the one before.
OrgsFit ==
    /\ source # NoRow =>
          /\ \E i \in Joins : log[i].org = source.org
          /\ \A i \in Joins : log[i].org <= source.org
    /\ \A j \in Moved :
          /\ log[j].left < log[j].org
          /\ \E i \in Joins : i < j /\ log[i].org = log[j].left
          /\ \A i \in Joins : i < j => log[i].org <= log[j].left

LogTells == EventsFit /\ ColumnsFit /\ OrgsFit

\* A row a table may have, of somebody in an organization.
Real(row) == row \in Rows /\ (row # NoRow => row.org # NoOrg /\ DOMAIN row.cols = Fields)

\* A row with what the creation and the events of D say, and perhaps later ones.
Fits(row, D) ==
    /\ \A f \in Fields : source.cols[f] \in D \cup {1} => row.cols[f] = source.cols[f]
    /\ \A i \in Joins \cap (D \cup {1}) : log[i].org <= row.org
    /\ \A i \in Moved : row.org <= log[i].left \/ log[i].org <= row.org
    /\ row.org <= source.org

Good(row, D) ==
    /\ source # NoRow => (row # NoRow => Fits(row, D)) /\ (1 \in D => row # NoRow)
    /\ source = NoRow /\ Len(log) \in D => row = NoRow

\* How far the page goes that the bootstrap stored, and whose turn it was then.
Page == IF boot.at = "done" THEN boot.seen ELSE 0
Before == IF Page # 0 THEN boot.turn ELSE 0

\* The events that the replica should tell, unless something was lost.
Told == IF bound = Unbound THEN 1 .. Page ELSE (1 .. bound) \cup (1 .. Before) \cup handled
NothingLost == bound <= Page /\ Before <= Page /\ \A e \in Dropped : e < turn => e <= Before

\* A run inserts where there is no row, unless the page came in between.
RunFits(run) ==
    /\ Event(run).type = "created" => run.step \in {"create", "insert"}
    /\ Event(run).type = "updated" => run.step \in {"look", "write", "create", "insert"}
    /\ Event(run).type = "moved" => run.step = "move"
    /\ Event(run).type = "deleted" => run.step \in {"look", "write"}
    /\ run.step = "write" => run.row = replica /\ replica # NoRow
    /\ run.step = "insert" => Event(run).org # NoOrg
    /\ replica # NoRow /\ (run.step = "insert" \/ (run.step = "create" /\ Event(run).type = "updated"))
         => Page # 0 /\ boot.turn = turn

\* Each event has its turn, and the one run there is is of the event whose it is.
InTurn ==
    /\ bound \in Int /\ Unbound <= bound /\ bound <= turn /\ turn <= Len(log)
    /\ bound = Unbound => turn = Unbound /\ runs = {}
    /\ handled \subseteq answered /\ answered \subseteq bound + 1 .. turn
    /\ bound + 1 .. turn - 1 \subseteq answered
    /\ boot.turn <= turn
    /\ \A r, s \in runs : r = s
    /\ \A run \in runs : run.event = turn /\ bound < turn /\ RunFits(run)

\* The page tells the events sent before it was fetched, and perhaps later ones.
PageFits ==
    /\ boot.seen <= Len(log)
    /\ boot.at = "done" => boot.row = NoRow
    /\ boot.seen # 0 /\ source = NoRow => boot.seen < Len(log)
    /\ boot.at # "done" => boot.turn = Unbound /\ ~boot.left /\ (boot.row = NoRow <=> boot.seen = 0)
    /\ boot.row # NoRow => Real(boot.row) /\ (source # NoRow => Fits(boot.row, 1 .. boot.seen))

Whole == NothingLost => Good(replica, Told)

\* What was handled after the page was stored, and arrives whatever was lost.
Late == {e \in handled : boot.at = "done" /\ boot.turn < e}

Later ==
    /\ Len(log) = 0 => replica = NoRow /\ ~boot.left
    /\ source # NoRow /\ (boot.left \/ \E q \in Late : Lays(q)) => replica # NoRow
    /\ source # NoRow =>
          \A f \in Fields :
              source.cols[f] \in Late /\ (boot.left \/ \E q \in Late : q <= source.cols[f] /\ Lays(q))
                  => replica.cols[f] = source.cols[f]
    /\ source = NoRow /\ Len(log) \in Late => replica = NoRow

\* A row that was there before any other event tells the creation.
FirstTold ==
    source # NoRow /\ replica # NoRow /\ turn <= 1 =>
        \A f \in Fields : source.cols[f] = 1 => replica.cols[f] = 1

Caught == LogTells /\ InTurn /\ PageFits /\ Real(replica) /\ Whole /\ Later /\ FirstTold

CaughtInv ==
    /\ ReplicaInv
    /\ inOrder /\ AlwaysInOrganization => Caught

\* What a change of the row and its event have in common.
Tells(row, type, org, left, cols) ==
    /\ row \in Rows /\ [type |-> type, org |-> org, left |-> left, cols |-> cols] \in Events
    /\ type = "created" <=> Len(log) = 0
    /\ type = "deleted" <=> row = NoRow
    /\ Len(log) # 0 => source # NoRow
    /\ \A f \in DOMAIN cols : cols[f] = Len(log) + 1
    /\ type = "created" => DOMAIN cols = Fields
    /\ type \in {"moved", "deleted"} => DOMAIN cols = {}
    /\ row # NoRow => \A f \in Fields : row.cols[f] = IF f \in DOMAIN cols THEN Len(log) + 1 ELSE source.cols[f]
    /\ row # NoRow => row.org = IF type = "updated" THEN source.org ELSE org
    /\ type = "moved" => left = source.org /\ left < org

LEMMA LogGrows ==
    ASSUME ReplicaInv, NEW row, NEW type, NEW org, NEW left, NEW cols,
           [type |-> type, org |-> org, left |-> left, cols |-> cols] \in Events,
           Change(row, type, org, left, cols)
    PROVE  /\ Len(log) \in Nat /\ Len(log') = Len(log) + 1
           /\ \A i \in 1 .. Len(log) : log'[i] = log[i]
           /\ \A i \in 1 .. Len(log') : i \in 1 .. Len(log) \/ i = Len(log')
           /\ log'[Len(log')] = [type |-> type, org |-> org, left |-> left, cols |-> cols]
           /\ source' = row /\ UNCHANGED <<kind, replica, runs, count, queue, boot>>
<1> DEFINE event == [type |-> type, org |-> org, left |-> left, cols |-> cols]
<1>1. source' = row /\ log' = Append(log, event) /\ UNCHANGED <<kind, replica, runs, count, queue, boot>>
  BY DEF Change
<1>2. log \in Seq(Events) /\ event \in Events
  BY DEF ReplicaInv, ReplicaTypeOK
<1> HIDE DEF event
<1>3. /\ Len(log) \in Nat /\ Len(log') = Len(log) + 1
      /\ \A i \in 1 .. Len(log) : log'[i] = log[i]
      /\ log'[Len(log')] = event
  BY <1>1, <1>2
<1>4. \A i \in 1 .. Len(log') : i \in 1 .. Len(log) \/ i = Len(log')
  BY <1>3
<1> QED
  BY <1>1, <1>3, <1>4 DEF event

\* In an organization from the first event on, a row there is, is in one.
LEMMA RowsInOrganization ==
    ASSUME ReplicaInv, LogTells, AlwaysInOrganization, source # NoRow
    PROVE  Len(log) # 0 /\ 1 \in Joins /\ source.org \in Nat \ {NoOrg}
<1>1. source \in Rows /\ log \in Seq(Events) /\ Len(log) \in Nat
  BY DEF ReplicaInv, ReplicaTypeOK
<1>2. Len(log) # 0 /\ 1 \in 1 .. Len(log) /\ log[1].type = "created" /\ log[1] \in Events
  BY <1>1 DEF LogTells, EventsFit
<1>3. 1 \in Joins /\ log[1].org \in Nat /\ log[1].org # NoOrg
  BY <1>2 DEF Joins, Events, AlwaysInOrganization
<1>4. log[1].org <= source.org
  BY <1>3 DEF LogTells, OrgsFit
<1> QED
  BY <1>1, <1>2, <1>3, <1>4 DEF Rows, NoOrg

\* Every change of the owning service is one such.
LEMMA ChangesTell ==
    ASSUME ReplicaInv, LogTells, AlwaysInOrganization, AlwaysInOrganization',
           SourceCreates \/ SourceUpdates \/ SourceMoves \/ SourceDeletes
    PROVE  \E row, type, org, left, cols : Tells(row, type, org, left, cols) /\ Change(row, type, org, left, cols)
<1>0. /\ source \in Rows /\ log \in Seq(Events) /\ Len(log) \in Nat /\ NoRow \in Rows /\ NoRow.cols \in Cols
      /\ source # NoRow => source.cols \in [Fields -> Nat]
      /\ DOMAIN NoRow.cols = {} /\ NoRow.org = NoOrg /\ source.org \in Nat /\ NoOrg = 0
      /\ source # NoRow => Len(log) # 0 /\ source.org # NoOrg
  BY RowWithoutColumns, RowsInOrganization DEF ReplicaInv, ReplicaTypeOK, Rows, NoRow, NoOrg
<1>1. CASE SourceCreates
  <2>1. PICK org \in {NoOrg, 1} : LET cols == [f \in Fields |-> 1]
          IN Change([org |-> org, cols |-> cols], "created", org, NoOrg, cols)
    BY <1>1 DEF SourceCreates
  <2> DEFINE cols == [f \in Fields |-> 1]
             row == [org |-> org, cols |-> cols]
  <2>2. cols \in [Fields -> Nat] /\ \A f \in Fields : cols[f] = 1
    OBVIOUS
  <2>3. cols \in Cols
    BY <2>2 DEF Cols
  <2>4. Change(row, "created", org, NoOrg, cols)
    BY <2>1
  <2>5. Len(log) = 0
    BY <1>1 DEF SourceCreates
  <2> HIDE DEF cols
  <2>6. row \in Rows /\ [type |-> "created", org |-> org, left |-> NoOrg, cols |-> cols] \in Events
    BY <2>3 DEF Rows, Events, NoOrg
  <2>7. row.org # NoOrg
    <3>1. 1 \in 1 .. Len(log') /\ log'[1] = [type |-> "created", org |-> org, left |-> NoOrg, cols |-> cols]
      BY <2>4, <2>5, <2>6, LogGrows
    <3> QED
      BY <3>1 DEF AlwaysInOrganization
  <2>8. row # NoRow /\ row.cols = cols /\ row.org = org
    BY <1>0, <2>7
  <2> HIDE DEF row
  <2>9. Tells(row, "created", org, NoOrg, cols)
    BY <1>0, <2>2, <2>5, <2>6, <2>8 DEF Tells
  <2> QED
    BY <2>4, <2>9 DEF row
<1>2. CASE SourceUpdates
  <2>1. PICK S \in SUBSET Fields, org \in {source.org, NoOrg} :
          LET cols == [f \in S |-> Len(log) + 1]
              row == [f \in Fields |-> IF f \in S THEN cols[f] ELSE source.cols[f]]
          IN Change([source EXCEPT !.cols = row], "updated", org, NoOrg, cols)
    BY <1>2 DEF SourceUpdates
  <2> DEFINE cols == [f \in S |-> Len(log) + 1]
             new == [f \in Fields |-> IF f \in S THEN cols[f] ELSE source.cols[f]]
             row == [source EXCEPT !.cols = new]
  <2>2. source # NoRow /\ source.cols \in [Fields -> Nat] /\ Len(log) # 0
    BY <1>0, <1>2 DEF SourceUpdates
  <2>3. /\ cols \in [S -> Nat] /\ \A f \in S : cols[f] = Len(log) + 1
        /\ new \in [Fields -> Nat] /\ \A f \in Fields : new[f] = IF f \in DOMAIN cols THEN Len(log) + 1 ELSE source.cols[f]
    BY <1>0, <2>2
  <2>4. cols \in Cols /\ new \in Cols
    BY <2>3 DEF Cols
  <2>5. Change(row, "updated", org, NoOrg, cols)
    BY <2>1
  <2> HIDE DEF cols, new
  <2>6. row \in Rows /\ row.cols = new /\ row.org = source.org /\ row # NoRow
    BY <1>0, <2>2, <2>4 DEF Rows
  <2>7. [type |-> "updated", org |-> org, left |-> NoOrg, cols |-> cols] \in Events
    BY <1>0, <2>4 DEF Events
  <2> HIDE DEF row
  <2>8. Tells(row, "updated", org, NoOrg, cols)
    BY <2>2, <2>3, <2>6, <2>7 DEF Tells
  <2> QED
    BY <2>5, <2>8
<1>3. CASE SourceMoves
  <2>1. PICK org \in Orgs : org > source.org /\ Change([source EXCEPT !.org = org], "moved", org, source.org, NoRow.cols)
    BY <1>3 DEF SourceMoves
  <2> DEFINE row == [source EXCEPT !.org = org]
  <2>2. org \in Nat /\ source.org < org /\ source # NoRow
    BY <1>0, <1>3, <2>1, ReplicaSyncAssumption DEF Orgs, SourceMoves
  <2>3. row \in Rows /\ row.cols = source.cols /\ row.org = org /\ row # NoRow
    BY <1>0, <2>2 DEF Rows
  <2>4. [type |-> "moved", org |-> org, left |-> source.org, cols |-> NoRow.cols] \in Events
    BY <1>0, <2>2 DEF Events
  <2>5. Change(row, "moved", org, source.org, NoRow.cols)
    BY <2>1
  <2> HIDE DEF row
  <2>6. Tells(row, "moved", org, source.org, NoRow.cols)
    BY <1>0, <2>2, <2>3, <2>4 DEF Tells
  <2> QED
    BY <2>5, <2>6
<1>4. CASE SourceDeletes
  <2>1. [type |-> "deleted", org |-> NoOrg, left |-> NoOrg, cols |-> NoRow.cols] \in Events /\ source # NoRow
    BY <1>0, <1>4 DEF Events, NoOrg, SourceDeletes
  <2>2. Tells(NoRow, "deleted", NoOrg, NoOrg, NoRow.cols)
    BY <1>0, <2>1 DEF Tells
  <2> QED
    BY <1>4, <2>2 DEF SourceDeletes
<1> QED
  BY <1>1, <1>2, <1>3, <1>4

\* The log with one event more still tells the row.
LEMMA ChangeKeepsLog ==
    ASSUME ReplicaInv, LogTells, NEW row, NEW type, NEW org, NEW left, NEW cols,
           Tells(row, type, org, left, cols), Change(row, type, org, left, cols)
    PROVE  LogTells'
<1> DEFINE event == [type |-> type, org |-> org, left |-> left, cols |-> cols]
<1>1. event \in Events
  BY DEF Tells
<1>2. /\ Len(log) \in Nat /\ Len(log') = Len(log) + 1
      /\ \A i \in 1 .. Len(log) : log'[i] = log[i]
      /\ \A i \in 1 .. Len(log') : i \in 1 .. Len(log) \/ i = Len(log')
      /\ log'[Len(log')] = event
      /\ source' = row
  BY <1>1, LogGrows
<1>3. event.type = type /\ event.org = org /\ event.left = left /\ event.cols = cols
  OBVIOUS
<1>4. event \in Events /\ \A i \in 1 .. Len(log) : log[i] \in Events
  BY <1>1 DEF ReplicaInv, ReplicaTypeOK
<1> HIDE DEF event
<1>5. EventsFit'
  <2>1. ASSUME NEW i \in 1 .. Len(log') PROVE
          /\ log'[i].type = "created" <=> i = 1
          /\ log'[i].type = "deleted" <=> (i = Len(log') /\ source' = NoRow)
          /\ \A f \in DOMAIN log'[i].cols : log'[i].cols[f] = i
          /\ log'[i].type = "created" => DOMAIN log'[i].cols = Fields
          /\ log'[i].type \in {"moved", "deleted"} => DOMAIN log'[i].cols = {}
    <3>1. CASE i = Len(log')
      BY <1>2, <1>3, <3>1 DEF Tells
    <3>2. CASE i \in 1 .. Len(log)
      BY <1>2, <3>2 DEF Tells, LogTells, EventsFit
    <3> QED
      BY <1>2, <3>1, <3>2
  <2> QED
    BY <1>2, <2>1 DEF EventsFit
<1>6. ColumnsFit'
  <2> SUFFICES ASSUME row # NoRow, NEW f \in Fields
               PROVE  /\ row.cols[f] \in 1 .. Len(log')
                      /\ f \in DOMAIN log'[row.cols[f]].cols
                      /\ \A i \in 1 .. Len(log') : f \in DOMAIN log'[i].cols => i <= row.cols[f]
    BY <1>2 DEF ColumnsFit
  <2>1. CASE f \in DOMAIN cols
    BY <1>2, <1>3, <2>1 DEF Tells
  <2>2. CASE f \notin DOMAIN cols
    <3>1. row.cols[f] = source.cols[f] /\ Len(log) # 0 /\ source # NoRow
      BY <1>2, <2>2 DEF Tells
    <3> QED
      BY <1>2, <1>3, <2>2, <3>1 DEF LogTells, ColumnsFit
  <2> QED
    BY <2>1, <2>2
<1>7. OrgsFit'
  <2>1. Joins \subseteq Joins' /\ Moved \subseteq Moved'
    BY <1>2 DEF Joins, Moved
  <2>2. /\ Joins' = Joins \union (IF type \in {"created", "moved"} THEN {Len(log')} ELSE {})
        /\ Moved' = Moved \union (IF type = "moved" THEN {Len(log')} ELSE {})
        /\ Joins \subseteq 1 .. Len(log) /\ Moved \subseteq Joins
    BY <1>2, <1>3 DEF Joins, Moved
  <2>3. /\ \A i \in Joins : log'[i] = log[i] /\ log[i].org \in Nat /\ i < Len(log')
        /\ \A i \in Moved : log'[i] = log[i] /\ log[i].left \in Nat /\ i < Len(log')
        /\ log'[Len(log')].org = org /\ org \in Nat /\ log'[Len(log')].left = left /\ left \in Nat
    BY <1>2, <1>3, <1>4, <2>2 DEF Events
  <2>4. ASSUME row # NoRow PROVE /\ \E i \in Joins' : log'[i].org = row.org
                                 /\ \A i \in Joins' : log'[i].org <= row.org
    <3>1. CASE type = "updated"
      BY <2>2, <2>3, <2>4, <3>1 DEF Tells, LogTells, OrgsFit
    <3>2. CASE type = "created"
      <4>1. Joins = {} /\ row.org = org
        BY <1>2, <2>2, <2>4, <3>2 DEF Tells
      <4> QED
        BY <2>2, <2>3, <3>2, <4>1
    <3>3. CASE type = "moved"
      <4>1. row.org = org /\ left = source.org /\ left < org /\ source # NoRow
        BY <1>2, <2>4, <3>3 DEF Tells
      <4>2. \A i \in Joins : log[i].org <= left
        BY <4>1 DEF LogTells, OrgsFit
      <4> QED
        BY <2>2, <2>3, <3>3, <4>1, <4>2
    <3>4. type \in {"created", "updated", "moved"}
      BY <1>3, <1>4, <2>4 DEF Tells, Events
    <3> QED
      BY <3>1, <3>2, <3>3, <3>4
  <2>5. ASSUME NEW j \in Moved'
        PROVE  /\ log'[j].left < log'[j].org
               /\ \E i \in Joins' : i < j /\ log'[i].org = log'[j].left
               /\ \A i \in Joins' : i < j => log'[i].org <= log'[j].left
    <3>1. CASE j \in Moved
      <4>1. PICK i \in Joins : i < j /\ log[i].org = log[j].left
        BY <3>1 DEF LogTells, OrgsFit
      <4>2. i \in Joins' /\ log'[i].org = log'[j].left /\ log'[j].left < log'[j].org
        BY <2>1, <2>3, <3>1, <4>1 DEF LogTells, OrgsFit
      <4>3. \A k \in Joins' : k < j => k \in Joins
        BY <1>2, <2>2, <2>3, <3>1
      <4>4. \A k \in Joins : k < j => log'[k].org <= log'[j].left
        BY <2>3, <3>1 DEF LogTells, OrgsFit
      <4> QED
        BY <4>1, <4>2, <4>3, <4>4
    <3>2. CASE j \notin Moved
      <4>1. j = Len(log') /\ type = "moved"
        BY <2>2, <3>2
      <4>2. left = source.org /\ left < org /\ source # NoRow
        BY <1>2, <4>1, <2>2 DEF Tells
      <4>3. PICK i \in Joins : log[i].org = left
        BY <4>2 DEF LogTells, OrgsFit
      <4>4. \A k \in Joins : log[k].org <= left
        BY <4>2 DEF LogTells, OrgsFit
      <4>5. i \in Joins' /\ i < j /\ log'[i].org = log'[j].left
        BY <2>1, <2>3, <4>1, <4>3
      <4>6. \A k \in Joins' : k < j => log'[k].org <= log'[j].left
        BY <2>2, <2>3, <4>1, <4>4
      <4> QED
        BY <2>3, <4>1, <4>2, <4>5, <4>6
    <3> QED
      BY <3>1, <3>2
  <2> QED
    BY <1>2, <2>4, <2>5 DEF OrgsFit
<1> QED
  BY <1>5, <1>6, <1>7 DEF LogTells

----------------------------------------------------------------------------
(* Rows that tell a set of events.                                           *)

LEMMA SameLog ==
    ASSUME LogTells, UNCHANGED <<log, source>>
    PROVE  LogTells'
BY DEF LogTells, EventsFit, ColumnsFit, OrgsFit, Joins, Moved

LEMMA SameFits ==
    ASSUME UNCHANGED <<log, source>>, NEW row, NEW D
    PROVE  /\ Fits(row, D)' <=> Fits(row, D)
           /\ Good(row, D)' <=> Good(row, D)
           /\ Real(row)' <=> Real(row)
BY DEF Fits, Good, Joins, Moved, Real

\* Who tells a set of events tells each part of it.
LEMMA GoodOfFewer ==
    ASSUME NEW row, NEW D, NEW E, E \subseteq D, Good(row, D)
    PROVE  Good(row, E)
BY DEF Good, Fits

\* A row that fits some events fits them after one event more, too.
LEMMA ChangeKeepsFits ==
    ASSUME ReplicaInv, LogTells, NEW row, NEW type, NEW org, NEW left, NEW cols,
           Tells(row, type, org, left, cols), Change(row, type, org, left, cols),
           row # NoRow, source # NoRow, NEW old \in Rows, NEW D, D \subseteq 1 .. Len(log), Fits(old, D)
    PROVE  Fits(old, D)'
<1> DEFINE event == [type |-> type, org |-> org, left |-> left, cols |-> cols]
           E == D \cup {1}
<1>1. event \in Events
  BY DEF Tells
<1>2. /\ Len(log) \in Nat /\ Len(log') = Len(log) + 1
      /\ \A i \in 1 .. Len(log) : log'[i] = log[i]
      /\ \A i \in 1 .. Len(log') : i \in 1 .. Len(log) \/ i = Len(log')
      /\ log'[Len(log')] = event
      /\ source' = row
  BY <1>1, LogGrows
<1>3. event.type = type /\ event.org = org /\ event.left = left /\ event.cols = cols
  OBVIOUS
<1>4. old.org \in Nat /\ source.org \in Nat /\ org \in Nat /\ row.org \in Nat
  BY <1>1, <1>3 DEF ReplicaInv, ReplicaTypeOK, Rows, Events, Tells
<1>5. Len(log) # 0 /\ E \subseteq 1 .. Len(log) /\ type \in {"updated", "moved"}
  BY <1>1, <1>2, <1>3 DEF Tells, Events, LogTells, EventsFit
<1> HIDE DEF event, E
<1>6. ASSUME NEW f \in Fields, row.cols[f] \in E PROVE old.cols[f] = row.cols[f]
  <2>1. row.cols[f] = source.cols[f]
    BY <1>2, <1>5, <1>6 DEF Tells
  <2> QED
    BY <1>6, <2>1 DEF Fits, E
<1>7. ASSUME NEW i \in Joins' \cap E PROVE log'[i].org <= old.org
  <2>1. i \in Joins \cap E /\ log'[i] = log[i]
    BY <1>2, <1>5, <1>7 DEF Joins
  <2> QED
    BY <2>1 DEF Fits, E
<1>8. source.org <= row.org /\ (type = "moved" => left = source.org)
  BY <1>4, <1>5 DEF Tells
<1>9. ASSUME NEW i \in Moved' PROVE old.org <= log'[i].left \/ log'[i].org <= old.org
  <2>1. CASE i \in 1 .. Len(log)
    BY <1>2, <2>1, <1>9 DEF Moved, Fits
  <2>2. CASE i = Len(log')
    <3>1. type = "moved" /\ log'[i].left = source.org
      BY <1>2, <1>3, <1>8, <1>9, <2>2 DEF Moved
    <3> QED
      BY <3>1 DEF Fits
  <2> QED
    BY <1>2, <1>9, <2>1, <2>2 DEF Moved
<1>10. old.org <= row.org
  BY <1>4, <1>8 DEF Fits
<1> QED
  BY <1>2, <1>6, <1>7, <1>9, <1>10 DEF Fits, E

LEMMA ChangeKeepsGood ==
    ASSUME ReplicaInv, LogTells, NEW row, NEW type, NEW org, NEW left, NEW cols,
           Tells(row, type, org, left, cols), Change(row, type, org, left, cols),
           NEW old \in Rows, Len(log) = 0 => old = NoRow,
           NEW D, D \subseteq 1 .. Len(log), Good(old, D)
    PROVE  Good(old, D)'
<1>1. [type |-> type, org |-> org, left |-> left, cols |-> cols] \in Events
  BY DEF Tells
<1>2. /\ Len(log) \in Nat /\ Len(log') = Len(log) + 1
      /\ source' = row
  BY <1>1, LogGrows
<1>3. CASE source = NoRow
  <2>1. Len(log) = 0
    BY <1>3 DEF Tells
  <2>2. D = {} /\ old = NoRow
    BY <1>2, <2>1
  <2> QED
    BY <2>2 DEF Good
<1>4. CASE source # NoRow /\ row = NoRow
  <2>1. Len(log') \notin D
    BY <1>2
  <2> QED
    BY <1>2, <1>4, <2>1 DEF Good
<1>5. CASE source # NoRow /\ row # NoRow
  <2>1. old # NoRow => Fits(old, D)'
    BY <1>5, ChangeKeepsFits DEF Good
  <2> QED
    BY <1>2, <1>5, <2>1 DEF Good
<1> QED
  BY <1>3, <1>4, <1>5

----------------------------------------------------------------------------
(* What the invariant says of the events told so far.                        *)

LEMMA Sent ==
    ASSUME ReplicaInv
    PROVE  /\ Len(log) \in Nat /\ \A i \in 1 .. Len(log) : log[i] \in Events /\ log[i].org \in Nat /\ log[i].left \in Nat
           /\ source \in Rows /\ replica \in Rows /\ boot \in Boots /\ boot.row \in Rows /\ boot.seen \in Nat
           /\ turn \in Int /\ boot.turn \in Int
           /\ NoRow \in Rows /\ NoRow.org = NoOrg /\ NoOrg = 0 /\ Unbound = -1
           /\ source # NoRow => source.cols \in [Fields -> Nat]
           /\ \A row \in Rows : row.org \in Nat
<1>1. log \in Seq(Events) /\ Len(log) \in Nat
  BY DEF ReplicaInv, ReplicaTypeOK
<1>2. \A i \in 1 .. Len(log) : log[i] \in Events
  BY <1>1
<1>3. \A event \in Events : event.org \in Nat /\ event.left \in Nat
  BY DEF Events
<1>4. \A row \in Rows : row.org \in Nat
  BY DEF Rows
<1>5. boot \in Boots /\ boot.row \in Rows /\ boot.seen \in Nat /\ boot.turn \in Int
  BY DEF ReplicaInv, ReplicaTypeOK, Boots
<1>6. source \in Rows /\ replica \in Rows /\ turn \in Int /\ (source # NoRow => source.cols \in [Fields -> Nat])
  BY DEF ReplicaInv, ReplicaTypeOK
<1> QED
  BY <1>1, <1>2, <1>3, <1>4, <1>5, <1>6, RowWithoutColumns DEF NoOrg, Unbound

\* What is told was sent, and so was what is late; before the queue there is none.
LEMMA ToldWasSent ==
    ASSUME ReplicaInv, InTurn, PageFits
    PROVE  /\ Told \subseteq 1 .. Len(log) /\ Page \in 0 .. Len(log) /\ Before \in Int /\ (Before <= turn \/ Before = 0)
           /\ handled \subseteq 1 .. Len(log) /\ Late \subseteq handled
           /\ \A e \in handled \cup answered : e \in Int /\ bound < e /\ e <= turn
           /\ bound = Unbound => handled = {} /\ answered = {} /\ turn = Unbound
           /\ bound # Unbound => bound \in Nat /\ turn \in Nat
<1>0. /\ Len(log) \in Nat /\ turn \in Int /\ boot.turn \in Int /\ boot.seen \in Nat /\ Unbound = -1
      /\ bound \in Int /\ Unbound <= bound /\ bound <= turn /\ turn <= Len(log) /\ boot.turn <= turn
      /\ boot.seen <= Len(log)
  BY Sent DEF InTurn, PageFits
<1>1. Page \in 0 .. Len(log) /\ Before \in Int /\ (Before <= turn \/ Before = 0)
  BY <1>0 DEF Page, Before
<1>2. \A e \in handled \cup answered : e \in Int /\ bound < e /\ e <= turn
  BY <1>0 DEF InTurn
<1>3. bound = Unbound => handled = {} /\ answered = {} /\ turn = Unbound
  BY <1>0, <1>2 DEF InTurn
<1>4. handled \subseteq 1 .. Len(log)
  BY <1>0, <1>2, <1>3
<1>5. Told \subseteq 1 .. Len(log)
  BY <1>0, <1>1, <1>4 DEF Told
<1> QED
  BY <1>0, <1>1, <1>2, <1>3, <1>4, <1>5 DEF Late

\* In order, and unless something was lost, the events before the one whose turn
\* it is were told, and none after it was.
LEMMA ToldIsTurn ==
    ASSUME ReplicaInv, InTurn, PageFits, NothingLost, bound # Unbound
    PROVE  1 .. turn - 1 \subseteq Told /\ Told \subseteq 1 .. turn
<1>0. /\ turn \in Nat /\ bound \in Nat /\ bound <= turn /\ Before \in Int /\ (Before <= turn \/ Before = 0)
      /\ \A e \in handled : e \in Int /\ bound < e /\ e <= turn
  BY ToldWasSent, Sent DEF InTurn
<1>1. Told = (1 .. bound) \cup (1 .. Before) \cup handled
  BY DEF Told
<1>2. Told \subseteq 1 .. turn
  BY <1>0, <1>1
<1>3. ASSUME NEW e \in 1 .. turn - 1 PROVE e \in Told
  <2>1. e <= bound \/ e \in answered
    BY <1>0 DEF InTurn
  <2>2. e \in answered => e \in handled \/ e <= Before
    BY <1>0 DEF NothingLost, Dropped
  <2> QED
    BY <1>0, <1>1, <2>1, <2>2
<1> QED
  BY <1>2, <1>3

----------------------------------------------------------------------------
(* The owner, the queue and the bootstrap.                                   *)

LEMMA ChangeKeepsCaught ==
    ASSUME ReplicaInv, AlwaysInOrganization, Caught, NEW row, NEW type, NEW org, NEW left, NEW cols,
           Tells(row, type, org, left, cols), Change(row, type, org, left, cols)
    PROVE  Caught'
<1>0. [type |-> type, org |-> org, left |-> left, cols |-> cols] \in Events
  BY DEF Tells
<1>1. /\ Len(log) \in Nat /\ Len(log') = Len(log) + 1
      /\ \A i \in 1 .. Len(log) : log'[i] = log[i]
      /\ source' = row
      /\ inOrder' = inOrder /\ replica' = replica /\ runs' = runs /\ boot' = boot
      /\ bound' = bound /\ turn' = turn /\ answered' = answered /\ handled' = handled
  BY <1>0, LogGrows DEF kind, queue
<1>2. /\ source \in Rows /\ replica \in Rows /\ boot.row \in Rows /\ boot.seen \in Nat /\ turn \in Int
      /\ Told \subseteq 1 .. Len(log) /\ handled \subseteq 1 .. Len(log) /\ Late \subseteq handled
  <2>1. InTurn /\ PageFits
    BY DEF Caught
  <2> QED
    BY <2>1, Sent, ToldWasSent
<1>3. /\ Len(log) = 0 => replica = NoRow /\ ~boot.left
      /\ Len(log) = 0 => source = NoRow
  BY DEF Caught, Later, LogTells, EventsFit
<1>4. LogTells'
  BY ChangeKeepsLog DEF Caught
<1>5. InTurn'
  <2>1. ASSUME NEW run \in runs PROVE RunFits(run)'
    <3>1. Event(run)' = Event(run)
      BY <1>1 DEF ReplicaInv, Event
    <3>2. RunFits(run)
      BY DEF Caught, InTurn
    <3> QED
      BY <1>1, <3>1, <3>2 DEF RunFits, Page
  <2> QED
    BY <1>1, <2>1, Sent DEF Caught, InTurn
<1>6. PageFits'
  <2>1. ASSUME boot.row # NoRow PROVE Real(boot.row) /\ (row # NoRow => Fits(boot.row, 1 .. boot.seen)')
    <3>1. Real(boot.row) /\ boot.seen # 0 /\ boot.seen <= Len(log)
      BY <2>1 DEF Caught, PageFits
    <3>2. source # NoRow
      BY <1>1, <1>2, <3>1 DEF Tells
    <3>3. Fits(boot.row, 1 .. boot.seen) /\ 1 .. boot.seen \subseteq 1 .. Len(log)
      BY <1>1, <1>2, <2>1, <3>1, <3>2 DEF Caught, PageFits
    <3> QED
      <4> DEFINE D == 1 .. boot.seen
      <4>1. LogTells /\ boot.row \in Rows
        BY <1>2 DEF Caught
      <4>2. D \subseteq 1 .. Len(log) /\ Fits(boot.row, D)
        BY <3>3
      <4>3. D' = D
        BY <1>1
      <4> HIDE DEF D
      <4>4. row # NoRow => Fits(boot.row, D)'
        BY <1>1, <3>2, <4>1, <4>2, <4>3, ChangeKeepsFits
      <4> QED
        BY <1>1, <3>1, <4>4 DEF D
  <2>2. boot.row # NoRow => Real(boot.row)'
    BY <1>1, <2>1 DEF Real
  <2>3. boot.row # NoRow /\ row # NoRow => Fits(boot.row, 1 .. boot.seen)'
    BY <2>1
  <2> QED
    BY <1>1, <1>2, <2>2, <2>3 DEF Caught, PageFits
<1>7. Real(replica)'
  BY <1>1 DEF Caught, Real
<1>8. Whole'
  <2>1. Told' = Told /\ NothingLost' = NothingLost
    BY <1>1 DEF Told, NothingLost, Page, Before, Dropped
  <2>2. Good(replica, Told) => Good(replica, Told)'
    BY <1>1, <1>2, <1>3, <2>1, ChangeKeepsGood DEF Caught
  <2> QED
    BY <2>1, <2>2 DEF Caught, Whole
<1>9. Later'
  <2>1. Late' = Late /\ Len(log') # 0 /\ Len(log') \notin Late
    BY <1>1, <1>2 DEF Late
  <2>2. \A q \in Late : Lays(q)' <=> Lays(q)
    BY <1>1, <1>2 DEF Lays
  <2>3. ASSUME row # NoRow, boot.left \/ \E q \in Late : Lays(q) PROVE source # NoRow /\ replica # NoRow
    <3>1. Len(log) # 0
      BY <1>1, <1>2, <1>3, <2>3
    <3>2. source # NoRow
      BY <3>1 DEF Tells
    <3> QED
      BY <2>3, <3>2 DEF Caught, Later
  <2>4. ASSUME row # NoRow, NEW f \in Fields, row.cols[f] \in Late,
               boot.left \/ \E q \in Late : q <= row.cols[f] /\ Lays(q)
        PROVE  replica.cols[f] = row.cols[f]
    <3>1. row.cols[f] = source.cols[f] /\ source # NoRow
      BY <1>1, <2>1, <2>3, <2>4 DEF Tells
    <3> QED
      BY <2>4, <3>1 DEF Caught, Later
  <2> QED
    BY <1>1, <2>1, <2>2, <2>3, <2>4 DEF Later
<1>10. FirstTold'
  <2>1. ASSUME row # NoRow, replica # NoRow, turn <= 1, NEW f \in Fields, row.cols[f] = 1
        PROVE  replica.cols[f] = 1
    <3>1. Len(log) # 0
      BY <1>3, <2>1
    <3>2. source # NoRow /\ source.cols[f] = 1
      BY <1>1, <2>1, <3>1 DEF Tells
    <3> QED
      BY <2>1, <3>2 DEF Caught, FirstTold
  <2> QED
    BY <1>1, <2>1 DEF FirstTold
<1> QED
  BY <1>4, <1>5, <1>6, <1>7, <1>8, <1>9, <1>10 DEF Caught

\* A step that leaves the log, the replica, the bootstrap and what was handled
\* keeps what depends on these only.
LEMMA QuietSteps ==
    ASSUME Caught, UNCHANGED <<source, log, replica, handled, boot>>
    PROVE  LogTells' /\ PageFits' /\ Real(replica)' /\ Later'
<1>1. LogTells'
  BY SameLog DEF Caught
<1>2. boot' = boot /\ source' = source /\ log' = log /\ replica' = replica /\ handled' = handled
  OBVIOUS
<1>3. Fits(boot.row, 1 .. boot.seen)' <=> Fits(boot.row, 1 .. boot.seen)
  BY <1>2 DEF Fits, Joins, Moved
<1>4. PageFits'
  BY <1>2, <1>3 DEF Caught, PageFits, Real
<1>5. Later' /\ Real(replica)'
  BY <1>2 DEF Caught, Later, Late, Lays, Real
<1> QED
  BY <1>1, <1>4, <1>5

LEMMA StartKeepsCaught ==
    ASSUME ReplicaInv, inOrder, Caught, NEW e \in 1 .. Len(log), NEW redelivered \in BOOLEAN, Start(e, redelivered)
    PROVE  Caught'
<1>0. PICK no \in 1 .. PREFETCH :
         runs' = runs \cup {[no |-> no, event |-> e, again |-> entity = "user" /\ ~redelivered,
                             row |-> NoRow, step |-> FirstStep[log[e].type]]}
  BY DEF Start
<1>1. /\ source' = source /\ log' = log /\ replica' = replica /\ boot' = boot
      /\ bound' = bound /\ turn' = e /\ answered' = answered /\ handled' = handled
      /\ runs = {} /\ bound # Unbound /\ e > bound /\ e \in {turn, turn + 1}
      /\ e > turn => turn \in answered \cup {bound}
  BY DEF Start
<1>2. PICK new : runs' = {new} /\ new.event = e /\ new.step = FirstStep[log[e].type]
  <2>1. \E new : runs' = runs \cup {new} /\ new.event = e /\ new.step = FirstStep[log[e].type]
    <3> WITNESS [no |-> no, event |-> e, again |-> entity = "user" /\ ~redelivered,
                 row |-> NoRow, step |-> FirstStep[log[e].type]]
    <3> QED
      BY <1>0
  <2> QED
    BY <1>1, <2>1
<1>3. LogTells' /\ PageFits' /\ Real(replica)' /\ Later'
  BY <1>1, QuietSteps
<1>4. turn \in Int /\ bound \in Int /\ e \in Int /\ turn <= e /\ e <= turn + 1 /\ e <= Len(log) /\ Len(log) \in Nat /\ boot.turn \in Int
  BY <1>1, Sent DEF Caught, InTurn
<1>5. InTurn'
  <2>0. Caught /\ InTurn
    BY DEF Caught
  <2>1. log[e] \in Events /\ log[e].type \in {"created", "updated", "moved", "deleted"}
    BY Sent DEF Events
  <2>2. Event(new)' = log[e]
    BY <1>1, <1>2 DEF Event
  <2>3. /\ log[e].type = "created" => new.step = "create"
        /\ log[e].type = "moved" => new.step = "move"
        /\ log[e].type \in {"updated", "deleted"} => new.step = "look"
    BY <1>2 DEF FirstStep
  <2>4. RunFits(new)'
    BY <2>1, <2>2, <2>3 DEF RunFits
  <2>5. bound + 1 .. e - 1 \subseteq answered
    BY <1>1, <1>4 DEF Caught, InTurn
  <2>6. answered \subseteq bound + 1 .. e /\ handled \subseteq answered
    BY <1>4 DEF Caught, InTurn
  <2>7. Unbound <= bound /\ boot.turn <= e /\ bound <= e
    BY <1>1, <1>4 DEF Caught, InTurn
  <2> QED
    BY <1>1, <1>2, <1>4, <2>4, <2>5, <2>6, <2>7 DEF InTurn
<1>6. Whole'
  <2>1. \A d \in Dropped : d \in Int
    BY <1>4 DEF Dropped, Caught, InTurn
  <2>2. NothingLost' => NothingLost
    BY <1>1, <1>4, <2>1 DEF NothingLost, Page, Before, Dropped
  <2>3. Told' = Told
    BY <1>1 DEF Told, Page, Before
  <2>4. Good(replica, Told)' <=> Good(replica, Told)
    BY <1>1, <2>3 DEF Good, Fits, Joins, Moved
  <2> QED
    BY <2>2, <2>4 DEF Caught, Whole
<1>7. FirstTold'
  BY <1>1, <1>4 DEF Caught, FirstTold
<1> QED
  BY <1>3, <1>5, <1>6, <1>7 DEF Caught

LEMMA BindKeepsCaught ==
    ASSUME ReplicaInv, Caught, Bind
    PROVE  Caught'
<1>1. /\ source' = source /\ log' = log /\ replica' = replica /\ boot' = boot /\ runs' = runs
      /\ bound = Unbound /\ bound' = Len(log) /\ turn' = Len(log) /\ answered' = answered /\ handled' = handled
  BY DEF Bind
<1>2. /\ runs = {} /\ answered = {} /\ handled = {} /\ turn = Unbound /\ boot.turn <= turn
      /\ Len(log) \in Nat /\ boot.turn \in Int /\ Unbound = -1 /\ boot.seen \in Nat /\ Page \in 0 .. Len(log)
  BY <1>1, Sent, ToldWasSent DEF Caught, InTurn
<1>3. LogTells' /\ PageFits' /\ Real(replica)' /\ Later'
  BY <1>1, QuietSteps
<1>4. InTurn'
  BY <1>1, <1>2 DEF InTurn
<1>5. Whole'
  <2> SUFFICES ASSUME NothingLost' PROVE Good(replica, Told)'
    BY DEF Whole
  <2>1. Page' = Page /\ Before' = Before /\ Dropped = {} /\ Before <= 0 /\ Before \in Int
    BY <1>1, <1>2 DEF Page, Before, Dropped
  <2>2. Len(log) = Page
    BY <1>1, <1>2, <2>1 DEF NothingLost
  <2>3. NothingLost
    BY <1>1, <1>2, <2>1 DEF NothingLost
  <2>4. Told = 1 .. Page /\ Told' = (1 .. Len(log)) \cup (1 .. Before) \cup {}
    BY <1>1, <1>2, <2>1 DEF Told
  <2>5. Told' = Told
    BY <1>2, <2>1, <2>2, <2>4
  <2>6. Good(replica, Told)' <=> Good(replica, Told)
    BY <1>1, <2>5 DEF Good, Fits, Joins, Moved
  <2> QED
    BY <2>3, <2>6 DEF Caught, Whole
<1>6. FirstTold'
  BY <1>1, <1>2 DEF Caught, FirstTold
<1> QED
  BY <1>3, <1>4, <1>5, <1>6 DEF Caught

\* The owner's row tells all that was sent.
LEMMA SourceFits ==
    ASSUME ReplicaInv, LogTells, AlwaysInOrganization, source # NoRow
    PROVE  Real(source) /\ Fits(source, 1 .. Len(log)) /\ Len(log) # 0
<1>1. Len(log) # 0 /\ source.org # NoOrg /\ source \in Rows /\ source.cols \in [Fields -> Nat] /\ source.org \in Nat
  BY RowsInOrganization, Sent
<1>2. \A i \in Joins : log[i].org <= source.org
  BY DEF LogTells, OrgsFit
<1>3. Moved \subseteq Joins
  BY DEF Moved, Joins
<1> QED
  BY <1>1, <1>2, <1>3 DEF Real, Fits

LEMMA FetchKeepsCaught ==
    ASSUME ReplicaInv, AlwaysInOrganization, Caught, BootFetch
    PROVE  Caught'
<1>0. PICK row \in {source, NoRow} :
         boot' = [boot EXCEPT !.at = "fetched", !.row = IF row.org = NoOrg THEN NoRow ELSE row,
                              !.seen = IF row.org = NoOrg THEN 0 ELSE Len(log)]
  BY DEF BootFetch
<1>1. /\ source' = source /\ log' = log /\ replica' = replica /\ runs' = runs
      /\ bound' = bound /\ turn' = turn /\ answered' = answered /\ handled' = handled
      /\ boot.at = "off" /\ boot \in Boots
  BY Sent DEF BootFetch, queue
<1>2. /\ boot'.at = "fetched" /\ boot'.turn = boot.turn /\ boot'.left = boot.left
      /\ boot'.row = IF row.org = NoOrg THEN NoRow ELSE row
      /\ boot'.seen = IF row.org = NoOrg THEN 0 ELSE Len(log)
  BY <1>0, <1>1 DEF Boots
<1>3. Page' = Page /\ Before' = Before /\ Page = 0
  BY <1>1, <1>2 DEF Page, Before
<1>4. LogTells'
  BY <1>1, SameLog DEF Caught
<1>5. InTurn'
  <2>1. \A run \in runs : RunFits(run)' <=> RunFits(run)
    BY <1>1, <1>2, <1>3 DEF RunFits, Event
  <2> QED
    BY <1>1, <1>2, <2>1 DEF Caught, InTurn
<1>6. PageFits'
  <2>1. /\ row.org # NoOrg => row = source /\ source # NoRow
        /\ Len(log) \in Nat
    BY Sent
  <2>2. row.org # NoOrg => Real(source) /\ Fits(source, 1 .. Len(log)) /\ Len(log) # 0
    BY <2>1, SourceFits DEF Caught
  <2>3. row.org # NoOrg => Real(boot.row)' /\ Fits(boot.row, 1 .. boot.seen)'
    BY <1>1, <1>2, <2>1, <2>2 DEF Real, Fits, Joins, Moved
  <2>4. boot.turn = Unbound /\ ~boot.left
    BY <1>1 DEF Caught, PageFits
  <2> QED
    BY <1>1, <1>2, <2>1, <2>2, <2>3, <2>4 DEF PageFits
<1>7. Whole'
  <2>1. NothingLost' = NothingLost /\ Told' = Told
    BY <1>1, <1>3 DEF NothingLost, Told, Dropped
  <2>2. Good(replica, Told)' <=> Good(replica, Told)
    BY <1>1, <2>1 DEF Good, Fits, Joins, Moved
  <2> QED
    BY <2>1, <2>2 DEF Caught, Whole
<1>8. Later' /\ Real(replica)'
  <2>1. Late = {} /\ Late' = {}
    BY <1>1, <1>2 DEF Late
  <2> QED
    BY <1>1, <1>2, <2>1 DEF Caught, Later, Real
<1>9. FirstTold'
  BY <1>1 DEF Caught, FirstTold
<1> QED
  BY <1>4, <1>5, <1>6, <1>7, <1>8, <1>9 DEF Caught

LEMMA StoreKeepsCaught ==
    ASSUME ReplicaInv, inOrder, Caught, BootStore
    PROVE  Caught'
<1>1. /\ source' = source /\ log' = log /\ runs' = runs
      /\ bound' = bound /\ turn' = turn /\ answered' = answered /\ handled' = handled
      /\ boot.at = "fetched" /\ boot'.at = "done" /\ boot'.row = NoRow /\ boot'.turn = turn
      /\ replica' = IF replica = NoRow THEN boot.row ELSE replica
      /\ boot'.seen = IF replica = NoRow THEN boot.seen ELSE 0
      /\ boot'.left = (replica' # NoRow)
  BY DEF BootStore, Store, queue
<1>2. /\ Len(log) \in Nat /\ turn \in Int /\ boot.seen \in Nat /\ boot.seen <= Len(log) /\ bound \in Int /\ NoRow \in Rows
      /\ boot.row = NoRow <=> boot.seen = 0
      /\ boot.row # NoRow => Real(boot.row) /\ (source # NoRow => Fits(boot.row, 1 .. boot.seen))
      /\ boot.seen # 0 /\ source = NoRow => boot.seen < Len(log)
      /\ \A e \in handled : e \in Int /\ e <= turn
  BY <1>1, Sent, ToldWasSent DEF Caught, InTurn, PageFits
<1>3. /\ Page = 0 /\ Before = 0
      /\ Page' = boot'.seen /\ Before' = IF boot'.seen # 0 THEN turn ELSE 0
  BY <1>1 DEF Page, Before
<1>4. LogTells'
  BY <1>1, SameLog DEF Caught
<1>5. InTurn'
  <2>1. ASSUME NEW run \in runs PROVE RunFits(run)'
    <3>1. RunFits(run) /\ Event(run)' = Event(run)
      BY <1>1 DEF Caught, InTurn, Event
    <3>2. run.step = "write" => replica' = replica
      BY <1>1, <3>1 DEF RunFits
    <3>3. ASSUME replica' # NoRow, run.step = "insert" \/ (run.step = "create" /\ Event(run).type = "updated")
          PROVE  Page' # 0
      BY <1>1, <1>2, <1>3, <3>1, <3>3 DEF RunFits
    <3> QED
      BY <1>1, <3>1, <3>2, <3>3 DEF RunFits
  <2> QED
    BY <1>1, <1>2, <2>1 DEF Caught, InTurn
<1>6. PageFits'
  BY <1>1, <1>2 DEF PageFits
<1>7. Real(replica)'
  BY <1>1, <1>2 DEF Caught, Real
<1>8. Whole'
  <2> SUFFICES ASSUME NothingLost' PROVE Good(replica, Told)'
    BY DEF Whole
  <2>1. CASE boot'.seen = 0
    <3>1. replica' = replica
      BY <1>1, <1>2, <2>1
    <3>2. Page' = Page /\ Before' = Before
      BY <1>3, <2>1
    <3>3. NothingLost' = NothingLost /\ Told' = Told
      BY <1>1, <3>2 DEF NothingLost, Told, Dropped
    <3>4. Good(replica, Told)' <=> Good(replica, Told)
      BY <1>1, <3>1, <3>3 DEF Good, Fits, Joins, Moved
    <3> QED
      BY <3>3, <3>4 DEF Caught, Whole
  <2>2. CASE boot'.seen # 0
    <3>1. replica' = boot.row /\ boot.row # NoRow /\ Page' = boot.seen /\ Before' = turn
      BY <1>1, <1>2, <1>3, <2>2
    <3>2. bound <= boot.seen /\ turn <= boot.seen
      BY <1>1, <3>1 DEF NothingLost
    <3>3. Told' \subseteq 1 .. boot.seen
      BY <1>1, <1>2, <3>1, <3>2, ToldWasSent DEF Told, Caught
    <3>4. source # NoRow => Fits(boot.row, Told')
      BY <1>2, <3>1, <3>3 DEF Fits
    <3>5. source # NoRow => Fits(replica, Told)'
      BY <1>1, <3>1, <3>4 DEF Fits, Joins, Moved
    <3>6. source = NoRow => Len(log) \notin Told'
      BY <1>1, <1>2, <2>2, <3>3
    <3> QED
      BY <1>1, <3>1, <3>5, <3>6 DEF Good
  <2> QED
    BY <2>1, <2>2
<1>9. Later'
  <2>1. Late' = {}
    BY <1>1, <1>2 DEF Late
  <2>2. Len(log) = 0 => replica' = NoRow
    BY <1>1, <1>2 DEF Caught, Later
  <2> QED
    BY <1>1, <2>1, <2>2 DEF Later
<1>10. FirstTold'
  <2> SUFFICES ASSUME source # NoRow, replica' # NoRow, turn <= 1, NEW f \in Fields, source.cols[f] = 1
               PROVE  replica'.cols[f] = 1
    BY <1>1 DEF FirstTold
  <2>1. CASE replica # NoRow
    BY <1>1, <2>1 DEF Caught, FirstTold
  <2>2. CASE replica = NoRow
    BY <1>1, <1>2, <2>2 DEF Fits
  <2> QED
    BY <2>1, <2>2
<1> QED
  BY <1>4, <1>5, <1>6, <1>7, <1>8, <1>9, <1>10 DEF Caught

----------------------------------------------------------------------------
(* The runs.                                                                 *)

\* The run there is, and the event whose turn it is.
LEMMA RunsTurn ==
    ASSUME ReplicaInv, InTurn, PageFits, NEW run \in runs
    PROVE  /\ runs \ {run} = {} /\ run.event = turn /\ Event(run) = log[turn] /\ RunFits(run)
           /\ turn \in 1 .. Len(log) /\ turn \in Nat /\ turn # 0 /\ bound < turn /\ bound # Unbound /\ bound \in Nat
           /\ log[turn] \in Events
<1>1. /\ runs \ {run} = {} /\ run.event = turn /\ RunFits(run) /\ bound < turn /\ bound # Unbound
      /\ run.event \in 1 .. Len(log)
  BY DEF InTurn, ReplicaInv
<1>2. bound \in Nat /\ turn \in 1 .. Len(log) /\ turn \in Nat /\ turn # 0
  BY <1>1, ToldWasSent, Sent
<1> QED
  BY <1>1, <1>2, Sent DEF Event

\* A run that goes on, with the replica it read.
LEMMA GotoKeepsCaught ==
    ASSUME ReplicaInv, Caught, NEW run \in runs, NEW step, Goto(run, step),
           RunFits([run EXCEPT !.step = step, !.row = replica])
    PROVE  Caught'
<1>1. /\ source' = source /\ log' = log /\ replica' = replica /\ boot' = boot
      /\ bound' = bound /\ turn' = turn /\ answered' = answered /\ handled' = handled
      /\ runs' = (runs \ {run}) \cup {[run EXCEPT !.step = step, !.row = replica]}
  BY DEF Goto, queue
<1>2. runs \ {run} = {} /\ run.event = turn /\ bound < turn /\ bound # Unbound /\ run \in Runs
  BY RunsTurn DEF Caught, ReplicaInv, ReplicaTypeOK
<1>3. PICK new : runs' = {new} /\ RunFits(new) /\ new.event = turn
  <2>1. [run EXCEPT !.step = step, !.row = replica].event = turn
    BY <1>2 DEF Runs
  <2> QED
    BY <1>1, <1>2, <2>1
<1>4. RunFits(new)'
  <2>1. Event(new)' = Event(new) /\ Page' = Page
    BY <1>1 DEF Event, Page
  <2> QED
    BY <1>1, <1>3, <2>1 DEF RunFits
<1>5. InTurn'
  BY <1>1, <1>2, <1>3, <1>4 DEF Caught, InTurn
<1>6. LogTells' /\ PageFits' /\ Real(replica)' /\ Later'
  BY <1>1, QuietSteps
<1>7. Whole' /\ FirstTold'
  <2>1. NothingLost' = NothingLost /\ Told' = Told
    BY <1>1 DEF NothingLost, Told, Dropped, Page, Before
  <2>2. Good(replica, Told)' <=> Good(replica, Told)
    BY <1>1, <2>1 DEF Good, Fits, Joins, Moved
  <2> QED
    BY <1>1, <2>1, <2>2 DEF Caught, Whole, FirstTold
<1> QED
  BY <1>5, <1>6, <1>7 DEF Caught

\* A run that raised, or died.
LEMMA RaiseKeepsCaught ==
    ASSUME ReplicaInv, Caught, NEW run \in runs, Raise(run) \/ Crash(run) \/ Fail(run)
    PROVE  Caught'
<1>1. /\ source' = source /\ log' = log /\ replica' = replica /\ boot' = boot /\ runs' = runs \ {run}
      /\ bound' = bound /\ turn' = turn /\ handled' = handled
      /\ answered' \in {answered, answered \cup {run.event}}
  BY DEF Raise, Fail, Crash, Drop, queue
<1>2. /\ runs \ {run} = {} /\ run.event = turn /\ bound < turn /\ bound # Unbound
      /\ turn \in Nat /\ bound \in Nat
  BY RunsTurn DEF Caught
<1>3. InTurn'
  BY <1>1, <1>2 DEF Caught, InTurn
<1>4. LogTells' /\ PageFits' /\ Real(replica)' /\ Later'
  BY <1>1, QuietSteps
<1>5. Whole' /\ FirstTold'
  <2>1. Page' = Page /\ Before' = Before /\ Told' = Told
    BY <1>1 DEF Told, Page, Before
  <2>2. Dropped \subseteq Dropped'
    BY <1>1 DEF Dropped
  <2>3. NothingLost' => NothingLost
    BY <1>1, <2>1, <2>2 DEF NothingLost
  <2>4. Good(replica, Told)' <=> Good(replica, Told)
    BY <1>1, <2>1 DEF Good, Fits, Joins, Moved
  <2> QED
    BY <1>1, <2>3, <2>4 DEF Caught, Whole, FirstTold
<1> QED
  BY <1>3, <1>4, <1>5 DEF Caught

\* What a run that ends must leave for its event's turn to be over.
Serves(row) ==
    /\ Real(row)
    /\ NothingLost => Good(row, Told \cup {turn})
    /\ source # NoRow /\ replica # NoRow => row # NoRow
    /\ source # NoRow /\ row = NoRow => ~Lays(turn)
    /\ source # NoRow /\ row # NoRow =>
          \A f \in Fields :
             /\ source.cols[f] = turn /\ boot.at = "done" /\ boot.turn < turn => row.cols[f] = turn
             /\ source.cols[f] < turn /\ replica # NoRow => row.cols[f] = replica.cols[f]
             /\ turn = 1 /\ source.cols[f] = 1 => row.cols[f] = 1
    /\ source = NoRow /\ turn = Len(log) => row = NoRow

LEMMA EndKeepsCaught ==
    ASSUME ReplicaInv, Caught, NEW run \in runs, NEW row, Serves(row), End(run, row)
    PROVE  Caught'
<1>1. /\ source' = source /\ log' = log /\ replica' = row /\ boot' = boot /\ runs' = runs \ {run}
      /\ bound' = bound /\ turn' = turn
      /\ handled' = handled \cup {run.event} /\ answered' = answered \cup {run.event}
  BY DEF End
<1>2. /\ runs \ {run} = {} /\ run.event = turn /\ bound < turn /\ bound # Unbound
      /\ turn \in Nat /\ turn # 0 /\ bound \in Nat /\ turn \in 1 .. Len(log) /\ Len(log) \in Nat /\ boot.turn \in Int
  BY RunsTurn, Sent DEF Caught
<1>3. LogTells'
  BY <1>1, SameLog DEF Caught
<1>4. InTurn'
  BY <1>1, <1>2 DEF Caught, InTurn
<1>5. PageFits'
  BY <1>1 DEF Caught, PageFits, Real, Fits, Joins, Moved
<1>6. Real(replica)'
  BY <1>1 DEF Serves, Real
<1>7. Whole'
  <2>1. Page' = Page /\ Before' = Before
    BY <1>1 DEF Page, Before
  <2>2. Told' = Told \cup {turn}
    BY <1>1, <1>2, <2>1 DEF Told
  <2>3. \A e \in Dropped : e < turn => e \in Dropped'
    BY <1>1, <1>2 DEF Dropped
  <2>4. NothingLost' => NothingLost
    BY <1>1, <2>1, <2>3 DEF NothingLost
  <2>5. Good(replica, Told)' <=> Good(row, Told \cup {turn})
    BY <1>1, <2>2 DEF Good, Fits, Joins, Moved
  <2> QED
    BY <2>4, <2>5 DEF Whole, Serves
<1>8. Later'
  <2>1. /\ Late \subseteq Late' /\ \A e \in Late' : e \in Late \/ (e = turn /\ boot.at = "done" /\ boot.turn < turn)
        /\ \A e \in Late' : e \in Int /\ e <= turn
    BY <1>1, <1>2, ToldWasSent DEF Late, Caught
  <2>2. \A e \in 1 .. Len(log) : Lays(e)' <=> Lays(e)
    BY <1>1 DEF Lays
  <2>3. \A e \in Late' : e \in 1 .. Len(log)
    BY <1>2, <2>1, ToldWasSent DEF Caught
  <2>4. ASSUME source # NoRow, boot.left \/ \E q \in Late' : Lays(q) PROVE row # NoRow
    <3>1. CASE boot.left \/ \E q \in Late : Lays(q)
      BY <2>4, <3>1 DEF Caught, Later, Serves
    <3>2. CASE Lays(turn)
      BY <2>4, <3>2 DEF Serves
    <3> QED
      BY <2>1, <2>4, <3>1, <3>2
  <2>5. ASSUME source # NoRow, NEW f \in Fields, source.cols[f] \in Late',
               boot.left \/ \E q \in Late' : q <= source.cols[f] /\ Lays(q)
        PROVE  row.cols[f] = source.cols[f]
    <3>1. row # NoRow
      BY <2>4, <2>5
    <3>2. CASE source.cols[f] = turn /\ boot.at = "done" /\ boot.turn < turn
      BY <2>5, <3>1, <3>2 DEF Serves
    <3>3. CASE source.cols[f] \in Late /\ source.cols[f] # turn
      <4>1. source.cols[f] < turn
        BY <1>2, <2>1, <3>3
      <4>2. boot.left \/ \E q \in Late : q <= source.cols[f] /\ Lays(q)
        BY <1>2, <2>1, <2>5, <4>1
      <4>3. replica # NoRow /\ replica.cols[f] = source.cols[f]
        BY <2>5, <3>3, <4>2 DEF Caught, Later
      <4> QED
        BY <2>5, <3>1, <4>1, <4>3 DEF Serves
    <3>4. CASE source.cols[f] = turn
      <4>1. boot.at = "done" /\ boot.turn < turn
        BY <1>1, <2>5, <3>4 DEF Late
      <4> QED
        BY <3>2, <3>4, <4>1
    <3> QED
      BY <2>1, <2>5, <3>2, <3>3, <3>4
  <2>6. source = NoRow /\ Len(log) \in Late' => row = NoRow
    BY <1>2, <2>1 DEF Serves
  <2> QED
    BY <1>1, <1>2, <2>2, <2>3, <2>4, <2>5, <2>6 DEF Later
<1>9. FirstTold'
  <2>1. turn <= 1 => turn = 1
    BY <1>2
  <2> QED
    BY <1>1, <2>1 DEF FirstTold, Serves
<1> QED
  BY <1>3, <1>4, <1>5, <1>6, <1>7, <1>8, <1>9 DEF Caught

\* While an event that is no creation has its turn, and nothing was lost, there is
\* a row if the owner has one.
LEMMA RowIsThere ==
    ASSUME ReplicaInv, Caught, NEW run \in runs, Event(run).type # "created", NothingLost, source # NoRow
    PROVE  replica # NoRow
<1>1. turn \in 1 .. Len(log) /\ Event(run) = log[turn] /\ turn \in Nat /\ bound # Unbound
  BY RunsTurn DEF Caught
<1>2. turn # 1
  BY <1>1 DEF Caught, LogTells, EventsFit
<1>3. 1 \in Told
  BY <1>1, <1>2, ToldIsTurn DEF Caught
<1> QED
  BY <1>3 DEF Caught, Whole, Good

\* An event that is no deletion is not the last one of a row that is gone.
LEMMA NotTheLast ==
    ASSUME ReplicaInv, Caught, NEW run \in runs, Event(run).type # "deleted", source = NoRow
    PROVE  turn # Len(log) /\ (NothingLost => Len(log) \notin Told \cup {turn})
<1>1. turn \in 1 .. Len(log) /\ Event(run) = log[turn] /\ bound # Unbound
  BY RunsTurn DEF Caught
<1>2. turn # Len(log)
  BY <1>1 DEF Caught, LogTells, EventsFit
<1>3. NothingLost => Told \subseteq 1 .. turn
  BY <1>1, ToldIsTurn DEF Caught
<1> QED
  BY <1>1, <1>2, <1>3, Sent

\* The columns of the event whose turn it is.
LEMMA ColumnsOfTurn ==
    ASSUME ReplicaInv, Caught, NEW run \in runs, source # NoRow, NEW f \in Fields
    PROVE  /\ f \in DOMAIN Event(run).cols => Event(run).cols[f] = turn /\ turn <= source.cols[f]
           /\ source.cols[f] = turn => f \in DOMAIN Event(run).cols
           /\ source.cols[f] \in 1 .. Len(log)
BY RunsTurn DEF Caught, LogTells, EventsFit, ColumnsFit

\* The end of a deletion, or of a run that finds no row to change.
LEMMA NoRowServes ==
    ASSUME ReplicaInv, Caught, NEW run \in runs,
           Event(run).type = "deleted" \/ (replica = NoRow /\ Event(run).type # "created" /\ ~Lays(turn))
    PROVE  Serves(NoRow)
<1>1. Real(NoRow) /\ turn \in 1 .. Len(log) /\ Event(run) = log[turn]
  BY Sent, RunsTurn DEF Caught, Real
<1>2. Event(run).type = "deleted" => source = NoRow
  BY <1>1 DEF Caught, LogTells, EventsFit
<1>3. NothingLost => source = NoRow
  BY <1>2, RowIsThere
<1>4. NothingLost => Good(NoRow, Told \cup {turn})
  BY <1>3 DEF Good
<1> QED
  BY <1>1, <1>2, <1>4 DEF Serves

\* A row the bootstrap stored makes a creation, or an update that has to do as one,
\* needless.
LEMMA RowServes ==
    ASSUME ReplicaInv, Caught, NEW run \in runs, run.step = "create", replica # NoRow
    PROVE  Serves(replica)
<1>1. /\ turn \in 1 .. Len(log) /\ Event(run) = log[turn] /\ RunFits(run) /\ turn \in Nat /\ turn # 0
      /\ bound # Unbound /\ log[turn] \in Events
  BY RunsTurn DEF Caught
<1>2. Event(run).type \in {"created", "updated"}
  BY <1>1 DEF RunFits, Events
<1>3. source = NoRow => turn # Len(log) /\ (NothingLost => Len(log) \notin Told \cup {turn})
  BY <1>2, NotTheLast
<1>4. Real(replica)
  BY DEF Caught
<1>5. CASE Event(run).type = "created"
  <2>1. turn = 1
    BY <1>1, <1>5 DEF Caught, LogTells, EventsFit
  <2>2. NothingLost => Good(replica, Told \cup {turn})
    <3> SUFFICES ASSUME NothingLost PROVE Good(replica, Told \cup {turn})
      OBVIOUS
    <3>1. Good(replica, Told)
      BY DEF Caught, Whole
    <3>2. source # NoRow => Fits(replica, Told \cup {turn})
      BY <2>1, <3>1 DEF Good, Fits
    <3> QED
      BY <1>3, <3>2 DEF Good
  <2>3. \A f \in Fields : source # NoRow /\ source.cols[f] = 1 => replica.cols[f] = 1
    BY <2>1 DEF Caught, FirstTold
  <2> QED
    BY <1>3, <1>4, <2>1, <2>2, <2>3 DEF Serves
<1>6. CASE Event(run).type = "updated"
  <2>1. Page # 0 /\ boot.turn = turn
    BY <1>1, <1>6 DEF RunFits
  <2>2. turn # 1
    BY <1>1, <1>6 DEF Caught, LogTells, EventsFit
  <2>3. turn \in Told
    BY <1>1, <2>1 DEF Told, Before
  <2>4. Told \cup {turn} = Told
    BY <2>3
  <2>5. NothingLost => Good(replica, Told \cup {turn})
    BY <2>4 DEF Caught, Whole
  <2>6. ~(boot.turn < turn)
    BY <1>1, <2>1
  <2> QED
    BY <1>3, <1>4, <2>2, <2>5, <2>6 DEF Serves
<1> QED
  BY <1>2, <1>5, <1>6

\* What an event inserts where no row is.
LEMMA InsertServes ==
    ASSUME ReplicaInv, AlwaysInOrganization, Caught, NEW run \in runs, run.step = "insert", replica = NoRow
    PROVE  Serves([org |-> Event(run).org, cols |-> Values(Event(run))])
<1> DEFINE event == Event(run)
           row == [org |-> event.org, cols |-> Values(event)]
<1>1. /\ turn \in 1 .. Len(log) /\ event = log[turn] /\ RunFits(run) /\ turn \in Nat /\ turn # 0
      /\ bound # Unbound /\ event \in Events /\ event.org \in Nat
  BY RunsTurn, Sent DEF Caught
<1>2. event.type \in {"created", "updated"} /\ event.org # NoOrg
  BY <1>1 DEF RunFits, Events
<1>3. source = NoRow => turn # Len(log) /\ (NothingLost => Len(log) \notin Told \cup {turn})
  BY <1>2, NotTheLast
<1>4. PICK T \in SUBSET Fields : event.cols \in [T -> Nat]
  BY <1>1 DEF Events, Cols
<1>5. Values(event) \in [Fields -> Nat] /\ \A f \in DOMAIN event.cols : Values(event)[f] = event.cols[f]
  BY <1>4 DEF Values
<1>6. \A f \in Fields : source # NoRow =>
         /\ f \in DOMAIN event.cols => event.cols[f] = turn
         /\ source.cols[f] = turn => f \in DOMAIN event.cols
  BY ColumnsOfTurn
<1>7. event.type = "created" <=> turn = 1
  BY <1>1 DEF Caught, LogTells, EventsFit
<1>8. event.type = "updated" /\ NothingLost => source = NoRow
  BY RowIsThere
<1> HIDE DEF event
<1>9. row.org = event.org /\ row.cols = Values(event) /\ row # NoRow /\ Real(row)
  <2>1. Values(event) \in Cols
    BY <1>5 DEF Cols
  <2>2. row \in Rows /\ row.org = event.org /\ row.cols = Values(event)
    BY <1>1, <2>1 DEF Rows
  <2>3. row.org # NoRow.org
    BY <1>2, <2>2, Sent
  <2> QED
    BY <1>2, <1>5, <2>2, <2>3 DEF Real
<1> HIDE DEF row
<1>10. ASSUME event.type = "created", source # NoRow, NothingLost PROVE Fits(row, Told \cup {turn})
  <2>1. turn = 1 /\ Told \cup {turn} \cup {1} = {1}
    BY <1>1, <1>7, <1>10, ToldIsTurn DEF Caught
  <2>2. 1 \in Joins /\ log[1] = event /\ 1 \in 1 .. Len(log)
    BY <1>1, <1>10, <2>1 DEF Joins
  <2>3. event.org <= source.org /\ \A j \in Moved : event.org <= log[j].left
    <3>1. \A j \in Moved : 1 < j
      BY <1>7, <1>10, <2>2, Sent DEF Moved
    <3> QED
      BY <1>10, <2>2, <3>1 DEF Caught, LogTells, OrgsFit
  <2>4. \A f \in Fields : source.cols[f] = 1 => row.cols[f] = 1
    BY <1>5, <1>6, <1>9, <1>10, <2>1
  <2>5. \A i \in Joins \cap {1} : log[i].org <= row.org
    BY <1>1, <1>9, <2>2
  <2> QED
    BY <1>9, <2>1, <2>3, <2>4, <2>5 DEF Fits
<1>11. NothingLost => Good(row, Told \cup {turn})
  BY <1>2, <1>3, <1>8, <1>9, <1>10 DEF Good
<1>12. \A f \in Fields : source # NoRow /\ source.cols[f] = turn => row.cols[f] = turn
  BY <1>5, <1>6, <1>9
<1>13. Serves(row)
  BY <1>3, <1>9, <1>11, <1>12 DEF Serves
<1> QED
  BY <1>13 DEF row, event

\* An update sets its columns in the row it read, and only these.
LEMMA UpdateServes ==
    ASSUME ReplicaInv, AlwaysInOrganization, Caught, NEW run \in runs, run.step = "write", Event(run).type = "updated"
    PROVE  Serves([replica EXCEPT !.cols =
                     [f \in DOMAIN @ |-> IF f \in Changed(run) THEN Values(Event(run))[f] ELSE @[f]]])
<1> DEFINE event == Event(run)
           row == [replica EXCEPT !.cols = [f \in DOMAIN @ |-> IF f \in Changed(run) THEN Values(event)[f] ELSE @[f]]]
<1>1. /\ turn \in 1 .. Len(log) /\ event = log[turn] /\ RunFits(run) /\ turn \in Nat /\ turn # 0
      /\ bound # Unbound /\ event \in Events
  BY RunsTurn DEF Caught
<1>2. run.row = replica /\ replica # NoRow
  BY <1>1 DEF RunFits
<1>3. Real(replica) /\ replica \in Rows /\ replica.org # NoOrg /\ DOMAIN replica.cols = Fields /\ replica.org \in Nat
  BY <1>2, Sent DEF Caught, Real
<1>4. source = NoRow => turn # Len(log) /\ (NothingLost => Len(log) \notin Told \cup {turn})
  BY NotTheLast
<1>5. turn # 1 /\ turn \notin Joins
  BY <1>1 DEF Caught, LogTells, EventsFit, Joins
<1>6. \A f \in Fields : source # NoRow =>
         /\ f \in DOMAIN event.cols => event.cols[f] = turn /\ turn <= source.cols[f]
         /\ source.cols[f] = turn => f \in DOMAIN event.cols
         /\ source.cols[f] \in 1 .. Len(log)
  BY ColumnsOfTurn
<1>7. PICK T \in SUBSET Fields : event.cols \in [T -> Nat]
  BY <1>1 DEF Events, Cols
<1>8. Changed(run) = {f \in DOMAIN event.cols : event.cols[f] # replica.cols[f]}
  BY <1>2 DEF Changed
<1>9. \A f \in Fields : Values(event)[f] = IF f \in DOMAIN event.cols THEN event.cols[f] ELSE 0
  BY DEF Values
<1>10. /\ row \in Rows /\ row.org = replica.org
       /\ row.cols = [f \in Fields |-> IF f \in Changed(run) THEN Values(event)[f] ELSE replica.cols[f]]
  <2>1. Changed(run) \subseteq DOMAIN event.cols
    BY <1>8
  <2>2. row \in Rows /\ row.org = replica.org
    <3> DEFINE S == Changed(run)
    <3>1. event \in Events /\ replica \in Rows /\ S \subseteq DOMAIN event.cols
      BY <1>1, <1>3, <2>1
    <3> HIDE DEF event, S
    <3>2. LET new == [replica EXCEPT !.cols = [f \in DOMAIN @ |-> IF f \in S THEN Values(event)[f] ELSE @[f]]]
          IN new \in Rows /\ new.org = replica.org
      BY <3>1, WrittenRows
    <3> QED
      BY <3>2 DEF S
  <2>3. row.cols = [f \in Fields |-> IF f \in Changed(run) THEN Values(event)[f] ELSE replica.cols[f]]
    BY <1>3 DEF Rows
  <2> QED
    BY <2>2, <2>3
<1> HIDE DEF event, row
<1>11. \A f \in Fields : row.cols[f] = IF f \in DOMAIN event.cols THEN event.cols[f] ELSE replica.cols[f]
  BY <1>8, <1>9, <1>10
<1>12. row # NoRow /\ Real(row)
  BY <1>3, <1>10, Sent DEF Real
<1>13. ASSUME source # NoRow, NothingLost PROVE Fits(row, Told \cup {turn})
  <2>1. Fits(replica, Told) /\ Told \subseteq 1 .. turn
    BY <1>1, <1>2, <1>13, ToldIsTurn DEF Caught, Whole, Good
  <2>2. ASSUME NEW f \in Fields, source.cols[f] \in Told \cup {turn} \cup {1} PROVE row.cols[f] = source.cols[f]
    <3>1. CASE f \in DOMAIN event.cols
      <4>1. source.cols[f] = turn
        BY <1>1, <1>6, <1>13, <2>1, <2>2, <3>1
      <4> QED
        BY <1>6, <1>11, <1>13, <3>1, <4>1
    <3>2. CASE f \notin DOMAIN event.cols
      <4>1. source.cols[f] \in Told \cup {1}
        BY <1>6, <1>13, <2>2, <3>2
      <4> QED
        BY <1>11, <2>1, <3>2, <4>1 DEF Fits
    <3> QED
      BY <3>1, <3>2
  <2>3. Joins \cap (Told \cup {turn} \cup {1}) = Joins \cap (Told \cup {1})
    BY <1>5
  <2> QED
    BY <1>10, <2>1, <2>2, <2>3 DEF Fits
<1>14. NothingLost => Good(row, Told \cup {turn})
  BY <1>4, <1>12, <1>13 DEF Good
<1>15. ASSUME source # NoRow, NEW f \in Fields
       PROVE  /\ source.cols[f] = turn => row.cols[f] = turn
              /\ source.cols[f] < turn => row.cols[f] = replica.cols[f]
  BY <1>1, <1>6, <1>11, <1>15
<1>16. Serves(row)
  BY <1>4, <1>5, <1>12, <1>14, <1>15 DEF Serves
<1> QED
  BY <1>16 DEF row, event

\* A move finds a replica that has the organization left, or one joined later.
LEMMA MoveServes ==
    ASSUME ReplicaInv, AlwaysInOrganization, Caught, NEW run \in runs, Event(run).type = "moved"
    PROVE  Serves(IF MovesFrom(Event(run)) THEN [replica EXCEPT !.org = Event(run).org] ELSE replica)
<1> DEFINE event == Event(run)
           row == IF MovesFrom(event) THEN [replica EXCEPT !.org = event.org] ELSE replica
<1>1. /\ turn \in 1 .. Len(log) /\ event = log[turn] /\ turn \in Nat /\ turn # 0 /\ Len(log) \in Nat
      /\ bound # Unbound /\ event \in Events /\ event.org \in Nat /\ event.left \in Nat /\ NoOrg = 0
      /\ \A i \in 1 .. Len(log) : log[i].org \in Nat /\ log[i].left \in Nat
      /\ source.org \in Nat /\ replica.org \in Nat /\ replica \in Rows
  BY RunsTurn, Sent DEF Caught
<1>2. turn \in Moved /\ turn \in Joins /\ Moved \subseteq Joins /\ Joins \subseteq 1 .. Len(log) /\ ~Lays(turn)
  BY <1>1 DEF Moved, Joins, Lays
<1>3. turn # 1 /\ 1 \in Joins /\ DOMAIN event.cols = {}
  BY <1>1 DEF Caught, LogTells, EventsFit, Joins
<1>4. event.left < event.org /\ event.left # NoOrg /\ event.org # NoOrg
  <2>1. event.left < event.org
    BY <1>1, <1>2 DEF Caught, LogTells, OrgsFit
  <2>2. 1 < turn /\ log[1].org # NoOrg
    BY <1>1, <1>2, <1>3 DEF AlwaysInOrganization, Caught, LogTells, EventsFit
  <2>3. log[1].org <= event.left
    BY <1>1, <1>2, <1>3, <2>2 DEF Caught, LogTells, OrgsFit
  <2> QED
    BY <1>1, <1>2, <1>3, <2>1, <2>2, <2>3
<1>5. CASE replica = NoRow
  <2>1. row = NoRow /\ Serves(NoRow)
    BY <1>2, <1>5, NoRowServes DEF MovesFrom
  <2> QED
    BY <2>1
<1>6. CASE replica # NoRow
  <2>1. source = NoRow => turn # Len(log) /\ (NothingLost => Len(log) \notin Told \cup {turn})
    BY NotTheLast
  <2>2. \A f \in Fields : source # NoRow => source.cols[f] # turn
    BY <1>3, ColumnsOfTurn
  <2>3. Real(replica)
    BY DEF Caught
  <2> HIDE DEF event
  <2>4. row.cols = replica.cols /\ row \in Rows /\ row.org = IF replica.org = event.left THEN event.org ELSE replica.org
    BY <1>1, <1>4, <1>6 DEF MovesFrom, Rows
  <2> HIDE DEF row
  <2>5. row # NoRow /\ Real(row)
    BY <1>4, <1>6, <2>3, <2>4, Sent DEF Real
  <2>6. ASSUME source # NoRow, NothingLost PROVE Fits(row, Told \cup {turn})
    <3>1. Fits(replica, Told) /\ 1 .. turn - 1 \subseteq Told /\ Told \subseteq 1 .. turn
      BY <1>1, <1>6, <2>6, ToldIsTurn DEF Caught, Whole, Good
    <3>2. \A f \in Fields : source.cols[f] \in Told \cup {turn} \cup {1} => row.cols[f] = source.cols[f]
      BY <2>2, <2>4, <2>6, <3>1 DEF Fits
    <3>3. \A i \in Joins : i < turn => log[i].org <= replica.org /\ log[i].org <= event.left
      <4>1. \A i \in Joins : i < turn => i \in Told
        <5>1. \A i \in Joins : i < turn => i \in 1 .. turn - 1
          BY <1>1, <1>2
        <5> QED
          BY <3>1, <5>1
      <4> QED
        BY <1>1, <1>2, <3>1, <4>1 DEF Fits, Caught, LogTells, OrgsFit
    <3>4. PICK before \in Joins : before < turn /\ log[before].org = event.left
      BY <1>1, <1>2 DEF Caught, LogTells, OrgsFit
    <3>5. \A j \in Moved : turn < j => event.org <= log[j].left
      BY <1>1, <1>2 DEF Caught, LogTells, OrgsFit
    <3>6. event.org <= source.org
      BY <1>1, <1>2, <2>6 DEF Caught, LogTells, OrgsFit
    <3>7. event.left <= replica.org
      BY <3>3, <3>4
    <3>8. CASE replica.org = event.left
      <4>1. row.org = event.org
        BY <2>4, <3>8
      <4>2. \A i \in Joins \cap (Told \cup {turn} \cup {1}) : log[i].org <= row.org
        <5> SUFFICES ASSUME NEW i \in Joins \cap (Told \cup {turn} \cup {1}) PROVE log[i].org <= event.org
          BY <4>1
        <5>1. i < turn \/ i = turn
          BY <1>1, <1>2, <1>3, <3>1
        <5> QED
          BY <1>1, <1>2, <1>4, <3>3, <5>1
      <4>3. \A j \in Moved : row.org <= log[j].left \/ log[j].org <= row.org
        <5> SUFFICES ASSUME NEW j \in Moved PROVE event.org <= log[j].left \/ log[j].org <= event.org
          BY <4>1
        <5>1. CASE j < turn
          BY <1>1, <1>2, <1>4, <3>3, <5>1
        <5>2. CASE j = turn
          BY <1>1, <5>2
        <5>3. CASE turn < j
          BY <3>5, <5>3
        <5> QED
          BY <1>1, <1>2, <5>1, <5>2, <5>3
      <4> QED
        BY <3>2, <3>6, <4>1, <4>2, <4>3 DEF Fits
    <3>9. CASE replica.org # event.left
      <4>1. row.org = replica.org /\ event.org <= replica.org
        BY <1>1, <1>2, <1>4, <2>4, <3>1, <3>7, <3>9 DEF Fits
      <4>2. \A i \in Joins \cap (Told \cup {turn} \cup {1}) : log[i].org <= row.org
        BY <1>1, <3>1, <4>1 DEF Fits
      <4> QED
        BY <3>1, <3>2, <4>1, <4>2 DEF Fits
    <3> QED
      BY <3>8, <3>9
  <2>7. NothingLost => Good(row, Told \cup {turn})
    BY <2>1, <2>5, <2>6 DEF Good
  <2>8. Serves(row)
    BY <1>2, <1>3, <2>1, <2>2, <2>4, <2>5, <2>7 DEF Serves
  <2> QED
    BY <2>8 DEF row, event
<1> QED
  BY <1>5, <1>6

\* One lemma for the handlers: each goes on, raises, or ends with a row that serves.
LEMMA HandlersKeepCaught ==
    ASSUME ReplicaInv, AlwaysInOrganization, Caught, NEW run \in runs,
           CustomerHandlers(run) \/ UserHandlers(run)
    PROVE  Caught'
<1>0. /\ turn \in 1 .. Len(log) /\ Event(run) = log[turn] /\ RunFits(run) /\ log[turn] \in Events /\ run \in Runs
  BY RunsTurn DEF Caught, ReplicaInv, ReplicaTypeOK
<1>1. Event(run).type \in {"created", "updated", "moved", "deleted"}
  BY <1>0 DEF Events
<1>2. \A step : LET new == [run EXCEPT !.step = step, !.row = replica]
                IN new.step = step /\ new.row = replica /\ Event(new) = Event(run)
  BY <1>0 DEF Event, Runs
<1>3. CASE Look(run)
  <2>1. Event(run).type \in {"updated", "deleted"}
    BY <1>0, <1>1, <1>3 DEF Look, RunFits
  <2>2. CASE replica # NoRow /\ Goto(run, "write")
    <3>1. RunFits([run EXCEPT !.step = "write", !.row = replica])
      BY <1>2, <2>1, <2>2 DEF RunFits
    <3> QED
      BY <2>2, <3>1, GotoKeepsCaught
  <2>3. CASE replica = NoRow /\ Event(run).type = "updated" /\ Goto(run, "create")
    <3>1. RunFits([run EXCEPT !.step = "create", !.row = replica])
      BY <1>2, <2>3 DEF RunFits
    <3> QED
      BY <2>3, <3>1, GotoKeepsCaught
  <2>4. CASE replica = NoRow /\ Event(run).type = "deleted" /\ End(run, replica)
    BY <2>4, NoRowServes, EndKeepsCaught
  <2> QED
    BY <1>3, <2>1, <2>2, <2>3, <2>4 DEF Look
<1>4. CASE Create(run)
  <2>1. run.step = "create" /\ Event(run).type \in {"created", "updated"}
    BY <1>0, <1>1, <1>4 DEF Create, RunFits
  <2>2. CASE Event(run).org # NoOrg /\ replica = NoRow /\ Goto(run, "insert")
    <3>1. RunFits([run EXCEPT !.step = "insert", !.row = replica])
      BY <1>2, <2>1, <2>2 DEF RunFits
    <3> QED
      BY <2>2, <3>1, GotoKeepsCaught
  <2>3. CASE replica # NoRow /\ End(run, replica)
    BY <2>1, <2>3, RowServes, EndKeepsCaught
  <2>4. CASE Event(run).org = NoOrg /\ replica = NoRow /\ End(run, replica)
    <3>1. Event(run).type # "created" /\ ~Lays(turn)
      BY <1>0, <2>4 DEF AlwaysInOrganization, Lays
    <3> QED
      BY <2>4, <3>1, NoRowServes, EndKeepsCaught
  <2> QED
    BY <1>4, <2>2, <2>3, <2>4 DEF Create
<1>5. CASE Insert(run)
  <2>1. CASE replica = NoRow /\ End(run, [org |-> Event(run).org, cols |-> Values(Event(run))])
    BY <1>5, <2>1, InsertServes, EndKeepsCaught DEF Insert
  <2> QED
    BY <1>5, <2>1, RaiseKeepsCaught DEF Insert
<1>6. CASE Update(run)
  <2> DEFINE row == [replica EXCEPT !.cols = [f \in DOMAIN @ |-> IF f \in Changed(run) THEN Values(Event(run))[f] ELSE @[f]]]
  <2>1. Serves(row)
    BY <1>6, UpdateServes DEF Update
  <2>2. End(run, row) \/ Raise(run)
    BY <1>6 DEF Update
  <2> HIDE DEF row
  <2> QED
    BY <2>1, <2>2, EndKeepsCaught, RaiseKeepsCaught
<1>7. CASE Move(run)
  <2>1. Event(run).type = "moved"
    BY <1>0, <1>1, <1>7 DEF Move, RunFits
  <2> DEFINE row == IF MovesFrom(Event(run)) THEN [replica EXCEPT !.org = Event(run).org] ELSE replica
  <2>2. Serves(row) /\ End(run, row)
    BY <1>7, <2>1, MoveServes DEF Move
  <2> HIDE DEF row
  <2> QED
    BY <2>2, EndKeepsCaught
<1>8. CASE Delete(run)
  BY <1>8, NoRowServes, EndKeepsCaught DEF Delete
<1>9. CASE Crash(run) \/ Fail(run)
  BY <1>9, RaiseKeepsCaught
<1> QED
  BY <1>3, <1>4, <1>5, <1>6, <1>7, <1>8, <1>9 DEF CustomerHandlers, UserHandlers

LEMMA InitCaughtInv == Init => CaughtInv
<1> SUFFICES ASSUME Init PROVE CaughtInv
  OBVIOUS
<1>1. ReplicaInv
  BY InitReplicaInv
<1>2. /\ Len(log) = 0 /\ source = NoRow /\ replica = NoRow /\ runs = {} /\ bound = -1 /\ turn = -1
      /\ answered = {} /\ handled = {} /\ boot.at = "off" /\ boot.row = NoRow /\ boot.seen = 0 /\ boot.turn = -1
      /\ ~boot.left
  BY DEF Init, NoBoot, Unbound
<1>3. LogTells
  BY <1>2 DEF LogTells, EventsFit, ColumnsFit, OrgsFit, Moved
<1>4. InTurn /\ PageFits
  BY <1>2 DEF InTurn, PageFits, Unbound
<1>5. Real(replica)
  BY <1>1, <1>2, Sent DEF Real
<1>6. Told = {}
  BY <1>2 DEF Told, Page, Unbound
<1>7. Whole /\ Later /\ FirstTold
  BY <1>2, <1>6 DEF Whole, Good, Later, Late, FirstTold
<1> QED
  BY <1>1, <1>3, <1>4, <1>5, <1>7 DEF CaughtInv, Caught

\* The events sent before the last step said then what they say now.
LEMMA WasInOrganization ==
    ASSUME ReplicaInv, [Next]_vars, AlwaysInOrganization'
    PROVE  AlwaysInOrganization /\ inOrder' = inOrder
<1>1. CASE \E row, type, org, left, cols : Change(row, type, org, left, cols)
  <2>1. PICK event : log' = Append(log, event) /\ inOrder' = inOrder
    BY <1>1 DEF Change, kind
  <2>2. log \in Seq(Events) /\ Len(log) \in Nat
    BY DEF ReplicaInv, ReplicaTypeOK
  <2>3. Len(log') = Len(log) + 1 /\ \A i \in 1 .. Len(log) : log'[i] = log[i]
    BY <2>1, <2>2
  <2> QED
    BY <2>1, <2>2, <2>3 DEF AlwaysInOrganization
<1>2. CASE UNCHANGED <<log, inOrder>>
  BY <1>2 DEF AlwaysInOrganization
<1>3. SourceCreates \/ SourceUpdates \/ SourceMoves \/ SourceDeletes
        => \E row, type, org, left, cols : Change(row, type, org, left, cols)
  BY DEF SourceCreates, SourceUpdates, SourceMoves, SourceDeletes
<1>4. \A e, redelivered : Start(e, redelivered) => UNCHANGED <<log, inOrder>>
  BY DEF Start, kind
<1>5. \A run : CustomerHandlers(run) \/ UserHandlers(run) => UNCHANGED <<log, inOrder>>
  BY DEF CustomerHandlers, UserHandlers, Look, Create, Insert, Update, Move, Delete, Fail, Raise, Crash, Drop,
         Goto, End, kind
<1>6. Bind \/ BootFetch \/ BootStore \/ UNCHANGED vars => UNCHANGED <<log, inOrder>>
  BY DEF Bind, BootFetch, BootStore, Store, vars, kind
<1> QED
  BY <1>1, <1>2, <1>3, <1>4, <1>5, <1>6 DEF Next

LEMMA NextCaughtInv == CaughtInv /\ [Next]_vars => CaughtInv'
<1> SUFFICES ASSUME CaughtInv, [Next]_vars, inOrder', AlwaysInOrganization' PROVE Caught'
  BY NextReplicaInv DEF CaughtInv
<1>1. ReplicaInv /\ inOrder /\ AlwaysInOrganization /\ Caught /\ LogTells
  BY WasInOrganization DEF CaughtInv, Caught
<1>2. CASE SourceCreates \/ SourceUpdates \/ SourceMoves \/ SourceDeletes
  BY <1>1, <1>2, ChangesTell, ChangeKeepsCaught
<1>3. CASE UNCHANGED vars
  <2>1. LogTells' /\ PageFits' /\ Real(replica)' /\ Later'
    <3>1. UNCHANGED <<source, log, replica, handled, boot>>
      BY <1>3 DEF vars, queue
    <3> QED
      BY <1>1, <3>1, QuietSteps
  <2>2. InTurn' /\ Whole' /\ FirstTold'
    BY <1>1, <1>3 DEF vars, queue, kind, Caught, InTurn, RunFits, Event, Whole, FirstTold, NothingLost, Told, Dropped, Page,
                      Before, Good, Fits, Joins, Moved
  <2> QED
    BY <2>1, <2>2 DEF Caught
<1> QED
  BY <1>1, <1>2, <1>3, StartKeepsCaught, HandlersKeepCaught, BindKeepsCaught, FetchKeepsCaught, StoreKeepsCaught
  DEF Next

\* Once the queue has brought what was sent, every column is the owner's.
LEMMA CaughtInvShows == CaughtInv => CaughtUp
<1> SUFFICES ASSUME CaughtInv, inOrder, AlwaysInOrganization, Quiet PROVE WholeUnlessLost /\ LaterChangesArrive
  BY DEF CaughtUp
<1>1. ReplicaInv /\ Caught /\ LogTells /\ InTurn /\ PageFits
  BY DEF CaughtInv, Caught
<1>2. boot.at = "done" /\ bound # Unbound /\ answered = bound + 1 .. Len(log)
  BY DEF Quiet
<1>3. /\ Len(log) \in Nat /\ source \in Rows /\ replica \in Rows /\ turn \in Nat /\ bound \in Nat
      /\ \A e \in handled \cup answered : e \in Int /\ bound < e /\ e <= turn
      /\ Told \subseteq 1 .. Len(log)
  BY <1>1, <1>2, Sent, ToldWasSent
<1>4. turn = Len(log)
  <2>1. bound <= turn /\ turn <= Len(log)
    BY <1>1 DEF InTurn
  <2>2. bound < Len(log) => Len(log) \in answered
    BY <1>2, <1>3
  <2> QED
    BY <1>3, <2>1, <2>2
<1>5. WholeUnlessLost
  <2> DEFINE before == IF boot.seen # 0 THEN boot.turn ELSE 0
  <2> SUFFICES ASSUME bound <= boot.seen, before <= boot.seen, \A e \in Dropped : e <= before
               PROVE  replica = source
    BY DEF WholeUnlessLost
  <2>1. Page = boot.seen /\ Before = before
    BY <1>2 DEF Page, Before
  <2>2. NothingLost
    BY <2>1 DEF NothingLost
  <2>3. Good(replica, Told)
    BY <1>1, <2>2 DEF Caught, Whole
  <2>4. 1 .. Len(log) \subseteq Told
    <3> SUFFICES ASSUME NEW e \in 1 .. Len(log) PROVE e \in Told
      OBVIOUS
    <3>1. e <= bound \/ e \in answered
      BY <1>2, <1>3
    <3>2. e \in answered => e \in handled \/ e <= Before
      BY <2>1 DEF Dropped
    <3>3. Before \in Int
      BY <1>1, ToldWasSent
    <3> QED
      BY <1>2, <1>3, <3>1, <3>2, <3>3 DEF Told
  <2>5. CASE Len(log) = 0
    BY <1>1, <2>5 DEF LogTells, EventsFit, Caught, Later
  <2>6. CASE Len(log) # 0 /\ source = NoRow
    BY <1>3, <2>3, <2>4, <2>6 DEF Good
  <2>7. CASE Len(log) # 0 /\ source # NoRow
    <3>1. 1 \in Told
      BY <1>3, <2>4, <2>7
    <3>2. replica # NoRow /\ Fits(replica, Told)
      BY <2>3, <2>7, <3>1 DEF Good
    <3>3. \A f \in Fields : replica.cols[f] = source.cols[f]
      <4>1. \A f \in Fields : source.cols[f] \in 1 .. Len(log)
        BY <1>1, <2>7 DEF LogTells, ColumnsFit
      <4> QED
        BY <2>4, <3>2, <4>1 DEF Fits
    <3>4. replica.org = source.org
      <4>1. PICK i \in Joins : log[i].org = source.org
        BY <1>1, <2>7 DEF LogTells, OrgsFit
      <4>2. i \in Told /\ source.org <= replica.org /\ replica.org <= source.org
        BY <2>4, <3>2, <4>1 DEF Fits, Joins
      <4> QED
        BY <1>1, <1>3, <4>2, Sent
    <3>5. replica.cols = source.cols
      <4>1. source.cols \in [Fields -> Nat]
        BY <1>1, <2>7, Sent
      <4>2. DOMAIN replica.cols = Fields /\ replica.cols \in Cols
        BY <1>1, <1>3, <3>2 DEF Caught, Real, Rows
      <4>3. replica.cols \in [Fields -> Nat]
        BY <4>2 DEF Cols
      <4> QED
        BY <3>3, <4>1, <4>3
    <3> QED
      BY <1>3, <3>4, <3>5 DEF Rows
  <2> QED
    BY <2>5, <2>6, <2>7
<1>6. LaterChangesArrive
  <2> DEFINE late == {e \in handled : e > boot.turn}
  <2>1. late = Late /\ \A e \in Late : e \in 1 .. Len(log) /\ e \in Int
    BY <1>1, <1>2, <1>3, ToldWasSent, Sent DEF Late
  <2> HIDE DEF late
  <2> SUFFICES ASSUME NEW e \in Late
               PROVE  /\ log[e].type = "deleted" => replica = NoRow
                      /\ boot.left \/ (\E q \in Late : q <= e /\ Lays(q)) =>
                           \A f \in DOMAIN log[e].cols :
                              (\A q \in e + 1 .. Len(log) : f \notin DOMAIN log[q].cols /\ log[q].type # "deleted")
                                  => replica # NoRow /\ replica.cols[f] = log[e].cols[f]
    BY <2>1 DEF LaterChangesArrive, late
  <2>2. log[e].type = "deleted" => replica = NoRow
    BY <1>1, <2>1 DEF LogTells, EventsFit, Caught, Later
  <2>3. ASSUME boot.left \/ (\E q \in Late : q <= e /\ Lays(q)), NEW f \in DOMAIN log[e].cols,
               \A q \in e + 1 .. Len(log) : f \notin DOMAIN log[q].cols /\ log[q].type # "deleted"
        PROVE  replica # NoRow /\ replica.cols[f] = log[e].cols[f]
    <3>1. log[e].cols[f] = e /\ log[e].type # "deleted" /\ log[e] \in Events
      BY <1>1, <2>1, <2>3, Sent DEF LogTells, EventsFit
    <3>2. f \in Fields
      BY <3>1 DEF Events, Cols
    <3>3. source # NoRow
      <4> SUFFICES ASSUME source = NoRow PROVE FALSE
        OBVIOUS
      <4>1. Len(log) \in 1 .. Len(log) /\ log[Len(log)].type = "deleted"
        BY <1>1, <1>3, <2>1 DEF LogTells, EventsFit
      <4> QED
        BY <1>3, <2>1, <2>3, <3>1, <4>1
    <3>4. source.cols[f] = e
      <4>1. source.cols[f] \in 1 .. Len(log) /\ f \in DOMAIN log[source.cols[f]].cols /\ e <= source.cols[f]
        BY <1>1, <2>1, <3>2, <3>3 DEF LogTells, ColumnsFit
      <4> QED
        BY <1>3, <2>1, <2>3, <4>1
    <3> QED
      BY <1>1, <2>3, <3>1, <3>2, <3>3, <3>4 DEF Caught, Later
  <2> QED
    BY <2>2, <2>3
<1> QED
  BY <1>5, <1>6

\* Handled in order, however often each of them is repeated, dropped or cut short,
\* and whenever the bootstrap fetches and stores its page, the events of a row that
\* always had an organization lead the replica to the owner's row, but for what was
\* lost between the bootstrap and the queue; and what is handled after the page was
\* stored arrives even then.
THEOREM ReplicasCatchUp == Spec => []CaughtUp
<1> QED
  BY InitCaughtInv, NextCaughtInv, CaughtInvShows, PTL DEF Spec
=============================================================================
