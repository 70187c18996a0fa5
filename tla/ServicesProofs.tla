-------------------------- MODULE ServicesProofs --------------------------
(* Proofs about what a request uses of the services: the sessions of Sessions   *)
(* write in a transaction, the answers of Caches are as recent as promised, and *)
(* Webhooks loses no event and reads the latest row, the clients of Clients are *)
(* closed and kept to their loops, the entries of AuditEntries tell the row, and *)
(* what Storage answered of a file is so; and Services walks each of them.      *)
EXTENDS Services, FiniteSetTheorems,
        SequenceTheorems, TLAPS

-----------------------------------------------------------------------------
(* Sessions. *)

SessionsTypeOK ==
    /\ maker \in Makers /\ readOnly \in BOOLEAN
    /\ writing \in BOOLEAN /\ inWrite \in BOOLEAN
    /\ savepoint \in BOOLEAN /\ unsaved \in BOOLEAN
    /\ alone \subseteq Statements /\ apart \in BOOLEAN

\* A write transaction that has begun is the one statements are bound to: _writing
\* is never taken back before the end.
BoundToWrite == inWrite => IF maker = "routing" THEN writing ELSE ~readOnly

SessionsInv == SessionsTypeOK /\ BoundToWrite /\ WritesHaveATransaction

LEMMA SessionsInitInv == SessionsInit => SessionsInv
BY DEF SessionsInit, SessionsInv, SessionsTypeOK, BoundToWrite, WritesHaveATransaction

\* A statement that gets past the two guards may run where get_bind puts it.
LEMMA RunKeepsInv ==
    ASSUME SessionsInv, NEW s \in Statements, NEW flushing \in BOOLEAN,
           GetBind(flushing, s), ~Forbidden(s), flushing \/ ~Refused(s), Run(s),
           savepoint' \in BOOLEAN, unsaved' \in BOOLEAN
    PROVE  SessionsInv'
<1> USE DEF SessionsInv, GetBind, Run, Begin, Transactional
<1>1. SessionsTypeOK'
  BY DEF SessionsTypeOK, NeedsTransaction, SqlNeedsTransaction
<1>2. BoundToWrite'
  BY DEF SessionsTypeOK, BoundToWrite
<1>3. WritesHaveATransaction'
  <2>1. CASE maker = "routing"
    <3>1. s \notin {"read", "hidden", "missed"} => writing'
      BY <2>1 DEF SessionsTypeOK, Refused, SqlNeedsTransaction
    <3>2. inWrite => writing'
      BY <2>1 DEF SessionsTypeOK, BoundToWrite
    <3> QED
      BY <2>1, <3>1, <3>2 DEF SessionsTypeOK, WritesHaveATransaction
  <2>2. CASE maker = "plain"
    BY <2>2 DEF SessionsTypeOK, WritesHaveATransaction, Forbidden
  <2> QED
    BY <2>1, <2>2 DEF SessionsTypeOK, Makers
<1> QED
  BY <1>1, <1>2, <1>3

LEMMA SessionsNextInv == SessionsInv /\ [SessionsNext]_sessionVars => SessionsInv'
<1> SUFFICES ASSUME SessionsInv, [SessionsNext]_sessionVars PROVE SessionsInv'
  OBVIOUS
<1> USE DEF SessionsInv, SessionsTypeOK, BoundToWrite, WritesHaveATransaction, statementVars
<1>1. ASSUME NEW s \in Statements, Execute(s) PROVE SessionsInv'
  <2>1. GetBind(FALSE, s) /\ ~Forbidden(s) /\ ~Refused(s) /\ Run(s) /\ savepoint' \in BOOLEAN /\ unsaved' \in BOOLEAN
    BY <1>1 DEF Execute
  <2> QED
    BY <2>1, RunKeepsInv
<1>2. ASSUME Flush PROVE SessionsInv'
  <2>1. GetBind(TRUE, "dml") /\ ~Forbidden("dml") /\ Run("dml") /\ savepoint' \in BOOLEAN /\ unsaved' \in BOOLEAN
    BY <1>2 DEF Flush, Forbidden
  <2>2. "dml" \in Statements
    BY DEF Statements
  <2> QED
    BY <2>1, <2>2, RunKeepsInv
<1>3. ASSUME Change PROVE SessionsInv'
  BY <1>3 DEF Change
<1>4. ASSUME BeginNested PROVE SessionsInv'
  BY <1>4 DEF BeginNested, Begin, Transactional
<1>5. ASSUME EndNested PROVE SessionsInv'
  BY <1>5 DEF EndNested
<1>6. ASSUME Connection PROVE SessionsInv'
  BY <1>6 DEF Connection, Begin, Transactional
<1>7. ASSUME OnConnection PROVE SessionsInv'
  BY <1>7 DEF OnConnection, Run, Begin, Transactional, Statements, Makers
<1>8. ASSUME End PROVE SessionsInv'
  BY <1>8 DEF End
<1>9. ASSUME UNCHANGED sessionVars PROVE SessionsInv'
  BY <1>9 DEF sessionVars
<1> QED
  BY <1>1, <1>2, <1>3, <1>4, <1>5, <1>6, <1>7, <1>8, <1>9 DEF SessionsNext

\* Nothing that SQLAlchemy or the pattern of routing.py tells for a write runs
\* outside the write transaction of a routing session, and no DML construct alone.
THEOREM WritesAlwaysHaveATransaction == SessionsSpec => []WritesHaveATransaction
<1>1. SessionsInv => WritesHaveATransaction
  BY DEF SessionsInv
<1> QED
  BY <1>1, SessionsInitInv, SessionsNextInv, PTL DEF SessionsSpec

-----------------------------------------------------------------------------
(* Caches. *)

Plans == {"old", "new"}
CacheKeys == [value : Plans, left : Nat]
Calls ==
    [step : {"idle", "get", "load", "set", "type", "typeload", "typeset", "process", "keep", "done"},
     from : {"nobody", "cache", "billing", "outage", "process"},
     value : Plans \union {"all", "none"}, age : Nat, noBilling : BOOLEAN, noType : BOOLEAN]

CacheTypes ==
    /\ kind \in {"phone", "broker"} /\ plan \in Plans /\ since \in Nat
    /\ entKey \in CacheKeys /\ typeLeft \in Nat /\ process \in CacheKeys
    /\ call \in [Callers -> Calls]

\* A key with the old plan was set one call after the change at the latest, and
\* grows old as the change does; so does what a call is about to store.
KeyIsRecent(key, ttl) == key.left > 0 /\ key.value = "old" => since + key.left <= MaxFlight + ttl

CallIsRecent(k) ==
    /\ k.step \notin {"idle", "done"} => k.age <= MaxFlight
    /\ k.step \in {"set", "keep"} => k.value \in Plans /\ (k.value = "old" => since <= k.age)
    /\ k.step = "done" /\ k.value = "old" =>
          \/ k.from = "cache" /\ k.age <= MaxFlight + ENTITLEMENTS_TTL
          \/ k.from = "process" /\ k.age <= MaxFlight + PROCESS_TTL
          \/ k.from = "billing" /\ k.age <= MaxFlight

RecentInv ==
    /\ CacheTypes
    /\ plan = "old" => since = 0
    /\ KeyIsRecent(entKey, ENTITLEMENTS_TTL) /\ KeyIsRecent(process, PROCESS_TTL)
    /\ \A c \in Callers : CallIsRecent(call[c])

LEMMA InitRecentInv == CacheInit => RecentInv
BY CachesAssumption
DEF CacheInit, RecentInv, CacheTypes, Plans, CacheKeys, Calls, Fresh, KeyIsRecent, CallIsRecent

\* A step of one call that leaves the clock and the keys alone.
LEMMA OneCallSteps ==
    ASSUME RecentInv, NEW c \in Callers, NEW k \in Calls, CallIsRecent(k),
           call' = [call EXCEPT ![c] = k], UNCHANGED <<kind, plan, since, entKey, process>>,
           typeLeft' \in Nat
    PROVE  RecentInv'
BY DEF RecentInv, CacheTypes, KeyIsRecent, CallIsRecent

LEMMA NextRecentInv == RecentInv /\ [CacheNext]_cacheVars => RecentInv'
<1> SUFFICES ASSUME RecentInv, [CacheNext]_cacheVars PROVE RecentInv'
  OBVIOUS
<1> USE CachesAssumption
<1>0. /\ CacheTypes /\ \A d \in Callers : call[d] \in Calls /\ CallIsRecent(call[d])
      /\ KeyIsRecent(entKey, ENTITLEMENTS_TTL) /\ KeyIsRecent(process, PROCESS_TTL)
  BY DEF RecentInv, CacheTypes
<1>1. ASSUME NEW c \in Callers, Ask(c) PROVE RecentInv'
  <2>1. PICK to \in {"get", "process"} : call' = [call EXCEPT ![c] = [Fresh EXCEPT !.step = to]]
    BY <1>1 DEF Ask
  <2>2. [Fresh EXCEPT !.step = to] \in Calls /\ CallIsRecent([Fresh EXCEPT !.step = to])
    <3> DEFINE k == [Fresh EXCEPT !.step = to]
    <3>1. Fresh \in Calls /\ Fresh.age = 0
      BY DEF Fresh, Calls, Plans
    <3>2. k \in Calls /\ k.step = to /\ k.age = 0
      BY <2>1, <3>1 DEF Calls
    <3>3. CallIsRecent(k)
      BY <2>1, <3>2 DEF CallIsRecent
    <3> QED
      BY <3>2, <3>3
  <2> QED
    BY <1>0, <1>1, <2>1, <2>2, OneCallSteps DEF Ask, CacheTypes, keys
<1>2. ASSUME NEW c \in Callers, CacheGet(c) \/ TypeGet(c) \/ TypeLoad(c) \/ Load(c) \/ TypeSet(c) \/ ProcessGet(c)
      PROVE  RecentInv'
  <2>1. PICK k : call' = [call EXCEPT ![c] = k] /\ k \in Calls /\ CallIsRecent(k)
    <3>1. CASE CacheGet(c)
      BY <1>0, <3>1 DEF CacheGet, Answer, Goes, At, CacheTypes, Calls, CacheKeys, CallIsRecent, KeyIsRecent
    <3>2. CASE TypeGet(c)
      BY <1>0, <3>2 DEF TypeGet, Answer, Goes, At, CacheTypes, Calls, Fallback, CallIsRecent
    <3>3. CASE TypeLoad(c)
      BY <1>0, <3>3 DEF TypeLoad, Goes, At, CacheTypes, Calls, CallIsRecent
    <3>4. CASE Load(c)
      BY <1>0, <3>4 DEF Load, At, CacheTypes, Calls, CallIsRecent, RecentInv
    <3>5. CASE TypeSet(c)
      <4> DEFINE k == [call[c] EXCEPT !.step = "done", !.from = "outage", !.value = Fallback(kind), !.age = since]
      <4>1. call' = [call EXCEPT ![c] = k]
        BY <1>0, <3>5 DEF TypeSet, Answer, CacheTypes, Calls
      <4>2. k \in Calls /\ CallIsRecent(k)
        BY <1>0 DEF CacheTypes, Calls, Fallback, CallIsRecent
      <4> QED
        BY <4>1, <4>2
    <3>6. CASE ProcessGet(c)
      <4>1. Fresh \in Calls /\ CallIsRecent(Fresh)
        BY DEF Fresh, Calls, Plans, CallIsRecent
      <4>2. CASE call' = [call EXCEPT ![c] = Fresh]
        BY <4>1, <4>2
      <4>3. CASE call' = [call EXCEPT ![c].step = "keep", ![c].value = plan]
        <5> DEFINE k == [call[c] EXCEPT !.step = "keep", !.value = plan]
        <5>1. call' = [call EXCEPT ![c] = k] /\ call[c].step = "process"
          BY <1>0, <3>6, <4>3 DEF ProcessGet, At, CacheTypes, Calls
        <5>2. k \in Calls
          BY <1>0 DEF CacheTypes, Calls
        <5>3. k.step = "keep" /\ k.value = plan /\ k.age = call[c].age /\ call[c].age \in Nat
          BY <1>0 DEF Calls
        <5>4. CallIsRecent(k)
          BY <1>0, <5>1, <5>3 DEF CacheTypes, CallIsRecent, RecentInv
        <5> QED
          BY <5>1, <5>2, <5>4
      <4>4. CASE process.left > 0 /\ Answer(c, "process", process.value)
        <5> DEFINE k == [call[c] EXCEPT !.step = "done", !.from = "process", !.value = process.value, !.age = since]
        <5>1. call' = [call EXCEPT ![c] = k]
          BY <1>0, <4>4 DEF Answer, CacheTypes, Calls
        <5>2. k \in Calls
          BY <1>0 DEF CacheTypes, Calls, CacheKeys
        <5>3. k.step = "done" /\ k.value = process.value /\ k.age = since /\ k.from = "process"
          BY <1>0 DEF Calls
        <5>4. CallIsRecent(k)
          BY <1>0, <4>4, <5>3 DEF CacheTypes, CallIsRecent, KeyIsRecent, CacheKeys
        <5> QED
          BY <5>1, <5>2, <5>4
      <4> QED
        BY <3>6, <4>2, <4>3, <4>4 DEF ProcessGet
    <3> QED
      BY <1>2, <3>1, <3>2, <3>3, <3>4, <3>5, <3>6
  <2>2. UNCHANGED <<kind, plan, since, entKey, process>> /\ typeLeft' \in Nat
    BY <1>0, <1>2 DEF CacheGet, TypeGet, TypeLoad, Load, TypeSet, ProcessGet, keys, CacheTypes
  <2> QED
    BY <2>1, <2>2, OneCallSteps
<1>3. ASSUME NEW c \in Callers, CacheSet(c) PROVE RecentInv'
  <2> DEFINE k == [call[c] EXCEPT !.step = "done", !.from = "billing", !.age = since]
  <2>1. call' = [call EXCEPT ![c] = k] /\ call[c].step = "set"
    BY <1>0, <1>3 DEF CacheSet, Answer, At, CacheTypes, Calls
  <2>2. call[c].value \in Plans /\ (call[c].value = "old" => since <= MaxFlight)
    BY <1>0, <2>1 DEF CallIsRecent, CacheTypes, Calls
  <2>3. k \in Calls /\ CallIsRecent(k)
    <3>1. k \in Calls
      BY <1>0 DEF CacheTypes, Calls
    <3>2. k.step = "done" /\ k.value = call[c].value /\ k.age = since /\ k.from = "billing"
      BY <1>0 DEF Calls
    <3> QED
      BY <2>2, <3>1, <3>2 DEF CallIsRecent
  <2>4. entKey' \in CacheKeys /\ KeyIsRecent(entKey', ENTITLEMENTS_TTL)
    BY <1>0, <1>3, <2>2 DEF CacheSet, CacheTypes, CacheKeys, KeyIsRecent
  <2> HIDE DEF k
  <2> QED
    BY <1>0, <1>3, <2>1, <2>3, <2>4 DEF CacheSet, RecentInv, CacheTypes, KeyIsRecent, CallIsRecent
<1>4. ASSUME NEW c \in Callers, ProcessKeep(c) PROVE RecentInv'
  <2> DEFINE k == [call[c] EXCEPT !.step = "done", !.from = "process", !.age = since]
  <2>1. call' = [call EXCEPT ![c] = k] /\ call[c].step = "keep"
    BY <1>0, <1>4 DEF ProcessKeep, Answer, At, CacheTypes, Calls
  <2>2. call[c].value \in Plans /\ (call[c].value = "old" => since <= MaxFlight)
    BY <1>0, <2>1 DEF CallIsRecent, CacheTypes, Calls
  <2>3. k \in Calls /\ CallIsRecent(k)
    <3>1. k \in Calls
      BY <1>0 DEF CacheTypes, Calls
    <3>2. k.step = "done" /\ k.value = call[c].value /\ k.age = since /\ k.from = "process"
      BY <1>0 DEF Calls
    <3>3. since <= MaxFlight => since <= MaxFlight + PROCESS_TTL
      BY <1>0 DEF CacheTypes
    <3> QED
      BY <2>2, <3>1, <3>2, <3>3 DEF CallIsRecent
  <2>4. process' \in CacheKeys /\ KeyIsRecent(process', PROCESS_TTL)
    BY <1>0, <1>4, <2>2 DEF ProcessKeep, CacheTypes, CacheKeys, KeyIsRecent
  <2> HIDE DEF k
  <2> QED
    BY <1>0, <1>4, <2>1, <2>3, <2>4 DEF ProcessKeep, RecentInv, CacheTypes, KeyIsRecent, CallIsRecent
<1>5. CASE ChangePlan
  BY <1>0, <1>5 DEF ChangePlan, RecentInv, CacheTypes, KeyIsRecent, CallIsRecent, Plans, keys
<1>6. CASE Invalidate
  BY <1>0, <1>6 DEF Invalidate, RecentInv, CacheTypes, CacheKeys, KeyIsRecent, CallIsRecent
<1>7. CASE Pass
  <2>1. since' \in {since, since + 1} /\ (plan = "old" => since' = since) /\ plan' = plan /\ kind' = kind
    BY <1>7 DEF Pass
  <2>2. \A n \in Nat : Less(n) \in Nat /\ (Less(n) > 0 => n = Less(n) + 1)
    BY DEF Less
  <2>3. /\ entKey' \in CacheKeys /\ KeyIsRecent(entKey, ENTITLEMENTS_TTL)'
        /\ process' \in CacheKeys /\ KeyIsRecent(process, PROCESS_TTL)'
        /\ typeLeft' \in Nat
    BY <1>0, <1>7, <2>1, <2>2 DEF Pass, CacheTypes, CacheKeys, KeyIsRecent
  <2>4. call' \in [Callers -> Calls]
    <3>1. \A c \in Callers : [call[c] EXCEPT !.age = @ + 1] \in Calls
      BY <1>0 DEF Calls
    <3> QED
      BY <1>0, <1>7, <3>1 DEF Pass
  <2>5. ASSUME NEW c \in Callers PROVE CallIsRecent(call[c])'
    <3>1. CASE Waiting(c)
      <4>1. call'[c] = [call[c] EXCEPT !.age = @ + 1] /\ call[c].age < MaxFlight
        BY <1>7, <3>1 DEF Pass
      <4> QED
        BY <1>0, <2>1, <3>1, <4>1 DEF Waiting, CallIsRecent, CacheTypes, Calls
    <3>2. CASE ~Waiting(c)
      <4>1. call'[c] = call[c]
        BY <1>7, <3>2 DEF Pass
      <4> QED
        BY <1>0, <3>2, <4>1 DEF Waiting, CallIsRecent
    <3> QED
      BY <3>1, <3>2
  <2> QED
    BY <1>0, <2>1, <2>3, <2>4, <2>5 DEF RecentInv, CacheTypes
<1>8. CASE UNCHANGED cacheVars
  BY <1>8 DEF cacheVars, keys, RecentInv, CacheTypes, KeyIsRecent, CallIsRecent
<1> QED
  BY <1>1, <1>2, <1>3, <1>4, <1>5, <1>6, <1>7, <1>8 DEF CacheNext

\* An old plan is answered for a bounded time after it changed: the time to live
\* of the cache that answered and one call (cache.py, features.py, clients/auth.py).
THEOREM OldAnswersEnd == CacheSpec => []AnswersAreRecent
<1>1. RecentInv => AnswersAreRecent
  BY CachesAssumption DEF RecentInv, CacheTypes, Calls, CallIsRecent, AnswersAreRecent, At
<1> QED
  BY <1>1, InitRecentInv, NextRecentInv, PTL DEF CacheSpec

----------------------------------------------------------------------------
(* Answers made up for an outage: a call asks for the type of the          *)
(* organization only after billing failed it, and stores what billing said. *)

CallFits(k) ==
    /\ k.step \in {"type", "typeload", "typeset"} => k.noBilling
    /\ k.step = "done" =>
          /\ k.value \in {"all", "none"} => k.noBilling
          /\ k.value = "none" => kind = "phone"
          /\ k.value = "all" => kind = "broker" \/ k.noType

OutageInv == RecentInv /\ \A c \in Callers : CallFits(call[c])

LEMMA NextOutageInv == OutageInv /\ [CacheNext]_cacheVars => OutageInv'
<1> SUFFICES ASSUME OutageInv, [CacheNext]_cacheVars, NEW d \in Callers PROVE CallFits(call[d])'
  BY NextRecentInv DEF OutageInv
<1>0. /\ CallFits(call[d]) /\ CallIsRecent(call[d]) /\ call[d] \in Calls
      /\ kind \in {"phone", "broker"} /\ kind' = kind /\ call \in [Callers -> Calls]
      /\ plan \in Plans /\ entKey.value \in Plans /\ process.value \in Plans
  BY DEF OutageInv, RecentInv, CacheTypes, CacheKeys, CacheNext, Ask, CacheGet, Load, CacheSet, TypeGet,
         TypeLoad, TypeSet, ProcessGet, ProcessKeep, ChangePlan, Invalidate, Pass, cacheVars
<1>1. CASE call'[d] = call[d]
  BY <1>0, <1>1 DEF CallFits
<1>2. ASSUME NEW c \in Callers,
             \/ Ask(c) \/ CacheGet(c) \/ Load(c) \/ CacheSet(c) \/ TypeGet(c) \/ TypeLoad(c) \/ TypeSet(c)
             \/ ProcessGet(c) \/ ProcessKeep(c)
      PROVE  CallFits(call[d])'
  <2>1. c # d => call'[d] = call[d]
    BY <1>0, <1>2 DEF Ask, CacheGet, Load, CacheSet, TypeGet, TypeLoad, TypeSet, ProcessGet,
                      ProcessKeep, Answer, Goes
  <2>2. CASE c = d
    <3>1. CASE Ask(d)
      BY <1>0, <3>1 DEF Ask, Fresh, CallFits
    <3>2. CASE CacheGet(d) \/ CacheSet(d) \/ ProcessGet(d) \/ ProcessKeep(d)
      <4>1. CASE call'[d] = Fresh \/ call'[d].step \in {"load", "keep"}
        BY <4>1 DEF Fresh, CallFits
      <4>2. CASE call'[d].step = "done" /\ call'[d].value \in Plans
        BY <4>2 DEF CallFits, Plans
      <4> QED
        BY <1>0, <3>2, <4>1, <4>2 DEF CacheGet, CacheSet, ProcessGet, ProcessKeep, Answer, Goes, At, Calls, CallIsRecent
    <3>3. CASE Load(d) \/ TypeLoad(d) \/ TypeGet(d) \/ TypeSet(d)
      BY <1>0, <3>3 DEF Load, TypeLoad, TypeGet, TypeSet, Answer, Goes, At, Fallback, Calls, CallFits
    <3> QED
      BY <1>2, <2>2, <3>1, <3>2, <3>3
  <2> QED
    BY <1>1, <2>1, <2>2
<1>3. CASE Pass
  <2>1. call'[d] = call[d] \/ (Waiting(d) /\ call'[d] = [call[d] EXCEPT !.age = @ + 1])
    BY <1>3 DEF Pass
  <2> QED
    BY <1>0, <2>1 DEF Waiting, Calls, CallFits
<1> QED
  BY <1>1, <1>2, <1>3 DEF CacheNext, ChangePlan, Invalidate, cacheVars

\* An answer made up for an outage comes of a call that billing failed, and is
\* what _outage_fallback gives an organization of that type.
THEOREM OutageAnswersFit == CacheSpec => []AnswersFitTheOutage
<1>1. CacheInit => OutageInv
  BY InitRecentInv DEF CacheInit, OutageInv, Fresh, CallFits
<1>2. OutageInv => AnswersFitTheOutage
  BY DEF OutageInv, CallFits, AnswersFitTheOutage, At
<1> QED
  BY <1>1, <1>2, NextOutageInv, PTL DEF CacheSpec

-----------------------------------------------------------------------------
(* Webhooks, for every set of workers, any number of deliveries and of stamps. *)

Steps == {"idle", "dedup", "store", "process", "stamp", "write"}

WebhookTypes ==
    /\ step \in [Workers -> Steps]
    /\ processed \in Nat /\ stamps \in Nat

\* Between the mark and the processing.
AtIt(w) == step[w] \in {"store", "process"}

\* Whoever marked the event is still at it, has processed it or crashed.
MarkHasCause ==
    seen \/ called => processed > 0 \/ crashed \/ \E w \in Workers : AtIt(w)

\* While Redis keeps the mark, one worker at most was let past it.
OneIsLetPast ==
    ~excused =>
        /\ processed <= 1
        /\ processed = 1 => seen
        /\ \A w \in Workers : AtIt(w) =>
              seen /\ processed = 0 /\ \A v \in Workers : AtIt(v) => v = w

DedupInv == WebhookTypes /\ MarkHasCause /\ OneIsLetPast

LEMMA UpToIsFinite == ASSUME NEW n \in Nat PROVE IsFiniteSet(1 .. n)
<1>1. 1 \in Int /\ n \in Int
  OBVIOUS
<1>2. IsFiniteSet(1 .. n)
  BY ONLY <1>1, FS_Interval
<1> QED
  BY <1>2

\* A row's version says how many stamps it has, each one of the first n.
Counts(r, n) ==
    /\ r.has \subseteq 1 .. n
    /\ r.version = Cardinality(r.has) + 1

VersionsCount ==
    /\ \A r \in buffer \cup visible : Counts(r, stamps)
    /\ DOMAIN row = Workers
    /\ \A w \in Workers : step[w] \in {"process", "stamp", "write"} => Counts(row[w], stamps)

RowsInv == WebhookTypes /\ VersionsCount

----------------------------------------------------------------------------
(* Deduplication. *)

LEMMA WebhookInitTypes == WebhookInit => WebhookTypes
BY DEF WebhookInit, WebhookTypes, Steps

LEMMA DedupInitInv == WebhookInit => DedupInv
<1>1. WebhookInit => MarkHasCause
  BY DEF WebhookInit, MarkHasCause
<1>2. WebhookInit => OneIsLetPast
  BY DEF WebhookInit, OneIsLetPast, AtIt
<1> QED
  BY <1>1, <1>2, WebhookInitTypes DEF DedupInv

LEMMA DedupNextInv == DedupInv /\ [WebhookNext]_webhookVars => DedupInv'
<1> SUFFICES ASSUME DedupInv, [WebhookNext]_webhookVars PROVE DedupInv'
  OBVIOUS
<1> USE DEF DedupInv, WebhookTypes, MarkHasCause, OneIsLetPast, AtIt, Steps, history, archive, Goto
<1>1. ASSUME NEW w \in Workers, Deliver(w) PROVE DedupInv'
  BY <1>1 DEF Deliver
<1>2. ASSUME NEW w \in Workers, IsNew(w) PROVE DedupInv'
  BY <1>2 DEF IsNew
<1>3. ASSUME NEW w \in Workers, Store(w) PROVE DedupInv'
  BY <1>3 DEF Store
<1>4. ASSUME NEW w \in Workers, Process(w) PROVE DedupInv'
  BY <1>4 DEF Process
<1>5. ASSUME NEW w \in Workers, Fetch(w) PROVE DedupInv'
  BY <1>5 DEF Fetch
<1>6. ASSUME NEW w \in Workers, Restamp(w) PROVE DedupInv'
  BY <1>6 DEF Restamp
<1>7. ASSUME NEW w \in Workers, Crash(w) PROVE DedupInv'
  BY <1>7 DEF Crash
<1>8. CASE Forget \/ FlushBuffer \/ Merge \/ Purge
  BY <1>8 DEF Forget, FlushBuffer, Merge, Purge
<1>9. CASE UNCHANGED webhookVars
  BY <1>9 DEF webhookVars
<1> QED
  BY <1>1, <1>2, <1>3, <1>4, <1>5, <1>6, <1>7, <1>8, <1>9 DEF WebhookNext

\* is_new in webhook_archive.py loses no event and repeats none without a cause:
\* a crash between its mark and the processing, or a Redis that failed or forgot.
THEOREM NoEventIsLostForNothing == WebhookSpec => []DedupHasCause
<1>1. DedupInv => DedupHasCause
  BY DEF DedupInv, WebhookTypes, MarkHasCause, OneIsLetPast, AtIt, DedupHasCause
<1> QED
  BY <1>1, DedupInitInv, DedupNextInv, PTL DEF WebhookSpec

----------------------------------------------------------------------------
(* Versions. *)

\* A stamp more makes one version more, for it is a new one.
LEMMA ChangedCounts ==
    ASSUME NEW r, NEW n \in Nat, Counts(r, n)
    PROVE  Counts(Changed(r, n + 1), n + 1)
<1>1. Changed(r, n + 1).version = r.version + 1 /\ Changed(r, n + 1).has = r.has \cup {n + 1}
  BY DEF Changed
<1>2. IsFiniteSet(r.has) /\ n + 1 \notin r.has
  <2>1. IsFiniteSet(1 .. n)
    BY UpToIsFinite
  <2> QED
    BY <2>1, FS_Subset DEF Counts
<1>3. Cardinality(r.has \cup {n + 1}) = Cardinality(r.has) + 1 /\ Cardinality(r.has) \in Nat
  BY <1>2, FS_AddElement, FS_CardinalityType
<1>4. r.has \cup {n + 1} \subseteq 1 .. n + 1
  BY DEF Counts
<1> QED
  BY <1>1, <1>3, <1>4 DEF Counts

\* A row that counted goes on to when stamps are made elsewhere.
LEMMA CountsStay ==
    ASSUME NEW r, NEW n \in Nat, Counts(r, n)
    PROVE  Counts(r, n + 1)
BY DEF Counts

LEMMA RowsInitInv == WebhookInit => RowsInv
BY WebhookInitTypes DEF WebhookInit, RowsInv, VersionsCount

LEMMA StoredRowCounts ==
    ASSUME NEW k, NEW n
    PROVE  Counts([key |-> k, version |-> 1, has |-> {}], n)
BY FS_EmptySet DEF Counts

LEMMA WebhookTypesStay == WebhookTypes /\ [WebhookNext]_webhookVars => WebhookTypes'
<1> SUFFICES ASSUME WebhookTypes, [WebhookNext]_webhookVars PROVE WebhookTypes'
  OBVIOUS
<1> USE DEF WebhookTypes, Steps, history, archive, Goto
<1>1. ASSUME NEW w \in Workers, Deliver(w) \/ IsNew(w) \/ Store(w) \/ Process(w) PROVE WebhookTypes'
  BY <1>1 DEF Deliver, IsNew, Store, Process
<1>2. ASSUME NEW w \in Workers, Fetch(w) \/ Restamp(w) \/ Crash(w) PROVE WebhookTypes'
  BY <1>2 DEF Fetch, Restamp, Crash
<1>3. CASE Forget \/ FlushBuffer \/ Merge \/ Purge
  BY <1>3 DEF Forget, FlushBuffer, Merge, Purge
<1>4. CASE UNCHANGED webhookVars
  BY <1>4 DEF webhookVars
<1> QED
  BY <1>1, <1>2, <1>3, <1>4 DEF WebhookNext

LEMMA VersionsNextInv == RowsInv /\ [WebhookNext]_webhookVars => VersionsCount'
<1> SUFFICES ASSUME RowsInv, [WebhookNext]_webhookVars PROVE VersionsCount'
  OBVIOUS
<1> USE DEF RowsInv, WebhookTypes, history, archive, Goto
<1>1. ASSUME NEW w \in Workers, Deliver(w) \/ IsNew(w) PROVE VersionsCount'
  BY <1>1 DEF Deliver, IsNew, VersionsCount, Counts
<1>2. ASSUME NEW w \in Workers, Store(w) PROVE VersionsCount'
  <2> DEFINE new == [key |-> deliveries, version |-> 1, has |-> {}]
  <2>1. Counts(new, stamps) /\ stamps' = stamps
    BY <1>2, StoredRowCounts DEF Store
  <2>2. row' = [row EXCEPT ![w] = new] /\ buffer' \in {buffer, buffer \cup {new}} /\ visible' = visible
    BY <1>2 DEF Store, Insert
  <2>3. step' = [step EXCEPT ![w] = "process"]
    BY <1>2 DEF Store
  <2> HIDE DEF new
  <2> QED
    BY <2>1, <2>2, <2>3 DEF VersionsCount
<1>3. ASSUME NEW w \in Workers, Process(w) PROVE VersionsCount'
  BY <1>3 DEF Process, VersionsCount, Counts
<1>4. ASSUME NEW w \in Workers, Fetch(w) PROVE VersionsCount'
  BY <1>4 DEF Fetch, NewestRow, VersionsCount, Counts
<1>5. ASSUME NEW w \in Workers, Restamp(w) PROVE VersionsCount'
  <2> DEFINE new == Changed(row[w], stamps + 1)
  <2>1. step[w] \in {"stamp", "write"} /\ stamps' = stamps + 1 /\ visible' = visible
    BY <1>5 DEF Restamp
  <2>2. Counts(row[w], stamps)
    BY <2>1 DEF VersionsCount
  <2>3. Counts(new, stamps + 1)
    BY <2>2, ChangedCounts
  <2>4. /\ buffer' \in {buffer, buffer \cup {new}}
        /\ \/ step' = [step EXCEPT ![w] = "stamp"] /\ row' = [row EXCEPT ![w] = new]
           \/ step' = [step EXCEPT ![w] = "idle"] /\ row' = [row EXCEPT ![w] = NoRow]
    BY <1>5 DEF Restamp, Insert
  <2> HIDE DEF new
  <2>5. \A r : Counts(r, stamps) => Counts(r, stamps + 1)
    BY CountsStay
  <2> QED
    BY <2>1, <2>3, <2>4, <2>5 DEF VersionsCount
<1>6. ASSUME NEW w \in Workers, Crash(w) PROVE VersionsCount'
  BY <1>6 DEF Crash, VersionsCount, Counts
<1>7. CASE Forget \/ FlushBuffer \/ Merge \/ Purge
  BY <1>7 DEF Forget, FlushBuffer, Merge, Purge, VersionsCount, Counts
<1>8. CASE UNCHANGED webhookVars
  BY <1>8 DEF webhookVars, VersionsCount, Counts
<1> QED
  BY <1>1, <1>2, <1>3, <1>4, <1>5, <1>6, <1>7, <1>8 DEF WebhookNext

\* What the archive returns is never an earlier row of its line, for a version is
\* a count of the stamps a row has: restamp in webhook_archive.py adds to both.
THEOREM LatestRowIsRead == WebhookSpec => []NewestIsLatest
<1>1. RowsInv => NewestIsLatest
  <2> SUFFICES ASSUME RowsInv, NEW r \in NewestRow, NEW q \in visible, r.has \subseteq q.has, r.has # q.has
               PROVE  FALSE
    BY DEF NewestIsLatest
  <2>1. r \in visible /\ q.version <= r.version
    BY DEF NewestRow
  <2>2. Counts(r, stamps) /\ Counts(q, stamps) /\ stamps \in Nat
    BY <2>1 DEF RowsInv, WebhookTypes, VersionsCount
  <2>3. q.has \subseteq 1 .. stamps /\ q.version = Cardinality(q.has) + 1 /\ r.version = Cardinality(r.has) + 1
    BY <2>2 DEF Counts
  <2>4. IsFiniteSet(q.has)
    <3>1. IsFiniteSet(1 .. stamps)
      BY <2>2, UpToIsFinite
    <3> QED
      BY <2>3, <3>1, FS_Subset
  <2>5. Cardinality(r.has) <= Cardinality(q.has) /\ Cardinality(r.has) # Cardinality(q.has) /\ IsFiniteSet(r.has)
    BY <2>4, FS_Subset
  <2>6. Cardinality(r.has) \in Nat /\ Cardinality(q.has) \in Nat
    BY <2>4, <2>5, FS_CardinalityType
  <2> QED
    BY <2>1, <2>3, <2>5, <2>6
<1> QED
  BY <1>1, RowsInitInv, WebhookTypesStay, VersionsNextInv, PTL DEF WebhookSpec, RowsInv

-----------------------------------------------------------------------------
(* Clients. *)

MadeClients == [sort : {"clickhouse", "http", "mongo"}, loop : Nat, n : Nat]

ClientsTypeOK ==
    /\ loop \in Nat /\ running \in BOOLEAN /\ made \in Nat
    /\ clients = [l \in DOMAIN clients |-> clients[l]]
    /\ shared \in MadeClients \union {NoClient} /\ shared.sort \in {"http", "none"} /\ mongo \in MadeClients \union {NoClient}
    /\ open \subseteq MadeClients
    /\ task \in [Tasks -> {"idle", "connects", "pings"}]
    /\ given \in [Tasks -> MadeClients \union {NoClient}]

\* Only the loop that runs has a ClickHouse client, and then a generator for it.
ClickhouseFits ==
    /\ DOMAIN clients \subseteq {loop} /\ DOMAIN clients \subseteq closers
    /\ ~running => DOMAIN clients = {} /\ \A t \in Tasks : given[t] = NoClient /\ task[t] = "idle"
    /\ \A l \in DOMAIN clients : clients[l] \in open /\ clients[l].sort = "clickhouse" /\ clients[l].loop = l

\* A client of MongoDB that is being initialised is its task's alone.
MongoFits ==
    /\ mongo # NoClient => mongo \in open /\ mongo.sort = "mongo"
    /\ \A t \in Tasks : task[t] = "pings" =>
          /\ given[t] \in open /\ given[t].sort = "mongo" /\ given[t] # mongo
          /\ \A s \in Tasks \ {t} : given[s] # given[t]

\* ClientsAreClosed, with the loop's client where it is.
Reached(c) ==
    \/ running /\ loop \in DOMAIN clients /\ clients[loop] = c
    \/ c = shared \/ c = mongo
    \/ \E t \in Tasks : given[t] = c /\ task[t] = "pings"

OpenFits ==
    /\ \A c \in open : c.n <= made
    /\ \A c \in open \ lost : Reached(c)

ClientsInv == ClientsTypeOK /\ ClickhouseFits /\ MongoFits /\ OpenFits /\ ClientsBelong

LEMMA NoClientIsNone == NoClient \notin MadeClients
BY DEF NoClient, MadeClients

\* What a client just made is.
LEMMA MadeIsNew ==
    ASSUME ClientsInv, NEW sort \in {"clickhouse", "http", "mongo"}
    PROVE  /\ Client(sort) \in MadeClients /\ Client(sort) # NoClient /\ Client(sort) \notin open
           /\ Client(sort).sort = sort /\ Client(sort).loop = loop /\ Client(sort).n = made + 1
           /\ Client(sort) # mongo
           /\ \A t \in Tasks : given[t] # Client(sort)
<1>1. loop \in Nat /\ made \in Nat /\ \A c \in open : c.n <= made /\ c \in MadeClients
  BY DEF ClientsInv, ClientsTypeOK, OpenFits
<1>2. Client(sort) \in MadeClients /\ Client(sort).sort = sort /\ Client(sort).loop = loop /\ Client(sort).n = made + 1
  BY <1>1 DEF Client, MadeClients
<1>3. Client(sort) \notin open
  BY <1>1, <1>2
<1>4. Client(sort) # NoClient
  BY <1>2, NoClientIsNone
<1> QED
  BY <1>2, <1>3, <1>4 DEF ClientsInv, MongoFits, ClientsBelong

LEMMA ClientsInvShows == ClientsInv => ClientsAreKept
<1> SUFFICES ASSUME ClientsInv PROVE ClientsAreClosed
  BY DEF ClientsInv, ClientsAreKept
<1>1. ASSUME NEW c \in open \ lost, running, loop \in DOMAIN clients, clients[loop] = c
      PROVE  c.sort = "clickhouse" /\ c.loop = loop
  BY <1>1 DEF ClientsInv, ClickhouseFits
<1> QED
  BY <1>1 DEF ClientsInv, OpenFits, Reached, ClientsAreClosed

LEMMA InitClientsInv == ClientsInit => ClientsInv
<1> SUFFICES ASSUME ClientsInit PROVE ClientsInv
  OBVIOUS
<1> USE DEF ClientsInit
<1>1. ClientsTypeOK
  BY DEF ClientsTypeOK, NoClient
<1>2. ClickhouseFits /\ MongoFits /\ OpenFits /\ ClientsBelong
  BY DEF ClickhouseFits, MongoFits, OpenFits, ClientsBelong
<1> QED
  BY <1>1, <1>2 DEF ClientsInv

LEMMA GetClientKeeps == ASSUME ClientsInv, NEW t \in Tasks, GetClient(t) PROVE ClientsInv'
<1>0. ClientsTypeOK /\ ClickhouseFits /\ MongoFits /\ OpenFits /\ ClientsBelong
  BY DEF ClientsInv
<1>1. /\ running /\ task[t] = "idle" /\ closers' = closers \intersect {loop}
      /\ UNCHANGED <<loop, running, shared, mongo, open, made, lost>>
  BY DEF GetClient
<1>2. clients' = clients
  <2>1. DOMAIN clients \ (closers \ {loop}) = DOMAIN clients
    BY <1>0 DEF ClickhouseFits
  <2>2. clients' = [l \in DOMAIN clients \ (closers \ {loop}) |-> clients[l]]
    BY DEF GetClient
  <2> QED
    BY <1>0, <2>1, <2>2 DEF ClientsTypeOK
<1>3. CASE loop \in DOMAIN clients
  <2>1. given' = [given EXCEPT ![t] = clients[loop]] /\ task' = task
    BY <1>3 DEF GetClient
  <2>2. clients[loop] \in open /\ clients[loop].sort = "clickhouse" /\ clients[loop].loop = loop /\ clients[loop] \in MadeClients
    BY <1>0, <1>3 DEF ClickhouseFits, ClientsTypeOK
  <2>3. ClientsTypeOK'
    BY <1>0, <1>1, <1>2, <2>1, <2>2 DEF ClientsTypeOK
  <2>4. given'[t] = clients[loop] /\ \A s \in Tasks \ {t} : given'[s] = given[s]
    BY <1>0, <2>1 DEF ClientsTypeOK
  <2>5. ClickhouseFits' /\ ClientsBelong'
    BY <1>0, <1>1, <1>2, <2>1, <2>2, <2>4 DEF ClickhouseFits, ClientsBelong
  <2>6. MongoFits'
    BY <1>0, <1>1, <1>2, <2>1, <2>2, <2>4 DEF MongoFits
  <2>7. OpenFits'
    BY <1>0, <1>1, <1>2, <2>1, <2>4 DEF OpenFits, Reached
  <2> QED
    BY <2>3, <2>5, <2>6, <2>7 DEF ClientsInv
<1>4. CASE loop \notin DOMAIN clients
  <2>1. task' = [task EXCEPT ![t] = "connects"] /\ given' = given
    BY <1>4 DEF GetClient
  <2>2. ClientsTypeOK' /\ task'[t] = "connects" /\ \A s \in Tasks \ {t} : task'[s] = task[s]
    BY <1>0, <1>1, <1>2, <2>1 DEF ClientsTypeOK
  <2>3. ClickhouseFits' /\ ClientsBelong'
    BY <1>0, <1>1, <1>2, <2>1, <2>2 DEF ClickhouseFits, ClientsBelong
  <2>4. MongoFits' /\ OpenFits'
    BY <1>0, <1>1, <1>2, <2>1, <2>2 DEF MongoFits, OpenFits, Reached
  <2> QED
    BY <2>2, <2>3, <2>4 DEF ClientsInv
<1> QED
  BY <1>3, <1>4

LEMMA ConnectedKeeps == ASSUME ClientsInv, NEW t \in Tasks, Connected(t) PROVE ClientsInv'
<1> DEFINE c == Client("clickhouse")
<1>0. ClientsTypeOK /\ ClickhouseFits /\ MongoFits /\ OpenFits /\ ClientsBelong
  BY DEF ClientsInv
<1>1. /\ task[t] = "connects" /\ made' = made + 1 /\ open' = open \union {c}
      /\ clients' = [l \in DOMAIN clients \union {loop} |-> IF l = loop THEN c ELSE clients[l]]
      /\ lost' = lost \union (IF loop \in DOMAIN clients THEN {clients[loop]} ELSE {})
      /\ given' = [given EXCEPT ![t] = c] /\ closers' = closers \union {loop}
      /\ task' = [task EXCEPT ![t] = "idle"]
      /\ UNCHANGED <<loop, running, shared, mongo>>
  BY DEF Connected, Make
<1>2. /\ c \in MadeClients /\ c # NoClient /\ c \notin open /\ c.sort = "clickhouse" /\ c.loop = loop /\ c.n = made + 1
      /\ c # mongo /\ \A s \in Tasks : given[s] # c
  BY MadeIsNew
<1> HIDE DEF c
<1>3. /\ DOMAIN clients' = {loop} /\ clients'[loop] = c /\ running
      /\ given'[t] = c /\ task'[t] = "idle" /\ \A s \in Tasks \ {t} : given'[s] = given[s] /\ task'[s] = task[s]
  BY <1>0, <1>1 DEF ClientsTypeOK, ClickhouseFits
<1>4. ClientsTypeOK'
  BY <1>0, <1>1, <1>2 DEF ClientsTypeOK
<1>5. ClickhouseFits' /\ ClientsBelong'
  BY <1>0, <1>1, <1>2, <1>3 DEF ClickhouseFits, ClientsBelong
<1>6. MongoFits'
  BY <1>0, <1>1, <1>2, <1>3 DEF MongoFits
<1>7. OpenFits'
  <2>1. \A d \in open' : d.n <= made'
    BY <1>0, <1>1, <1>2 DEF OpenFits, ClientsTypeOK, MadeClients
  <2>2. ASSUME NEW d \in open' \ lost' PROVE Reached(d)'
    <3>1. CASE d = c
      BY <1>1, <1>3, <3>1 DEF Reached
    <3>2. CASE d # c
      <4>1. d \in open \ lost /\ ~(loop \in DOMAIN clients /\ clients[loop] = d)
        BY <1>1, <2>2, <3>2
      <4>2. d = shared \/ d = mongo \/ \E s \in Tasks : given[s] = d /\ task[s] = "pings"
        BY <1>0, <4>1 DEF OpenFits, Reached
      <4> QED
        BY <1>1, <1>3, <4>2 DEF Reached
    <3> QED
      BY <3>1, <3>2
  <2> QED
    BY <2>1, <2>2 DEF OpenFits
<1> QED
  BY <1>4, <1>5, <1>6, <1>7 DEF ClientsInv

LEMMA ConnectFailsKeeps == ASSUME ClientsInv, NEW t \in Tasks, ConnectFails(t) PROVE ClientsInv'
<1>0. ClientsTypeOK /\ ClickhouseFits /\ MongoFits /\ OpenFits /\ ClientsBelong
  BY DEF ClientsInv
<1>1. /\ task[t] = "connects" /\ task' = [task EXCEPT ![t] = "idle"]
      /\ UNCHANGED <<loop, running, clients, closers, shared, mongo, open, made, lost, given>>
  BY DEF ConnectFails, resources
<1>2. ClientsTypeOK' /\ task'[t] = "idle" /\ \A s \in Tasks \ {t} : task'[s] = task[s]
  BY <1>0, <1>1 DEF ClientsTypeOK
<1>3. ClickhouseFits' /\ ClientsBelong'
  BY <1>0, <1>1, <1>2 DEF ClickhouseFits, ClientsBelong
<1>4. MongoFits' /\ OpenFits'
  BY <1>0, <1>1, <1>2 DEF MongoFits, OpenFits, Reached
<1> QED
  BY <1>2, <1>3, <1>4 DEF ClientsInv

LEMMA CloseClickhouseKeeps == ASSUME ClientsInv, NEW t \in Tasks, CloseClickhouse(t) PROVE ClientsInv'
<1>0. ClientsTypeOK /\ ClickhouseFits /\ MongoFits /\ OpenFits /\ ClientsBelong
  BY DEF ClientsInv
<1>1. /\ running /\ loop \in DOMAIN clients /\ clients' = Without(loop) /\ open' = open \ {clients[loop]}
      /\ given' = [s \in Tasks |-> IF given[s] = clients[loop] THEN NoClient ELSE given[s]]
      /\ UNCHANGED <<loop, running, closers, shared, mongo, made, lost, task>>
  BY DEF CloseClickhouse
<1>2. DOMAIN clients' = {} /\ clients' = [l \in DOMAIN clients' |-> clients'[l]]
  BY <1>0, <1>1 DEF Without, ClickhouseFits
<1>3. clients[loop].sort = "clickhouse"
  BY <1>0, <1>1 DEF ClickhouseFits
<1>4. ClientsTypeOK'
  BY <1>0, <1>1, <1>2 DEF ClientsTypeOK
<1>5. \A s \in Tasks : given'[s] = IF given[s] = clients[loop] THEN NoClient ELSE given[s]
  BY <1>1
<1>6. ClickhouseFits' /\ ClientsBelong'
  BY <1>0, <1>1, <1>2, <1>5 DEF ClickhouseFits, ClientsBelong
<1>7. MongoFits'
  <2>1. ASSUME NEW s \in Tasks, task[s] = "pings"
        PROVE  given[s] # clients[loop] /\ given'[s] = given[s] /\ given[s] # NoClient
    BY <1>0, <1>3, <1>5, <2>1, NoClientIsNone DEF MongoFits, ClientsTypeOK
  <2> QED
    BY <1>0, <1>1, <1>3, <1>5, <2>1 DEF MongoFits
<1>8. OpenFits'
  BY <1>0, <1>1, <1>3, <1>5 DEF OpenFits, Reached, MongoFits
<1> QED
  BY <1>4, <1>6, <1>7, <1>8 DEF ClientsInv

LEMMA LoopEndsKeeps == ASSUME ClientsInv, LoopEnds PROVE ClientsInv'
<1>0. ClientsTypeOK /\ ClickhouseFits /\ MongoFits /\ OpenFits /\ ClientsBelong
  BY DEF ClientsInv
<1>1. /\ running' = FALSE /\ task' = [t \in Tasks |-> "idle"] /\ given' = [t \in Tasks |-> NoClient]
      /\ lost' = lost \union {given[t] : t \in {s \in Tasks : task[s] = "pings"}}
      /\ UNCHANGED <<loop, closers, shared, mongo, made>>
  BY DEF LoopEnds
<1>2. DOMAIN clients' = {} /\ clients' = [l \in DOMAIN clients' |-> clients'[l]]
  <2>1. CASE loop \in DOMAIN clients
    <3>1. loop \in closers
      BY <1>0, <2>1 DEF ClickhouseFits
    <3>2. clients' = Without(loop)
      BY <2>1, <3>1 DEF LoopEnds
    <3> QED
      BY <1>0, <3>2 DEF Without, ClickhouseFits
  <2>2. CASE loop \notin DOMAIN clients
    <3>1. clients' = clients
      BY <2>2 DEF LoopEnds
    <3> QED
      BY <1>0, <2>2, <3>1 DEF ClickhouseFits, ClientsTypeOK
  <2> QED
    BY <2>1, <2>2
<1>3. /\ open' \subseteq open
      /\ \A c \in open \ open' : loop \in DOMAIN clients /\ c = clients[loop] /\ c.sort = "clickhouse"
      /\ loop \in DOMAIN clients => clients[loop] \notin open'
  BY <1>0 DEF LoopEnds, ClickhouseFits
<1>4. ClientsTypeOK'
  BY <1>0, <1>1, <1>2, <1>3 DEF ClientsTypeOK
<1>5. ClickhouseFits' /\ ClientsBelong'
  BY <1>1, <1>2 DEF ClickhouseFits, ClientsBelong
<1>6. MongoFits'
  <2>1. mongo # NoClient => mongo \in open' /\ mongo.sort = "mongo"
    BY <1>0, <1>3 DEF MongoFits
  <2> QED
    BY <1>1, <2>1 DEF MongoFits
<1>7. OpenFits'
  <2>1. ASSUME NEW c \in open' \ lost' PROVE c = shared \/ c = mongo
    <3>1. c \in open \ lost /\ ~(loop \in DOMAIN clients /\ clients[loop] = c)
      BY <1>1, <1>3
    <3>2. ~ \E t \in Tasks : given[t] = c /\ task[t] = "pings"
      BY <1>1
    <3> QED
      BY <1>0, <3>1, <3>2 DEF OpenFits, Reached
  <2> QED
    BY <1>0, <1>1, <1>3, <2>1 DEF OpenFits, Reached
<1> QED
  BY <1>4, <1>5, <1>6, <1>7 DEF ClientsInv

LEMMA LoopStartsKeeps == ASSUME ClientsInv, LoopStarts PROVE ClientsInv'
<1>0. ClientsTypeOK /\ ClickhouseFits /\ MongoFits /\ OpenFits /\ ClientsBelong
  BY DEF ClientsInv
<1>1. /\ ~running /\ running' = TRUE /\ loop' = loop + 1
      /\ UNCHANGED <<clients, closers, shared, mongo, open, made, lost, task, given>>
  BY DEF LoopStarts, resources
<1>2. DOMAIN clients = {} /\ \A t \in Tasks : given[t] = NoClient /\ task[t] = "idle"
  BY <1>0, <1>1 DEF ClickhouseFits
<1>3. ClientsTypeOK'
  BY <1>0, <1>1 DEF ClientsTypeOK
<1>4. ClickhouseFits' /\ ClientsBelong'
  BY <1>1, <1>2 DEF ClickhouseFits, ClientsBelong
<1>5. MongoFits' /\ OpenFits'
  BY <1>0, <1>1, <1>2 DEF MongoFits, OpenFits, Reached
<1> QED
  BY <1>3, <1>4, <1>5 DEF ClientsInv

LEMMA SharedClientKeeps == ASSUME ClientsInv, NEW t \in Tasks, SharedClient(t) PROVE ClientsInv'
<1> DEFINE c == Client("http")
<1>0. ClientsTypeOK /\ ClickhouseFits /\ MongoFits /\ OpenFits /\ ClientsBelong
  BY DEF ClientsInv
<1>1. running /\ task[t] = "idle" /\ UNCHANGED <<loop, running, clients, closers, mongo, task>>
  BY DEF SharedClient
<1>2. CASE Usable
  <2>1. given' = [given EXCEPT ![t] = shared] /\ UNCHANGED <<shared, open, made, lost>>
    BY <1>2 DEF SharedClient
  <2>2. shared \in open /\ shared.loop = loop /\ shared.sort = "http"
    <3>1. shared \in MadeClients /\ shared \in open /\ shared.loop = loop
      BY <1>0, <1>2 DEF Usable, ClientsTypeOK
    <3> QED
      BY <1>0, <3>1 DEF ClientsTypeOK, MadeClients
  <2>3. given'[t] = shared /\ \A s \in Tasks \ {t} : given'[s] = given[s]
    BY <1>0, <2>1 DEF ClientsTypeOK
  <2>4. ClientsTypeOK'
    BY <1>0, <1>1, <2>1, <2>2 DEF ClientsTypeOK
  <2>5. ClickhouseFits' /\ ClientsBelong'
    BY <1>0, <1>1, <2>1, <2>2, <2>3 DEF ClickhouseFits, ClientsBelong
  <2>6. MongoFits'
    BY <1>0, <1>1, <2>1, <2>2, <2>3 DEF MongoFits
  <2>7. OpenFits'
    BY <1>0, <1>1, <2>1, <2>3 DEF OpenFits, Reached
  <2> QED
    BY <2>4, <2>5, <2>6, <2>7 DEF ClientsInv
<1>3. CASE ~Usable
  <2>1. /\ made' = made + 1 /\ open' = open \union {c} /\ shared' = c
        /\ lost' = lost \union ({shared} \ {NoClient}) /\ given' = [given EXCEPT ![t] = c]
    BY <1>3 DEF SharedClient, Make
  <2>2. /\ c \in MadeClients /\ c # NoClient /\ c \notin open /\ c.sort = "http" /\ c.loop = loop /\ c.n = made + 1
        /\ c # mongo /\ \A s \in Tasks : given[s] # c
    BY MadeIsNew
  <2> HIDE DEF c
  <2>3. given'[t] = c /\ \A s \in Tasks \ {t} : given'[s] = given[s]
    BY <1>0, <2>1 DEF ClientsTypeOK
  <2>4. ClientsTypeOK'
    BY <1>0, <1>1, <2>1, <2>2 DEF ClientsTypeOK
  <2>5. ClickhouseFits' /\ ClientsBelong'
    BY <1>0, <1>1, <2>1, <2>2, <2>3 DEF ClickhouseFits, ClientsBelong
  <2>6. MongoFits'
    BY <1>0, <1>1, <2>1, <2>2, <2>3 DEF MongoFits
  <2>7. OpenFits'
    <3>1. \A d \in open' : d.n <= made'
      BY <1>0, <2>1, <2>2 DEF OpenFits, ClientsTypeOK, MadeClients
    <3>2. ASSUME NEW d \in open' \ lost', d # c PROVE Reached(d)'
      <4>1. d \in open \ lost /\ (d = shared => d = NoClient)
        BY <2>1, <3>2
      <4>2. d # shared
        BY <1>0, <4>1, NoClientIsNone DEF ClientsTypeOK
      <4> QED
        BY <1>0, <1>1, <2>3, <4>1, <4>2 DEF OpenFits, Reached
    <3> QED
      BY <2>1, <3>1, <3>2 DEF OpenFits, Reached
  <2> QED
    BY <2>4, <2>5, <2>6, <2>7 DEF ClientsInv
<1> QED
  BY <1>2, <1>3

LEMMA InitMongoKeeps == ASSUME ClientsInv, NEW t \in Tasks, InitMongo(t) PROVE ClientsInv'
<1> DEFINE c == Client("mongo")
<1>0. ClientsTypeOK /\ ClickhouseFits /\ MongoFits /\ OpenFits /\ ClientsBelong
  BY DEF ClientsInv
<1>1. /\ running /\ task[t] = "idle" /\ mongo = NoClient /\ task' = [task EXCEPT ![t] = "pings"]
      /\ made' = made + 1 /\ open' = open \union {c} /\ given' = [given EXCEPT ![t] = c]
      /\ UNCHANGED <<loop, running, clients, closers, shared, mongo, lost>>
  BY DEF InitMongo, Make
<1>2. /\ c \in MadeClients /\ c # NoClient /\ c \notin open /\ c.sort = "mongo" /\ c.loop = loop /\ c.n = made + 1
      /\ c # mongo /\ \A s \in Tasks : given[s] # c
  BY MadeIsNew
<1> HIDE DEF c
<1>3. /\ given'[t] = c /\ task'[t] = "pings"
      /\ \A s \in Tasks \ {t} : given'[s] = given[s] /\ task'[s] = task[s]
  BY <1>0, <1>1 DEF ClientsTypeOK
<1>4. ClientsTypeOK'
  BY <1>0, <1>1, <1>2 DEF ClientsTypeOK
<1>5. ClickhouseFits' /\ ClientsBelong'
  BY <1>0, <1>1, <1>2, <1>3 DEF ClickhouseFits, ClientsBelong
<1>6. MongoFits'
  BY <1>0, <1>1, <1>2, <1>3 DEF MongoFits
<1>7. OpenFits'
  <2>1. \A d \in open' : d.n <= made'
    BY <1>0, <1>1, <1>2 DEF OpenFits, ClientsTypeOK, MadeClients
  <2>2. ASSUME NEW d \in open' \ lost' PROVE Reached(d)'
    BY <1>0, <1>1, <1>3, <2>2 DEF OpenFits, Reached
  <2> QED
    BY <2>1, <2>2 DEF OpenFits
<1> QED
  BY <1>4, <1>5, <1>6, <1>7 DEF ClientsInv

LEMMA MongoAnswersKeeps == ASSUME ClientsInv, NEW t \in Tasks, MongoAnswers(t) PROVE ClientsInv'
<1>0. ClientsTypeOK /\ ClickhouseFits /\ MongoFits /\ OpenFits /\ ClientsBelong
  BY DEF ClientsInv
<1>1. /\ task[t] = "pings" /\ task' = [task EXCEPT ![t] = "idle"]
      /\ UNCHANGED <<loop, running, clients, closers, shared, made>>
  BY DEF MongoAnswers
<1>2. /\ given[t] \in open /\ given[t].sort = "mongo" /\ given[t] # mongo
      /\ \A s \in Tasks \ {t} : given[s] # given[t]
      /\ given[t] \in MadeClients
  BY <1>0, <1>1 DEF MongoFits, ClientsTypeOK
<1>3. task'[t] = "idle" /\ \A s \in Tasks \ {t} : task'[s] = task[s]
  BY <1>0, <1>1 DEF ClientsTypeOK
<1>4. CASE mongo' = given[t] /\ lost' = lost \union ({mongo} \ {NoClient}) /\ UNCHANGED <<open, given>>
  <2>1. ClientsTypeOK'
    BY <1>0, <1>1, <1>2, <1>4 DEF ClientsTypeOK
  <2>2. ClickhouseFits' /\ ClientsBelong'
    BY <1>0, <1>1, <1>3, <1>4 DEF ClickhouseFits, ClientsBelong
  <2>3. MongoFits'
    BY <1>0, <1>1, <1>2, <1>3, <1>4 DEF MongoFits
  <2>4. ASSUME NEW d \in open \ lost' PROVE Reached(d)'
    <3>1. d \in open \ lost /\ d # mongo
      BY <1>0, <1>4, NoClientIsNone DEF ClientsTypeOK
    <3> QED
      BY <1>0, <1>1, <1>3, <1>4, <3>1 DEF OpenFits, Reached
  <2>5. OpenFits'
    BY <1>0, <1>1, <1>4, <2>4 DEF OpenFits
  <2> QED
    BY <2>1, <2>2, <2>3, <2>5 DEF ClientsInv
<1>5. CASE open' = open \ {given[t]} /\ given' = [given EXCEPT ![t] = NoClient] /\ UNCHANGED <<mongo, lost>>
  <2>1. given'[t] = NoClient /\ \A s \in Tasks \ {t} : given'[s] = given[s]
    BY <1>0, <1>5 DEF ClientsTypeOK
  <2>2. ClientsTypeOK'
    BY <1>0, <1>1, <1>5 DEF ClientsTypeOK
  <2>3. ClickhouseFits' /\ ClientsBelong'
    BY <1>0, <1>1, <1>2, <1>3, <1>5, <2>1 DEF ClickhouseFits, ClientsBelong
  <2>4. MongoFits'
    <3>1. ASSUME NEW s \in Tasks, task'[s] = "pings"
          PROVE  given'[s] = given[s] /\ given[s] \in open' /\ given[s] # NoClient /\ task[s] = "pings" /\ s # t
      BY <1>0, <1>2, <1>3, <1>5, <2>1, <3>1, NoClientIsNone DEF MongoFits, ClientsTypeOK
    <3> QED
      BY <1>0, <1>2, <1>5, <2>1, <3>1 DEF MongoFits
  <2>5. OpenFits'
    BY <1>0, <1>1, <1>3, <1>5, <2>1 DEF OpenFits, Reached
  <2> QED
    BY <2>2, <2>3, <2>4, <2>5 DEF ClientsInv
<1> QED
  BY <1>4, <1>5 DEF MongoAnswers

LEMMA GetMongoKeeps == ASSUME ClientsInv, NEW t \in Tasks, GetMongo(t) PROVE ClientsInv'
<1>0. ClientsTypeOK /\ ClickhouseFits /\ MongoFits /\ OpenFits /\ ClientsBelong
  BY DEF ClientsInv
<1>1. /\ running /\ task[t] = "idle" /\ mongo # NoClient /\ given' = [given EXCEPT ![t] = mongo]
      /\ UNCHANGED <<loop, running, clients, closers, shared, mongo, open, made, lost, task>>
  BY DEF GetMongo, resources
<1>2. mongo \in open /\ mongo.sort = "mongo"
  BY <1>0, <1>1 DEF MongoFits
<1>3. given'[t] = mongo /\ \A s \in Tasks \ {t} : given'[s] = given[s]
  BY <1>0, <1>1 DEF ClientsTypeOK
<1>4. ClientsTypeOK'
  BY <1>0, <1>1 DEF ClientsTypeOK
<1>5. ClickhouseFits' /\ ClientsBelong'
  BY <1>0, <1>1, <1>2, <1>3 DEF ClickhouseFits, ClientsBelong
<1>6. MongoFits' /\ OpenFits'
  BY <1>0, <1>1, <1>2, <1>3 DEF MongoFits, OpenFits, Reached
<1> QED
  BY <1>4, <1>5, <1>6 DEF ClientsInv

LEMMA CloseMongoKeeps == ASSUME ClientsInv, CloseMongo PROVE ClientsInv'
<1>0. ClientsTypeOK /\ ClickhouseFits /\ MongoFits /\ OpenFits /\ ClientsBelong
  BY DEF ClientsInv
<1>1. /\ running /\ mongo # NoClient /\ open' = open \ {mongo} /\ mongo' = NoClient
      /\ given' = [s \in Tasks |-> IF given[s] = mongo THEN NoClient ELSE given[s]]
      /\ UNCHANGED <<loop, running, clients, closers, shared, made, lost, task>>
  BY DEF CloseMongo
<1>2. mongo.sort = "mongo" /\ \A l \in DOMAIN clients : clients[l] # mongo
  BY <1>0, <1>1 DEF MongoFits, ClickhouseFits
<1>3. \A s \in Tasks : given'[s] = IF given[s] = mongo THEN NoClient ELSE given[s]
  BY <1>1
<1>4. ClientsTypeOK'
  BY <1>0, <1>1 DEF ClientsTypeOK
<1>5. ClickhouseFits' /\ ClientsBelong'
  BY <1>0, <1>1, <1>2, <1>3 DEF ClickhouseFits, ClientsBelong
<1>6. ASSUME NEW s \in Tasks, task[s] = "pings"
      PROVE  given[s] # mongo /\ given'[s] = given[s] /\ given[s] # NoClient
  BY <1>0, <1>3, <1>6, NoClientIsNone DEF MongoFits, ClientsTypeOK
<1>7. MongoFits'
  BY <1>0, <1>1, <1>3, <1>6 DEF MongoFits
<1>8. OpenFits'
  BY <1>0, <1>1, <1>6 DEF OpenFits, Reached
<1> QED
  BY <1>4, <1>5, <1>7, <1>8 DEF ClientsInv

LEMMA NextClientsInv == ClientsInv /\ [ClientsNext]_clientVars => ClientsInv'
<1> SUFFICES ASSUME ClientsInv, [ClientsNext]_clientVars PROVE ClientsInv'
  OBVIOUS
<1>1. CASE UNCHANGED clientVars
  BY <1>1 DEF clientVars, resources, ClientsInv, ClientsTypeOK, ClickhouseFits, MongoFits, OpenFits, Reached, ClientsBelong
<1>2. CASE \E t \in Tasks :
              \/ GetClient(t) \/ Connected(t) \/ ConnectFails(t) \/ CloseClickhouse(t)
              \/ SharedClient(t) \/ InitMongo(t) \/ MongoAnswers(t) \/ GetMongo(t)
  BY <1>2, GetClientKeeps, ConnectedKeeps, ConnectFailsKeeps, CloseClickhouseKeeps, SharedClientKeeps,
     InitMongoKeeps, MongoAnswersKeeps, GetMongoKeeps
<1> QED
  BY <1>1, <1>2, LoopEndsKeeps, LoopStartsKeeps, CloseMongoKeeps DEF ClientsNext

\* clickhouse.get_client, clients.service.shared_client and mongodb: however tasks,
\* failures and the ends of their loops interleave, a task is given an open client of
\* its own loop, and no open client is out of the process's sight.
THEOREM ClientsStayKept == ClientsSpec => []ClientsAreKept
<1>1. ClientsSpec => []ClientsInv
  BY InitClientsInv, NextClientsInv, PTL DEF ClientsSpec
<1> QED
  BY <1>1, ClientsInvShows, PTL

-----------------------------------------------------------------------------
(* AuditEntries. *)

\* An object holds what the database does of each column that was not set, and
\* what was set is told from that.
HeldFits ==
    \A c \in DOMAIN stored :
        /\ c \notin DOMAIN committed => held[c] \in {Unloaded, stored[c]}
        /\ c \in DOMAIN committed => held[c] # Unloaded /\ committed[c] \in {NO_VALUE, stored[c]}

\* What an entry may hold.
Tellable == (Values \ LongTexts) \union {Cut}

AuditTypeOK ==
    /\ stored = NoValues \/ stored \in [Columns -> Values]
    /\ held \in [Columns -> Values \union {Unloaded}]
    /\ DOMAIN committed \subseteq Columns
    /\ \A c \in DOMAIN committed : committed[c] \in Values \union {NO_VALUE}
    /\ DOMAIN reading \subseteq Audited /\ \A c \in DOMAIN reading : reading[c] \in Tellable

FlushesFit ==
    /\ flushes \in Nat
    /\ flushes = 0 => stored = NoValues /\ DOMAIN reading = {} /\ DOMAIN committed = {}

AuditInv == AuditTypeOK /\ FlushesFit /\ HeldFits /\ EntriesTellTheRow

\* What _jsonify makes of a value, and of the mark of one that was never loaded.
LEMMA JsonifyTells ==
    /\ \A a \in Values : Jsonify(a) = IF a \in LongTexts THEN Cut ELSE a
    /\ \A a \in Values : Jsonify(a) \in Tellable
    /\ Jsonify(NO_VALUE) = "4"
<1>1. \A a \in Values : a # NO_VALUE
  BY AuditAssumption
<1>2. \A a \in Values : Jsonify(a) = IF a \in LongTexts THEN Cut ELSE a
  BY <1>1 DEF Jsonify
<1>3. \A a \in Values : Jsonify(a) \in Tellable
  BY <1>2 DEF Tellable
<1>a. NO_VALUE \notin LongTexts
  BY AuditAssumption DEF Values
<1>4. Jsonify(NO_VALUE) = "4"
  BY <1>a DEF Jsonify
<1> QED
  BY <1>2, <1>3, <1>4

\* Values that _values_equivalent takes for one are told as one, and but for texts
\* that were cut what is told as one it takes for one.
LEMMA EquivalentIsSame ==
    \A a, b \in Values :
        /\ Equivalent(a, b) => Same(Jsonify(a), Jsonify(b))
        /\ Same(Jsonify(a), Jsonify(b)) => Equivalent(a, b) \/ (Jsonify(a) = Cut /\ Jsonify(b) = Cut)
BY JsonifyTells DEF Same, Equivalent, Values, None, LongTexts, Cut

LEMMA SameIsOne ==
    /\ \A a \in Tellable : Same(a, a)
    /\ \A a, b, c \in Tellable : Same(a, b) /\ Same(b, c) => Same(a, c)
BY DEF Same, Tellable, Values, None, LongTexts, Cut

\* The mark of a value never loaded counts for no value.
LEMMA MarkIsAlone == \A a \in Values : ~Equivalent(NO_VALUE, a)
<1> SUFFICES ASSUME NEW a \in Values PROVE ~Equivalent(NO_VALUE, a)
  OBVIOUS
<1>1. NO_VALUE # a /\ NO_VALUE \notin {None, ""} /\ NO_VALUE \notin {"4", "4.0"}
  BY AuditAssumption DEF Values
<1> QED
  BY <1>1 DEF Equivalent

LEMMA InitAuditInv == AuditInit => AuditInv
<1> SUFFICES ASSUME AuditInit PROVE AuditInv
  OBVIOUS
<1>1. /\ stored = NoValues /\ held = [c \in Columns |-> Unloaded] /\ committed = NoValues
      /\ entry = NoEntry /\ guessed = {} /\ reading = NoValues /\ before = NoValues /\ flushes = 0
      /\ DOMAIN NoValues = {}
  BY DEF AuditInit, NoValues
<1>2. AuditTypeOK /\ FlushesFit
  BY <1>1 DEF AuditTypeOK, FlushesFit
<1>3. HeldFits
  BY <1>1 DEF HeldFits
<1>4. EntriesTellTheRow
  BY <1>1 DEF EntriesTellTheRow
<1> QED
  BY <1>2, <1>3, <1>4 DEF AuditInv

\* Where the database has a row, it has all its columns.
LEMMA RowIsWhole ==
    ASSUME AuditInv
    PROVE  /\ stored # NoValues => stored \in [Columns -> Values] /\ DOMAIN stored = Columns
           /\ DOMAIN stored \subseteq Columns
           /\ DOMAIN NoValues = {}
BY DEF AuditInv, AuditTypeOK, FlushesFit, NoValues

\* What is left of the reading by a flush whose hook failed.
LEMMA MissedTells ==
    ASSUME AuditInv, NEW columns, Missed(columns)
    PROVE  /\ DOMAIN reading' = DOMAIN reading \ columns
           /\ \A c \in DOMAIN reading' : reading'[c] = reading[c] /\ reading'[c] \in Tellable
           /\ entry' = NoEntry
<1>1. reading' = [c \in DOMAIN reading \ columns |-> reading[c]] /\ entry' = NoEntry
  BY DEF Missed
<1> QED
  BY <1>1 DEF AuditInv, AuditTypeOK

LEMMA CreateRowKeeps == ASSUME AuditInv, CreateRow PROVE AuditInv'
<1>0. PICK object \in [Columns -> Values \union {Unloaded}], default \in {None, "4"} :
          /\ held' = object
          /\ stored' = [c \in Columns |-> IF object[c] = Unloaded THEN default ELSE object[c]]
          /\ \/ Stage(Entry("create", NoValues, Snapshot(object), {}), {})
             \/ Missed(Columns)
  BY DEF CreateRow
<1> DEFINE e == Entry("create", NoValues, Snapshot(object), {})
<1>1. /\ flushes = 0 /\ flushes' = 1 /\ committed' = committed
      /\ DOMAIN reading = {} /\ DOMAIN committed = {}
  BY DEF CreateRow, AuditInv, AuditTypeOK, FlushesFit
<1>2. \A c \in Columns : /\ stored'[c] = IF object[c] = Unloaded THEN default ELSE object[c]
                         /\ object[c] \in Values \union {Unloaded} /\ stored'[c] \in Values
  <2>1. default \in Values
    BY DEF Values, None
  <2> QED
    BY <1>0, <2>1
<1>3. held' \in [Columns -> Values \union {Unloaded}] /\ stored' \in [Columns -> Values]
  BY <1>0, <1>2
<1>4. HeldFits'
  BY <1>0, <1>1, <1>2 DEF HeldFits
<1>5. CASE Missed(Columns)
  <2>1. DOMAIN reading' = {} /\ entry' = NoEntry
    BY <1>1, <1>5, MissedTells
  <2>2. AuditTypeOK' /\ FlushesFit'
    BY <1>1, <1>3, <2>1 DEF AuditTypeOK, FlushesFit, Audited
  <2>3. EntriesTellTheRow'
    BY <2>1 DEF AuditInv, EntriesTellTheRow
  <2> QED
    BY <1>4, <2>2, <2>3 DEF AuditInv
<1>6. CASE Stage(e, {})
  <2>1. /\ e.action = "create" /\ e.old = NoValues /\ e.new = Snapshot(object)
        /\ DOMAIN e.old = {}
    BY DEF Entry, NoValues
  <2>2. /\ DOMAIN Snapshot(object) = {c \in Audited : object[c] # Unloaded}
        /\ \A c \in DOMAIN Snapshot(object) : Snapshot(object)[c] = Jsonify(object[c])
    BY DEF Snapshot
  <2>3. /\ entry' = e
        /\ reading' = [c \in DOMAIN reading \union DOMAIN e.new |-> IF c \in DOMAIN e.new THEN e.new[c] ELSE reading[c]]
    BY <1>6 DEF Stage
  <2> HIDE DEF e
  <2>4. /\ DOMAIN reading' = {c \in Audited : object[c] # Unloaded}
        /\ \A c \in DOMAIN reading' : reading'[c] = Jsonify(object[c])
    BY <1>1, <2>1, <2>2, <2>3
  <2>5. Audited \subseteq Columns
    BY DEF Audited
  <2>6. \A c \in DOMAIN reading' : stored'[c] = object[c] /\ object[c] \in Values /\ reading'[c] \in Tellable
    BY <1>2, <2>4, <2>5, JsonifyTells
  <2>7. AuditTypeOK' /\ FlushesFit'
    <3>1. DOMAIN reading' \subseteq Audited
      BY <2>4
    <3> QED
      BY <1>1, <1>3, <2>6, <3>1 DEF AuditTypeOK, FlushesFit, Audited
  <2>8. EntriesTellTheRow'
    <3>1. \A c \in DOMAIN reading' : Same(reading'[c], Jsonify(stored'[c]))
      BY <2>4, <2>6, SameIsOne
    <3>2. (DOMAIN e.old \union DOMAIN e.new) \intersect (Sensitive \union Ignored) = {}
      BY <2>1, <2>2 DEF Audited
    <3> QED
      BY <2>1, <2>3, <3>1, <3>2 DEF EntriesTellTheRow, Jsonify
  <2> QED
    BY <1>4, <2>7, <2>8 DEF AuditInv
<1> QED
  BY <1>0, <1>5, <1>6

LEMMA ExpireRowKeeps == ASSUME AuditInv, ExpireRow PROVE AuditInv'
<1>1. /\ stored # NoValues /\ held' = [c \in Columns |-> Unloaded] /\ committed' = NoValues
      /\ UNCHANGED <<stored, trail, flushes>> /\ DOMAIN NoValues = {}
  BY DEF ExpireRow, NoValues
<1>2. AuditTypeOK' /\ FlushesFit'
  BY <1>1 DEF trail, AuditInv, AuditTypeOK, FlushesFit
<1>3. HeldFits'
  BY <1>1, RowIsWhole DEF HeldFits
<1>4. EntriesTellTheRow'
  BY <1>1 DEF trail, AuditInv, EntriesTellTheRow, Jsonify
<1> QED
  BY <1>2, <1>3, <1>4 DEF AuditInv

LEMMA LoadRowKeeps == ASSUME AuditInv, LoadRow PROVE AuditInv'
<1>1. /\ stored # NoValues
      /\ held' = [c \in Columns |-> IF held[c] = Unloaded THEN stored[c] ELSE held[c]]
      /\ UNCHANGED <<stored, committed, trail, flushes>>
  BY DEF LoadRow
<1>2. stored \in [Columns -> Values]
  BY <1>1, RowIsWhole
<1>3. AuditTypeOK' /\ FlushesFit'
  BY <1>1, <1>2 DEF trail, AuditInv, AuditTypeOK, FlushesFit
<1>4. HeldFits'
  <2>1. \A c \in Columns : stored[c] # Unloaded
    BY <1>2, AuditAssumption
  <2> QED
    BY <1>1, <1>2, <2>1 DEF AuditInv, HeldFits
<1>5. EntriesTellTheRow'
  BY <1>1 DEF trail, AuditInv, EntriesTellTheRow, Jsonify
<1> QED
  BY <1>3, <1>4, <1>5 DEF AuditInv

LEMMA AssignKeeps ==
    ASSUME AuditInv, NEW c \in Columns, NEW value \in Values, Assign(c, value) PROVE AuditInv'
<1>1. /\ stored # NoValues /\ held' = [held EXCEPT ![c] = value]
      /\ committed' = [d \in DOMAIN committed \union {c} |->
                          IF d \in DOMAIN committed THEN committed[d]
                          ELSE IF held[c] = Unloaded THEN NO_VALUE ELSE held[c]]
      /\ UNCHANGED <<stored, trail, flushes>>
  BY DEF Assign
<1>2. stored \in [Columns -> Values] /\ DOMAIN stored = Columns
  BY <1>1, RowIsWhole
<1>3. /\ held \in [Columns -> Values \union {Unloaded}] /\ DOMAIN committed \subseteq Columns
      /\ \A d \in DOMAIN committed : committed[d] \in Values \union {NO_VALUE}
      /\ flushes # 0
  BY <1>1 DEF trail, AuditInv, AuditTypeOK, FlushesFit
<1>4. /\ held'[c] = value /\ value # Unloaded /\ \A d \in Columns \ {c} : held'[d] = held[d]
  BY <1>1, <1>3, AuditAssumption
<1>5. /\ DOMAIN committed' = DOMAIN committed \union {c}
      /\ \A d \in DOMAIN committed : committed'[d] = committed[d]
      /\ c \notin DOMAIN committed => committed'[c] = IF held[c] = Unloaded THEN NO_VALUE ELSE held[c]
  BY <1>1
<1>6. AuditTypeOK' /\ FlushesFit'
  <2>1. \A d \in DOMAIN committed' : committed'[d] \in Values \union {NO_VALUE}
    BY <1>3, <1>5
  <2>2. held' \in [Columns -> Values \union {Unloaded}]
    BY <1>1, <1>3
  <2> QED
    BY <1>1, <1>3, <1>5, <2>1, <2>2 DEF trail, AuditInv, AuditTypeOK, FlushesFit, Audited
<1>7. HeldFits'
  BY <1>1, <1>2, <1>3, <1>4, <1>5 DEF AuditInv, HeldFits
<1>8. EntriesTellTheRow'
  BY <1>1 DEF trail, AuditInv, EntriesTellTheRow, Jsonify
<1> QED
  BY <1>6, <1>7, <1>8 DEF AuditInv

\* What a change that counts, and what one that does not, leaves of the row.
LEMMA FlushRowKeeps == ASSUME AuditInv, FlushRow PROVE AuditInv'
<1> DEFINE e == Entry("update", [c \in ChangedColumns |-> Jsonify(committed[c])],
                      [c \in ChangedColumns |-> Jsonify(held[c])], ChangedColumns)
           unknown == {c \in ChangedColumns : committed[c] = NO_VALUE}
<1>1. /\ stored # NoValues /\ committed' = NoValues /\ flushes' = flushes + 1 /\ held' = held
      /\ stored' = [c \in Columns |-> IF c \in DOMAIN committed THEN held[c] ELSE stored[c]]
      /\ DOMAIN NoValues = {}
  BY DEF FlushRow, NoValues
<1>2. stored \in [Columns -> Values] /\ DOMAIN stored = Columns
  BY <1>1, RowIsWhole
<1>3. /\ held \in [Columns -> Values \union {Unloaded}] /\ DOMAIN committed \subseteq Columns
      /\ \A c \in DOMAIN committed : committed[c] \in Values \union {NO_VALUE}
      /\ DOMAIN reading \subseteq Audited /\ \A c \in DOMAIN reading : reading[c] \in Tellable
      /\ flushes \in Nat
  BY DEF AuditInv, AuditTypeOK, FlushesFit
<1>4. /\ \A c \in DOMAIN committed : held[c] \in Values /\ committed[c] \in {NO_VALUE, stored[c]} /\ stored'[c] = held[c]
      /\ \A c \in Columns \ DOMAIN committed : held[c] \in {Unloaded, stored[c]} /\ stored'[c] = stored[c]
      /\ stored' \in [Columns -> Values]
  <2>1. /\ \A c \in DOMAIN committed : held[c] \in Values /\ committed[c] \in {NO_VALUE, stored[c]}
        /\ \A c \in Columns \ DOMAIN committed : held[c] \in {Unloaded, stored[c]}
    BY <1>2, <1>3 DEF AuditInv, HeldFits
  <2> QED
    BY <1>1, <1>2, <1>3, <2>1
<1>5. HeldFits'
  BY <1>1, <1>3, <1>4 DEF HeldFits
<1>6. /\ Audited \subseteq Columns /\ ChangedColumns \subseteq Audited \intersect DOMAIN committed
      /\ \A c \in ChangedColumns : ~Equivalent(committed[c], held[c])
      /\ \A c \in (Audited \intersect DOMAIN committed) \ ChangedColumns : Equivalent(committed[c], held[c])
  BY DEF Audited, ChangedColumns
<1>7. ASSUME NEW c \in DOMAIN reading PROVE Same(reading[c], Jsonify(stored[c])) /\ reading[c] \in Tellable /\ stored[c] \in Values
  BY <1>1, <1>2, <1>3, <1>6 DEF AuditInv, EntriesTellTheRow
\* A change that counts for none leaves the column as it was told.
<1>8. ASSUME NEW c \in DOMAIN reading \ ChangedColumns PROVE Same(reading[c], Jsonify(stored'[c]))
  <2>1. CASE c \in DOMAIN committed
    <3>1. Equivalent(committed[c], held[c]) /\ held[c] \in Values
      BY <1>3, <1>4, <1>6, <2>1
    <3>2. committed[c] = stored[c]
      BY <1>4, <2>1, <3>1, MarkIsAlone
    <3>3. Same(Jsonify(stored[c]), Jsonify(held[c]))
      BY <1>7, <3>1, <3>2, EquivalentIsSame
    <3>4. stored'[c] = held[c] /\ Jsonify(stored[c]) \in Tellable /\ Jsonify(held[c]) \in Tellable
      BY <1>4, <1>7, <2>1, <3>1, JsonifyTells
    <3> QED
      BY <1>7, <3>3, <3>4, SameIsOne
  <2>2. CASE c \notin DOMAIN committed
    BY <1>3, <1>4, <1>6, <1>7, <2>2
  <2> QED
    BY <2>1, <2>2
<1>9. CASE ChangedColumns = {} /\ UNCHANGED trail
  <2>1. UNCHANGED <<entry, guessed, reading, before>>
    BY <1>9 DEF trail
  <2>2. AuditTypeOK' /\ FlushesFit'
    BY <1>1, <1>3, <1>4, <2>1 DEF AuditTypeOK, FlushesFit, Audited
  <2>3. EntriesTellTheRow'
    BY <1>8, <1>9, <2>1 DEF AuditInv, EntriesTellTheRow
  <2> QED
    BY <1>5, <2>2, <2>3 DEF AuditInv
<1>10. CASE Missed(DOMAIN committed)
  <2>1. /\ DOMAIN reading' = DOMAIN reading \ DOMAIN committed
        /\ \A c \in DOMAIN reading' : reading'[c] = reading[c] /\ reading'[c] \in Tellable
        /\ entry' = NoEntry
    BY <1>10, MissedTells
  <2>2. AuditTypeOK' /\ FlushesFit'
    BY <1>1, <1>3, <1>4, <2>1 DEF AuditTypeOK, FlushesFit, Audited
  <2>3. \A c \in DOMAIN reading' : Same(reading'[c], Jsonify(stored'[c]))
    BY <1>6, <1>8, <2>1
  <2>4. EntriesTellTheRow'
    BY <2>1, <2>3 DEF AuditInv, EntriesTellTheRow
  <2> QED
    BY <1>5, <2>2, <2>4 DEF AuditInv
<1>11. CASE ChangedColumns # {} /\ Stage(e, unknown)
  <2>1. /\ e.action = "update" /\ e.changed = ChangedColumns
        /\ e.old = [c \in ChangedColumns |-> Jsonify(committed[c])]
        /\ e.new = [c \in ChangedColumns |-> Jsonify(held[c])]
        /\ e.significant = ChangedColumns \intersect Significant
        /\ Lifecycle \in ChangedColumns => e.transition = <<e.old[Lifecycle], e.new[Lifecycle]>>
    BY DEF Entry, SignificantOf, Transition
  <2>2. /\ entry' = e /\ before' = reading /\ guessed' = unknown
        /\ reading' = [c \in DOMAIN reading \union DOMAIN e.new |-> IF c \in DOMAIN e.new THEN e.new[c] ELSE reading[c]]
    BY <1>11 DEF Stage
  <2> HIDE DEF e
  <2>3. /\ DOMAIN e.old = ChangedColumns /\ DOMAIN e.new = ChangedColumns
        /\ \A c \in ChangedColumns : e.old[c] = Jsonify(committed[c]) /\ e.new[c] = Jsonify(held[c])
    BY <2>1
  <2>4. /\ DOMAIN reading' = DOMAIN reading \union ChangedColumns
        /\ \A c \in ChangedColumns : reading'[c] = Jsonify(held[c])
        /\ \A c \in DOMAIN reading \ ChangedColumns : reading'[c] = reading[c]
    BY <2>2, <2>3
  <2>5. \A c \in ChangedColumns : held[c] \in Values /\ stored'[c] = held[c] /\ Jsonify(held[c]) \in Tellable
    BY <1>4, <1>6, JsonifyTells
  <2>6. AuditTypeOK' /\ FlushesFit'
    <3>1. DOMAIN reading' \subseteq Audited /\ \A c \in DOMAIN reading' : reading'[c] \in Tellable
      BY <1>3, <1>6, <2>4, <2>5
    <3> QED
      BY <1>1, <1>3, <1>4, <3>1 DEF AuditTypeOK, FlushesFit, Audited
  <2>7. \A c \in DOMAIN reading' : Same(reading'[c], Jsonify(stored'[c]))
    <3>1. ASSUME NEW c \in ChangedColumns PROVE Same(reading'[c], Jsonify(stored'[c]))
      BY <2>4, <2>5, SameIsOne
    <3> QED
      BY <1>8, <2>4, <3>1
  <2>8. (DOMAIN e.old \union DOMAIN e.new) \intersect (Sensitive \union Ignored) = {}
    BY <1>6, <2>3 DEF Audited
  <2>9. ASSUME NEW c \in ChangedColumns \intersect DOMAIN reading
        PROVE  IF c \in unknown THEN e.old[c] = "4" ELSE Same(reading[c], e.old[c])
    <3>1. CASE committed[c] = NO_VALUE
      BY <2>3, <3>1, JsonifyTells
    <3>2. CASE committed[c] # NO_VALUE
      BY <1>4, <1>6, <1>7, <2>3, <3>2
    <3> QED
      BY <3>1, <3>2
  <2>10. ASSUME NEW c \in ChangedColumns \ unknown, Same(e.old[c], e.new[c])
         PROVE  e.old[c] = Cut /\ e.new[c] = Cut
    <3>1. /\ held[c] \in Values /\ committed[c] \in Values /\ ~Equivalent(committed[c], held[c])
      BY <1>2, <1>3, <1>4, <1>6
    <3> QED
      BY <2>3, <2>10, <3>1, EquivalentIsSame
  <2>11. EntriesTellTheRow'
    <3>1. stored' # NoValues => \A c \in DOMAIN reading' : Same(reading'[c], Jsonify(stored'[c]))
      BY <2>7
    <3> HIDE DEF unknown
    <3>2. /\ \A c \in e.changed \intersect DOMAIN before' :
                IF c \in guessed' THEN e.old[c] = "4" ELSE Same(before'[c], e.old[c])
          /\ \A c \in e.changed \ guessed' : Same(e.old[c], e.new[c]) => e.old[c] = Cut /\ e.new[c] = Cut
          /\ e.significant = Significant \intersect e.changed
      BY <2>1, <2>2, <2>9, <2>10
    <3> QED
      BY <2>1, <2>2, <2>3, <2>8, <3>1, <3>2 DEF EntriesTellTheRow, Jsonify
  <2> QED
    BY <1>5, <2>6, <2>11 DEF AuditInv
<1> QED
  BY <1>9, <1>10, <1>11 DEF FlushRow

LEMMA DeleteRowKeeps == ASSUME AuditInv, DeleteRow PROVE AuditInv'
<1> DEFINE e == Entry("delete", Snapshot(held), NoValues, {})
<1>1. /\ stored' = NoValues /\ committed' = NoValues /\ flushes' = flushes + 1
      /\ held' = [c \in Columns |-> Unloaded] /\ DOMAIN NoValues = {}
      /\ Stage(e, {}) \/ Missed(Columns)
  BY DEF DeleteRow, NoValues
<1>2. HeldFits'
  BY <1>1 DEF HeldFits
<1>3. CASE Missed(Columns)
  <2>1. /\ DOMAIN reading' = DOMAIN reading \ Columns
        /\ entry' = NoEntry
    BY <1>3, MissedTells
  <2>2. DOMAIN reading' = {}
    BY <2>1 DEF AuditInv, AuditTypeOK, Audited
  <2>3. AuditTypeOK' /\ FlushesFit'
    BY <1>1, <2>2 DEF AuditInv, AuditTypeOK, FlushesFit, Audited
  <2>4. EntriesTellTheRow'
    BY <1>1, <2>1 DEF AuditInv, EntriesTellTheRow
  <2> QED
    BY <1>2, <2>3, <2>4 DEF AuditInv
<1>4. CASE Stage(e, {})
  <2>1. e.action = "delete" /\ e.old = Snapshot(held) /\ e.new = NoValues
    BY DEF Entry
  <2>2. /\ entry' = e
        /\ reading' = [c \in DOMAIN reading \union DOMAIN e.new |-> IF c \in DOMAIN e.new THEN e.new[c] ELSE reading[c]]
    BY <1>4 DEF Stage
  <2> HIDE DEF e
  <2>3. DOMAIN reading' = DOMAIN reading /\ \A c \in DOMAIN reading : reading'[c] = reading[c]
    BY <1>1, <2>1, <2>2
  <2>4. AuditTypeOK' /\ FlushesFit'
    BY <1>1, <2>3 DEF AuditInv, AuditTypeOK, FlushesFit, Audited
  <2>5. EntriesTellTheRow'
    <3>1. (DOMAIN e.old \union DOMAIN e.new) \intersect (Sensitive \union Ignored) = {}
      BY <1>1, <2>1 DEF Snapshot, Audited
    <3> QED
      BY <1>1, <2>1, <2>2, <3>1 DEF EntriesTellTheRow, Jsonify
  <2> QED
    BY <1>2, <2>4, <2>5 DEF AuditInv
<1> QED
  BY <1>1, <1>3, <1>4

LEMMA NextAuditInv == AuditInv /\ [AuditNext]_auditVars => AuditInv'
<1> SUFFICES ASSUME AuditInv, [AuditNext]_auditVars PROVE AuditInv'
  OBVIOUS
<1>1. CASE UNCHANGED auditVars
  BY <1>1 DEF auditVars, trail, AuditInv, AuditTypeOK, FlushesFit, HeldFits, EntriesTellTheRow, Audited, Jsonify
<1> QED
  BY <1>1, CreateRowKeeps, ExpireRowKeeps, LoadRowKeeps, FlushRowKeeps, DeleteRowKeeps, AssignKeeps DEF AuditNext

\* audit._snapshot, _diff, _jsonify and _build_payload: read one after another, the
\* entries of a row tell what the database has of it as far as entries hold values,
\* but of what a flush without an entry wrote, and nothing of its secrets.
THEOREM EntriesAlwaysTellTheRow == AuditSpec => []EntriesTellTheRow
<1>1. AuditSpec => []AuditInv
  BY InitAuditInv, NextAuditInv, PTL DEF AuditSpec
<1>2. AuditInv => EntriesTellTheRow
  BY DEF AuditInv
<1> QED
  BY <1>1, <1>2, PTL

-----------------------------------------------------------------------------
(* Storage. *)

Whats == {"upload", "download", "delete", "exists"}
Writes == {"upload", "delete"}
StorageCalls == [what : Whats, attempt : Nat, key : Keys, of : Keys]

StorageTypeOK ==
    /\ op \in [Threads -> {NoCall} \cup StorageCalls]
    /\ settled \in [Keys -> {"there", "gone", "open"}]

\* Every call is about the object its caller means.
KeysAreRight == \A t \in Threads : op[t] # NoCall => op[t].key = op[t].of

\* An object that a call is about to change is open.
WritesAreOpen ==
    \A t \in Threads : op[t] # NoCall /\ op[t].what \in Writes => settled[op[t].of] = "open"

StorageInv ==
    /\ StorageTypeOK
    /\ KeysAreRight
    /\ WritesAreOpen
    /\ UploadsAreFound

LEMMA FirstComesOff ==
    ASSUME NEW S, NEW first \in S, NEW rest \in Seq(S), rest # <<>>
    PROVE  /\ Len(<<first>> \o rest) > 1
           /\ Head(<<first>> \o rest) = first
           /\ Tail(<<first>> \o rest) = rest
<1> DEFINE one == <<first>>
           path == one \o rest
<1>1. one \in Seq(S) /\ Len(one) = 1 /\ one[1] = first
  OBVIOUS
<1>2. Len(rest) \in Nat /\ Len(rest) # 0
  OBVIOUS
<1> HIDE DEF one
<1>3. /\ path \in Seq(S) /\ Len(path) = 1 + Len(rest)
      /\ \A i \in 1 .. 1 + Len(rest) : path[i] = IF i <= 1 THEN one[1] ELSE rest[i - 1]
  <2>1. /\ path \in Seq(S) /\ Len(path) = Len(one) + Len(rest)
        /\ \A i \in 1 .. Len(one) + Len(rest) : path[i] = IF i <= Len(one) THEN one[i] ELSE rest[i - Len(one)]
    BY <1>1, ConcatProperties
  <2> HIDE DEF path
  <2> QED
    BY <1>1, <1>2, <2>1
<1> HIDE DEF path
<1>4. path # <<>> /\ Head(path) = first
  BY <1>1, <1>2, <1>3
<1>5. /\ Tail(path) \in Seq(S) /\ Len(Tail(path)) = Len(rest)
      /\ \A i \in 1 .. Len(rest) : Tail(path)[i] = path[i + 1]
  BY <1>2, <1>3, <1>4, HeadTailProperties
<1>6. \A i \in 1 .. Len(rest) : Tail(path)[i] = rest[i]
  BY <1>2, <1>3, <1>5
<1>7. Tail(path) = rest
  BY <1>5, <1>6, SeqEqual
<1> QED
  BY <1>2, <1>3, <1>4, <1>7 DEF path, one

LEMMA BucketComesOff ==
    ASSUME NEW key \in Keys
    PROVE  /\ Len(<<BUCKET>> \o key) > 1
           /\ Head(<<BUCKET>> \o key) = BUCKET
           /\ Tail(<<BUCKET>> \o key) = key
<1>1. key \in Seq(STRING) /\ key # <<>> /\ BUCKET \in STRING
  BY StorageAssumption
<1> QED
  BY <1>1, FirstComesOff

\* Whatever form of reference a service kept, it leads to the object's key
\* (object_path_from_url).
THEOREM ReferencesLeadToTheKey ==
    ASSUME NEW key \in Keys, NEW ref \in References(key)
    PROVE  ObjectPath(ref) = key
<1>1. CASE ref = PublicUrl(key)
  <2>1. ref.url /\ ref.own /\ ref.path = <<BUCKET>> \o key
    BY <1>1 DEF PublicUrl
  <2>2. ~IsExternal(ref)
    BY <2>1 DEF IsExternal
  <2> QED
    BY <2>1, <2>2, BucketComesOff DEF ObjectPath
<1>2. CASE ref = [url |-> FALSE, own |-> TRUE, path |-> <<BUCKET>> \o key]
  <2>1. ~ref.url /\ ref.path = <<BUCKET>> \o key
    BY <1>2
  <2>2. ~IsExternal(ref)
    BY <2>1 DEF IsExternal
  <2> QED
    BY <2>1, <2>2, BucketComesOff DEF ObjectPath
<1>3. CASE ref = [url |-> FALSE, own |-> TRUE, path |-> key] /\ Head(key) # BUCKET
  <2>1. ~ref.url /\ ref.path = key /\ Head(ref.path) # BUCKET
    BY <1>3
  <2>2. ~IsExternal(ref)
    BY <2>1 DEF IsExternal
  <2> QED
    BY <2>1, <2>2 DEF ObjectPath
<1>4. \/ ref = PublicUrl(key)
      \/ ref = [url |-> FALSE, own |-> TRUE, path |-> <<BUCKET>> \o key]
      \/ ref = [url |-> FALSE, own |-> TRUE, path |-> key] /\ Head(key) # BUCKET
  BY DEF References
<1> QED
  BY <1>1, <1>2, <1>3, <1>4

LEMMA StorageInitInv == StorageInit => StorageInv
<1> SUFFICES ASSUME StorageInit PROVE StorageInv
  OBVIOUS
<1>1. StorageTypeOK
  BY DEF StorageInit, StorageTypeOK
<1>2. KeysAreRight /\ WritesAreOpen
  BY DEF StorageInit, KeysAreRight, WritesAreOpen
<1>3. UploadsAreFound
  BY DEF StorageInit, UploadsAreFound
<1> QED
  BY <1>1, <1>2, <1>3 DEF StorageInv

\* A call may begin: it opens what it is about to change.
LEMMA CallKeepsInv ==
    ASSUME StorageInv, NEW t \in Threads, Call(t)
    PROVE  StorageInv'
<1>1. PICK what \in Whats, k \in Keys :
         \E ref \in IF what = "upload" THEN {[url |-> FALSE, own |-> TRUE, path |-> k]} ELSE References(k) :
            /\ op' = [op EXCEPT ![t] =
                        [what |-> what, attempt |-> 1,
                         key |-> IF what = "upload" THEN k ELSE ObjectPath(ref), of |-> k]]
            /\ settled' = IF what \in {"upload", "delete"} THEN [settled EXCEPT ![k] = "open"] ELSE settled
  BY DEF Call, Whats
<1> DEFINE new == [what |-> what, attempt |-> 1, key |-> k, of |-> k]
<1>2. /\ op' = [op EXCEPT ![t] = new]
      /\ settled' = IF what \in Writes THEN [settled EXCEPT ![k] = "open"] ELSE settled
  BY <1>1, ReferencesLeadToTheKey DEF Writes
<1>3. new \in StorageCalls /\ new.what = what /\ new.key = k /\ new.of = k
  BY DEF StorageCalls
<1>4. objects' = objects
  BY DEF Call
<1> HIDE DEF new
<1> USE DEF StorageInv, StorageTypeOK
<1>5. StorageTypeOK' /\ KeysAreRight'
  BY <1>2, <1>3 DEF KeysAreRight
<1>6. WritesAreOpen'
  BY <1>2, <1>3 DEF WritesAreOpen
<1>7. UploadsAreFound'
  BY <1>2, <1>4 DEF UploadsAreFound
<1> QED
  BY <1>5, <1>6, <1>7

\* A call that ends, with its effect or, unless it says it is done, without.
LEMMA EndKeepsInv ==
    ASSUME StorageInv, NEW t \in Threads, op[t] # NoCall, NEW answer, EndCall(t, answer),
           objects' \in {objects, Effect(t)},
           answer = "done" => objects' = Effect(t)
    PROVE  StorageInv'
<1> DEFINE k == op[t].of
<1> USE DEF StorageInv, StorageTypeOK
<1>1. op[t] \in StorageCalls /\ op[t].what \in Whats /\ k \in Keys /\ op[t].key = k
  BY DEF StorageCalls, KeysAreRight
<1>2. op' = [op EXCEPT ![t] = NoCall]
  BY DEF EndCall
<1> DEFINE left == CASE op[t].what = "upload" /\ answer = "done" -> "there"
                     [] op[t].what = "delete" /\ answer = "done" -> "gone"
                     [] OTHER -> settled[k]
           busy == \E u \in Others(t) : op[u].what \in Writes
           says == IF busy THEN "open" ELSE left
<1>3. settled' = [settled EXCEPT ![k] = says]
  BY DEF EndCall, Writes
<1>4. /\ left \in {"there", "gone", "open"}
      /\ \/ left = settled[k]
         \/ left = "there" /\ op[t].what = "upload" /\ answer = "done"
         \/ left = "gone" /\ op[t].what = "delete" /\ answer = "done"
  BY <1>1
<1> HIDE DEF left
<1>5. /\ settled' = [settled EXCEPT ![k] = says]
      /\ says \in {"there", "gone", "open"}
      /\ busy => says = "open"
      /\ \/ says = settled[k] \/ says = "open"
         \/ says = "there" /\ op[t].what = "upload" /\ answer = "done"
         \/ says = "gone" /\ op[t].what = "delete" /\ answer = "done"
  BY <1>3, <1>4
<1> HIDE DEF says
<1>6. \/ objects' = objects
      \/ objects' = objects \cup {k} /\ op[t].what = "upload"
      \/ objects' = objects \ {k} /\ op[t].what = "delete"
  <2>1. CASE op[t].what = "upload"
    BY <1>1, <2>1 DEF Effect
  <2>2. CASE op[t].what = "delete"
    BY <1>1, <2>2 DEF Effect
  <2>3. CASE op[t].what \notin Writes
    BY <1>1, <2>3 DEF Effect, Writes
  <2> QED
    BY <2>1, <2>2, <2>3 DEF Writes
<1>7. op[t].what \in Writes => settled[k] = "open"
  BY DEF WritesAreOpen
<1>8. StorageTypeOK' /\ KeysAreRight'
  BY <1>2, <1>5 DEF KeysAreRight
<1>9. WritesAreOpen'
  <2> SUFFICES ASSUME NEW u \in Threads, op'[u] # NoCall, op'[u].what \in Writes
               PROVE  settled'[op'[u].of] = "open"
    BY DEF WritesAreOpen
  <2>1. u # t /\ op'[u] = op[u] /\ settled[op[u].of] = "open" /\ op[u].of \in Keys
    BY <1>2 DEF WritesAreOpen, StorageCalls
  <2>2. op[u].of = k => u \in Others(t)
    BY <2>1 DEF Others
  <2> QED
    BY <1>1, <1>5, <2>1, <2>2
<1>10. UploadsAreFound'
  <2>1. answer = "done" /\ op[t].what = "upload" => k \in objects'
    BY <1>1 DEF Effect
  <2>2. answer = "done" /\ op[t].what = "delete" => k \notin objects'
    BY <1>1 DEF Effect
  <2>3. settled'[k] = "there" => k \in objects'
    BY <1>1, <1>5, <1>6, <1>7, <2>1, <2>2 DEF UploadsAreFound, Writes
  <2>4. settled'[k] = "gone" => k \notin objects'
    BY <1>1, <1>5, <1>6, <1>7, <2>1, <2>2 DEF UploadsAreFound, Writes
  <2>5. \A q \in Keys \ {k} : settled'[q] = settled[q] /\ (q \in objects' <=> q \in objects)
    BY <1>5, <1>6
  <2> QED
    BY <1>1, <2>3, <2>4, <2>5 DEF UploadsAreFound
<1> QED
  BY <1>8, <1>9, <1>10

\* A try that failed leaves the call as it was, but for the count.
LEMMA RetryKeepsInv ==
    ASSUME StorageInv, NEW t \in Threads, op[t] # NoCall, objects' \in {objects, Effect(t)},
           op' = [op EXCEPT ![t].attempt = @ + 1], settled' = settled
    PROVE  StorageInv'
<1> DEFINE new == [what |-> op[t].what, attempt |-> op[t].attempt + 1, key |-> op[t].key, of |-> op[t].of]
<1> USE DEF StorageInv, StorageTypeOK
<1>1. op[t] \in StorageCalls /\ op[t].what \in Whats /\ op[t].of \in Keys /\ op[t].key = op[t].of /\ op[t].attempt \in Nat
  BY DEF StorageCalls, KeysAreRight
<1>2. [op[t] EXCEPT !.attempt = @ + 1] = new
  BY <1>1 DEF StorageCalls
<1>3. op' = [op EXCEPT ![t] = new]
  BY <1>2
<1>4. new \in StorageCalls /\ new.what = op[t].what /\ new.of = op[t].of /\ new.key = op[t].key
  BY <1>1 DEF StorageCalls
<1> HIDE DEF new
<1>5. StorageTypeOK' /\ KeysAreRight'
  BY <1>1, <1>3, <1>4 DEF KeysAreRight
<1>6. WritesAreOpen'
  BY <1>3, <1>4 DEF WritesAreOpen
<1>7. UploadsAreFound'
  <2>1. objects' = objects \/ settled[op[t].of] = "open"
    BY DEF WritesAreOpen, Writes, Effect
  <2>2. \A q \in Keys : q = op[t].of \/ (q \in objects' <=> q \in objects)
    BY <1>1 DEF Effect
  <2> QED
    BY <1>1, <2>1, <2>2 DEF UploadsAreFound
<1> QED
  BY <1>5, <1>6, <1>7

LEMMA StorageNextInv == StorageInv /\ [StorageNext]_storageVars => StorageInv'
<1> SUFFICES ASSUME StorageInv, [StorageNext]_storageVars PROVE StorageInv'
  OBVIOUS
<1>1. CASE InitStorage \/ UNCHANGED storageVars
  BY <1>1 DEF InitStorage, storageVars, StorageInv, StorageTypeOK, KeysAreRight, WritesAreOpen, UploadsAreFound
<1>2. ASSUME NEW t \in Threads, Call(t) PROVE StorageInv'
  BY <1>2, CallKeepsInv
<1>3. ASSUME NEW t \in Threads, Succeed(t) PROVE StorageInv'
  <2>1. PICK answer : op[t] # NoCall /\ EndCall(t, answer) /\ objects' = Effect(t)
    BY <1>3 DEF Succeed
  <2> QED
    BY <2>1, EndKeepsInv
<1>4. ASSUME NEW t \in Threads, Refuse(t) \/ NotInitialized(t) PROVE StorageInv'
  <2>1. PICK answer \in {"no", "raised"} : op[t] # NoCall /\ EndCall(t, answer) /\ objects' = objects
    BY <1>4 DEF Refuse, NotInitialized
  <2> QED
    BY <2>1, EndKeepsInv
<1>5. ASSUME NEW t \in Threads, NEW effective \in BOOLEAN, Fail(t, effective) PROVE StorageInv'
  <2>1. op[t] # NoCall /\ objects' \in {objects, Effect(t)}
    BY <1>5 DEF Fail
  <2>2. CASE op[t].attempt < MAX_RETRIES
    <3>1. op' = [op EXCEPT ![t].attempt = @ + 1] /\ settled' = settled
      BY <1>5, <2>2 DEF Fail
    <3> QED
      BY <2>1, <3>1, RetryKeepsInv
  <2>3. CASE ~(op[t].attempt < MAX_RETRIES)
    <3>1. EndCall(t, "raised")
      BY <1>5, <2>3 DEF Fail
    <3> QED
      BY <2>1, <3>1, EndKeepsInv
  <2> QED
    BY <2>2, <2>3
<1> QED
  BY <1>1, <1>2, <1>3, <1>4, <1>5 DEF StorageNext

\* storage.py: what an upload or a delete answered is so of its object until
\* another call may change it, whatever tries failed with effect or without.
THEOREM AnswersHold == StorageSpec => []UploadsAreFound
<1>1. StorageInv => UploadsAreFound
  BY DEF StorageInv
<1> QED
  BY <1>1, StorageInitInv, StorageNextInv, PTL DEF StorageSpec

-----------------------------------------------------------------------------
(* Services: what holds of each part alone holds of it where all are walked. *)

LEMMA ServicesStepsAreTheParts ==
    ASSUME [ServicesNext]_servicesVars
    PROVE
      /\ [CacheNext]_cacheVars
      /\ [WebhookNext]_webhookVars
      /\ [ClientsNext]_clientVars
      /\ [SessionsNext]_sessionVars
      /\ [LeadNext]_leadVars
      /\ [NegotiationNext]_haggleVars
      /\ [AuditNext]_auditVars
      /\ [StorageNext]_storageVars
      /\ [PeriodsNext]_periodVars
<1>1. CASE UNCHANGED servicesVars
  BY <1>1 DEF servicesVars
<1>2. CASE part = "caches" /\ CacheNext /\ UNCHANGED <<webhookVars, clientVars, sessionVars, leadVars, haggleVars, auditVars, storageVars, periodVars>>
  BY <1>2
<1>3. CASE part = "webhooks" /\ WebhookNext /\ UNCHANGED <<cacheVars, clientVars, sessionVars, leadVars, haggleVars, auditVars, storageVars, periodVars>>
  BY <1>3
<1>4. CASE part = "clients" /\ ClientsNext /\ UNCHANGED <<cacheVars, webhookVars, sessionVars, leadVars, haggleVars, auditVars, storageVars, periodVars>>
  BY <1>4
<1>5. CASE part = "sessions" /\ SessionsNext /\ UNCHANGED <<cacheVars, webhookVars, clientVars, leadVars, haggleVars, auditVars, storageVars, periodVars>>
  BY <1>5
<1>6. CASE part = "leads" /\ LeadNext /\ UNCHANGED <<cacheVars, webhookVars, clientVars, sessionVars, haggleVars, auditVars, storageVars, periodVars>>
  BY <1>6
<1>7. CASE part = "negotiation" /\ NegotiationNext /\ UNCHANGED <<cacheVars, webhookVars, clientVars, sessionVars, leadVars, auditVars, storageVars, periodVars>>
  BY <1>7
<1>8. CASE part = "audit" /\ AuditNext /\ UNCHANGED <<cacheVars, webhookVars, clientVars, sessionVars, leadVars, haggleVars, storageVars, periodVars>>
  BY <1>8
<1>9. CASE part = "storage" /\ StorageNext /\ UNCHANGED <<cacheVars, webhookVars, clientVars, sessionVars, leadVars, haggleVars, auditVars, periodVars>>
  BY <1>9
<1>10. CASE part = "periods" /\ PeriodsNext /\ UNCHANGED <<cacheVars, webhookVars, clientVars, sessionVars, leadVars, haggleVars, auditVars, storageVars>>
  BY <1>10
<1> QED
  BY <1>1, <1>2, <1>3, <1>4, <1>5, <1>6, <1>7, <1>8, <1>9, <1>10 DEF ServicesNext

\* A behaviour of Services is one of each of its nine parts, so that what is proved of a
\* part is proved of what the run walks.
THEOREM ServicesWalksItsParts ==
    ServicesSpec =>
        /\ CacheSpec /\ WebhookSpec /\ ClientsSpec /\ SessionsSpec /\ LeadSpec
        /\ NegotiationSpec /\ AuditSpec /\ StorageSpec /\ PeriodsSpec
<1>1. ServicesInit => CacheInit /\ WebhookInit /\ ClientsInit /\ SessionsInit /\ LeadInit /\ NegotiationInit /\ AuditInit /\ StorageInit /\ PeriodsInit
  BY DEF ServicesInit
<1> QED
  BY <1>1, ServicesStepsAreTheParts, PTL DEF ServicesSpec, CacheSpec, WebhookSpec, ClientsSpec, SessionsSpec, LeadSpec, NegotiationSpec, AuditSpec, StorageSpec, PeriodsSpec
=============================================================================
