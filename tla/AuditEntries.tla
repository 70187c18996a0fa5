---------------------------- MODULE AuditEntries ----------------------------
(***************************************************************************)
(* thecargo.audit: what the entries of one row say. The hook before a      *)
(* flush compares the row's object with what its session knows of the      *)
(* database, and stages an entry for a creation, for a change that counts, *)
(* and for a deletion.                                                     *)
(*                                                                         *)
(* An object holds its columns as they were loaded or set, or not at all;  *)
(* SQLAlchemy keeps for each column that was set what it held before, and  *)
(* NO_VALUE where it held nothing. Entries hold what _jsonify makes of the *)
(* values: NO_VALUE, a member of an Enum, is told as the number 4, and of  *)
(* a long text no more than its beginning. An error of the hook is logged  *)
(* and the row is written without an entry. Savepoints and rollbacks,      *)
(* which drop entries with their changes or without, are in UnitOfWork.    *)
(***************************************************************************)
EXTENDS Naturals

CONSTANTS
    Columns,
    Ignored,        \* __audit_ignore__
    Sensitive,      \* the columns whose name tells a secret
    Significant,    \* __audit_significant__
    Lifecycle,      \* __audit_lifecycle_field__
    Unloaded,       \* no value in the object: it was never loaded, or expired
    NO_VALUE,       \* SQLAlchemy's mark for an old value it never loaded
    MaxFlushes      \* bound on the flushes that write the row

VARIABLES
    stored,       \* column -> its value in the database, or NoValues
    held,         \* column -> its value in the object
    committed,    \* column set since the last flush -> what it held before
    entry,        \* the last entry; NoEntry before the first and after a flush whose hook failed
    guessed,      \* ghost: the columns of that entry whose old value was NO_VALUE
    reading,      \* ghost: column -> its value as the entries so far tell it; not those
                  \*        that were written without an entry since
    before,       \* ghost: reading before the last entry
    flushes       \* how many flushes wrote the row

trail == <<entry, guessed, reading, before>>
auditVars == <<stored, held, committed, trail, flushes>>

None == "None"
LongTexts == {"long A", "long B"}    \* that begin alike for _MAX_VALUE_LEN characters
Cut == "long"                        \* their beginning
Values == {None, "", "4", "4.0"} \union LongTexts

\* The two marks are no values of a column.
ASSUME AuditAssumption == Unloaded \notin Values /\ NO_VALUE \notin Values

NoValues == [c \in {} |-> None]
NoEntry == [action |-> "none"]

----------------------------------------------------------------------------
\* Mutant: the columns of secrets are looked for among the ignored ones only.
AuditedAll == Columns \ Ignored

Audited == Columns \ (Ignored \union Sensitive)

\* _jsonify: what an entry holds of a value.
Jsonify(value) ==
    CASE value = NO_VALUE       -> "4"
      [] value \in LongTexts    -> Cut
      [] OTHER                  -> value

\* _snapshot: unloaded columns are left out.
Snapshot(object) == [c \in {a \in Audited : object[a] # Unloaded} |-> Jsonify(object[c])]

\* Mutant: None is taken for one with anything.
NoneIsAnything(old, new) == old = new \/ None \in {old, new} \/ {old, new} \subseteq {"4", "4.0"}

\* _values_equivalent: None and "" are one, and so are texts of one number.
Equivalent(old, new) == old = new \/ {old, new} \subseteq {None, ""} \/ {old, new} \subseteq {"4", "4.0"}

\* _diff: the audited columns that were set to something else.
ChangedColumns == {c \in Audited \intersect DOMAIN committed : ~Equivalent(committed[c], held[c])}

SignificantOf(changed) == changed \intersect Significant

Transition(old, new, changed) ==
    IF Lifecycle \in changed THEN <<old[Lifecycle], new[Lifecycle]>> ELSE <<>>

\* What _build_payload makes of it.
Entry(action, old, new, changed) ==
    [action |-> action, old |-> old, new |-> new, changed |-> changed,
     significant |-> SignificantOf(changed), transition |-> Transition(old, new, changed)]

AuditInit ==
    /\ stored = NoValues /\ held = [c \in Columns |-> Unloaded]
    /\ committed = NoValues /\ entry = NoEntry /\ guessed = {}
    /\ reading = NoValues /\ before = NoValues /\ flushes = 0

Stage(e, unknown) ==
    /\ entry' = e /\ guessed' = unknown
    /\ before' = reading
    /\ reading' = [c \in DOMAIN reading \union DOMAIN e.new |->
                   IF c \in DOMAIN e.new THEN e.new[c] ELSE reading[c]]

\* An error of the hook: the flush has no entry, and what it writes is told nowhere.
Missed(columns) ==
    /\ reading' = [c \in DOMAIN reading \ columns |-> reading[c]]
    /\ entry' = NoEntry /\ guessed' = {} /\ before' = NoValues

\* A new object with some of its columns set is flushed; the database has its own
\* defaults for the others.
CreateRow ==
    /\ flushes = 0
    /\ \E object \in [Columns -> Values \union {Unloaded}], default \in {None, "4"} :
          /\ held' = object
          /\ stored' = [c \in Columns |-> IF object[c] = Unloaded THEN default ELSE object[c]]
          /\ \/ Stage(Entry("create", NoValues, Snapshot(object), {}), {})
             \/ Missed(Columns)
    /\ flushes' = 1
    /\ UNCHANGED committed

\* The session expires the object, and what was set and not flushed is gone...
ExpireRow ==
    /\ stored # NoValues
    /\ held' = [c \in Columns |-> Unloaded] /\ committed' = NoValues
    /\ UNCHANGED <<stored, trail, flushes>>

\* ... or loads what is missing of it.
LoadRow ==
    /\ stored # NoValues
    /\ held' = [c \in Columns |-> IF held[c] = Unloaded THEN stored[c] ELSE held[c]]
    /\ UNCHANGED <<stored, committed, trail, flushes>>

Assign(c, value) ==
    /\ stored # NoValues
    /\ held' = [held EXCEPT ![c] = value]
    /\ committed' = [d \in DOMAIN committed \union {c} |->
                        IF d \in DOMAIN committed THEN committed[d]
                        ELSE IF held[c] = Unloaded THEN NO_VALUE ELSE held[c]]
    /\ UNCHANGED <<stored, trail, flushes>>

\* The hook, and the flush it comes before.
FlushRow ==
    /\ stored # NoValues /\ committed # NoValues /\ flushes < MaxFlushes
    /\ \/ ChangedColumns = {} /\ UNCHANGED trail
       \/ /\ ChangedColumns # {}
          /\ Stage(Entry("update", [c \in ChangedColumns |-> Jsonify(committed[c])],
                         [c \in ChangedColumns |-> Jsonify(held[c])], ChangedColumns),
                   {c \in ChangedColumns : committed[c] = NO_VALUE})
       \/ Missed(DOMAIN committed)
    /\ stored' = [c \in Columns |-> IF c \in DOMAIN committed THEN held[c] ELSE stored[c]]
    /\ committed' = NoValues /\ flushes' = flushes + 1
    /\ UNCHANGED held

\* The object is deleted: its entry tells the columns as the session has them.
DeleteRow ==
    /\ stored # NoValues /\ flushes < MaxFlushes
    /\ \/ Stage(Entry("delete", Snapshot(held), NoValues, {}), {})
       \/ Missed(Columns)
    /\ stored' = NoValues /\ committed' = NoValues /\ flushes' = flushes + 1
    /\ held' = [c \in Columns |-> Unloaded]

AuditNext ==
    \/ CreateRow \/ ExpireRow \/ LoadRow \/ FlushRow \/ DeleteRow
    \/ \E c \in Columns, value \in Values : Assign(c, value)

AuditSpec == AuditInit /\ [][AuditNext]_auditVars

----------------------------------------------------------------------------
(* Properties. *)

\* What a reader takes for one value.
Same(a, b) == \E alike \in {{None, ""}, {"4", "4.0"}, {Cut}} : {a, b} \subseteq alike

\* Read one after another, the entries tell the row: what they tell of a column
\* is what the database has, as far as entries hold it and however many changes
\* that count for none lie in between, until a flush writes the column whose hook
\* failed; the old value of a change is the one told before, but for a column that
\* was set while it was not loaded, whose old value is told as 4, whatever it was;
\* old and new differ, but for such a column and for texts that differ behind their
\* cut; a step of the lifecycle is told with the same two ends, and so are the
\* significant columns among those that changed; and nothing is told of a secret.
EntriesTellTheRow ==
    /\ stored # NoValues => \A c \in DOMAIN reading : Same(reading[c], Jsonify(stored[c]))
    /\ entry # NoEntry =>
        /\ (DOMAIN entry.old \union DOMAIN entry.new) \intersect (Sensitive \union Ignored) = {}
        /\ entry.action = "update" =>
            /\ DOMAIN entry.old = entry.changed /\ DOMAIN entry.new = entry.changed
            /\ \A c \in entry.changed \intersect DOMAIN before :
                  IF c \in guessed THEN entry.old[c] = "4" ELSE Same(before[c], entry.old[c])
            /\ \A c \in entry.changed \ guessed :
                  Same(entry.old[c], entry.new[c]) => entry.old[c] = Cut /\ entry.new[c] = Cut
            /\ Lifecycle \in entry.changed => entry.transition = <<entry.old[Lifecycle], entry.new[Lifecycle]>>
            /\ entry.significant = Significant \intersect entry.changed
=============================================================================
