------------------------------ MODULE Sessions ------------------------------
(***************************************************************************)
(* thecargo.db.routing and db.engine: where the statements of a request's  *)
(* database session run, and in which transaction.                         *)
(*                                                                         *)
(* A routing session reads through an engine that commits every statement  *)
(* by itself, until a statement needs the write transaction; from there to *)
(* the commit all of them run in that one. StatementRouter tells such a    *)
(* statement from the statement object, the read engine's guard from its   *)
(* SQL, both by a pattern that some DML does not fit. A read-only session  *)
(* has one autocommit connection, and refuses the writes that SQLAlchemy   *)
(* reports to it.                                                          *)
(***************************************************************************)
EXTENDS Naturals, FiniteSets

\* Statements by what they need and how it shows.
Statements ==
    {"read",       \* needs no transaction
     "dml",        \* an INSERT, UPDATE or DELETE construct
     "lock",       \* SELECT ... FOR UPDATE
     "function",   \* a transactional function in the select list
     "sql",        \* DML or a lock in a text
     "nested",     \* DML in a CTE, a lock or a function below the select list
     "declared",   \* a function of the service, named to routing_sessionmaker
     "hidden",     \* one that was not named
     "missed",     \* DML the pattern misses: WITH u AS (UPDATE t AS a SET ...) SELECT ...
     "direct"}     \* DML on the connection of the session

Makers == {"routing", "plain"}

VARIABLES
    maker,       \* what made the session
    readOnly,    \* by read_only_session
    writing,     \* RoutingSession._writing
    inWrite,     \* its transaction on the write engine has begun
    savepoint,   \* a savepoint is open
    unsaved,     \* the session has changes to flush
    alone,       \* ghost: the statements that ran in no transaction
    apart        \* ghost: one ran outside the write transaction that was open

sessionVars == <<maker, readOnly, writing, inWrite, savepoint, unsaved, alone, apart>>
statementVars == <<alone, apart>>

SessionsInit ==
    /\ maker \in Makers /\ readOnly \in BOOLEAN
    /\ writing = FALSE /\ inWrite = FALSE
    /\ savepoint = FALSE /\ unsaved = FALSE
    /\ alone = {} /\ apart = FALSE

----------------------------------------------------------------------------
(* StatementRouter. *)

\* sql_needs_transaction, from the text of a statement.
SqlNeedsTransaction(s) == s \notin {"read", "hidden", "missed"}

\* needs_transaction, from the statement object.
NeedsTransaction(s) == s \in {"dml", "lock", "function", "declared"} \/ (s = "sql" /\ SqlNeedsTransaction(s))

----------------------------------------------------------------------------
(* The session. *)

\* Where a statement runs: the write engine's transaction, or no transaction.
Transactional == IF maker = "routing" THEN writing' ELSE ~readOnly

Begin == inWrite' = (inWrite \/ Transactional)

Run(s) ==
    /\ Begin
    /\ alone' = IF Transactional THEN alone ELSE alone \union {s}
    /\ apart' = (apart \/ (inWrite /\ ~Transactional))
    /\ UNCHANGED <<maker, readOnly>>

\* Mutant: the session writes for the length of one statement.
GetBindForgets(flushing, s) ==
    writing' = (maker = "routing" /\ (flushing \/ NeedsTransaction(s)))

\* get_bind
GetBind(flushing, s) ==
    writing' = (writing \/ (maker = "routing" /\ (flushing \/ NeedsTransaction(s))))

\* What stops a statement: forbid_writes, or the read engine's guard.
Forbidden(s) == readOnly /\ s = "dml"
Refused(s) == maker = "routing" /\ ~writing' /\ SqlNeedsTransaction(s)

\* session.execute; an ORM statement flushes what is unsaved first.
Execute(s) ==
    /\ s # "direct"
    /\ unsaved => s \in {"sql", "hidden", "missed"}
    /\ ~Forbidden(s)
    /\ GetBind(FALSE, s)
    /\ ~Refused(s)
    /\ Run(s)
    /\ UNCHANGED <<savepoint, unsaved>>

Change == ~unsaved /\ unsaved' = TRUE /\ UNCHANGED <<maker, readOnly, writing, inWrite, savepoint, statementVars>>

\* A flush, which forbid_writes refuses before it begins.
Flush ==
    /\ unsaved /\ ~readOnly
    /\ GetBind(TRUE, "dml")
    /\ Run("dml")
    /\ unsaved' = FALSE
    /\ UNCHANGED savepoint

\* begin_nested; its flush comes first. An autocommit connection has no savepoints.
BeginNested ==
    /\ ~savepoint /\ ~unsaved
    /\ maker = "routing" \/ ~readOnly
    /\ savepoint' = TRUE
    /\ writing' = (maker = "routing")
    /\ Begin
    /\ UNCHANGED <<maker, readOnly, unsaved, statementVars>>

EndNested ==
    /\ savepoint /\ savepoint' = FALSE
    /\ UNCHANGED <<maker, readOnly, writing, inWrite, unsaved, statementVars>>

\* connection(), without AUTOCOMMIT; read_only_session has asked for one with it.
Connection ==
    /\ writing' = (maker = "routing")
    /\ Begin
    /\ UNCHANGED <<maker, readOnly, savepoint, unsaved, statementVars>>

\* What runs on that connection passes no hook of the session.
OnConnection ==
    /\ writing' = (maker = "routing")
    /\ Run("direct")
    /\ UNCHANGED <<savepoint, unsaved>>

\* A commit, a rollback, or the session's close: _back_to_reads. A statement
\* that was refused or failed ends so too.
End ==
    /\ writing' = FALSE /\ inWrite' = FALSE
    /\ savepoint' = FALSE /\ unsaved' = FALSE
    /\ alone' = {} /\ apart' = FALSE
    /\ UNCHANGED <<maker, readOnly>>

SessionsNext ==
    \/ \E s \in Statements : Execute(s)
    \/ Change \/ Flush \/ BeginNested \/ EndNested
    \/ Connection \/ OnConnection \/ End

SessionsSpec == SessionsInit /\ [][SessionsNext]_sessionVars

----------------------------------------------------------------------------
(* Properties. *)

\* What needs a transaction runs in one: of a routing session nothing runs alone
\* but reads, the functions nobody named and the DML the pattern misses; once the
\* write transaction is open nothing runs beside it; a session that may write runs
\* nothing alone unless it routes; and no session runs DML alone that SQLAlchemy
\* knows of.
WritesHaveATransaction ==
    /\ maker = "routing" => alone \subseteq {"read", "hidden", "missed"} /\ ~apart
    /\ "dml" \notin alone
    /\ maker = "plain" /\ ~readOnly => alone = {}

\* The docstring of forbid_writes: "Fail a write on a read-only session: under
\* autocommit it would land one statement at a time".
ReadOnlyWritesFail ==
    readOnly => alone \intersect {"dml", "sql", "nested", "missed", "direct"} = {}
=============================================================================
