------------------------------ MODULE Tenancy ------------------------------
(***************************************************************************)
(* thecargo.db.company_scope, context, repositories and service_auth: which *)
(* rows the database session of one request reads, changes and files, when *)
(* one organization works as several companies.                            *)
(*                                                                         *)
(* The active company is a context variable: AuditMiddleware sets it to    *)
(* ANY, get_current_user or company_from_header to the caller's, and       *)
(* as_company for the length of a block. An ORM statement is narrowed to   *)
(* the active company where its FROM names the model, after a flush that   *)
(* files the new rows under it. Past that scope go loads of relationships, *)
(* subqueries that name the model in their WHERE only, Core statements and *)
(* text; the session's own rows are handed back and written by their key.  *)
(***************************************************************************)
EXTENDS Sequences, Naturals

CONSTANTS
    Companies,    \* companies of the organization
    Rows,         \* the rows of a CompanyScoped model, stored ones and new ones
    Stored,       \* the rows stored at first: row -> [org, company, deleted]
    RecordOf,     \* all rows -> the record whose relationships join them
    MaxSwitches   \* bound on the as_company blocks of a request

ASSUME CompaniesAssumption == Companies \intersect {"organization", "any", "absent", "none"} = {}

Org == "organization"    \* company_id None: the organization itself
ANY == "any"             \* ANY_COMPANY
Spaces == Companies \union {Org}
Ours == "ours"           \* the organization of the request

VARIABLES
    active,    \* the active company
    outer,     \* what the middleware and the blocks under way will restore
    table,     \* the database: row -> [org, company, deleted]
    held,      \* the session's identity map
    fresh,     \* session.new: row -> its columns, not flushed yet
    repo,      \* the repository of the request
    outside,   \* ghost: the rows outside the active company that the last operation handed back or changed
    first,     \* ghost: the company that was active when the session was first used, or "none"
    moved,     \* ghost: and whether it was used under another one later
    past,      \* ghost: the rows outside the active company that it reached past the scope
    asked,     \* ghost: the space each new row was meant for
    switches   \* how many blocks the request opened

context == <<active, outer, switches>>
session == <<held, fresh, repo>>
uses == <<outside, first, moved, past>>
tenancyVars == <<context, table, session, uses, asked>>

NoRepo == [made |-> FALSE]

TenancyInit ==
    /\ active = ANY /\ outer = <<>> /\ switches = 0
    /\ table = Stored
    /\ held = {} /\ fresh = <<>> /\ repo = NoRepo
    /\ outside = {} /\ first = "none" /\ moved = FALSE /\ past = {} /\ asked = <<>>

----------------------------------------------------------------------------
(* The active company. *)

InRequest == outer # <<>>

\* AuditMiddleware.__call__ up to the call of the application.
Begin ==
    /\ ~InRequest
    /\ outer' = <<active>> /\ active' = ANY
    /\ outside' = {}
    /\ UNCHANGED <<switches, table, session, first, moved, past, asked>>

\* get_current_user's last step, or a header of the calling service: the company
\* of the caller, "organization", or none and then nothing is set.
SignedIn ==
    /\ Len(outer) = 1 /\ active = ANY
    /\ active' \in Spaces
    /\ outside' = {}
    /\ UNCHANGED <<outer, switches, table, session, first, moved, past, asked>>

\* Mutant: "organization" is left out, as for no company at all.
HeaderOmitsOrganization(space) == IF space \in Companies THEN space ELSE "absent"

\* company_header: what a call to another service says of the company.
Header(space) == IF space = ANY THEN "absent" ELSE space

\* company_from_header in a request that began with AuditMiddleware.
FromHeader(header) == IF header = "absent" THEN ANY ELSE header

\* as_company(company).
Enter ==
    /\ InRequest /\ switches < MaxSwitches
    /\ outer' = Append(outer, active) /\ active' \in Spaces \union {ANY}
    /\ switches' = switches + 1
    /\ outside' = {}
    /\ UNCHANGED <<table, session, first, moved, past, asked>>

Leave ==
    /\ Len(outer) > 1
    /\ active' = outer[Len(outer)] /\ outer' = SubSeq(outer, 1, Len(outer) - 1)
    /\ outside' = {}
    /\ UNCHANGED <<switches, table, session, first, moved, past, asked>>

----------------------------------------------------------------------------
(* The session. *)

InCompany(space, company) == space = ANY \/ space = company

\* Mutant: the rows of the organization itself are shared with its companies.
ScopeSharesOrg(rows) == {r \in rows : InCompany(active, table[r].company) \/ table[r].company = Org}

\* _scope_statement: the rows of a statement that are in the active company.
Scope(rows) == {r \in rows : InCompany(active, table[r].company)}

\* _stamp_new_rows: a row without a company gets the active one.
Stamped(row) ==
    IF active \in Companies /\ row.company = Org THEN [row EXCEPT !.company = active] ELSE row

\* The flush before every statement and at the commit.
Flushed == [r \in DOMAIN table \union DOMAIN fresh |->
                IF r \in DOMAIN fresh THEN Stamped(fresh[r]) ELSE table[r]]

\* An operation of the session hands back, or changes, these rows.
Outside(rows) == {r \in rows \ DOMAIN asked : ~InCompany(active, table[r].company)}

Reach(rows) ==
    /\ outside' = Outside(rows)
    /\ first' = IF first = "none" THEN active ELSE first
    /\ moved' = (moved \/ first \notin {"none", active})

\* Within the scope, and past it.
Use(rows) == Reach(rows) /\ UNCHANGED past
UsePast(rows) == Reach(rows) /\ past' = past \union Outside(rows)

\* Statements read what the flush has written, so they start with no new rows.
Flush ==
    /\ InRequest /\ fresh # <<>>
    /\ table' = Flushed /\ held' = held \union DOMAIN fresh /\ fresh' = <<>>
    /\ Use({})
    /\ UNCHANGED <<context, repo, asked>>

\* A SELECT of rows by a model its FROM names.
Select ==
    /\ InRequest /\ fresh = <<>>
    /\ LET rows == Scope(DOMAIN table) IN Use(rows) /\ held' = held \union rows
    /\ UNCHANGED <<context, table, fresh, repo, asked>>

\* An UPDATE or DELETE of all it can reach, in columns that nothing here reads.
BulkChange ==
    /\ InRequest /\ fresh = <<>>
    /\ Use(Scope(DOMAIN table))
    /\ UNCHANGED <<context, table, session, asked>>

\* A statement the scope does not reach: a subquery that names the model only in
\* its WHERE, a Core statement or a text, which reads or changes rows of any
\* company, and may make them the session's own (from_statement).
Unreached ==
    /\ InRequest
    /\ UsePast(DOMAIN table)
    /\ held' \in {held, held \union DOMAIN table}
    /\ UNCHANGED <<context, table, fresh, repo, asked>>

\* session.get: the identity map answers before any statement is made.
Get(r) ==
    /\ InRequest /\ fresh = <<>>
    /\ LET rows == IF r \in held THEN {r} ELSE Scope({r} \intersect DOMAIN table)
       IN Use(rows) /\ held' = held \union rows
    /\ UNCHANGED <<context, table, fresh, repo, asked>>

\* A change of a row the session holds, a soft delete and a restore included,
\* is written by its key.
Change(r) ==
    /\ InRequest /\ fresh = <<>> /\ r \in held
    /\ Use({r})
    /\ UNCHANGED <<context, table, session, asked>>

New(r) == r \notin DOMAIN table \union DOMAIN fresh

\* Ghost: a row that names its company belongs there, another one in space.
Meant(company, space) ==
    IF company \in Companies THEN [space |-> company, named |-> TRUE]
    ELSE [space |-> IF space = ANY THEN Org ELSE space, named |-> FALSE]

With(f, r, v) == [q \in DOMAIN f \union {r} |-> IF q = r THEN v ELSE f[q]]

\* session.add of a new row; asked is the ghost of the space it was meant for.
Add(r, row, space) ==
    /\ fresh' = With(fresh, r, row)
    /\ asked' = With(asked, r, space)

AddByHand(r) ==
    /\ InRequest /\ New(r)
    /\ \E company \in Spaces :
          Add(r, [org |-> Ours, company |-> company, deleted |-> FALSE],
              Meant(company, active))
    /\ Use({})
    /\ UNCHANGED <<context, table, held, repo>>

\* A relationship of a row the session holds is loaded with nothing added: the
\* rows of the same record, of whichever company.
LoadRelated(r) ==
    /\ InRequest /\ fresh = <<>> /\ r \in held \intersect DOMAIN table
    /\ LET rows == {q \in DOMAIN table : RecordOf[q] = RecordOf[r]}
       IN UsePast(rows) /\ held' = held \union rows
    /\ UNCHANGED <<context, table, fresh, repo, asked>>

----------------------------------------------------------------------------
(* The repositories. *)

\* TenantRepository takes the active company of the moment.
MakeRepo ==
    /\ InRequest /\ ~repo.made
    /\ repo' = [made |-> TRUE, company |-> active]
    /\ Use({})
    /\ UNCHANGED <<context, table, held, fresh, asked>>

\* _base_query; the statement is narrowed to the active company as well.
BaseQuery ==
    {r \in DOMAIN table : /\ table[r].org = Ours
                          /\ InCompany(repo.company, table[r].company)
                          /\ ~table[r].deleted}

RepoList ==
    /\ InRequest /\ repo.made /\ fresh = <<>>
    /\ LET rows == Scope(BaseQuery) IN Use(rows) /\ held' = held \union rows
    /\ UNCHANGED <<context, table, fresh, repo, asked>>

\* Mutant: the repository files its rows as the caller says.
CreateAsTold(company) == company

\* TenantRepository.create: its own company, unless it is for every one.
CreateIn(company) == IF repo.company = ANY THEN company ELSE repo.company

\* create, which flushes at once.
RepoCreate(r) ==
    /\ InRequest /\ repo.made /\ New(r) /\ fresh = <<>>
    /\ \E company \in Spaces :
          LET row == [org |-> Ours, company |-> CreateIn(company), deleted |-> FALSE]
              space == IF repo.company # ANY THEN Meant(repo.company, repo.company) ELSE Meant(company, active)
          IN /\ table' = With(table, r, Stamped(row))
             /\ asked' = With(asked, r, space)
    /\ held' = held \union {r}
    /\ Use({})
    /\ UNCHANGED <<context, fresh, repo>>

\* AdminRepository: every organization's rows, or one's, and those deleted if
\* asked for.
AdminList ==
    /\ InRequest /\ fresh = <<>>
    /\ \E deleted \in BOOLEAN, orgs \in {{Ours}, {table[r].org : r \in DOMAIN table}} :
          LET rows == Scope({r \in DOMAIN table : table[r].org \in orgs /\ (deleted \/ ~table[r].deleted)})
          IN Use(rows) /\ held' = held \union rows
    /\ UNCHANGED <<context, table, fresh, repo, asked>>

----------------------------------------------------------------------------
\* A call to another service that works on the same rows for the same caller.
CallService ==
    /\ InRequest
    /\ outside' = Outside({r \in DOMAIN table : InCompany(FromHeader(Header(active)), table[r].company)})
    /\ UNCHANGED <<context, table, session, first, moved, past, asked>>

\* Mutant: the middleware leaves the request's company behind.
EndKeepsCompany ==
    /\ InRequest
    /\ active' = active /\ outer' = <<>> /\ switches' = 0
    /\ held' = {} /\ fresh' = <<>> /\ repo' = NoRepo
    /\ outside' = {} /\ first' = "none" /\ moved' = FALSE /\ past' = {} /\ asked' = <<>>
    /\ UNCHANGED table

\* The session closes, with what it had not flushed if the request failed, and
\* every block and the middleware restore what they had found.
End ==
    /\ InRequest
    /\ active' = outer[1] /\ outer' = <<>> /\ switches' = 0
    /\ held' = {} /\ fresh' = <<>> /\ repo' = NoRepo
    /\ outside' = {} /\ first' = "none" /\ moved' = FALSE /\ past' = {} /\ asked' = <<>>
    /\ UNCHANGED table

TenancyNext ==
    \/ Begin \/ SignedIn \/ Enter \/ Leave \/ End
    \/ Flush \/ Select \/ BulkChange \/ Unreached
    \/ \E r \in Rows : \/ Get(r) \/ Change(r) \/ AddByHand(r) \/ LoadRelated(r)
                       \/ RepoCreate(r)
    \/ MakeRepo \/ RepoList \/ AdminList \/ CallService

TenancySpec == TenancyInit /\ [][TenancyNext]_tenancyVars

----------------------------------------------------------------------------
(* Properties. *)

\* Rows stay in their company: an operation hands back or changes a row that is
\* not in the company active at the time only when the session was used under
\* another company before, in the same request, when a relationship or a statement
\* the scope does not reach brought that row, or for a row the session made itself;
\* a service called on the way acts for the caller's company; and between requests
\* no company is active.
RowsStayInCompany ==
    /\ \A r \in outside : moved \/ r \in past
    /\ ~InRequest => active = ANY

\* A new row is filed where it was meant to be: in the company it names, else
\* in that of its repository, else in the active one; only a row that names
\* none may be filed under another company, when the session was used under more
\* than one.
FiledWhereMeant ==
    \A r \in DOMAIN asked \intersect DOMAIN table :
        \/ table[r].company = asked[r].space
        \/ moved /\ ~asked[r].named
=============================================================================
