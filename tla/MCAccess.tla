------------------------------ MODULE MCAccess ------------------------------
(* Small instances of Access for TLC. *)
EXTENDS Access

CONSTANTS blue, ocean, org, customer, load, new, a, b, s1, s2

\* A customer of one company, a deleted load of the other, and a row of another
\* organization.
MCStored ==
    [r \in {org, customer, load} |->
        [org |-> IF r = org THEN "theirs" ELSE "ours", deleted |-> r = load,
         company |-> CASE r = org -> Org [] r = load -> ocean [] OTHER -> blue]]
\* The load is related to the customer of the other company.
MCRecord == [r \in {org, customer, load, new} |-> IF r = load THEN customer ELSE r]
=============================================================================
