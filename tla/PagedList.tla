----------------------------- MODULE PagedList -----------------------------
(***************************************************************************)
(* A client reads a paginated list page by page while rows are added and   *)
(* change their status: GET /messages (paginate in src/utils/pagination.py)*)
(* and GET /campaigns/{id}/recipients (list_recipients in                  *)
(* src/services/campaign_service.py).  Both count the matching rows and    *)
(* then select LIMIT page_size OFFSET (page - 1) * page_size, ordered by   *)
(* created_at, in two statements that see the table at two times.          *)
(*                                                                         *)
(* created_at is the time at which the inserting transaction began, so a   *)
(* row may turn up anywhere in the order, and the rows of one upload are   *)
(* equal in it: the database returns those in any order, a new one for     *)
(* every query.  The client asks for pages until it has read as many as    *)
(* the last answer said there are.                                         *)
(*                                                                         *)
(* Abstracted: a row is its place in the order and whether the filter      *)
(* matches it (without a filter all do).  Recipients are listed oldest     *)
(* first and messages newest first: created_at counts in the direction of  *)
(* the list.                                                               *)
(***************************************************************************)
EXTENDS Integers, FiniteSets

CONSTANTS
    Rows,        \* rows that are or will be in the table
    CreatedAt,   \* row -> its place in the order of the list
    Requested,   \* page_size of the request
    MaxDepartures  \* bound: how often a row leaves the filter while a client reads

ASSUME OrderAssumption == CreatedAt \in [Rows -> Nat] /\ IsFiniteSet(Rows)
ASSUME RequestAssumption == Requested \in Int
ASSUME BoundAssumption == MaxDepartures \in Nat

VARIABLES
    table,      \* committed rows
    listed,     \* those of them the filter matches
    reader,     \* what the client does
    page,       \* the page it asks for
    total,      \* what the SELECT count(*) of this request returned
    got,        \* rows the client has been given
    due,        \* rows that have matched ever since the client began
    departed,   \* how often a row has left the filter since
    raced       \* how often one joined between the last count and its select

vars == <<table, listed, reader, page, total, got, due, departed, raced>>

\* The size of a page: 1 to 500, whatever was asked for.
PageSize == IF Requested < 1 THEN 1 ELSE IF Requested > 500 THEN 500 ELSE Requested

PagesFloor(n) == n \div PageSize

PagesOneMore(n) == (n + PageSize - 1) \div PageSize + 1

\* The number of pages an answer states.
Pages(n) == (n + PageSize - 1) \div PageSize

Offset(p) == (p - 1) * PageSize

-----------------------------------------------------------------------------
(* The table *)

Init ==
    /\ table \in SUBSET Rows
    /\ listed \in SUBSET table
    /\ reader = "idle" /\ page = 1 /\ total = 0
    /\ got = {} /\ due = {} /\ departed = 0 /\ raced = 0

Busy == reader \in {"asking", "counted"}

\* What a row that joins the list or leaves it means for the client.
Joins(r) ==
    /\ listed' = listed \cup {r}
    /\ raced' = IF reader = "counted" THEN raced + 1 ELSE raced
Leaves(r) ==
    /\ Busy => departed < MaxDepartures
    /\ listed' = listed \ {r}
    /\ due' = due \ {r}
    /\ departed' = IF Busy THEN departed + 1 ELSE departed

\* A send or an upload commits a row, with a status the filter matches or not.
Insert(r) ==
    /\ r \notin table
    /\ table' = table \cup {r}
    /\ \/ Joins(r)
       \/ UNCHANGED <<listed, raced>>
    /\ UNCHANGED <<reader, page, total, got, due, departed>>

\* A report or a task changes the status of a row.  Any later report overwrites
\* it, so a row that has left the filter may come back and leave again.
ChangeStatus(r) ==
    /\ r \in table
    /\ \/ r \in listed /\ Leaves(r) /\ UNCHANGED raced
       \/ r \notin listed /\ Joins(r) /\ UNCHANGED <<due, departed>>
    /\ UNCHANGED <<table, reader, page, total, got>>

-----------------------------------------------------------------------------
(* The client and its requests *)

Begin ==
    /\ reader = "idle"
    /\ reader' = "asking"
    /\ due' = listed
    /\ UNCHANGED <<table, listed, page, total, got, departed, raced>>

\* SELECT count(*)
Count ==
    /\ reader = "asking"
    /\ total' = Cardinality(listed)
    /\ reader' = "counted"
    /\ raced' = 0
    /\ UNCHANGED <<table, listed, page, got, due, departed>>

\* The answers ORDER BY created_at allows: rows before the page, rows of the
\* page, rows after it.
Selections(rows, p) ==
    LET n == Cardinality(rows)
        from == IF Offset(p) < n THEN Offset(p) ELSE n
        to == IF from + PageSize < n THEN from + PageSize ELSE n
    IN {items \in SUBSET rows :
            /\ Cardinality(items) = to - from
            /\ \E before \in SUBSET (rows \ items) :
                /\ Cardinality(before) = from
                /\ \A x \in before, y \in rows \ before : CreatedAt[x] <= CreatedAt[y]
                /\ \A x \in items, y \in rows \ (before \cup items) :
                        CreatedAt[x] <= CreatedAt[y]}

\* SELECT ... LIMIT OFFSET, and the answer; the client goes on or is done.
Select ==
    /\ reader = "counted"
    /\ \E items \in Selections(listed, page) : got' = got \cup items
    /\ reader' = IF page >= Pages(total) THEN "done" ELSE "asking"
    /\ page' = page + 1
    /\ UNCHANGED <<table, listed, total, due, departed, raced>>

Next ==
    \/ \E r \in Rows : Insert(r) \/ ChangeStatus(r)
    \/ Begin \/ Count \/ Select

Spec == Init /\ [][Next]_vars

-----------------------------------------------------------------------------
(* Properties *)

\* A client reads one page of an empty list.
MostPages == IF Rows = {} THEN 1 ELSE (Cardinality(Rows) + PageSize - 1) \div PageSize

\* Every variable stays in the set it is declared for.
TypeOK ==
    /\ listed \subseteq table /\ table \subseteq Rows
    /\ reader \in {"idle", "asking", "counted", "done"}
    /\ page \in 1 .. MostPages + 1
    /\ total \in 0 .. Cardinality(Rows)
    /\ got \subseteq Rows /\ due \subseteq listed
    /\ departed \in 0 .. MaxDepartures /\ raced \in Nat

\* Rows that share their created_at with no other row.
Distinct == {r \in Rows : \A q \in Rows : CreatedAt[q] = CreatedAt[r] => q = r}

\* OFFSET skips what moves forward over the edge of a page.  A client that has
\* read all pages has been given every row that was there and matched all the
\* time, except for at most one for each time a row left the filter meanwhile
\* and one for each time one joined between the last count and its select.
MissesAreBounded ==
    reader = "done" =>
        Cardinality((due \cap Distinct) \ got) <= departed + raced
=============================================================================
