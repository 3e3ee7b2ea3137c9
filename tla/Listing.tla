-------------------------------- MODULE Listing --------------------------------
(***************************************************************************)
(* GET /card-brands: LIMIT/OFFSET pages over the rows a filter selects,    *)
(* ordered by name, and a client that walks the pages one by one while     *)
(* brands are created and deleted.  The answer's total_count is the length *)
(* of the page, so all a client can do is to stop at a page that is short. *)
(*                                                                         *)
(* A row is the rank of its name.  Offset is computed in uint32: Modulus   *)
(* is 2^32 in the program and small in the runs.                           *)
(***************************************************************************)
EXTENDS Integers, FiniteSets

CONSTANTS
    Row,          \* the names there can be, as ranks
    Filter,       \* what a query's id and name select: sets of rows
    MaxPageSize,  \* the schema's bound on page_size
    Modulus,      \* page_size and page_number are below it
    MaxChanges    \* bound on concurrent creates and deletes

ASSUME ListingAssumption ==
    /\ Row \subseteq Nat /\ IsFiniteSet(Row) /\ Cardinality(Row) < Modulus
    /\ Filter \subseteq SUBSET Row
    /\ Modulus \in Nat \ {0, 1}
    /\ MaxPageSize \in 1..(Modulus - 1)
    /\ MaxChanges \in Nat

VARIABLES
    table,     \* the committed brands
    size,      \* page_size and filter of the walk
    filter,
    page,      \* page_number of the next request; 0: the walk has not begun
    seen,      \* how often the walk was given each row
    stayed,    \* history: the rows that were there all along
    created,   \* history: creates and deletes since the walk began
    deleted,
    done

vars == <<table, size, filter, page, seen, stayed, created, deleted, done>>

PageSize == 1..MaxPageSize
PageNumber == 0..(Modulus - 1)

-----------------------------------------------------------------------------
(* One request *)

\* Mutant: pages counted from zero.
OffsetFromZero(number, n) == (number * n) % Modulus

\* Pagination.Offset: page number 0 is the first page; uint32 arithmetic wraps.
Offset(number, n) ==
    LET first == IF number > 1 THEN number ELSE 1 IN ((first - 1) * n) % Modulus

\* WHERE and ORDER BY name: the position of a row among those selected.
Selected(rows, f) == rows \cap f
Position(x, rows) == Cardinality({y \in rows : y < x})

\* Mutant: one row too many.
PageTooLong(rows, number, n) ==
    {x \in rows : /\ Position(x, rows) >= Offset(number, n)
                  /\ Position(x, rows) <= Offset(number, n) + n}

\* LIMIT n OFFSET o
Page(rows, number, n) ==
    {x \in rows : /\ Position(x, rows) >= Offset(number, n)
                  /\ Position(x, rows) < Offset(number, n) + n}

-----------------------------------------------------------------------------

TypeOK ==
    /\ table \subseteq Row
    /\ size \in PageSize
    /\ filter \in Filter
    /\ page \in PageNumber
    /\ seen \in [Row -> Nat]
    /\ stayed \subseteq table
    /\ created \in Nat /\ deleted \in Nat /\ created + deleted <= MaxChanges
    /\ done \in BOOLEAN

Init ==
    /\ table \in SUBSET Row
    /\ size \in PageSize
    /\ filter \in Filter
    /\ page = 0
    /\ seen = [x \in Row |-> 0]
    /\ stayed = table
    /\ created = 0 /\ deleted = 0
    /\ done = FALSE

Begin ==
    /\ page = 0
    /\ page' = 1
    /\ UNCHANGED <<table, size, filter, seen, stayed, created, deleted, done>>

\* Mutant: the page number is not advanced.
FetchSamePage ==
    /\ page > 0 /\ ~done
    /\ LET rows == Page(Selected(table, filter), page, size) IN
         /\ seen' = [x \in Row |-> IF x \in rows THEN 1 ELSE seen[x]]
         /\ done' = (Cardinality(rows) < size)
    /\ UNCHANGED <<table, size, filter, page, stayed, created, deleted>>

Fetch ==
    /\ page > 0 /\ ~done /\ page + 1 < Modulus
    /\ LET rows == Page(Selected(table, filter), page, size) IN
         /\ seen' = [x \in Row |-> seen[x] + (IF x \in rows THEN 1 ELSE 0)]
         /\ done' = (Cardinality(rows) < size)
    /\ page' = page + 1
    /\ UNCHANGED <<table, size, filter, stayed, created, deleted>>

\* Another client creates or deletes a brand between two pages.
Create(x) ==
    /\ page > 0 /\ ~done /\ created + deleted < MaxChanges
    /\ x \notin table
    /\ table' = table \cup {x}
    /\ created' = created + 1
    /\ UNCHANGED <<size, filter, page, seen, stayed, deleted, done>>

Delete(x) ==
    /\ page > 0 /\ ~done /\ created + deleted < MaxChanges
    /\ x \in table
    /\ table' = table \ {x}
    /\ stayed' = stayed \ {x}
    /\ deleted' = deleted + 1
    /\ UNCHANGED <<size, filter, page, seen, created, done>>

Next == Begin \/ Fetch \/ \E x \in Row : Create(x) \/ Delete(x)

Spec == Init /\ [][Next]_vars

FairSpec == Spec /\ WF_vars(Begin) /\ WF_vars(Fetch)

-----------------------------------------------------------------------------
(* Properties *)

\* A walk over a table nobody changes gives every selected row exactly once, and
\* no other row.
QuietWalkIsExact ==
    done /\ created = 0 /\ deleted = 0 =>
        \A x \in Row : seen[x] = IF x \in Selected(table, filter) THEN 1 ELSE 0

\* Creates shift rows to later pages: a row may be given twice, none that was
\* there all along is missed.
CreatesSkipNothing ==
    done /\ deleted = 0 => \A x \in Selected(stayed, filter) : seen[x] >= 1

\* Deletes shift rows to earlier pages: a row may be missed, none is given twice.
DeletesRepeatNothing ==
    created = 0 => \A x \in Row : seen[x] <= 1

\* A walk ends: the client cannot be kept on full pages for ever.
WalkEnds == <>done

\* domain/pagination.go: sizes and numbers convert "without overflow risk" and
\* the offset is "always a sane non-negative value": a page that begins behind
\* the last row is empty.
PagesBehindTheEndAreEmpty ==
    \A number \in PageNumber \ {0} :
        (number - 1) * size >= Cardinality(Selected(table, filter))
            => Page(Selected(table, filter), number, size) = {}

-----------------------------------------------------------------------------
(* The inductive invariant behind them *)

\* The pages so far span the positions below this one.
Covered == (page - 1) * size

\* A walk that has not begun was given nothing, and is not over.
BeginInv ==
    page = 0 => ~done /\ created = 0 /\ deleted = 0 /\ stayed = table

\* Every page but the last was full when it was fetched, so that the offset of
\* the next one does not wrap: there were that many rows, if there no longer are.
OffsetInv == ~done => Covered <= Cardinality(Row)

\* Without changes a walk has been given what the pages span, once.
QuietInv ==
    created = 0 /\ deleted = 0 =>
        \A x \in Row :
            seen[x] = IF /\ x \in Selected(table, filter)
                         /\ done \/ Position(x, Selected(table, filter)) < Covered
                      THEN 1 ELSE 0

\* Creates move a row out of the span, never into it.
CreateInv ==
    deleted = 0 =>
        \A x \in Selected(stayed, filter) :
            done \/ Position(x, Selected(table, filter)) < Covered => seen[x] >= 1

\* Deletes move a row into the span, never out of it.
DeleteInv ==
    created = 0 =>
        \A x \in Row :
            /\ seen[x] <= 1
            /\ seen[x] = 1 /\ ~done /\ x \in Selected(table, filter) =>
                  Position(x, Selected(table, filter)) < Covered

IInv ==
    /\ TypeOK /\ BeginInv /\ OffsetInv
    /\ QuietInv /\ CreateInv /\ DeleteInv
================================================================================
