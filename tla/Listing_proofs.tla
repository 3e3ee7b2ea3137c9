---------------------------- MODULE Listing_proofs ----------------------------
(***************************************************************************)
(* Proofs about Listing, for any rows, filters, page sizes and numbers of  *)
(* changes: what a position and a page are, and the inductive invariant    *)
(* IInv with the properties of walks that follow from it.                  *)
(***************************************************************************)
EXTENDS Listing, FiniteSetTheorems, TLAPS

-----------------------------------------------------------------------------
(* Positions *)

\* The rows before x, and how many.
Before(x, rows) == {y \in rows : y < x}

LEMMA RowsAreFinite ==
    ASSUME NEW rows \in SUBSET Row
    PROVE  /\ IsFiniteSet(rows) /\ rows \subseteq Nat
           /\ Cardinality(rows) \in Nat /\ Cardinality(rows) <= Cardinality(Row)
    BY ListingAssumption, FS_Subset, FS_CardinalityType

LEMMA PositionType ==
    ASSUME NEW rows \in SUBSET Row, NEW x
    PROVE  Position(x, rows) \in Nat
<1>1. Before(x, rows) \in SUBSET Row
    BY DEF Before
<1> QED
    BY <1>1, RowsAreFinite DEF Before, Position

\* A row is behind its predecessors, and they are fewer than the rows there are.
LEMMA PositionInRange ==
    ASSUME NEW rows \in SUBSET Row, NEW x \in rows
    PROVE  Position(x, rows) \in 0..(Cardinality(rows) - 1)
<1>1. Before(x, rows) \in SUBSET (rows \ {x})
    BY RowsAreFinite DEF Before
<1>2. IsFiniteSet(rows \ {x}) /\ Cardinality(rows \ {x}) = Cardinality(rows) - 1
    BY RowsAreFinite, FS_RemoveElement
<1>3. Cardinality(Before(x, rows)) <= Cardinality(rows) - 1
    BY <1>1, <1>2, FS_Subset
<1>4. Position(x, rows) = Cardinality(Before(x, rows))
    BY DEF Before, Position
<1> QED
    BY <1>3, <1>4, PositionType, RowsAreFinite

\* Positions are in the order of names.
LEMMA PositionOrder ==
    ASSUME NEW rows \in SUBSET Row, NEW x \in rows, NEW y \in rows, x < y
    PROVE  Position(x, rows) < Position(y, rows)
<1>1. /\ Before(x, rows) \in SUBSET Row
      /\ Before(y, rows) \in SUBSET Row
    BY DEF Before
<1>2. /\ x \notin Before(x, rows)
      /\ Before(x, rows) \cup {x} \in SUBSET Before(y, rows)
    BY RowsAreFinite DEF Before
<1>3. Cardinality(Before(x, rows) \cup {x}) = Cardinality(Before(x, rows)) + 1
    BY <1>1, <1>2, RowsAreFinite, FS_AddElement
<1>4. Cardinality(Before(x, rows)) + 1 <= Cardinality(Before(y, rows))
    BY <1>1, <1>2, <1>3, RowsAreFinite, FS_Subset
<1>5. /\ Position(x, rows) = Cardinality(Before(x, rows))
      /\ Position(y, rows) = Cardinality(Before(y, rows))
    BY DEF Before, Position
<1> QED
    BY <1>4, <1>5, PositionType

LEMMA PositionInjective ==
    ASSUME NEW rows \in SUBSET Row, NEW x \in rows, NEW y \in rows, x # y
    PROVE  Position(x, rows) # Position(y, rows)
<1>1. x < y \/ y < x
    BY RowsAreFinite
<1> QED
    BY <1>1, PositionOrder, PositionType

\* Every position below the number of rows is taken.
LEMMA PositionOnto ==
    ASSUME NEW rows \in SUBSET Row, NEW i \in 0..(Cardinality(rows) - 1)
    PROVE  \E x \in rows : Position(x, rows) = i
<1> DEFINE N == Cardinality(rows)
           f == [x \in rows |-> Position(x, rows)]
<1>1. N \in Nat
    BY RowsAreFinite
<1>2. f \in Injection(rows, 0..(N - 1))
    BY PositionInRange, PositionInjective DEF Injection, IsInjective
<1>3. IsFiniteSet(0..(N - 1)) /\ Cardinality(0..(N - 1)) = N
    BY <1>1, FS_Interval
<1>4. f \in Surjection(rows, 0..(N - 1))
    <2> HIDE DEF f
    <2> QED BY <1>2, <1>3, FS_Injection
<1> QED
    BY <1>4 DEF Surjection

\* More rows, later positions.
LEMMA PositionGrows ==
    ASSUME NEW rows \in SUBSET Row, NEW more \in SUBSET Row, rows \subseteq more, NEW x
    PROVE  Position(x, rows) <= Position(x, more)
<1>1. Before(x, rows) \in SUBSET Before(x, more)
    BY DEF Before
<1>2. IsFiniteSet(Before(x, more))
    BY RowsAreFinite DEF Before
<1>3. Cardinality(Before(x, rows)) <= Cardinality(Before(x, more))
    BY <1>1, <1>2, FS_Subset
<1> QED
    BY <1>3 DEF Before, Position

-----------------------------------------------------------------------------
(* Pages *)

\* The n rows from position k on.
Slice(rows, k, n) ==
    {x \in rows : Position(x, rows) >= k /\ Position(x, rows) < k + n}

\* A full page ends within the rows.
LEMMA FullPageFits ==
    ASSUME NEW rows \in SUBSET Row, NEW k \in Nat, NEW n \in Nat \ {0},
           Cardinality(Slice(rows, k, n)) >= n
    PROVE  k + n <= Cardinality(rows)
<1> DEFINE N == Cardinality(rows)
           P == Slice(rows, k, n)
           f == [x \in P |-> Position(x, rows)]
<1>1. N \in Nat /\ P \in SUBSET rows /\ P \in SUBSET Row
    BY RowsAreFinite DEF Slice
<1>2. f \in Injection(P, k..(N - 1))
    BY <1>1, PositionInRange, PositionInjective DEF Injection, IsInjective, Slice
<1>3. /\ IsFiniteSet(k..(N - 1))
      /\ Cardinality(k..(N - 1)) = IF k > N - 1 THEN 0 ELSE N - 1 - k + 1
    <2> HIDE DEF N
    <2> QED BY <1>1, FS_Interval
<1>4. Cardinality(P) <= Cardinality(k..(N - 1))
    <2> HIDE DEF f, P
    <2> QED BY <1>2, <1>3, FS_Injection
<1>5. Cardinality(P) \in Nat /\ Cardinality(P) >= n
    BY <1>1, RowsAreFinite
<1> QED
    BY <1>1, <1>3, <1>4, <1>5

\* A short page is the last one.
LEMMA ShortPageIsLast ==
    ASSUME NEW rows \in SUBSET Row, NEW k \in Nat, NEW n \in Nat \ {0},
           Cardinality(Slice(rows, k, n)) < n, NEW x \in rows
    PROVE  Position(x, rows) < k + n
<1> SUFFICES ASSUME Position(x, rows) >= k + n PROVE FALSE
    BY PositionType
<1> DEFINE N == Cardinality(rows)
           P == Slice(rows, k, n)
           f == [i \in k..(k + n - 1) |->
                    CHOOSE y \in rows : Position(y, rows) = i]
<1>1. N \in Nat /\ P \in SUBSET Row /\ Cardinality(P) \in Nat /\ IsFiniteSet(P)
    BY RowsAreFinite DEF Slice
<1>2. \A i \in k..(k + n - 1) : i \in 0..(N - 1)
    BY <1>1, PositionInRange
<1>3. \A i \in k..(k + n - 1) : f[i] \in rows /\ Position(f[i], rows) = i
    BY <1>2, PositionOnto
<1>4. f \in Injection(k..(k + n - 1), P)
    BY <1>3 DEF Injection, IsInjective, Slice
<1>5. Cardinality(k..(k + n - 1)) = n
    BY FS_Interval
<1>6. Cardinality(k..(k + n - 1)) <= Cardinality(P)
    <2> HIDE DEF f, P
    <2> QED BY <1>1, <1>4, FS_Injection
<1> QED
    BY <1>1, <1>5, <1>6

-----------------------------------------------------------------------------
(* The walk *)

\* What a query selects are rows.
LEMMA SelectedType ==
    TypeOK => /\ Selected(table, filter) \in SUBSET Row
              /\ Selected(stayed, filter) \in SUBSET Selected(table, filter)
    BY DEF TypeOK, Selected

\* The walk asks for the rows that follow those its pages span: the offset of
\* its next page does not wrap.
LEMMA NextPage ==
    ASSUME TypeOK, OffsetInv, page > 0, ~done, NEW rows
    PROVE  /\ Covered \in Nat /\ size \in Nat \ {0}
           /\ Page(rows, page, size) = Slice(rows, Covered, size)
<1>1. page \in Nat /\ size \in Nat \ {0} /\ Modulus \in Nat \ {0}
    BY ListingAssumption DEF TypeOK, PageNumber, PageSize
<1>2. page - 1 \in Nat
    BY <1>1
<1>3. Covered \in Nat
    BY <1>1, <1>2 DEF Covered
<1>4. Covered < Modulus
    BY <1>1, <1>3, ListingAssumption, RowsAreFinite DEF OffsetInv
<1>5. (IF page > 1 THEN page ELSE 1) = page
    BY <1>1
<1>6. Offset(page, size) = Covered % Modulus
    BY <1>5 DEF Offset, Covered
<1>7. Covered % Modulus = Covered
    <2> DEFINE c == Covered
    <2>1. c \in Nat /\ c < Modulus
        BY <1>3, <1>4
    <2> HIDE DEF c
    <2>2. c % Modulus = c
        BY <1>1, <2>1
    <2> QED
        BY <2>2 DEF c
<1> QED
    BY <1>1, <1>3, <1>6, <1>7 DEF Page, Slice

\* What one more page does: it gives each row of the next stretch once, ends
\* within the rows if it is full and is the last if it is not.
LEMMA FetchFacts ==
    ASSUME IInv, Fetch
    PROVE  /\ Covered \in Nat /\ size \in Nat \ {0} /\ Covered' = Covered + size
           /\ \A x \in Row :
                 seen'[x] = seen[x]
                            + IF x \in Slice(Selected(table, filter), Covered, size)
                              THEN 1 ELSE 0
           /\ done' => \A x \in Selected(table, filter) :
                          Position(x, Selected(table, filter)) < Covered'
           /\ ~done' => Covered' <= Cardinality(Row)
<1> DEFINE S == Selected(table, filter)
           P == Slice(S, Covered, size)
<1>1. TypeOK /\ OffsetInv /\ page > 0 /\ ~done
    BY DEF IInv, Fetch
<1>2. S \in SUBSET Row
    BY <1>1, SelectedType
<1>3. Covered \in Nat /\ size \in Nat \ {0} /\ Page(S, page, size) = P
    BY <1>1, NextPage
<1>4. Covered' = Covered + size
    <2>1. page' = page + 1 /\ size' = size /\ page \in Nat
        BY <1>1, ListingAssumption DEF Fetch, TypeOK, PageNumber
    <2> QED
        BY <2>1, <1>3 DEF Covered
<1>5. /\ seen' = [x \in Row |-> seen[x] + (IF x \in P THEN 1 ELSE 0)]
      /\ done' = (Cardinality(P) < size)
    BY <1>3 DEF Fetch
<1>6. P \in SUBSET Row
    BY <1>2 DEF Slice
<1>7. ASSUME done', NEW x \in S PROVE Position(x, S) < Covered'
    <2> HIDE DEF S
    <2> QED BY <1>2, <1>3, <1>4, <1>5, <1>7, ShortPageIsLast
<1>8. ASSUME ~done' PROVE Covered' <= Cardinality(Row)
    <2>1. Cardinality(P) >= size
        <3>1. Cardinality(P) \in Nat
            BY <1>6, RowsAreFinite
        <3>2. ~(Cardinality(P) < size)
            BY <1>5, <1>8, Zenon
        <3> HIDE DEF P
        <3> QED BY <1>3, <3>1, <3>2
    <2>2. Covered + size <= Cardinality(S)
        <3> HIDE DEF S
        <3> QED BY <1>2, <1>3, <2>1, FullPageFits
    <2> QED
        BY <1>2, <1>3, <1>4, <2>2, RowsAreFinite
<1> QED
    BY <1>3, <1>4, <1>5, <1>7, <1>8

\* Another client's create or delete moves no row forward or back, respectively.
LEMMA ChangeFacts ==
    ASSUME TypeOK, NEW x \in Row
    PROVE  /\ Create(x) => /\ Selected(table, filter)' \in SUBSET Row
                           /\ \A y \in Row :
                                 Position(y, Selected(table, filter))
                                    <= Position(y, Selected(table, filter)')
           /\ Delete(x) => /\ Selected(table, filter)' \in SUBSET Selected(table, filter)
                           /\ \A y \in Row :
                                 Position(y, Selected(table, filter)')
                                    <= Position(y, Selected(table, filter))
<1> DEFINE S == Selected(table, filter)
           T == Selected(table, filter)'
<1>1. S \in SUBSET Row
    BY SelectedType
<1>2. ASSUME Create(x)
      PROVE T \in SUBSET Row /\ \A y \in Row : Position(y, S) <= Position(y, T)
    <2>1. T \in SUBSET Row /\ S \subseteq T
        BY <1>2 DEF Create, TypeOK, Selected
    <2> HIDE DEF S, T
    <2> QED BY <1>1, <2>1, PositionGrows
<1>3. ASSUME Delete(x)
      PROVE T \in SUBSET S /\ \A y \in Row : Position(y, T) <= Position(y, S)
    <2>1. T \in SUBSET S
        BY <1>3 DEF Delete, TypeOK, Selected
    <2>2. T \in SUBSET Row
        BY <1>1, <2>1
    <2> HIDE DEF S, T
    <2> QED BY <1>1, <2>1, <2>2, PositionGrows
<1> QED
    BY <1>2, <1>3

-----------------------------------------------------------------------------
(* The invariant *)

LEMMA InitIInv == Init => IInv
<1> SUFFICES ASSUME Init PROVE IInv
    OBVIOUS
<1> USE DEF Init
<1>1. TypeOK
    <2>1. /\ table \subseteq Row /\ size \in PageSize /\ filter \in Filter
          /\ stayed \subseteq table /\ done \in BOOLEAN
        BY Zenon
    <2>2. seen \in [Row -> Nat]
        OBVIOUS
    <2>3. created \in Nat /\ deleted \in Nat /\ created + deleted <= MaxChanges
        BY ListingAssumption
    <2>4. page \in PageNumber
        BY ListingAssumption DEF PageNumber
    <2> QED
        BY <2>1, <2>2, <2>3, <2>4 DEF TypeOK
<1>2. size \in Nat \ {0} /\ Covered = 0 - size
    BY ListingAssumption DEF PageSize, Covered
<1>3. \A x : Position(x, Selected(table, filter)) \in Nat
    BY <1>1, SelectedType, PositionType
<1>4. \A x : ~(Position(x, Selected(table, filter)) < Covered)
    BY <1>2, <1>3
<1>5. OffsetInv
    BY <1>2, RowsAreFinite DEF OffsetInv
<1>6. BeginInv /\ QuietInv /\ CreateInv /\ DeleteInv
    BY <1>4 DEF BeginInv, QuietInv, CreateInv, DeleteInv, Selected
<1> QED
    BY <1>1, <1>5, <1>6 DEF IInv

LEMMA TypeStep == TypeOK /\ [Next]_vars => TypeOK'
<1> SUFFICES ASSUME TypeOK, [Next]_vars PROVE TypeOK'
    OBVIOUS
<1> USE DEF TypeOK
<1>1. CASE Begin
    BY <1>1, ListingAssumption DEF Begin, PageNumber
<1>2. CASE Fetch
    <2>1. page' \in PageNumber
        BY <1>2, ListingAssumption DEF Fetch, PageNumber
    <2>2. seen' \in [Row -> Nat]
        BY <1>2 DEF Fetch
    <2>3. done' \in BOOLEAN
        BY <1>2 DEF Fetch
    <2> QED
        BY <1>2, <2>1, <2>2, <2>3 DEF Fetch
<1>3. ASSUME NEW x \in Row, Create(x) PROVE TypeOK'
    BY <1>3, ListingAssumption DEF Create
<1>4. ASSUME NEW x \in Row, Delete(x) PROVE TypeOK'
    BY <1>4, ListingAssumption DEF Delete
<1>5. CASE UNCHANGED vars
    BY <1>5 DEF vars
<1> QED
    BY <1>1, <1>2, <1>3, <1>4, <1>5 DEF Next

\* The first request finds what the invariant says of a walk that has not begun.
LEMMA BeginStep ==
    ASSUME IInv, Begin
    PROVE  (BeginInv /\ OffsetInv /\ QuietInv /\ CreateInv /\ DeleteInv)'
<1>1. /\ TypeOK /\ page = 0 /\ page' = 1 /\ ~done /\ size \in Nat \ {0}
      /\ UNCHANGED <<table, size, filter, seen, stayed, created, deleted, done>>
    BY ListingAssumption DEF IInv, Begin, BeginInv, TypeOK, PageSize
<1>2. Covered = 0 - size /\ Covered' = 0
    BY <1>1 DEF Covered
<1>3. \A x : Position(x, Selected(table, filter)) \in Nat
    BY <1>1, SelectedType, PositionType
<1>4. \A x : /\ ~(Position(x, Selected(table, filter)) < Covered)
             /\ ~(Position(x, Selected(table, filter)) < Covered')
    BY <1>1, <1>2, <1>3
<1>5. Selected(table, filter)' = Selected(table, filter)
    BY <1>1 DEF Selected
<1>6. OffsetInv' /\ BeginInv'
    BY <1>1, <1>2, RowsAreFinite DEF OffsetInv, BeginInv
<1>7. QuietInv'
    BY <1>1, <1>4, <1>5 DEF IInv, QuietInv
<1>8. CreateInv'
    BY <1>1, <1>4, <1>5 DEF CreateInv, Selected
<1>9. created = 0 /\ deleted = 0
    BY <1>1 DEF IInv, BeginInv
<1>10. DeleteInv'
    BY <1>1, <1>4, <1>5, <1>9 DEF IInv, QuietInv, DeleteInv
<1> QED
    BY <1>6, <1>7, <1>8, <1>10

\* One more page extends the span by its size.
LEMMA FetchStep ==
    ASSUME IInv, Fetch
    PROVE  (BeginInv /\ OffsetInv /\ QuietInv /\ CreateInv /\ DeleteInv)'
<1> DEFINE S == Selected(table, filter)
           pos(x) == Position(x, S)
           In(x) == x \in S /\ pos(x) >= Covered /\ pos(x) < Covered'
<1>1. /\ TypeOK /\ ~done /\ page' = page + 1 /\ page > 0 /\ page \in Nat
      /\ UNCHANGED <<table, size, filter, stayed, created, deleted>>
    BY ListingAssumption DEF IInv, Fetch, TypeOK, PageNumber
<1>2. \A x \in Row : seen'[x] = seen[x] + IF In(x) THEN 1 ELSE 0
    BY FetchFacts DEF Slice
<1>3. \A x : pos(x) \in Nat
    BY <1>1, SelectedType, PositionType
<1>4. Covered \in Nat /\ Covered' \in Nat /\ Covered <= Covered'
    BY FetchFacts
<1>5. done' => \A x \in S : pos(x) < Covered'
    BY FetchFacts
<1>6. Selected(table, filter)' = S
    BY <1>1 DEF Selected
<1>7. \A x \in Row : seen[x] \in Nat
    BY <1>1 DEF TypeOK
<1> HIDE DEF S
<1>8. BeginInv'
    BY <1>1 DEF BeginInv
<1>9. OffsetInv'
    BY FetchFacts DEF OffsetInv
<1>10. ASSUME QuietInv PROVE QuietInv'
    <2> SUFFICES ASSUME created = 0, deleted = 0, NEW x \in Row
                 PROVE  seen'[x] = IF x \in S /\ (done' \/ pos(x) < Covered') THEN 1 ELSE 0
        BY <1>1, <1>6 DEF QuietInv
    <2>1. seen[x] = IF x \in S /\ pos(x) < Covered THEN 1 ELSE 0
        BY <1>1, <1>10 DEF QuietInv, S
    <2> QED
        BY <1>2, <1>3, <1>4, <1>5, <2>1
<1>11. ASSUME CreateInv PROVE CreateInv'
    <2> SUFFICES ASSUME deleted = 0, NEW x \in Selected(stayed, filter),
                        done' \/ pos(x) < Covered'
                 PROVE  seen'[x] >= 1
        BY <1>1, <1>6 DEF CreateInv, Selected
    <2>1. x \in S /\ x \in Row
        BY <1>1, SelectedType DEF S
    <2>2. pos(x) < Covered => seen[x] >= 1
        BY <1>1, <1>11 DEF CreateInv, S
    <2> QED
        BY <1>2, <1>3, <1>4, <1>5, <1>7, <2>1, <2>2
<1>12. ASSUME DeleteInv PROVE DeleteInv'
    <2> SUFFICES ASSUME created = 0, NEW x \in Row
                 PROVE  /\ seen'[x] <= 1
                        /\ seen'[x] = 1 /\ x \in S => pos(x) < Covered'
        BY <1>1, <1>6 DEF DeleteInv
    <2>1. seen[x] <= 1 /\ (seen[x] = 1 /\ x \in S => pos(x) < Covered)
        BY <1>1, <1>12 DEF DeleteInv, S
    <2> QED
        BY <1>2, <1>3, <1>4, <1>7, <2>1
<1> QED
    BY <1>8, <1>9, <1>10, <1>11, <1>12 DEF IInv

\* A new brand moves rows back, out of the span or within it.
LEMMA CreateStep ==
    ASSUME IInv, NEW x \in Row, Create(x)
    PROVE  (BeginInv /\ OffsetInv /\ QuietInv /\ CreateInv /\ DeleteInv)'
<1>1. /\ TypeOK /\ page > 0 /\ ~done /\ created \in Nat /\ created' = created + 1
      /\ UNCHANGED <<size, filter, page, seen, stayed, deleted, done>>
    BY DEF IInv, Create, TypeOK
<1>2. Covered' = Covered /\ created' # 0 /\ Covered \in Int
    BY <1>1, ListingAssumption DEF Covered, TypeOK, PageNumber, PageSize
<1>3. BeginInv' /\ OffsetInv' /\ QuietInv' /\ DeleteInv'
    BY <1>1, <1>2 DEF IInv, BeginInv, OffsetInv, QuietInv, DeleteInv
<1>4. CreateInv'
    <2> DEFINE S == Selected(table, filter)
               T == Selected(table, filter)'
    <2> SUFFICES ASSUME deleted = 0, NEW y \in Selected(stayed, filter),
                        Position(y, T) < Covered
                 PROVE  seen[y] >= 1
        BY <1>1, <1>2 DEF CreateInv, Selected
    <2>1. y \in Row
        BY <1>1, SelectedType
    <2>2. Position(y, S) <= Position(y, T) /\ T \in SUBSET Row /\ S \in SUBSET Row
        BY <1>1, <2>1, ChangeFacts, SelectedType
    <2>3. Position(y, S) \in Nat /\ Position(y, T) \in Nat
        <3> HIDE DEF S, T
        <3> QED BY <2>2, PositionType
    <2>4. Position(y, S) < Covered
        BY <1>2, <2>2, <2>3
    <2> QED
        BY <2>4 DEF IInv, CreateInv
<1> QED
    BY <1>3, <1>4

\* A brand that goes moves rows forward, into the span or within it.
LEMMA DeleteStep ==
    ASSUME IInv, NEW x \in Row, Delete(x)
    PROVE  (BeginInv /\ OffsetInv /\ QuietInv /\ CreateInv /\ DeleteInv)'
<1>1. /\ TypeOK /\ page > 0 /\ ~done /\ deleted \in Nat /\ deleted' = deleted + 1
      /\ UNCHANGED <<size, filter, page, seen, created, done>>
    BY DEF IInv, Delete, TypeOK
<1>2. Covered' = Covered /\ deleted' # 0 /\ Covered \in Int
    BY <1>1, ListingAssumption DEF Covered, TypeOK, PageNumber, PageSize
<1>3. BeginInv' /\ OffsetInv' /\ QuietInv' /\ CreateInv'
    BY <1>1, <1>2 DEF IInv, BeginInv, OffsetInv, QuietInv, CreateInv
<1>4. DeleteInv'
    <2> DEFINE S == Selected(table, filter)
               T == Selected(table, filter)'
    <2> SUFFICES ASSUME created = 0, NEW y \in Row
                 PROVE  /\ seen[y] <= 1
                        /\ seen[y] = 1 /\ y \in T => Position(y, T) < Covered
        BY <1>1, <1>2 DEF DeleteInv
    <2>1. seen[y] <= 1 /\ (seen[y] = 1 /\ y \in S => Position(y, S) < Covered)
        BY <1>1 DEF IInv, DeleteInv
    <2>2. Position(y, T) <= Position(y, S) /\ T \in SUBSET S /\ S \in SUBSET Row
        BY <1>1, ChangeFacts, SelectedType
    <2>3. Position(y, S) \in Nat /\ Position(y, T) \in Nat
        <3>1. T \in SUBSET Row
            BY <2>2
        <3> HIDE DEF S, T
        <3> QED BY <2>2, <3>1, PositionType
    <2> QED
        BY <1>2, <2>1, <2>2, <2>3
<1> QED
    BY <1>3, <1>4

LEMMA StutterStep == IInv /\ UNCHANGED vars => IInv'
    BY DEF IInv, vars, TypeOK, BeginInv, OffsetInv, QuietInv, CreateInv, DeleteInv,
           Covered

\* IInv holds in every state.
THEOREM Invariance == Spec => []IInv
<1>1. IInv /\ [Next]_vars => IInv'
    <2> SUFFICES ASSUME IInv, [Next]_vars PROVE IInv'
        OBVIOUS
    <2>1. TypeOK'
        BY TypeStep DEF IInv
    <2>2. CASE Begin
        BY <2>1, <2>2, BeginStep DEF IInv
    <2>3. CASE Fetch
        BY <2>1, <2>3, FetchStep DEF IInv
    <2>4. ASSUME NEW x \in Row, Create(x) PROVE IInv'
        BY <2>1, <2>4, CreateStep DEF IInv
    <2>5. ASSUME NEW x \in Row, Delete(x) PROVE IInv'
        BY <2>1, <2>5, DeleteStep DEF IInv
    <2>6. CASE UNCHANGED vars
        BY <2>6, StutterStep
    <2> QED
        BY <2>2, <2>3, <2>4, <2>5, <2>6 DEF Next
<1> QED
    BY <1>1, InitIInv, PTL DEF Spec

\* A walk over a table that nobody changes gives every selected row exactly once,
\* whatever the page size: Pagination.Offset and the order by name cut the rows
\* into pages without gap or overlap.
THEOREM QuietWalksAreExact == Spec => []QuietWalkIsExact
<1>1. IInv => QuietWalkIsExact
    BY DEF IInv, QuietInv, QuietWalkIsExact
<1> QED
    BY <1>1, Invariance, PTL

\* While brands are only created, a walk misses none that was there all along.
THEOREM CreatesHideNothing == Spec => []CreatesSkipNothing
<1>1. IInv => CreatesSkipNothing
    BY DEF IInv, CreateInv, CreatesSkipNothing
<1> QED
    BY <1>1, Invariance, PTL

\* While brands are only deleted, a walk is given no brand twice.
THEOREM DeletesShowNothingTwice == Spec => []DeletesRepeatNothing
<1>1. IInv => DeletesRepeatNothing
    BY DEF IInv, DeleteInv, DeletesRepeatNothing
<1> QED
    BY <1>1, Invariance, PTL

\* Pages end where the rows do: PagesBehindTheEndAreEmpty, which a run refutes, fails
\* for no other reason than uint32.  A page whose offset fits into it, and is behind
\* the last row, is empty, whatever the rows, the filter and the page size.
Fits(number) == (number - 1) * size < Modulus

FittingPagesEnd ==
    \A number \in PageNumber \ {0} :
        Fits(number) /\ (number - 1) * size >= Cardinality(Selected(table, filter))
            => Page(Selected(table, filter), number, size) = {}

THEOREM PagesEnd == Spec => []FittingPagesEnd
<1>1. TypeOK => FittingPagesEnd
    <2> SUFFICES ASSUME TypeOK, NEW number \in PageNumber \ {0}, Fits(number),
                        (number - 1) * size >= Cardinality(Selected(table, filter)),
                        NEW x \in Page(Selected(table, filter), number, size)
                 PROVE  FALSE
        BY DEF FittingPagesEnd
    <2> DEFINE k == number - 1
    <2>1. k \in Nat /\ size \in Nat /\ Modulus \in Nat \ {0}
        BY ListingAssumption DEF TypeOK, PageNumber, PageSize
    <2>2. Offset(number, size) = (k * size) % Modulus
        <3>1. CASE number > 1
            BY <3>1 DEF Offset
        <3>2. CASE ~(number > 1)
            <4>1. number = 1
                BY <3>2, ListingAssumption DEF PageNumber
            <4> QED
                BY <4>1 DEF Offset
        <3> QED
            BY <3>1, <3>2
    <2>3. k * size \in Nat /\ k * size < Modulus
        BY <2>1 DEF Fits
    <2> HIDE DEF k
    <2>4. Offset(number, size) = k * size
        BY <2>1, <2>2, <2>3
    <2>5. x \in Selected(table, filter) /\ Position(x, Selected(table, filter)) >= k * size
        BY <2>4 DEF Page
    <2>6. Position(x, Selected(table, filter))
              \in 0..(Cardinality(Selected(table, filter)) - 1)
        BY <2>5, SelectedType, PositionInRange
    <2>7. Cardinality(Selected(table, filter)) \in Nat
        BY SelectedType, RowsAreFinite
    <2> QED
        BY <2>3, <2>5, <2>6, <2>7 DEF k
<1>2. IInv => TypeOK
    BY DEF IInv
<1> QED
    BY <1>1, <1>2, Invariance, PTL
===============================================================================
