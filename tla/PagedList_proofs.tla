-------------------------- MODULE PagedList_proofs --------------------------
(***************************************************************************)
(* Theorems about PagedList for any table, any order of its rows and any   *)
(* size of the pages.                                                      *)
(***************************************************************************)
EXTENDS PagedList, FiniteSetTheorems, TLAPS

\* The rows that come before x whatever order the database gives equal ones.
Before(x) == {y \in listed : CreatedAt[y] < CreatedAt[x]}
Rank(x) == Cardinality(Before(x))

\* The rows the client has not been given.
Missing == (due \cap Distinct) \ got

\* Those of them that the offset has passed.
Skipped == {x \in Missing : Rank(x) < Offset(page)}

\* The client asks for the first page first and for none beyond the last.
PageInv ==
    /\ reader = "idle" => page = 1
    /\ reader # "done" => page <= MostPages

\* Each row the offset has passed was pushed over it when one left.
SkippedInv == Busy => Cardinality(Skipped) <= departed

\* The list has outgrown its count by the rows that raced with the select.
CountInv ==
    reader = "counted" =>
        Cardinality(listed) <= total + raced

\* The inductive invariant.
IInv ==
    TypeOK /\ PageInv /\ SkippedInv /\ CountInv /\ MissesAreBounded

-----------------------------------------------------------------------------
(* Pages and offsets *)

\* The clamp leaves a page of at least one row.
LEMMA PageSizeType == PageSize \in Nat /\ PageSize > 0
  BY RequestAssumption DEF PageSize

\* The division rounds up.
LEMMA PagesCover ==
    ASSUME NEW n \in Nat
    PROVE  /\ Pages(n) \in Nat /\ n <= Pages(n) * PageSize
           /\ Pages(n) * PageSize < n + PageSize
  <1> DEFINE S == PageSize
             a == n + S - 1
  <1>1. S \in Nat /\ S > 0 /\ a \in Nat
    BY PageSizeType
  <1> HIDE DEF S
  <1>2. /\ a \div S \in Nat /\ (a \div S) * S <= a /\ a < (a \div S) * S + S
        /\ (a \div S) * S \in Nat
    BY <1>1, SMT
  <1> DEFINE q == (a \div S) * S
  <1>3. q \in Nat /\ q <= a /\ a < q + S
    BY <1>2
  <1> HIDE DEF q
  <1>4. n <= q /\ q < n + S
    BY <1>1, <1>3
  <1> QED
    BY <1>2, <1>4 DEF q, S, Pages

\* More rows never make fewer pages.
LEMMA PagesMonotone ==
    ASSUME NEW n \in Nat, NEW m \in Nat, n <= m
    PROVE  Pages(n) <= Pages(m)
  <1> DEFINE S == PageSize
             x == Pages(n)
             y == Pages(m)
  <1>1. S \in Nat /\ S > 0 /\ x \in Nat /\ y \in Nat
    BY PageSizeType, PagesCover
  <1>2. x * S < n + S /\ m <= y * S
    BY PagesCover
  <1> HIDE DEF S, x, y
  <1>3. x * S \in Nat /\ y * S \in Nat
    BY <1>1
  <1>4. x * S < y * S + S
    BY <1>1, <1>2, <1>3
  <1>5. x <= y
    BY <1>1, <1>4, SMT
  <1> QED
    BY <1>5 DEF x, y

\* Offsets grow by a page, and the one after the last page is past the total.
LEMMA Offsets ==
    ASSUME NEW p \in Nat, p >= 1
    PROVE  /\ Offset(p) \in Nat /\ Offset(p + 1) = Offset(p) + PageSize
           /\ Offset(1) = 0
           /\ \A n \in Nat : p >= Pages(n) => n <= Offset(p + 1)
  <1> DEFINE S == PageSize
  <1>1. S \in Nat /\ S > 0
    BY PageSizeType
  <1>2. /\ Offset(p) = (p - 1) * S /\ Offset(p + 1) = (p + 1 - 1) * S
        /\ Offset(1) = (1 - 1) * S
    BY DEF Offset
  <1> HIDE DEF S
  <1>3. Offset(p) \in Nat /\ Offset(1) = 0
    BY <1>1, <1>2, SMT
  <1>4. (p + 1 - 1) * S = (p - 1) * S + S /\ (p + 1 - 1) * S = p * S
    BY <1>1, SMT
  <1>5. ASSUME NEW n \in Nat, p >= Pages(n) PROVE n <= Offset(p + 1)
    <2> DEFINE q == Pages(n)
    <2>1. q \in Nat /\ n <= q * S
      BY PagesCover DEF S
    <2> HIDE DEF q
    <2>2. q <= p
      BY <1>5, <2>1 DEF q
    <2>3. q * S <= p * S
      BY <1>1, <2>1, <2>2, SMT
    <2>4. q * S \in Nat /\ p * S \in Nat
      BY <1>1, <2>1
    <2> QED
      BY <1>2, <1>4, <2>1, <2>3, <2>4
  <1> QED
    BY <1>2, <1>3, <1>4, <1>5 DEF S

-----------------------------------------------------------------------------
(* Ranks *)

\* Sets of rows are finite.
LEMMA RowsFinite ==
    ASSUME NEW S \in SUBSET Rows
    PROVE  /\ IsFiniteSet(S) /\ Cardinality(S) \in Nat
           /\ Cardinality(S) <= Cardinality(Rows)
           /\ \A T \in SUBSET S : Cardinality(T) <= Cardinality(S)
  BY OrderAssumption, FS_Subset, FS_CardinalityType

\* A set with an element outside a subset is larger by one at least.
LEMMA LargerByOne ==
    ASSUME NEW S \in SUBSET Rows, NEW T \in SUBSET S, NEW x \in S \ T
    PROVE  Cardinality(T) + 1 <= Cardinality(S)
  <1>1. IsFiniteSet(T) /\ Cardinality(T) \in Nat /\ x \notin T
    BY RowsFinite
  <1>2. Cardinality(T \cup {x}) = Cardinality(T) + 1
    BY <1>1, FS_AddElement
  <1>3. T \cup {x} \in SUBSET S
    OBVIOUS
  <1>4. Cardinality(T \cup {x}) <= Cardinality(S)
    BY <1>3, RowsFinite
  <1> QED
    BY <1>2, <1>4

\* A rank is a place in the list.
LEMMA RankType ==
    ASSUME TypeOK, NEW x
    PROVE  /\ Before(x) \in SUBSET Rows /\ Rank(x) \in Nat
           /\ x \in listed => Rank(x) + 1 <= Cardinality(listed)
  <1>1. Before(x) \in SUBSET Rows /\ listed \in SUBSET Rows
    BY DEF Before, TypeOK
  <1>2. Rank(x) \in Nat
    BY <1>1, RowsFinite DEF Rank
  <1>3. ASSUME x \in listed PROVE Rank(x) + 1 <= Cardinality(listed)
    <2>1. CreatedAt[x] \in Nat
      BY <1>1, <1>3, OrderAssumption
    <2>2. Before(x) \in SUBSET listed /\ x \notin Before(x)
      BY <2>1 DEF Before
    <2> QED
      BY <1>1, <1>3, <2>2, LargerByOne DEF Rank
  <1> QED
    BY <1>1, <1>2, <1>3

\* Rows that share their place with no other have ranks of their own.
LEMMA RanksDiffer ==
    ASSUME TypeOK, NEW x \in listed \cap Distinct, NEW y \in listed \cap Distinct,
           Rank(x) = Rank(y)
    PROVE  x = y
  <1>1. ASSUME NEW a \in listed, NEW b \in listed, CreatedAt[a] < CreatedAt[b]
        PROVE  Rank(a) < Rank(b)
    <2>1. CreatedAt[a] \in Nat /\ CreatedAt[b] \in Nat /\ \A c \in listed : CreatedAt[c] \in Nat
      BY OrderAssumption DEF TypeOK
    <2>2. Before(a) \in SUBSET Before(b) /\ a \in Before(b) \ Before(a)
      BY <1>1, <2>1 DEF Before
    <2>3. Before(b) \in SUBSET Rows /\ Rank(a) \in Nat /\ Rank(b) \in Nat
      BY RankType
    <2>4. Rank(a) + 1 <= Rank(b)
      BY <2>2, <2>3, LargerByOne DEF Rank
    <2> QED
      BY <2>3, <2>4
  <1>2. CreatedAt[x] \in Nat /\ CreatedAt[y] \in Nat /\ x \in Rows /\ y \in Rows
    BY OrderAssumption DEF TypeOK
  <1>3. Rank(x) \in Nat /\ Rank(y) \in Nat
    BY RankType
  <1>4. CreatedAt[x] = CreatedAt[y]
    BY <1>1, <1>2, <1>3
  <1> QED
    BY <1>2, <1>4 DEF Distinct

\* A select returns each of them whose rank is on the page.
LEMMA SelectReturns ==
    ASSUME TypeOK, NEW p \in Nat, p >= 1, NEW items \in Selections(listed, p),
           NEW x \in listed \cap Distinct,
           Offset(p) <= Rank(x), Rank(x) < Offset(p + 1)
    PROVE  x \in items
  <1> DEFINE n == Cardinality(listed)
             S == PageSize
             from == IF Offset(p) < n THEN Offset(p) ELSE n
             to == IF from + S < n THEN from + S ELSE n
  <1>1. /\ items \in SUBSET listed /\ Cardinality(items) = to - from
        /\ \E before \in SUBSET (listed \ items) :
            /\ Cardinality(before) = from
            /\ \A u \in before, v \in listed \ before : CreatedAt[u] <= CreatedAt[v]
            /\ \A u \in items, v \in listed \ (before \cup items) : CreatedAt[u] <= CreatedAt[v]
    BY DEF Selections
  <1>2. PICK before \in SUBSET (listed \ items) :
            /\ Cardinality(before) = from
            /\ \A u \in before, v \in listed \ before : CreatedAt[u] <= CreatedAt[v]
            /\ \A u \in items, v \in listed \ (before \cup items) : CreatedAt[u] <= CreatedAt[v]
    BY <1>1
  <1>3. listed \in SUBSET Rows /\ \A c \in listed : CreatedAt[c] \in Nat
    BY OrderAssumption DEF TypeOK
  <1>4. /\ n \in Nat /\ S \in Nat /\ S > 0 /\ Offset(p) \in Nat /\ Rank(x) \in Nat
        /\ Rank(x) + 1 <= n /\ Rank(x) < Offset(p) + S
    BY <1>3, RowsFinite, PageSizeType, Offsets, RankType
  <1>5. from = Offset(p) /\ from \in Nat /\ to \in Nat /\ from <= Rank(x) /\ Rank(x) < to
    BY <1>4
  <1> HIDE DEF n, S, from, to
  <1>6. Before(x) \in SUBSET Rows /\ Before(x) \in SUBSET listed
    BY RankType DEF Before
  <1>7. ASSUME x \in before PROVE FALSE
    <2>1. Before(x) \in SUBSET before /\ x \notin Before(x)
      BY <1>2, <1>3, <1>7 DEF Before
    <2>2. Rank(x) + 1 <= Cardinality(before)
      <3>1. before \in SUBSET Rows
        BY <1>3
      <3> QED
        BY <1>7, <2>1, <3>1, LargerByOne DEF Rank
    <2> QED
      BY <1>2, <1>4, <1>5, <2>2
  <1>8. ASSUME x \notin before, x \notin items PROVE FALSE
    <2>1. \A u \in before \cup items : CreatedAt[u] <= CreatedAt[x] /\ u # x /\ u \in listed
      BY <1>1, <1>2, <1>8
    <2>2. \A u \in before \cup items : CreatedAt[u] # CreatedAt[x]
      BY <1>3, <2>1 DEF Distinct
    <2>3. before \cup items \in SUBSET Before(x)
      BY <1>3, <2>1, <2>2 DEF Before
    <2>4. Cardinality(before \cup items) <= Rank(x)
      BY <1>6, <2>3, RowsFinite DEF Rank
    <2>5. /\ IsFiniteSet(before) /\ IsFiniteSet(items) /\ Cardinality(before \cap items) = 0
          /\ Cardinality(before) \in Nat /\ Cardinality(items) \in Nat
      <3>1. before \in SUBSET Rows /\ items \in SUBSET Rows /\ before \cap items = {}
        BY <1>1, <1>3
      <3> QED
        BY <3>1, RowsFinite, FS_EmptySet
    <2>6. Cardinality(before \cup items)
            = Cardinality(before) + Cardinality(items) - Cardinality(before \cap items)
      BY <2>5, FS_Union
    <2> QED
      BY <1>1, <1>2, <1>4, <1>5, <2>4, <2>5, <2>6
  <1> QED
    BY <1>7, <1>8

\* There are no more rows with a rank from n on than the list is longer than n.
LEMMA LateRows ==
    ASSUME TypeOK, NEW n \in Nat
    PROVE  Cardinality({x \in listed \cap Distinct : Rank(x) >= n})
             <= IF n > Cardinality(listed) THEN 0 ELSE Cardinality(listed) - n
  <1> DEFINE Late == {x \in listed \cap Distinct : Rank(x) >= n}
             k == Cardinality(listed)
             T == n .. k - 1
             f == [x \in Late |-> Rank(x)]
  <1>1. k \in Nat /\ Late \in SUBSET Rows
    BY RowsFinite DEF TypeOK
  <1>2. \A x \in Late : Rank(x) \in Nat /\ Rank(x) + 1 <= k /\ Rank(x) >= n
    BY RankType
  <1>3. \A x, y \in Late : Rank(x) = Rank(y) => x = y
    BY RanksDiffer
  <1>4. IsFiniteSet(Late) /\ Cardinality(Late) \in Nat
    BY <1>1, RowsFinite
  <1> HIDE DEF Late, k
  <1>5. IsFiniteSet(T) /\ Cardinality(T) = IF n > k - 1 THEN 0 ELSE k - 1 - n + 1
    <2>1. k - 1 \in Int /\ n \in Int
      BY <1>1
    <2> QED
      BY <2>1, FS_Interval
  <1>6. f \in [Late -> T]
    BY <1>1, <1>2
  <1>7. ~(Cardinality(T) < Cardinality(Late))
    <2>1. ASSUME Cardinality(T) < Cardinality(Late) PROVE FALSE
      <3> HIDE DEF T, f
      <3>1. \E x, y \in Late : x # y /\ f[x] = f[y]
        BY <1>4, <1>5, <1>6, <2>1, FS_PigeonHole
      <3> QED
        BY <1>3, <3>1 DEF f
    <2> QED
      BY <2>1
  <1>8. Cardinality(Late) <= IF n > k THEN 0 ELSE k - n
    BY <1>1, <1>4, <1>5, <1>7
  <1> QED
    BY <1>8 DEF Late, k

-----------------------------------------------------------------------------
(* The steps *)

\* The invariant at the start.
LEMMA InitIInv == Init => IInv
  <1> SUFFICES ASSUME Init PROVE IInv
    OBVIOUS
  <1>1. Cardinality(Rows) \in Nat /\ (Rows # {} => Cardinality(Rows) >= 1)
    BY RowsFinite, OrderAssumption, FS_EmptySet
  <1>2. MostPages \in Nat /\ MostPages >= 1
    <2>1. CASE Rows = {}
      BY <2>1 DEF MostPages
    <2>2. CASE Rows # {}
      <3>1. MostPages = Pages(Cardinality(Rows))
        BY <2>2 DEF MostPages, Pages
      <3>2. MostPages \in Nat /\ 1 <= MostPages * PageSize
        BY <1>1, <2>2, <3>1, PagesCover, PageSizeType
      <3>3. MostPages # 0
        BY <3>2, PageSizeType
      <3> QED
        BY <3>2, <3>3
    <2> QED
      BY <2>1, <2>2
  <1>3. TypeOK
    BY <1>1, <1>2, BoundAssumption DEF Init, TypeOK
  <1>4. PageInv
    BY <1>2 DEF Init, PageInv
  <1>5. SkippedInv /\ CountInv /\ MissesAreBounded
    BY DEF Init, SkippedInv, CountInv, MissesAreBounded, Busy
  <1> QED
    BY <1>3, <1>4, <1>5 DEF IInv

\* A row that joins the list only pushes others further back.
LEMMA JoinPreserves ==
    ASSUME IInv, NEW r \in Rows, r \notin listed, Joins(r),
           table' = table \cup {r}, UNCHANGED <<reader, page, total, got, due, departed>>
    PROVE  IInv'
  <1> USE DEF IInv
  <1>1. listed' = listed \cup {r} /\ raced' = IF reader = "counted" THEN raced + 1 ELSE raced
    BY DEF Joins
  <1>2. TypeOK'
    BY <1>1 DEF TypeOK
  <1>3. PageInv'
    BY <1>1 DEF PageInv
  <1>4. Missing' = Missing
    BY DEF Missing
  <1>5. SkippedInv'
    <2>1. ASSUME NEW x PROVE Rank(x) \in Nat /\ Rank(x)' \in Nat /\ Rank(x) <= Rank(x)'
      <3>1. Before(x) \in SUBSET Before(x)' /\ Before(x)' \in SUBSET Rows
        BY <1>1, <1>2 DEF Before, TypeOK
      <3>2. Before(x) \in SUBSET Rows
        BY <3>1
      <3> QED
        BY <3>1, <3>2, RowsFinite DEF Rank
    <2>2. page \in Nat /\ page >= 1
      BY DEF TypeOK
    <2>3. Offset(page) \in Nat /\ Offset(page)' = Offset(page)
      BY <2>2, Offsets DEF Offset
    <2>4. Skipped' \in SUBSET Skipped
      BY <1>4, <2>1, <2>3 DEF Skipped
    <2>5. Skipped \in SUBSET Rows /\ departed \in Nat
      BY BoundAssumption DEF Skipped, Missing, TypeOK
    <2>6. /\ Cardinality(Skipped') <= Cardinality(Skipped)
          /\ Cardinality(Skipped') \in Nat /\ Cardinality(Skipped) \in Nat
      <3>1. Skipped' \in SUBSET Rows
        BY <2>4, <2>5
      <3> QED
        BY <2>4, <2>5, <3>1, RowsFinite
    <2> QED
      BY <2>5, <2>6 DEF SkippedInv, Busy
  <1>6. CountInv'
    <2> SUFFICES ASSUME reader = "counted"
                 PROVE  Cardinality(listed') <= total' + raced'
      BY DEF CountInv
    <2>1. Cardinality(listed) <= total + raced /\ raced' = raced + 1
      BY <1>1 DEF CountInv
    <2>2. /\ IsFiniteSet(listed) /\ Cardinality(listed) \in Nat
          /\ raced \in Nat /\ total \in Nat
      BY RowsFinite DEF TypeOK
    <2>3. Cardinality(listed') = Cardinality(listed) + 1
      BY <1>1, <2>2, FS_AddElement
    <2> QED
      BY <2>1, <2>2, <2>3
  <1>7. MissesAreBounded'
    BY <1>1, <1>4 DEF MissesAreBounded, Missing
  <1> QED
    BY <1>2, <1>3, <1>5, <1>6, <1>7

\* A row that leaves moves one other over the edge of a page at most: only one
\* has the rank that is equal to the offset.
LEMMA LeavePreserves ==
    ASSUME IInv, NEW r \in listed, Leaves(r), UNCHANGED <<raced, table, reader, page, total, got>>
    PROVE  IInv'
  <1> USE DEF IInv
  <1>1. /\ listed' = listed \ {r} /\ due' = due \ {r}
        /\ (Busy => departed < MaxDepartures)
        /\ departed' = IF Busy THEN departed + 1 ELSE departed
    BY DEF Leaves
  <1>2. r \in Rows /\ r \in table
    BY DEF TypeOK
  <1>3. TypeOK'
    BY <1>1, <1>2, BoundAssumption DEF TypeOK
  <1>4. PageInv'
    BY <1>1, <1>2 DEF PageInv
  <1>5. Missing' \in SUBSET Missing /\ Missing \in SUBSET Rows /\ Missing \in SUBSET listed
    BY <1>1 DEF Missing, TypeOK
  <1>6. SkippedInv'
    <2> SUFFICES ASSUME Busy PROVE Cardinality(Skipped') <= departed'
      BY DEF SkippedInv, Busy
    <2>1. ASSUME NEW x PROVE Rank(x) \in Nat /\ Rank(x)' \in Nat /\ Rank(x) <= Rank(x)' + 1
      <3>1. Before(x) \in SUBSET Rows /\ Before(x)' = Before(x) \ {r}
        BY <1>1 DEF Before, TypeOK
      <3>2. IsFiniteSet(Before(x)) /\ Cardinality(Before(x)) \in Nat
        BY <3>1, RowsFinite
      <3>3. Cardinality(Before(x) \ {r})
              = IF r \in Before(x) THEN Cardinality(Before(x)) - 1 ELSE Cardinality(Before(x))
        BY <3>2, FS_RemoveElement
      <3>4. Cardinality(Before(x) \ {r}) \in Nat
        BY <3>1, RowsFinite
      <3> QED
        BY <3>1, <3>2, <3>3, <3>4 DEF Rank
    <2>2. Offset(page) \in Nat /\ Offset(page)' = Offset(page)
      <3>1. page \in Nat /\ page >= 1
        BY DEF TypeOK
      <3> QED
        BY <3>1, Offsets DEF Offset
    <2> DEFINE Edge == {x \in Missing : Rank(x) = Offset(page)}
    <2>3. Skipped' \in SUBSET (Skipped \cup Edge)
      <3> SUFFICES ASSUME NEW x \in Missing', Rank(x)' < Offset(page) PROVE x \in Skipped \cup Edge
        BY <2>2 DEF Skipped
      <3>1. x \in Missing /\ Rank(x) <= Offset(page)
        BY <1>5, <2>1, <2>2
      <3> QED
        BY <2>1, <2>2, <3>1 DEF Skipped
    <2>4. Edge \in SUBSET Rows /\ Skipped \in SUBSET Rows /\ Edge \cap Skipped = {}
      BY <1>5, <2>1, <2>2 DEF Skipped
    <2>5. \A x, y \in Edge : x = y
      <3>1. Edge \in SUBSET (listed \cap Distinct)
        BY <1>5 DEF Missing
      <3> QED
        BY <3>1, RanksDiffer
    <2> HIDE DEF Edge
    <2>6. IsFiniteSet(Edge) /\ Cardinality(Edge) \in 0 .. 1
      <3>1. CASE Edge = {}
        BY <3>1, FS_EmptySet
      <3>2. CASE Edge # {}
        <4>1. PICK x : x \in Edge
          BY <3>2
        <4>2. Edge = {x}
          BY <2>5, <4>1
        <4>3. IsFiniteSet({x}) /\ Cardinality({x}) = 1
          BY FS_Singleton
        <4> QED
          BY <4>2, <4>3
      <3> QED
        BY <3>1, <3>2
    <2>7. IsFiniteSet(Skipped) /\ Cardinality(Skipped) \in Nat
      BY <2>4, RowsFinite
    <2>8. Cardinality(Skipped \cup Edge) <= Cardinality(Skipped) + 1
      <3>1. Cardinality(Skipped \cup Edge)
              = Cardinality(Skipped) + Cardinality(Edge) - Cardinality(Skipped \cap Edge)
        BY <2>6, <2>7, FS_Union
      <3>2. Cardinality(Skipped \cap Edge) = 0
        <4>1. Skipped \cap Edge = {}
          BY <2>4
        <4> QED
          BY <4>1, FS_EmptySet
      <3> QED
        BY <2>6, <2>7, <3>1, <3>2
    <2>9. /\ Cardinality(Skipped') <= Cardinality(Skipped \cup Edge)
          /\ Cardinality(Skipped') \in Nat /\ Cardinality(Skipped \cup Edge) \in Nat
      <3>1. Skipped \cup Edge \in SUBSET Rows
        BY <2>4
      <3>2. Skipped' \in SUBSET Rows
        BY <2>3, <3>1
      <3> QED
        BY <2>3, <3>1, <3>2, RowsFinite
    <2>10. departed' = departed + 1 /\ departed \in Nat
      BY <1>1, BoundAssumption DEF TypeOK
    <2>11. Cardinality(Skipped) <= departed
      BY DEF SkippedInv
    <2> QED
      BY <2>7, <2>8, <2>9, <2>10, <2>11
  <1>7. CountInv'
    <2> SUFFICES ASSUME reader = "counted"
                 PROVE  Cardinality(listed') <= total' + raced'
      BY DEF CountInv
    <2>1. Cardinality(listed) <= total + raced
      BY DEF CountInv
    <2>2. /\ Cardinality(listed') <= Cardinality(listed)
          /\ Cardinality(listed') \in Nat /\ Cardinality(listed) \in Nat
          /\ raced \in Nat /\ total \in Nat
      <3>1. listed \in SUBSET Rows /\ listed' \in SUBSET Rows /\ listed' \in SUBSET listed
        BY <1>1 DEF TypeOK
      <3> QED
        BY <3>1, RowsFinite DEF TypeOK
    <2> QED
      BY <2>1, <2>2
  <1>8. MissesAreBounded'
    <2> SUFFICES ASSUME reader = "done"
                 PROVE  Cardinality(Missing') <= departed + raced
      BY <1>1 DEF MissesAreBounded, Missing, Busy
    <2>1. Cardinality(Missing) <= departed + raced
      BY DEF MissesAreBounded, Missing
    <2>2. /\ Cardinality(Missing') <= Cardinality(Missing)
          /\ Cardinality(Missing') \in Nat /\ Cardinality(Missing) \in Nat
          /\ departed \in Nat /\ raced \in Nat
      <3>1. Missing' \in SUBSET Rows
        BY <1>5
      <3> QED
        BY <1>5, <3>1, RowsFinite DEF TypeOK
    <2> QED
      BY <2>1, <2>2
  <1> QED
    BY <1>3, <1>4, <1>6, <1>7, <1>8

\* Inserts and changes of status, of rows the filter matches or not.
LEMMA RowPreserves ==
    ASSUME IInv, NEW r \in Rows, Insert(r) \/ ChangeStatus(r)
    PROVE  IInv'
  <1>1. CASE r \notin listed /\ Joins(r) /\ table' = table \cup {r}
             /\ UNCHANGED <<reader, page, total, got, due, departed>>
    BY <1>1, JoinPreserves
  <1>2. CASE r \in listed /\ Leaves(r) /\ UNCHANGED <<raced, table, reader, page, total, got>>
    BY <1>2, LeavePreserves
  <1>3. CASE /\ table' = table \cup {r}
             /\ UNCHANGED <<listed, raced, reader, page, total, got, due, departed>>
    <2> USE DEF IInv
    <2>1. TypeOK' /\ PageInv' /\ CountInv' /\ MissesAreBounded'
      BY <1>3 DEF TypeOK, PageInv, CountInv, MissesAreBounded
    <2>2. Skipped' = Skipped
      BY <1>3 DEF Skipped, Missing, Rank, Before, Offset
    <2>3. SkippedInv'
      BY <1>3, <2>2 DEF SkippedInv, Busy
    <2> QED
      BY <2>1, <2>3
  <1>4. CASE Insert(r)
    <2>1. r \notin listed
      BY <1>4 DEF Insert, IInv, TypeOK
    <2> QED
      BY <1>1, <1>3, <1>4, <2>1 DEF Insert
  <1>5. CASE ChangeStatus(r)
    <2>1. r \in table /\ UNCHANGED <<table, reader, page, total, got>>
      BY <1>5 DEF ChangeStatus
    <2>2. table' = table \cup {r}
      BY <2>1
    <2> QED
      BY <1>1, <1>2, <1>5, <2>1, <2>2 DEF ChangeStatus
  <1> QED
    BY <1>4, <1>5

\* The client begins.
LEMMA BeginPreserves ==
    ASSUME IInv, Begin
    PROVE  IInv'
  <1> USE DEF IInv
  <1>1. /\ reader = "idle" /\ reader' = "asking" /\ due' = listed
        /\ UNCHANGED <<table, listed, page, total, got, departed, raced>>
    BY DEF Begin
  <1>2. TypeOK' /\ PageInv' /\ CountInv' /\ MissesAreBounded'
    BY <1>1 DEF TypeOK, PageInv, CountInv, MissesAreBounded
  <1>3. SkippedInv'
    <2>1. page' = 1 /\ Offset(1) = 0
      BY <1>1, Offsets DEF PageInv
    <2>2. Offset(page)' = 0
      BY <2>1 DEF Offset
    <2>3. \A x : Rank(x)' \in Nat
      <3> TAKE x
      <3>1. Before(x)' \in SUBSET Rows
        BY <1>2 DEF Before, TypeOK
      <3> QED
        BY <3>1, RowsFinite DEF Rank
    <2>4. Skipped' = {}
      BY <2>2, <2>3 DEF Skipped
    <2>5. departed' \in Nat
      BY <1>2, RowsFinite DEF TypeOK
    <2> QED
      BY <2>4, <2>5, FS_EmptySet DEF SkippedInv
  <1> QED
    BY <1>2, <1>3

\* SELECT count(*)
LEMMA CountPreserves ==
    ASSUME IInv, Count
    PROVE  IInv'
  <1> USE DEF IInv
  <1>1. /\ reader = "asking" /\ reader' = "counted" /\ total' = Cardinality(listed) /\ raced' = 0
        /\ UNCHANGED <<table, listed, page, got, due, departed>>
    BY DEF Count
  <1>2. Cardinality(listed) \in Nat /\ Cardinality(listed) <= Cardinality(Rows)
    BY RowsFinite DEF TypeOK
  <1>3. Cardinality(Rows) \in Nat
    BY RowsFinite
  <1>4. TypeOK' /\ PageInv' /\ MissesAreBounded'
    BY <1>1, <1>2, <1>3 DEF TypeOK, PageInv, MissesAreBounded
  <1>5. Skipped' = Skipped
    BY <1>1 DEF Skipped, Missing, Rank, Before, Offset
  <1>6. SkippedInv'
    BY <1>1, <1>5 DEF SkippedInv, Busy
  <1>7. CountInv'
    BY <1>1, <1>2, FS_EmptySet DEF CountInv
  <1> QED
    BY <1>4, <1>6, <1>7

\* The select of a page: what it does not return is before the offset, and the
\* last one leaves behind no more rows than raced with it.
LEMMA SelectPreserves ==
    ASSUME IInv, Select
    PROVE  IInv'
  <1> USE DEF IInv
  <1>1. /\ reader = "counted" /\ page' = page + 1
        /\ reader' = IF page >= Pages(total) THEN "done" ELSE "asking"
        /\ UNCHANGED <<table, listed, total, due, departed, raced>>
    BY DEF Select
  <1>2. PICK items \in Selections(listed, page) : got' = got \cup items
    BY DEF Select
  <1>3. items \in SUBSET listed
    BY DEF Selections
  <1>4. page \in Nat /\ page >= 1 /\ page <= MostPages
    BY <1>1 DEF TypeOK, PageInv
  <1>5. total \in Nat /\ total <= Cardinality(Rows) /\ Cardinality(Rows) \in Nat
    BY RowsFinite DEF TypeOK
  <1>6. MostPages \in Nat /\ Pages(total) \in Nat /\ (reader' # "done" => page + 1 <= MostPages)
    <2>1. CASE Rows = {}
      <3>1. total = 0 /\ MostPages = 1
        BY <1>5, <2>1, FS_EmptySet DEF MostPages
      <3>2. Pages(0) \in Nat /\ Pages(0) * PageSize < 0 + PageSize
        BY PagesCover
      <3>3. Pages(0) = 0
        BY <3>2, PageSizeType, SMT
      <3> QED
        BY <1>1, <1>4, <3>1, <3>3
    <2>2. CASE Rows # {}
      <3>1. MostPages = Pages(Cardinality(Rows))
        BY <2>2 DEF MostPages, Pages
      <3>2. Pages(total) <= MostPages /\ MostPages \in Nat /\ Pages(total) \in Nat
        BY <1>5, <3>1, PagesMonotone, PagesCover
      <3> QED
        BY <1>1, <1>4, <3>2
    <2> QED
      BY <2>1, <2>2
  <1>7. TypeOK'
    <2>1. page' \in 1 .. MostPages + 1
      BY <1>1, <1>4, <1>6
    <2> QED
      BY <1>1, <1>2, <1>3, <2>1 DEF TypeOK
  <1>8. PageInv' /\ CountInv'
    BY <1>1, <1>6 DEF PageInv, CountInv
  <1>9. \A x : Rank(x)' = Rank(x) /\ Rank(x) \in Nat
    BY <1>1, RankType DEF Rank, Before
  <1>10. Missing' \in SUBSET Missing /\ Missing \in SUBSET (listed \cap Distinct)
    BY <1>1, <1>2 DEF Missing, TypeOK
  <1>11. Offset(page)' = Offset(page + 1)
    BY <1>1 DEF Offset
  <1>12. /\ Offset(page) \in Nat /\ Offset(page + 1) \in Nat
         /\ \A n \in Nat : page >= Pages(n) => n <= Offset(page + 1)
    BY <1>4, Offsets, PageSizeType
  <1>13. Skipped' \in SUBSET Skipped
    <2> SUFFICES ASSUME NEW x \in Missing', Rank(x) < Offset(page + 1)
                 PROVE  x \in Skipped
      BY <1>9, <1>11 DEF Skipped
    <2>1. x \in Missing /\ x \in listed \cap Distinct /\ x \notin items
      BY <1>2, <1>10 DEF Missing
    <2>2. ~(Offset(page) <= Rank(x))
      BY <1>4, <2>1, SelectReturns
    <2> QED
      BY <1>9, <1>12, <2>1, <2>2 DEF Skipped
  <1>14. /\ Cardinality(Skipped') <= departed
         /\ Cardinality(Skipped') \in Nat /\ departed \in Nat /\ IsFiniteSet(Skipped')
    <2>1. Skipped \in SUBSET Rows /\ Skipped' \in SUBSET Rows /\ departed \in Nat
      BY <1>10, <1>13, BoundAssumption DEF Skipped, TypeOK
    <2>2. Cardinality(Skipped') <= Cardinality(Skipped)
      BY <1>13, <2>1, RowsFinite
    <2>3. Cardinality(Skipped) <= departed
      BY <1>1 DEF SkippedInv, Busy
    <2>4. /\ Cardinality(Skipped) \in Nat /\ Cardinality(Skipped') \in Nat
          /\ departed \in Nat /\ IsFiniteSet(Skipped')
      BY <2>1, RowsFinite
    <2> QED
      BY <2>2, <2>3, <2>4
  <1>15. SkippedInv'
    BY <1>1, <1>14 DEF SkippedInv
  <1>16. MissesAreBounded'
    <2> SUFFICES ASSUME page >= Pages(total)
                 PROVE  Cardinality(Missing') <= departed + raced
      BY <1>1 DEF MissesAreBounded, Missing
    <2> DEFINE Late == {x \in listed \cap Distinct : Rank(x) >= total}
    <2>1. total <= Offset(page + 1)
      BY <1>5, <1>12
    <2>2. Missing' \in SUBSET (Skipped' \cup Late)
      <3> SUFFICES ASSUME NEW x \in Missing', x \notin Skipped' PROVE x \in Late
        OBVIOUS
      <3>1. ~(Rank(x) < Offset(page + 1))
        BY <1>9, <1>11 DEF Skipped
      <3>2. Rank(x) >= total
        BY <1>5, <1>9, <1>12, <2>1, <3>1
      <3> QED
        BY <1>10, <3>2
    <2>3. Cardinality(Late) <= IF total > Cardinality(listed) THEN 0 ELSE Cardinality(listed) - total
      BY <1>5, LateRows
    <2>4. Late \in SUBSET Rows
      BY DEF TypeOK
    <2> HIDE DEF Late
    <2>5. /\ IsFiniteSet(Late) /\ Cardinality(Late) \in Nat
          /\ Cardinality(listed) \in Nat /\ raced \in Nat
      BY <2>4, RowsFinite DEF TypeOK
    <2>6. Cardinality(listed) <= total + raced
      BY <1>1 DEF CountInv
    <2>7. Cardinality(Late) <= raced
      BY <1>5, <2>3, <2>5, <2>6
    <2>8. Cardinality(Skipped' \cup Late)
            = Cardinality(Skipped') + Cardinality(Late) - Cardinality(Skipped' \cap Late)
      BY <1>14, <2>5, FS_Union
    <2>9. /\ Cardinality(Skipped' \cap Late) \in Nat /\ Cardinality(Skipped' \cup Late) \in Nat
          /\ Cardinality(Missing') <= Cardinality(Skipped' \cup Late)
          /\ Cardinality(Missing') \in Nat
      <3>1. Skipped' \in SUBSET Rows
        BY <1>10, <1>13 DEF Skipped, TypeOK
      <3>2. Skipped' \cap Late \in SUBSET Rows /\ Skipped' \cup Late \in SUBSET Rows
        BY <2>4, <3>1
      <3>3. Missing' \in SUBSET Rows
        BY <2>2, <3>2
      <3> QED
        BY <2>2, <3>2, <3>3, RowsFinite
    <2> QED
      BY <1>14, <2>5, <2>7, <2>8, <2>9
  <1> QED
    BY <1>7, <1>8, <1>15, <1>16

\* The invariant holds in every reachable state.
THEOREM Invariant == Spec => []IInv
  <1>1. ASSUME IInv, [Next]_vars PROVE IInv'
    <2>1. CASE \E r \in Rows : Insert(r) \/ ChangeStatus(r)
      BY <1>1, <2>1, RowPreserves
    <2>2. CASE Begin \/ Count \/ Select
      BY <1>1, <2>2, BeginPreserves, CountPreserves, SelectPreserves
    <2>3. CASE UNCHANGED vars
      <3>1. Skipped' = Skipped
        BY <2>3 DEF vars, Skipped, Missing, Rank, Before, Offset
      <3> QED
        BY <1>1, <2>3, <3>1 DEF vars, IInv, TypeOK, PageInv, SkippedInv, CountInv,
           MissesAreBounded, Busy
    <2> QED
      BY <1>1, <2>1, <2>2, <2>3 DEF Next
  <1> QED
    BY <1>1, InitIInv, PTL DEF Spec

\* Every variable keeps its type; a client asks for no page beyond the last one
\* the table can fill.
THEOREM TypeCorrect == Spec => []TypeOK
  BY Invariant, PTL DEF IInv

\* A client that has read all pages misses, of the rows that matched all the
\* time, at most one for each time a row left the filter and one for each time
\* one joined between the last count and its select.
THEOREM ReadingsMissFewRows == Spec => []MissesAreBounded
  BY Invariant, PTL DEF IInv
=============================================================================
