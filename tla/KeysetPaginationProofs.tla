------------------------ MODULE KeysetPaginationProofs ------------------------
(***************************************************************************)
(* Theorems about KeysetPagination, for every table, filter and limit.      *)
(***************************************************************************)
EXTENDS KeysetPagination, FiniteSetTheorems, WellFoundedInduction, TLAPS

-----------------------------------------------------------------------------
(* The order of the rows.                                                  *)

LEMMA BelowIsTransitive ==
    ASSUME NEW x \in Row, NEW y \in Row, NEW z \in Row,
           Below(x, y), Below(y, z)
    PROVE  Below(x, z)
BY RowAssumption DEF Below, Less, Key

LEMMA BelowIsTotal ==
    ASSUME NEW x \in Row, NEW y \in Row
    PROVE  /\ x = y \/ Below(x, y) \/ Below(y, x)
           /\ ~(Below(x, y) /\ Below(y, x))
           /\ ~Below(x, x)
BY RowAssumption DEF Below, Less, Key

\* A non-empty set of natural numbers has a smallest one.
LEMMA Smallest ==
    ASSUME NEW T \in SUBSET Nat, T # {}
    PROVE  \E m \in T : \A k \in T : ~(k < m)
<1>1. PICK m \in T : \A k \in T : <<k, m>> \notin OpToRel(<, Nat)
  BY NatLessThanWellFounded, WFMin
<1> QED
  BY <1>1 DEF OpToRel

Above(x, S) == {y \in S : Below(x, y)}
Beneath(x, S) == {y \in S : Below(y, x)}

LEMMA RanksAreNumbers ==
    ASSUME NEW S \in SUBSET Row, NEW x \in Row
    PROVE  /\ IsFiniteSet(S) /\ Cardinality(S) \in Nat
           /\ IsFiniteSet(Above(x, S)) /\ Cardinality(Above(x, S)) \in Nat
           /\ IsFiniteSet(Beneath(x, S)) /\ Cardinality(Beneath(x, S)) \in Nat
<1>1. IsFiniteSet(S)
  BY RowAssumption, FS_Subset
<1>2. Above(x, S) \in SUBSET S /\ Beneath(x, S) \in SUBSET S
  BY DEF Above, Beneath
<1> QED
  BY <1>1, <1>2, FS_Subset, FS_CardinalityType

\* A higher row has fewer rows above it.
LEMMA RanksFollowOrder ==
    ASSUME NEW S \in SUBSET Row, NEW x \in S, NEW y \in S, Below(x, y)
    PROVE  /\ Cardinality(Above(y, S)) < Cardinality(Above(x, S))
           /\ Cardinality(Beneath(x, S)) < Cardinality(Beneath(y, S))
<1>1. /\ Above(y, S) \in SUBSET Above(x, S) /\ Above(y, S) # Above(x, S)
      /\ Beneath(x, S) \in SUBSET Beneath(y, S)
      /\ Beneath(x, S) # Beneath(y, S)
  BY BelowIsTransitive, BelowIsTotal DEF Above, Beneath
<1>2. /\ IsFiniteSet(Above(x, S)) /\ Cardinality(Above(x, S)) \in Nat
      /\ Cardinality(Above(y, S)) \in Nat
      /\ IsFiniteSet(Beneath(y, S)) /\ Cardinality(Beneath(y, S)) \in Nat
      /\ Cardinality(Beneath(x, S)) \in Nat
  BY RanksAreNumbers
<1>3. /\ Cardinality(Above(y, S)) <= Cardinality(Above(x, S))
      /\ Cardinality(Above(x, S)) # Cardinality(Above(y, S))
  BY <1>1, <1>2, FS_Subset
<1>4. /\ Cardinality(Beneath(x, S)) <= Cardinality(Beneath(y, S))
      /\ Cardinality(Beneath(y, S)) # Cardinality(Beneath(x, S))
  BY <1>1, <1>2, FS_Subset
<1> QED
  BY <1>2, <1>3, <1>4

LEMMA HighestExists ==
    ASSUME NEW S \in SUBSET Row, S # {}
    PROVE  \E x \in S : \A y \in S : ~Below(x, y)
<1> DEFINE T == {Cardinality(Above(x, S)) : x \in S}
<1>1. T \in SUBSET Nat /\ T # {}
  BY RanksAreNumbers
<1>2. PICK m \in T : \A k \in T : ~(k < m)
  BY <1>1, Smallest
<1>3. PICK x \in S : m = Cardinality(Above(x, S))
  BY <1>2
<1>4. \A y \in S : ~Below(x, y)
  BY <1>2, <1>3, RanksFollowOrder
<1> QED
  BY <1>4

LEMMA LastExists ==
    ASSUME NEW S \in SUBSET Row, S # {}
    PROVE  Last(S) \in S /\ \A y \in S : ~Below(y, Last(S))
<1> DEFINE T == {Cardinality(Beneath(x, S)) : x \in S}
<1>1. T \in SUBSET Nat /\ T # {}
  BY RanksAreNumbers
<1>2. PICK m \in T : \A k \in T : ~(k < m)
  BY <1>1, Smallest
<1>3. PICK x \in S : m = Cardinality(Beneath(x, S))
  BY <1>2
<1>4. \A y \in S : ~Below(y, x)
  BY <1>2, <1>3, RanksFollowOrder
<1> QED
  BY <1>4 DEF Last

-----------------------------------------------------------------------------
(* Pages.                                                                  *)

LEMMA HighestIsUpClosed ==
    ASSUME NEW S \in SUBSET Row, NEW n \in Nat,
           NEW x \in Highest(n, S), NEW y \in S, Below(x, y)
    PROVE  y \in Highest(n, S)
<1>1. x \in S /\ Cardinality(Above(x, S)) < n
  BY DEF Highest, Above
<1>2. Cardinality(Above(y, S)) < Cardinality(Above(x, S))
  BY <1>1, RanksFollowOrder
<1>3. Cardinality(Above(x, S)) \in Nat /\ Cardinality(Above(y, S)) \in Nat
  BY <1>1, RanksAreNumbers
<1> QED
  BY <1>1, <1>2, <1>3 DEF Highest, Above

\* What is not on the page lies below all of it.
LEMMA RestLiesBelow ==
    ASSUME NEW S \in SUBSET Row, NEW n \in Nat,
           NEW x \in S, x \notin Highest(n, S), NEW y \in Highest(n, S)
    PROVE  Below(x, y)
<1>1. y \in S
  BY DEF Highest
<1> QED
  BY <1>1, BelowIsTotal, HighestIsUpClosed

\* If fewer rows than asked for came back, they are all there are.
LEMMA ShortAnswerIsAll ==
    ASSUME NEW S \in SUBSET Row, NEW n \in Nat,
           Cardinality(Highest(n, S)) < n
    PROVE  Highest(n, S) = S
<1> SUFFICES ASSUME S \ Highest(n, S) # {} PROVE FALSE
  BY DEF Highest
<1>1. PICK x \in S \ Highest(n, S) : \A y \in S \ Highest(n, S) : ~Below(x, y)
  BY HighestExists
<1>2. Above(x, S) \in SUBSET Highest(n, S)
  BY <1>1 DEF Above
<1>3. Highest(n, S) \in SUBSET Row
  BY DEF Highest
<1>4. IsFiniteSet(Highest(n, S)) /\ Cardinality(Highest(n, S)) \in Nat
  BY <1>1, <1>3, RanksAreNumbers
<1>5. Cardinality(Above(x, S)) <= Cardinality(Highest(n, S))
  BY <1>2, <1>4, FS_Subset
<1>6. Cardinality(Above(x, S)) \in Nat
  BY <1>1, RanksAreNumbers
<1>7. Cardinality(Above(x, S)) < n
  BY <1>4, <1>5, <1>6
<1> QED
  BY <1>1, <1>7 DEF Highest, Above

\* The page is the same whether it is cut from all rows or from one more
\* than a page.
LEMMA PeekSuffices ==
    ASSUME NEW S \in SUBSET Row, NEW n \in Nat
    PROVE  Highest(n, Highest(n + 1, S)) = Highest(n, S)
<1> DEFINE R == Highest(n + 1, S)
<1>1. \A x \in R : Above(x, R) = Above(x, S)
  <2> SUFFICES ASSUME NEW x \in R PROVE Above(x, S) \subseteq Above(x, R)
    BY DEF Highest, Above
  <2> QED
    BY HighestIsUpClosed DEF Above
<1>2. \A x \in S : Cardinality(Above(x, S)) \in Nat
  BY RanksAreNumbers
<1>3. \A x : x \in Highest(n, R) <=> x \in R /\ Cardinality(Above(x, R)) < n
  BY DEF Highest, Above
<1>4. \A x : x \in Highest(n, S) <=> x \in S /\ Cardinality(Above(x, S)) < n
  BY DEF Highest, Above
<1>5. \A x : x \in R <=> x \in S /\ Cardinality(Above(x, S)) < n + 1
  BY DEF Highest, Above
<1>6. \A x : x \in Highest(n, R) <=> x \in Highest(n, S)
  BY <1>1, <1>2, <1>3, <1>4, <1>5
<1> QED
  BY <1>6

\* A page of no more rows than fit shows them all.
LEMMA AllFit ==
    ASSUME NEW S \in SUBSET Row, NEW n \in Nat, Cardinality(S) <= n
    PROVE  Highest(n, S) = S
<1> SUFFICES ASSUME NEW x \in S PROVE Cardinality(Above(x, S)) < n
  BY DEF Highest, Above
<1>1. Above(x, S) \in SUBSET S /\ Above(x, S) # S
  BY BelowIsTotal DEF Above
<1>2. /\ IsFiniteSet(S) /\ Cardinality(S) \in Nat
      /\ Cardinality(Above(x, S)) \in Nat
  BY RanksAreNumbers
<1>3. /\ Cardinality(Above(x, S)) <= Cardinality(S)
      /\ Cardinality(S) # Cardinality(Above(x, S))
  BY <1>1, <1>2, FS_Subset
<1> QED
  BY <1>2, <1>3

LEMMA PageIsNotEmpty ==
    ASSUME NEW S \in SUBSET Row, S # {}, NEW n \in Nat \ {0}
    PROVE  Highest(n, S) # {}
<1>1. PICK x \in S : \A y \in S : ~Below(x, y)
  BY HighestExists
<1>2. Above(x, S) = {}
  BY <1>1 DEF Above
<1>3. Cardinality(Above(x, S)) = 0
  BY <1>2, FS_EmptySet
<1> QED
  BY <1>1, <1>3 DEF Highest, Above

-----------------------------------------------------------------------------
(* One answer.                                                             *)

LEMMA ClampType == \A limit \in Limits : Clamp(limit) \in Nat \ {0}
BY LimitAssumption DEF Clamp

LEMMA CursorType ==
    ASSUME NEW x \in Row
    PROVE  /\ EncodeCursor(x) \in Cursor /\ EncodeCursor(x) # NoCursor
           /\ DecodeCursor(EncodeCursor(x)) = Key(x)
BY RowAssumption, CursorAssumption DEF EncodeCursor, DecodeCursor, Key, Cursor

More(c, n) == Cardinality(Fetch(c, n)) > n

LEMMA FetchedRows ==
    ASSUME PageTypeOK, NEW c, NEW n \in Nat
    PROVE  /\ Eligible(c) \in SUBSET Row /\ Fetch(c, n) \in SUBSET Eligible(c)
           /\ IsFiniteSet(Eligible(c)) /\ Cardinality(Eligible(c)) \in Nat
           /\ Cardinality(Fetch(c, n)) \in Nat
           /\ Cardinality(Fetch(c, n)) <= Cardinality(Eligible(c))
<1>1. Eligible(c) \in SUBSET Row /\ Fetch(c, n) \in SUBSET Eligible(c)
  BY DEF PageTypeOK, Eligible, Fetch, Highest
<1>2. IsFiniteSet(Eligible(c)) /\ IsFiniteSet(Fetch(c, n))
  BY <1>1, RowAssumption, FS_Subset
<1> QED
  BY <1>1, <1>2, FS_Subset, FS_CardinalityType

\* The items of an answer are the highest rows under the cursor, and without
\* a next cursor they are all of them.
LEMMA AnswerItems ==
    ASSUME PageTypeOK, NEW c, NEW n \in Nat \ {0}
    PROVE  /\ ListEvents(c, n).items = Highest(n, Eligible(c))
           /\ ~More(c, n) => Highest(n, Eligible(c)) = Eligible(c)
           /\ More(c, n) => Highest(n, Eligible(c)) # {}
           /\ ListEvents(c, n).next_cursor =
                  IF More(c, n)
                  THEN EncodeCursor(Last(Highest(n, Eligible(c))))
                  ELSE NoCursor
<1>1. Eligible(c) \in SUBSET Row /\ Fetch(c, n) \in SUBSET Eligible(c)
  BY FetchedRows
<1>2. Highest(n, Fetch(c, n)) = Highest(n, Eligible(c))
  BY <1>1, PeekSuffices DEF Fetch
<1>3. ASSUME ~More(c, n) PROVE Highest(n, Eligible(c)) = Eligible(c)
  <2>1. Cardinality(Fetch(c, n)) < n + 1
    BY <1>3, FetchedRows DEF More
  <2>2. Fetch(c, n) = Eligible(c)
    BY <1>1, <2>1, ShortAnswerIsAll DEF Fetch
  <2>3. Cardinality(Eligible(c)) <= n
    BY <2>1, <2>2, FetchedRows
  <2> QED
    BY <1>1, <2>3, AllFit
<1>4. ASSUME More(c, n) PROVE Highest(n, Eligible(c)) # {}
  <2>1. Fetch(c, n) # {}
    BY <1>4, FS_EmptySet DEF More
  <2> QED
    BY <1>1, <2>1, PageIsNotEmpty
<1>5. /\ ListEvents(c, n).items = Highest(n, Fetch(c, n))
      /\ ListEvents(c, n).next_cursor =
             IF More(c, n) /\ Highest(n, Fetch(c, n)) # {}
             THEN EncodeCursor(Last(Highest(n, Fetch(c, n)))) ELSE NoCursor
  BY DEF ListEvents, Paginate, More
<1> QED
  BY <1>2, <1>3, <1>4, <1>5

\* The next cursor separates what was returned from what was not.
LEMMA AnswerCursor ==
    ASSUME PageTypeOK, NEW c, NEW n \in Nat \ {0}, More(c, n)
    PROVE  LET next == ListEvents(c, n).next_cursor
           IN  /\ next \in Cursor /\ next # NoCursor
               /\ \E x \in ListEvents(c, n).items : DecodeCursor(next) = Key(x)
               /\ \A x \in ListEvents(c, n).items :
                      ~Less(Key(x), DecodeCursor(next))
               /\ \A x \in Eligible(c) \ ListEvents(c, n).items :
                      Less(Key(x), DecodeCursor(next))
<1> DEFINE items == Highest(n, Eligible(c))
<1>1. Eligible(c) \in SUBSET Row
  BY FetchedRows
<1>2. items \in SUBSET Row /\ items # {}
  BY <1>1, AnswerItems DEF Highest
<1>3. Last(items) \in items /\ \A x \in items : ~Below(x, Last(items))
  BY <1>2, LastExists
<1>4. /\ ListEvents(c, n).items = items
      /\ ListEvents(c, n).next_cursor = EncodeCursor(Last(items))
  BY AnswerItems
<1>5. DecodeCursor(EncodeCursor(Last(items))) = Key(Last(items))
  BY <1>2, <1>3, CursorType
<1>6. \A x \in Eligible(c) \ items : Below(x, Last(items))
  BY <1>1, <1>3, RestLiesBelow
<1> HIDE DEF items
<1> QED
  BY <1>2, <1>3, <1>4, <1>5, <1>6, CursorType DEF Below

-----------------------------------------------------------------------------
(* Type correctness.                                                       *)

LEMMA InitType == Init => PageTypeOK
BY RowAssumption DEF Init, PageTypeOK

\* A page request, in terms of what the limit was clamped to.
PageStep(n) ==
    /\ ~done
    /\ page' = ListEvents(cursor, n).items
    /\ cursor' = ListEvents(cursor, n).next_cursor
    /\ done' \in BOOLEAN
    /\ done' <=> ListEvents(cursor, n).next_cursor = NoCursor
    /\ earlier' = earlier \union page
    /\ UNCHANGED <<committed, updated, filter, owed>>

LEMMA PageStepOfNext ==
    ASSUME NEW limit \in Limits, NextPage(limit)
    PROVE  \E n \in Nat \ {0} : PageStep(n)
<1>1. Clamp(limit) \in Nat \ {0}
  BY ClampType
<1>2. PageStep(Clamp(limit))
  BY DEF NextPage, PageStep
<1> QED
  BY <1>1, <1>2

LEMMA NextType == PageTypeOK /\ [Next]_vars => PageTypeOK'
<1> SUFFICES ASSUME PageTypeOK, [Next]_vars PROVE PageTypeOK'
  OBVIOUS
<1>1. ASSUME NEW limit \in Limits, NextPage(limit) PROVE PageTypeOK'
  <2>1. PICK n \in Nat \ {0} : PageStep(n)
    BY <1>1, PageStepOfNext
  <2>2. ListEvents(cursor, n).items = Highest(n, Eligible(cursor))
    BY AnswerItems
  <2>3. ListEvents(cursor, n).items \subseteq committed
    BY <2>2 DEF Highest, Eligible
  <2>4. ListEvents(cursor, n).next_cursor \in Cursor \union {NoCursor}
    BY AnswerItems, AnswerCursor
  <2> QED
    BY <2>1, <2>3, <2>4 DEF PageStep, PageTypeOK
<1>2. ASSUME NEW x \in Row, Insert(x) PROVE PageTypeOK'
  BY <1>2 DEF Insert, PageTypeOK
<1>3. ASSUME NEW x \in Row, Edit(x) PROVE PageTypeOK'
  BY <1>3, EditAssumption DEF Edit, PageTypeOK
<1>4. CASE UNCHANGED vars
  BY <1>4 DEF vars, PageTypeOK
<1> QED
  BY <1>1, <1>2, <1>3, <1>4 DEF Next

\* Every variable keeps its type: what was returned is in the table, and a
\* cursor is a key.
THEOREM PagesTypeCorrect == Spec => []PageTypeOK
BY InitType, NextType, PTL DEF Spec

\* The SQL stores and the stores of the tests give the same answers, whatever
\* the table, the cursor and the limit.
THEOREM StoresAlwaysAgree == Spec => []StoresAgree
<1>1. ASSUME PageTypeOK, NEW n \in Nat \ {0}
      PROVE  ListEvents(cursor, n) = FakeListEvents(cursor, n)
  <2>1. Highest(n, Fetch(cursor, n)) = Highest(n, Eligible(cursor))
    BY <1>1, FetchedRows, PeekSuffices DEF Fetch
  <2>2. ASSUME ~More(cursor, n) PROVE ~(Cardinality(Eligible(cursor)) > n)
    <3>1. Cardinality(Fetch(cursor, n)) < n + 1
      BY <1>1, <2>2, FetchedRows DEF More
    <3>2. Fetch(cursor, n) = Eligible(cursor)
      BY <1>1, <3>1, FetchedRows, ShortAnswerIsAll DEF Fetch
    <3> QED
      BY <1>1, <3>1, <3>2, FetchedRows
  <2>3. ASSUME More(cursor, n) PROVE Cardinality(Eligible(cursor)) > n
    BY <1>1, <2>3, FetchedRows DEF More
  <2> QED
    BY <2>1, <2>2, <2>3 DEF ListEvents, FakeListEvents, Paginate, More
<1>2. PageTypeOK => StoresAgree
  BY <1>1, ClampType DEF StoresAgree
<1> QED
  BY <1>2, PagesTypeCorrect, PTL

-----------------------------------------------------------------------------
(* The inductive invariant: the cursor separates what was returned from     *)
(* what is still owed.                                                      *)

Returned == earlier \union page

WalkInv ==
    /\ NothingSkipped
    /\ PagesDescend
    /\ cursor = NoCursor /\ ~done => Returned = {}
    /\ cursor # NoCursor =>
           \A x \in Returned : ~Less(Key(x), DecodeCursor(cursor))
    /\ ~done => \A x \in owed \ Returned : Wanted(x) /\ Under(x, cursor)

LEMMA InitWalk == Init => WalkInv
BY DEF Init, WalkInv, NothingSkipped, PagesDescend, Returned, Under

\* The order of keys, as far as it is needed to compare pages.
LEMMA KeysAcrossCursor ==
    ASSUME NEW x \in Row, NEW y \in Row, NEW c \in Cursor,
           ~Less(Key(x), DecodeCursor(c)), Less(Key(y), DecodeCursor(c))
    PROVE  Below(y, x)
BY RowAssumption DEF Below, Less, Key, DecodeCursor, Cursor

LEMMA PageKeepsWalk ==
    ASSUME PageTypeOK, WalkInv, NEW n \in Nat \ {0}, PageStep(n)
    PROVE  WalkInv'
<1> DEFINE items == ListEvents(cursor, n).items
           next == ListEvents(cursor, n).next_cursor
<1>1. /\ items = Highest(n, Eligible(cursor))
      /\ items \subseteq Eligible(cursor)
      /\ ~More(cursor, n) => items = Eligible(cursor) /\ next = NoCursor
  BY AnswerItems DEF Highest
<1>2. /\ ~done /\ page' = items /\ cursor' = next /\ owed' = owed
      /\ Returned' = Returned \union items /\ earlier' = Returned
      /\ done' <=> next = NoCursor
  BY DEF PageStep, Returned
<1>3. \A x \in owed : x \in Returned \/ x \in Eligible(cursor)
  BY <1>2 DEF WalkInv, Eligible, PageTypeOK
<1>4. \A x \in owed : Wanted(x)' <=> Wanted(x)
  BY DEF PageStep, Wanted
<1>5. \A x \in Returned : \A y \in items : Below(y, x)
  <2> SUFFICES ASSUME NEW x \in Returned, NEW y \in items PROVE Below(y, x)
    OBVIOUS
  <2>1. cursor \in Cursor /\ cursor # NoCursor
    BY <1>2 DEF WalkInv, PageTypeOK
  <2>2. ~Less(Key(x), DecodeCursor(cursor))
    BY <2>1 DEF WalkInv
  <2>3. Less(Key(y), DecodeCursor(cursor))
    BY <1>1, <2>1 DEF Eligible, Under
  <2>4. x \in Row /\ y \in Row
    BY <1>1 DEF Eligible, Returned, PageTypeOK
  <2> QED
    BY <2>1, <2>2, <2>3, <2>4, KeysAcrossCursor
<1>6. PagesDescend'
  BY <1>2, <1>5 DEF PagesDescend, PageStep, Below, Less, Key
<1>7. CASE ~More(cursor, n)
  <2>1. done' /\ cursor' = NoCursor
    BY <1>1, <1>2, <1>7
  <2>2. NothingSkipped'
    BY <1>1, <1>2, <1>3, <1>7 DEF NothingSkipped, Returned
  <2> QED
    BY <1>6, <2>1, <2>2 DEF WalkInv
<1>8. CASE More(cursor, n)
  <2>1. /\ next \in Cursor /\ next # NoCursor
        /\ \E x \in items : DecodeCursor(next) = Key(x)
        /\ \A x \in items : ~Less(Key(x), DecodeCursor(next))
        /\ \A x \in Eligible(cursor) \ items : Less(Key(x), DecodeCursor(next))
    BY <1>8, AnswerCursor
  <2>2. ~done' /\ cursor' # NoCursor
    BY <1>2, <2>1
  <2>3. \A x \in Returned : ~Less(Key(x), DecodeCursor(next))
    <3>1. PICK y \in items : DecodeCursor(next) = Key(y)
      BY <2>1
    <3>2. \A x \in Returned : Below(y, x) /\ x \in Row
      BY <1>5 DEF Returned, PageTypeOK
    <3>3. y \in Row
      BY <1>1 DEF Eligible, PageTypeOK
    <3> QED
      BY <3>1, <3>2, <3>3, BelowIsTotal DEF Below
  <2>4. \A x \in owed \ Returned' :
            Wanted(x) /\ Less(Key(x), DecodeCursor(next))
    BY <1>2, <1>3, <2>1 DEF WalkInv
  <2>5. NothingSkipped'
    BY <2>2 DEF NothingSkipped
  <2> QED
    BY <1>2, <1>4, <1>6, <2>1, <2>2, <2>3, <2>4, <2>5 DEF WalkInv, Under
<1> QED
  BY <1>7, <1>8

LEMMA InsertKeepsWalk ==
    ASSUME PageTypeOK, WalkInv, NEW x \in Row, Insert(x)
    PROVE  WalkInv'
<1>1. /\ ~done /\ ~done' /\ cursor' = cursor /\ Returned' = Returned
      /\ earlier' = earlier /\ page' = page
      /\ \A y : Wanted(y)' <=> Wanted(y)
      /\ \A y : Under(y, cursor)' <=> Under(y, cursor)
  BY DEF Insert, Returned, Wanted, Under, Less, Key, DecodeCursor
<1>2. \A y \in owed' : y \in owed \/ (Wanted(y) /\ Under(y, cursor))
  BY DEF Insert
<1>3. NothingSkipped' /\ PagesDescend'
  BY <1>1 DEF WalkInv, NothingSkipped, PagesDescend, Below, Less, Key
<1>4. \A y \in owed' \ Returned' : Wanted(y)' /\ Under(y, cursor)'
  BY <1>1, <1>2 DEF WalkInv
<1> QED
  BY <1>1, <1>3, <1>4 DEF WalkInv, Less, Key, DecodeCursor

LEMMA OthersKeepWalk ==
    ASSUME WalkInv,
           UNCHANGED <<committed, filter, cursor, done, page, earlier, owed>>
    PROVE  WalkInv'
BY DEF WalkInv, NothingSkipped, PagesDescend, Returned, Wanted, Under, Below,
       Less, Key, DecodeCursor

LEMMA NextWalk == PageTypeOK /\ WalkInv /\ [Next]_vars => WalkInv'
<1> SUFFICES ASSUME PageTypeOK, WalkInv, [Next]_vars PROVE WalkInv'
  OBVIOUS
<1>1. ASSUME NEW limit \in Limits, NextPage(limit) PROVE WalkInv'
  BY <1>1, PageStepOfNext, PageKeepsWalk
<1>2. ASSUME NEW x \in Row, Insert(x) PROVE WalkInv'
  BY <1>2, InsertKeepsWalk
<1>3. ASSUME NEW x \in Row, Edit(x) PROVE WalkInv'
  BY <1>3, OthersKeepWalk DEF Edit
<1>4. CASE UNCHANGED vars
  BY <1>4, OthersKeepWalk DEF vars
<1> QED
  BY <1>1, <1>2, <1>3, <1>4 DEF Next

LEMMA WalkInvariant == Spec => []WalkInv
BY InitWalk, NextWalk, PagesTypeCorrect, PTL DEF Spec

\* However rows come in and are edited between the pages, and whatever limits
\* the client asks for, a finished walk has returned every row it owed.
THEOREM WalkSkipsNothing == Spec => []NothingSkipped
<1>1. WalkInv => NothingSkipped
  BY DEF WalkInv
<1> QED
  BY <1>1, WalkInvariant, PTL

\* Each page lies strictly below all pages before it, so no row comes twice.
THEOREM PagesAlwaysDescend == Spec => []PagesDescend
<1>1. WalkInv => PagesDescend
  BY DEF WalkInv
<1> QED
  BY <1>1, WalkInvariant, PTL

-----------------------------------------------------------------------------
(* The length of a walk: what WalkEnds rests on, besides fairness.         *)

Reach(c) == {x \in Row : Under(x, c)}

\* The rows that may still come, those not inserted yet included.
RowsLeft == Cardinality(Reach(cursor))

LEMMA RowsLeftType == IsFiniteSet(Reach(cursor)) /\ RowsLeft \in 0..Cardinality(Row)
<1>1. IsFiniteSet(Row) /\ Reach(cursor) \in SUBSET Row
  BY RowAssumption DEF Reach
<1>2. /\ IsFiniteSet(Reach(cursor)) /\ Cardinality(Reach(cursor)) \in Nat
      /\ Cardinality(Row) \in Nat /\ Cardinality(Reach(cursor)) <= Cardinality(Row)
  BY <1>1, FS_Subset, FS_CardinalityType
<1> QED
  BY <1>2 DEF RowsLeft

LEMMA PageShortensWalk ==
    ASSUME PageTypeOK, NEW n \in Nat \ {0}, PageStep(n)
    PROVE  done' \/ RowsLeft' < RowsLeft
<1> DEFINE next == ListEvents(cursor, n).next_cursor
<1> SUFFICES ASSUME ~done' PROVE RowsLeft' < RowsLeft
  OBVIOUS
<1>1. More(cursor, n) /\ cursor' = next
  BY AnswerItems DEF PageStep
<1>2. PICK y \in ListEvents(cursor, n).items : DecodeCursor(next) = Key(y)
  BY <1>1, AnswerCursor
<1>3. next # NoCursor /\ y \in Row /\ Under(y, cursor)
  <2>1. next # NoCursor
    BY <1>1, AnswerCursor
  <2>2. y \in Highest(n, Eligible(cursor))
    BY <1>2, AnswerItems
  <2>3. y \in committed /\ Under(y, cursor)
    BY <2>2 DEF Highest, Eligible
  <2> QED
    BY <2>1, <2>3 DEF PageTypeOK
<1> HIDE DEF next
<1>4. Reach(next) \in SUBSET Reach(cursor)
  <2> SUFFICES ASSUME NEW x \in Row, Less(Key(x), Key(y)) PROVE Under(x, cursor)
    BY <1>2, <1>3 DEF Reach, Under
  <2>1. CASE cursor = NoCursor
    BY <2>1 DEF Under
  <2>2. CASE cursor # NoCursor
    <3>1. cursor \in Cursor /\ Less(Key(y), DecodeCursor(cursor))
      BY <1>3, <2>2 DEF Under, PageTypeOK
    <3> QED
      BY <1>3, <3>1, RowAssumption DEF Under, Less, Key, DecodeCursor, Cursor
  <2> QED
    BY <2>1, <2>2
<1>5. y \in Reach(cursor) /\ y \notin Reach(next)
  BY <1>2, <1>3, BelowIsTotal DEF Reach, Under, Below
<1>6. IsFiniteSet(Reach(cursor)) /\ RowsLeft \in Nat
  BY RowsLeftType, RowAssumption, FS_CardinalityType
<1>7. /\ IsFiniteSet(Reach(next)) /\ Cardinality(Reach(next)) \in Nat
      /\ Cardinality(Reach(next)) <= Cardinality(Reach(cursor))
      /\ Cardinality(Reach(next)) # Cardinality(Reach(cursor))
  BY <1>4, <1>5, <1>6, FS_Subset, FS_CardinalityType
<1>8. RowsLeft' = Cardinality(Reach(next))
  BY <1>1 DEF RowsLeft, Reach, Under, Less, Key, DecodeCursor
<1> QED
  BY <1>6, <1>7, <1>8 DEF RowsLeft

\* Each page that is not the last leaves fewer rows under its cursor, and
\* nothing else gives the client more of them to ask for.
WalkShortens ==
    [][/\ (\E limit \in Limits : NextPage(limit)) => done' \/ RowsLeft' < RowsLeft
       /\ ~(\E limit \in Limits : NextPage(limit)) => RowsLeft' = RowsLeft]_vars

\* A walk has no more pages than the table may ever have rows, and one, however
\* rows come in and are edited meanwhile.
THEOREM WalksAreBounded ==
    Spec => [](RowsLeft \in 0..Cardinality(Row)) /\ WalkShortens
<1>1. PageTypeOK /\ [Next]_vars =>
          [/\ (\E limit \in Limits : NextPage(limit)) => done' \/ RowsLeft' < RowsLeft
           /\ ~(\E limit \in Limits : NextPage(limit)) => RowsLeft' = RowsLeft]_vars
  <2> SUFFICES ASSUME PageTypeOK, [Next]_vars
               PROVE  /\ (\E limit \in Limits : NextPage(limit)) =>
                             done' \/ RowsLeft' < RowsLeft
                      /\ ~(\E limit \in Limits : NextPage(limit)) =>
                             RowsLeft' = RowsLeft
    OBVIOUS
  <2>1. ASSUME NEW limit \in Limits, NextPage(limit)
        PROVE  done' \/ RowsLeft' < RowsLeft
    BY <2>1, PageStepOfNext, PageShortensWalk
  <2>2. ASSUME cursor' = cursor PROVE RowsLeft' = RowsLeft
    BY <2>2 DEF RowsLeft, Reach, Under, Less, Key, DecodeCursor
  <2>3. ~(\E limit \in Limits : NextPage(limit)) => cursor' = cursor
    BY DEF Next, Insert, Edit, vars
  <2> QED
    BY <2>1, <2>2, <2>3
<1>2. RowsLeft \in 0..Cardinality(Row)
  BY RowsLeftType
<1> QED
  BY <1>1, <1>2, PagesTypeCorrect, PTL DEF Spec, WalkShortens

=============================================================================
