--------------------------- MODULE KeysetPagination ---------------------------
(***************************************************************************)
(* A client walks the pages of GET /v1/admin/audit or of                    *)
(* GET /v1/admin/documents while rows are inserted (audit/event_store.py,   *)
(* admin/document_store.py and their routes).                               *)
(*                                                                          *)
(* A page holds the highest rows under the cursor, newest first; the cursor *)
(* is the key of its last row.  Rows get their timestamp before they are    *)
(* committed, so an insert may appear anywhere in the order.  Edits change  *)
(* updated_at, which is why the order does not use it.  Nothing in the      *)
(* program deletes a row or changes its key.                                *)
(***************************************************************************)
EXTENDS Integers, FiniteSets

CONSTANTS
    Row,        \* the rows that may ever be in the table
    Filters,    \* the filters a walk may have: from, to and user
    AnyUser,    \* user_id not given
    Limits,     \* the limits a client may ask for
    MaxLimit,   \* MAX_LIMIT
    EditTime,   \* the time of edits, later than all rows
    NoCursor    \* None

ASSUME RowAssumption ==
    /\ IsFiniteSet(Row)
    /\ \A x \in Row : x.at \in Nat /\ x.id \in Nat
    /\ \A x, y \in Row : x.id = y.id => x = y
ASSUME EditAssumption == EditTime \in Nat /\ \A x \in Row : x.at < EditTime
ASSUME LimitAssumption == MaxLimit \in Nat \ {0} /\ Limits \subseteq Int

Cursor == [last_seen_timestamp : Nat, last_seen_id : Nat]
ASSUME CursorAssumption == NoCursor \notin Cursor

VARIABLES
    committed,  \* the rows in the table
    updated,    \* their updated_at
    filter,     \* what the walk asks for, the same on each page
    cursor,     \* the cursor of the last page
    done,       \* the last page had no cursor
    page,       \* the rows of the last page
    earlier,    \* the rows of the pages before it
    owed        \* the rows that came while the walk could still reach them

vars == <<committed, updated, filter, cursor, done, page, earlier, owed>>

PageTypeOK ==
    /\ committed \subseteq Row
    /\ updated \in [Row -> Nat]
    /\ filter \in Filters
    /\ cursor \in Cursor \union {NoCursor}
    /\ done \in BOOLEAN
    /\ page \subseteq committed
    /\ earlier \subseteq committed
    /\ owed \subseteq committed

-----------------------------------------------------------------------------
(* The order and the cursor.                                               *)

\* Mutant: the list is ordered by its last change.
KeyUpdated(x) == <<updated[x], x.id>>

\* (timestamp, audit_id), (created_at, document_id)
Key(x) == <<x.at, x.id>>

Less(k, l) == k[1] < l[1] \/ (k[1] = l[1] /\ k[2] < l[2])

Below(x, y) == Less(Key(x), Key(y))

\* The first n of S in descending order.
Highest(n, S) == {x \in S : Cardinality({y \in S : Below(x, y)}) < n}

Last(S) == CHOOSE x \in S : \A y \in S : ~Below(y, x)

EncodeCursor(x) ==
    [last_seen_timestamp |-> Key(x)[1], last_seen_id |-> Key(x)[2]]
DecodeCursor(c) == <<c.last_seen_timestamp, c.last_seen_id>>

\* Mutant: <= on the pair.
UnderOrAt(x, c) == c = NoCursor \/ ~Less(DecodeCursor(c), Key(x))

Under(x, c) == c = NoCursor \/ Less(Key(x), DecodeCursor(c))

-----------------------------------------------------------------------------
(* One request.                                                            *)

Wanted(x) ==
    /\ filter.from <= x.at /\ x.at <= filter.to
    /\ filter.user \in {AnyUser, x.user}

\* Mutant: a limit of zero goes through.
ClampAbove(limit) == IF limit > MaxLimit THEN MaxLimit ELSE limit

Clamp(limit) ==
    IF limit < 1 THEN 1 ELSE IF limit > MaxLimit THEN MaxLimit ELSE limit

\* Mutant: rows are read before they are committed.
EligibleDirty(c) == {x \in Row : Wanted(x) /\ Under(x, c)}

Eligible(c) == {x \in committed : Wanted(x) /\ Under(x, c)}

\* Mutant: no extra row is fetched.
FetchNoPeek(c, limit) == Highest(limit, Eligible(c))

\* The SQL store fetches one row more than the page.
Fetch(c, limit) == Highest(limit + 1, Eligible(c))

\* Mutant: the cursor is the extra row.
PaginateAtPeek(rows, limit) ==
    [items |-> Highest(limit, rows),
     next_cursor |-> IF Cardinality(rows) > limit /\ Highest(limit, rows) # {}
                     THEN EncodeCursor(Last(rows)) ELSE NoCursor]

Paginate(rows, limit) ==
    LET items == Highest(limit, rows)
    IN  [items |-> items,
         next_cursor |-> IF Cardinality(rows) > limit /\ items # {}
                         THEN EncodeCursor(Last(items)) ELSE NoCursor]

ListEvents(c, limit) == Paginate(Fetch(c, limit), limit)

\* The stores used in tests hand over every row under the cursor.
FakeListEvents(c, limit) == Paginate(Eligible(c), limit)

-----------------------------------------------------------------------------

Init ==
    /\ committed \in SUBSET Row
    /\ updated = [x \in Row |-> x.at]
    /\ filter \in Filters
    /\ cursor = NoCursor
    /\ done = FALSE
    /\ page = {}
    /\ earlier = {}
    /\ owed = {x \in committed : Wanted(x)}

NextPage(limit) ==
    /\ ~done
    /\ LET answer == ListEvents(cursor, Clamp(limit))
       IN  /\ page' = answer.items
           /\ cursor' = answer.next_cursor
           /\ done' = (answer.next_cursor = NoCursor)
    /\ earlier' = earlier \union page
    /\ UNCHANGED <<committed, updated, filter, owed>>

Insert(x) ==
    /\ ~done
    /\ x \notin committed
    /\ committed' = committed \union {x}
    /\ owed' = IF Wanted(x) /\ Under(x, cursor) THEN owed \union {x} ELSE owed
    /\ UNCHANGED <<updated, filter, cursor, done, page, earlier>>

\* A PUT on a document, wherever the walk is.
Edit(x) ==
    /\ ~done
    /\ x \in committed
    /\ updated' = [updated EXCEPT ![x] = EditTime]
    /\ UNCHANGED <<committed, filter, cursor, done, page, earlier, owed>>

Next ==
    \/ \E limit \in Limits : NextPage(limit)
    \/ \E x \in Row : Insert(x) \/ Edit(x)

Spec == Init /\ [][Next]_vars

\* The client goes on asking, if only for one row at a time.
FairSpec == Spec /\ WF_vars(NextPage(1))

-----------------------------------------------------------------------------
(* Properties.                                                             *)

\* "No record is skipped ... across pages" (specs/06-api-contracts.md):
\* whatever is inserted and edited meanwhile, the walk returns every wanted
\* row that was there when it started or came in under its cursor.
NothingSkipped == done => owed \subseteq earlier \union page

\* "... or duplicated": each page lies below all earlier ones, also where
\* timestamps are equal.
PagesDescend == \A x \in earlier : \A y \in page : Below(y, x)

\* The test stores answer as the SQL stores do, on any table and limit: the
\* pagination boundary can't drift out of sync (admin/document_store.py).
StoresAgree ==
    \A limit \in Limits :
        ListEvents(cursor, Clamp(limit)) = FakeListEvents(cursor, Clamp(limit))

\* A walk comes to its last page, although rows keep coming in and are edited.
WalkEnds == <>done

=============================================================================
