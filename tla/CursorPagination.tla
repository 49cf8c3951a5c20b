-------------------------- MODULE CursorPagination --------------------------
(***************************************************************************)
(* CursorPagination (rest_framework/pagination.py): a client walks through  *)
(* a result set by following the next and previous links of each page while *)
(* other clients insert and delete rows.  A cursor is a position, the value *)
(* of the first ordering field in the last or first row that can serve as a *)
(* marker, and an offset that counts the rows beyond that share a position. *)
(*                                                                         *)
(* Rows keep their position; rows with equal positions are ordered by their *)
(* key, a second ordering field.  A position in a link is a string and the  *)
(* filter turns it back into the field's value.                             *)
(***************************************************************************)
EXTENDS Integers, Sequences, FiniteSets, SequencesExt

CONSTANTS
    Rows,         \* the keys of all rows there may ever be
    Assignments,  \* the values the ordering field may have in them
    Descending,   \* whether the ordering starts with '-'
    PageSize,     \* page_size
    OffsetCutoff, \* offset_cutoff
    None,
    MaxChanges,   \* per assignment, bound on the insertions and deletions of other clients
    MaxTurns      \* per assignment, bound on the changes of direction

ASSUME PaginationAssumption ==
    /\ Rows \subseteq Nat /\ IsFiniteSet(Rows)
    /\ Assignments \subseteq [Rows -> Nat]
    /\ Descending \in BOOLEAN
    /\ PageSize \in Nat \ {0} /\ OffsetCutoff \in Nat \ {0}
    /\ None \notin Nat
    /\ {MaxChanges, MaxTurns} \subseteq [Assignments -> Nat]

VARIABLES
    position,  \* the value of the ordering field in each row
    rows,      \* the rows in the database
    unborn,    \* those not inserted yet
    page,      \* the page the client got last, with its cursor and links
    forward,   \* the direction of its walk: it follows the next or the previous links
    seen,      \* the rows it got since it set out in that direction
    repeated,  \* it got some of them twice
    due,       \* the rows that were ahead of it then, and were not deleted since
    changes, turns

vars == <<position, rows, unborn, page, forward, seen, repeated, due, changes, turns>>

(***************************************************************************)
(* paginate_queryset.                                                       *)
(***************************************************************************)
Precedes(p, q) == IF Descending THEN q < p ELSE p < q

\* The order of the query, which a second ordering field makes total.
Before(r, s) == Precedes(position[r], position[s]) \/ (position[r] = position[s] /\ r < s)

\* Mutant of Ahead: the marker itself is fetched again.
AheadOrAt(cursor) ==
    {r \in rows :
        \/ cursor.position = None
        \/ IF cursor.reverse THEN ~Precedes(cursor.position, position[r])
                             ELSE ~Precedes(position[r], cursor.position)}

\* The rows the position of the cursor filters, seen in its direction.
Ahead(cursor) ==
    {r \in rows :
        \/ cursor.position = None
        \/ IF cursor.reverse THEN Precedes(position[r], cursor.position)
                             ELSE Precedes(cursor.position, position[r])}

\* Mutant of Offset: one row more.
OffsetAndOne(cursor) ==
    IF cursor.offset = 0 \/ cursor.offset >= OffsetCutoff THEN cursor.offset ELSE cursor.offset + 1

\* decode_cursor caps the offset.
Offset(cursor) == IF cursor.offset > OffsetCutoff THEN OffsetCutoff ELSE cursor.offset

\* The rows of the page at an offset.
Slice(query, offset) ==
    SubSeq(query, offset + 1, IF Len(query) < offset + PageSize THEN Len(query) ELSE offset + PageSize)

\* The rows of S in the order of the query: the i-th of them comes after i - 1 others.
Ordered(S) ==
    [i \in 1..Cardinality(S) |-> CHOOSE r \in S : Cardinality({s \in S : Before(s, r)}) = i - 1]

\* The page a cursor leads to; the row that follows it is fetched too.
Fetch(cursor) ==
    LET ordered == Ordered(Ahead(cursor))
        query == IF cursor.reverse THEN Reverse(ordered) ELSE ordered
        offset == Offset(cursor)
        items == Slice(query, offset)
        following == Len(query) > offset + PageSize
        followingPosition == IF following THEN position[query[offset + PageSize + 1]] ELSE None
        back == cursor.position # None \/ offset > 0
    IN  [cursor |-> [cursor EXCEPT !.offset = offset],
         items |-> IF cursor.reverse THEN Reverse(items) ELSE items,
         hasNext |-> IF cursor.reverse THEN back ELSE following,
         hasPrevious |-> IF cursor.reverse THEN following ELSE back,
         nextPosition |-> IF cursor.reverse THEN cursor.position ELSE followingPosition,
         previousPosition |-> IF cursor.reverse THEN followingPosition ELSE cursor.position]

Cursor(o, r, p) == [offset |-> o, reverse |-> r, position |-> p]

\* Without a cursor parameter.
FirstPage == Fetch(Cursor(0, FALSE, None))

(***************************************************************************)
(* get_next_link and get_previous_link.  A row can be the marker if its     *)
(* position differs from that of the row beyond it; the rows between the    *)
(* marker and the end of the page become the offset.                        *)
(***************************************************************************)
\* The indices of the rows of the page whose position is not compare.
Markers(p, compare) == {i \in DOMAIN p.items : position[p.items[i]] # compare}

Largest(S) == CHOOSE i \in S : \A j \in S : j <= i
Smallest(S) == CHOOSE i \in S : \A j \in S : i <= j

\* Mutant of NextCursor: a page without marker does not count the offset of its cursor.
NextCursorFromPage(p) ==
    LET compare == IF p.items # <<>> /\ p.cursor.reverse /\ p.cursor.offset # 0
                   THEN position[Last(p.items)] ELSE p.nextPosition
        markers == Markers(p, compare)
    IN  CASE p.items = <<>> -> Cursor(0, FALSE, p.nextPosition)
          [] markers # {} ->
               LET i == Largest(markers)
               IN  Cursor(Len(p.items) - i, FALSE, position[p.items[i]])
          [] OTHER -> Cursor(PageSize, FALSE, IF p.hasPrevious THEN p.previousPosition ELSE None)

NextCursor(p) ==
    LET compare == IF p.items # <<>> /\ p.cursor.reverse /\ p.cursor.offset # 0
                   THEN position[Last(p.items)] ELSE p.nextPosition
        markers == Markers(p, compare)
    IN  IF p.items = <<>> THEN Cursor(0, FALSE, p.nextPosition)
        ELSE IF markers # {}
        THEN Cursor(Len(p.items) - Largest(markers), FALSE, position[p.items[Largest(markers)]])
        ELSE IF ~p.hasPrevious THEN Cursor(PageSize, FALSE, None)
        ELSE Cursor(IF p.cursor.reverse THEN 0 ELSE p.cursor.offset + PageSize, FALSE,
                    p.previousPosition)

\* Mutant of PreviousCursor: the position beyond the page is compared with in any case.
PreviousCursorNoCompare(p) ==
    LET markers == Markers(p, None)
    IN  IF p.items = <<>> THEN Cursor(0, TRUE, p.previousPosition)
        ELSE IF markers # {}
        THEN Cursor(Smallest(markers), TRUE, position[p.items[Smallest(markers)]])
        ELSE IF ~p.hasNext THEN Cursor(PageSize, TRUE, None)
        ELSE Cursor(IF p.cursor.reverse THEN p.cursor.offset + PageSize ELSE 0, TRUE,
                    p.nextPosition)

PreviousCursor(p) ==
    LET compare == IF p.items # <<>> /\ ~p.cursor.reverse /\ p.cursor.offset # 0
                   THEN position[Head(p.items)] ELSE p.previousPosition
        markers == Markers(p, compare)
    IN  IF p.items = <<>> THEN Cursor(0, TRUE, p.previousPosition)
        ELSE IF markers # {}
        THEN Cursor(Smallest(markers) - 1, TRUE, position[p.items[Smallest(markers)]])
        ELSE IF ~p.hasNext THEN Cursor(PageSize, TRUE, None)
        ELSE Cursor(IF p.cursor.reverse THEN p.cursor.offset + PageSize ELSE 0, TRUE,
                    p.nextPosition)

(***************************************************************************)
(* Actions.                                                                 *)
(***************************************************************************)
Init ==
    /\ position \in Assignments
    /\ rows \in SUBSET Rows
    /\ unborn = Rows \ rows
    /\ page = FirstPage
    /\ forward = TRUE
    /\ seen = Range(page.items) /\ repeated = FALSE
    /\ due = rows
    /\ changes = 0 /\ turns = 0

HasLink(next) == IF next THEN page.hasNext ELSE page.hasPrevious
Link(next) == IF next THEN NextCursor(page) ELSE PreviousCursor(page)

\* The client follows the link in the direction of its walk (\E: TLC decodes the cursor once).
Follow ==
    /\ HasLink(forward)
    /\ \E cursor \in {Link(forward)} : page' = Fetch(cursor)
    /\ repeated' = (repeated \/ Range(page'.items) \cap seen # {})
    /\ seen' = seen \cup Range(page'.items)
    /\ UNCHANGED <<position, rows, unborn, forward, due, changes, turns>>

\* It turns round, and follows the other link of its page.
Turn ==
    LET here == Range(page.items)
    IN  /\ HasLink(~forward)
        /\ turns < MaxTurns[position]
        /\ forward' = ~forward
        /\ \E cursor \in {Link(~forward)} : page' = Fetch(cursor)
        /\ repeated' = (Range(page'.items) \cap here # {})
        /\ seen' = here \cup Range(page'.items)
        /\ due' = {r \in rows : \/ r \in here
                                \/ /\ here # {}
                                   /\ \A s \in here : IF forward THEN Before(r, s) ELSE Before(s, r)}
        /\ turns' = turns + 1
        /\ UNCHANGED <<position, rows, unborn, changes>>

Insert ==
    /\ changes < MaxChanges[position]
    /\ \E r \in unborn : rows' = rows \cup {r} /\ unborn' = unborn \ {r}
    /\ changes' = changes + 1
    /\ UNCHANGED <<position, page, forward, seen, repeated, due, turns>>

Delete ==
    /\ changes < MaxChanges[position]
    /\ \E r \in rows : rows' = rows \ {r} /\ due' = due \ {r}
    /\ changes' = changes + 1
    /\ UNCHANGED <<position, unborn, page, forward, seen, repeated, turns>>

Next == Follow \/ Turn \/ Insert \/ Delete

Spec == Init /\ [][Next]_vars

\* A client that keeps following the link.
FairSpec == Spec /\ WF_vars(Follow)

(***************************************************************************)
(* Properties.                                                              *)
(***************************************************************************)
\* Every variable has the shape the code gives it.
TypeOK ==
    /\ position \in Assignments
    /\ rows \subseteq Rows /\ unborn \subseteq Rows \ rows
    /\ seen \subseteq Rows /\ due \subseteq rows
    /\ Range(page.items) \subseteq Rows /\ Len(page.items) <= PageSize
    /\ page.cursor \in [offset : 0..OffsetCutoff, reverse : BOOLEAN, position : Range(position) \cup {None}]
    /\ forward \in BOOLEAN /\ repeated \in BOOLEAN

\* "the client will never see the same item twice when paging through records, even when
\* new items are being inserted": a walk in one direction gives no row twice.
SeenOnce == ~repeated

\* A walk that has come to its end has given every row that was there, at or after its
\* first page, when it set out, and still is.
NothingSkipped == ~HasLink(forward) => due \subseteq seen

\* With nobody else changing the rows, the previous link of the next page leads back to
\* the page, as long as no two rows share a position.
RoundTrip ==
    LET next == Fetch(NextCursor(page))
    IN  (/\ \A r, s \in Rows : position[r] = position[s] => r = s
         /\ page = Fetch(page.cursor) /\ page.hasNext /\ page.items # <<>> /\ next.items # <<>>)
        => next.hasPrevious /\ Fetch(PreviousCursor(next)).items = page.items

\* Following the link again and again comes to an end.
WalkEnds == <>~HasLink(forward)
=============================================================================
