------------------------- MODULE MCCursorPagination -------------------------
(***************************************************************************)
(* Small instances of CursorPagination: six rows with unique positions, or     *)
(* with any positions that rows share, and pages of two.                    *)
(***************************************************************************)
EXTENDS CursorPagination

CONSTANTS none

SixRows == 1..6
Unique == [r \in SixRows |-> r]
Shared == {f \in [SixRows -> 1..4] : f[6] = 4 /\ \A r \in 1..5 : f[r] <= 3}
UniqueOrShared == {Unique} \cup Shared

\* With unique positions rows come and go and the client turns round; with shared ones, which
\* promise less, it walks to the end and nobody changes them.
TwoIfUnique == [f \in Assignments |-> IF f = Unique THEN 2 ELSE 0]

\* The last row is newer than the others, which were created at the same time.
Timeline == {[r \in SixRows |-> IF r = 6 THEN 2 ELSE 1]}
One == [f \in Assignments |-> 1]
Never == [f \in Assignments |-> 0]
=============================================================================
