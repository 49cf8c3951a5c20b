\* A client walks through the pages: every subset of six rows, unique positions or shared ones.
CONSTANTS
    none = none
    None = none
    Rows <- SixRows
    Assignments <- UniqueOrShared
    Descending = TRUE
    PageSize = 2
    OffsetCutoff = 4
    MaxChanges <- TwoIfUnique
    MaxTurns <- TwoIfUnique
SPECIFICATION FairSpec
INVARIANTS SeenOnce NothingSkipped RoundTrip
PROPERTIES WalkEnds
CHECK_DEADLOCK FALSE
