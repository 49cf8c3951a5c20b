\* Positions that rows share, while rows are inserted.
CONSTANTS
    none = none
    None = none
    Rows <- SixRows
    Assignments <- Timeline
    Descending = TRUE
    PageSize = 2
    OffsetCutoff = 4
    MaxChanges <- One
    MaxTurns <- Never
SPECIFICATION Spec
INVARIANTS SeenOnce
CHECK_DEADLOCK FALSE
