\* What a list serializer gives after a save.
CONSTANTS
    unset = unset  none = none
    Unset = unset
    None = none
    MaxWrites = 4
SPECIFICATION Spec
INVARIANTS ListDataIsWhatWasSaved
CHECK_DEADLOCK FALSE
