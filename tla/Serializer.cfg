\* A view calls the serializer of one object, or of a list, in any order.
CONSTANTS
    unset = unset  none = none
    Unset = unset
    None = none
    MaxWrites = 6
SPECIFICATION Spec
INVARIANTS DataIsWhatWasSaved SavedWasValid CreatedOnce
CHECK_DEADLOCK FALSE
