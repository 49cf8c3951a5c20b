\* The owner of a row is read-only, with the current user as its default.
CONSTANTS
    w1 = w1  w2 = w2  none = none  missing = missing  absent = absent
    Workers = {w1}
    As = {1, 2}
    Bs = {1, 2}
    None = none
    Missing = missing
    Absent = absent
    MaxPk = 3
    Validators = {"together"}
    Constraints = {"together"}
    Operations = {"create", "update", "partial_update", "destroy"}
    MaxItems = 1
    ReadOnly = TRUE
SYMMETRY Symmetry
SPECIFICATION Spec
INVARIANTS CheckedIsSaved
CHECK_DEADLOCK FALSE
