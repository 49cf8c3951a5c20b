\* A PUT and a DELETE of the same row.
CONSTANTS
    w1 = w1  w2 = w2  none = none  missing = missing  absent = absent
    Workers = {w1, w2}
    As = {1, 2}
    Bs = {1}
    None = none
    Missing = missing
    Absent = absent
    MaxPk = 2
    Validators = {"together"}
    Constraints = {}
    Operations = {"create", "update", "partial_update", "destroy"}
    MaxItems = 1
    ReadOnly = FALSE
SYMMETRY Symmetry
SPECIFICATION Spec
INVARIANTS DeletedStaysDeleted
CHECK_DEADLOCK FALSE
