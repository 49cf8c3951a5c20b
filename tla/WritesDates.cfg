\* UniqueForDateValidator, for which the database has no constraint.
CONSTANTS
    w1 = w1  w2 = w2  none = none  missing = missing  absent = absent
    Workers = {w1, w2}
    As = {1, 2}
    Bs = {1, 2}
    None = none
    Missing = missing
    Absent = absent
    MaxPk = 3
    Validators = {"for_date"}
    Constraints = {}
    Operations = {"create", "update", "partial_update", "destroy"}
    MaxItems = 1
    ReadOnly = FALSE
SYMMETRY Symmetry
SPECIFICATION Spec
INVARIANTS ValidatorsSuffice
PROPERTIES RefusalsAreConflicts
CHECK_DEADLOCK FALSE
