\* A nullable date field with UniqueForDateValidator.
CONSTANTS
    w1 = w1  w2 = w2  none = none  missing = missing  absent = absent
    Workers = {w1}
    As = {1, 2}
    Bs = {1, none}
    None = none
    Missing = missing
    Absent = absent
    MaxPk = 2
    Validators = {"for_date"}
    Constraints = {}
    Operations = {"create", "update", "partial_update", "destroy"}
    MaxItems = 1
    ReadOnly = FALSE
SYMMETRY Symmetry
SPECIFICATION Spec
INVARIANTS ValidatorsDoNotFail
CHECK_DEADLOCK FALSE
