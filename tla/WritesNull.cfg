\* Updates of a row with a null.
CONSTANTS
    w1 = w1  w2 = w2  none = none  missing = missing  absent = absent
    Workers = {w1}
    As = {1, 2}
    Bs = {1, none}
    None = none
    Missing = missing
    Absent = absent
    MaxPk = 3
    Validators = {"together"}
    Constraints = {"together"}
    Operations = {"create", "update", "partial_update", "destroy"}
    MaxItems = 1
    ReadOnly = FALSE
SYMMETRY Symmetry
SPECIFICATION Spec
PROPERTIES NullsAreIgnored
CHECK_DEADLOCK FALSE
