\* Constraints of the database behind the validators, a nullable field, and lists.
CONSTANTS
    w1 = w1  w2 = w2  none = none  missing = missing  absent = absent
    Workers = {w1, w2}
    As = {1, 2}
    Bs = {1, none}
    None = none
    Missing = missing
    Absent = absent
    MaxPk = 3
    Validators = {"unique", "together"}
    Constraints = {"unique", "together"}
    Operations = {"create", "update", "partial_update", "destroy"}
    MaxItems = 2
    ReadOnly = FALSE
SYMMETRY Symmetry
SPECIFICATION Spec
INVARIANTS TypeOK ServerErrorsAreRaces
PROPERTIES OthersKept RefusalsAreConflicts
CHECK_DEADLOCK FALSE
