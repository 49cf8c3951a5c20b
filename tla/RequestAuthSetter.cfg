\* What the setter of request.user promises.
CONSTANTS
    alice = alice  bob = bob  anonymous = anonymous  none = none  unset = unset
    bad = bad  r1 = r1  clone = clone
    Users = {alice, bob}
    Inactive = {bob}
    Anonymous = anonymous
    None = none
    Unset = unset
    BadToken = bad
    Chain <- TokenThenSession
    Requests = {r1, clone}
    original = r1
SPECIFICATION AuthSpec
INVARIANTS AssignedUserStays
CHECK_DEADLOCK FALSE
