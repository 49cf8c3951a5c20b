\* What becomes of an APIException, wherever it is raised.
CONSTANTS
    alice = alice  bob = bob  anonymous = anonymous  none = none  unset = unset
    bad = bad
    Users = {alice}
    Inactive = {}
    Anonymous = anonymous
    None = none
    Unset = unset
    BadToken = bad
    Chain <- TokenThenSession
    Requests <- AllRequests
    original = 0
    Renderers <- JsonFirst
    Allowed <- Detail
    PermissionChoices = {{"IsAuthenticated", "DjangoObjectPermissions"}}
    Required <- WithView
    Grants = {"view", "change"}
    Versioned = TRUE
SPECIFICATION Spec
INVARIANTS ErrorsAreHandled
CHECK_DEADLOCK FALSE
