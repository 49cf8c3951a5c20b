\* What a form of the browsable API may do to the response.
CONSTANTS
    alice = alice  bob = bob  anonymous = anonymous  none = none  unset = unset
    bad = bad
    Users = {alice}
    Inactive = {}
    Anonymous = anonymous
    None = none
    Unset = unset
    BadToken = bad
    Chain <- TokenThenSession
    Requests <- AllRequests
    original = 0
    Renderers <- JsonFirst
    Allowed <- DetailOrDelete
    PermissionChoices = {{"IsAuthenticated", "DjangoObjectPermissions"}}
    Required <- WithDelete
    Grants = {"view", "change", "delete"}
    Versioned = TRUE
SPECIFICATION Spec
INVARIANTS FormsAreHidden
CHECK_DEADLOCK FALSE
