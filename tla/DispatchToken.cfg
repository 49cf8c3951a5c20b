\* A detail view for users with a token or a session, with object permissions, that the
\* browsable API renders first.
CONSTANTS
    alice = alice  bob = bob  anonymous = anonymous  none = none  unset = unset
    bad = bad
    Users = {alice, bob}
    Inactive = {bob}
    Anonymous = anonymous
    None = none
    Unset = unset
    BadToken = bad
    Chain <- TokenThenSession
    Requests <- AllRequests
    original = 0
    Renderers <- BrowsableFirst
    Allowed <- Detail
    PermissionChoices <- EitherPermissions
    Required <- WithView
    Grants = {"view", "change"}
    Versioned = TRUE
SPECIFICATION Spec
INVARIANTS AtomicRequests Challenge HandlerIsPermitted FormsDoNotAuthenticate
PROPERTIES RefusalIsDelivered
CHECK_DEADLOCK FALSE
