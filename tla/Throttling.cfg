\* Two workers, throttles of several rates of which a restart may change one's number of requests, a user they do not all throttle.
CONSTANTS
    w1 = w1  w2 = w2  alice = alice  bob = bob
    anon = anon  burst = burst  sustained = sustained  list = list  detail = detail
    Workers = {w1, w2}
    Clients = {alice}
    Throttles = {anon, burst, sustained}
    Views = {list, detail}
    ThrottleClasses <- UserAndAnon
    Duration <- Periods
    Limits <- ChangingLimits
    Exempt <- UsersAreNotAnonymous
    MaxTime = 3
    MaxLog = 2
SYMMETRY Symmetry
SPECIFICATION Spec
INVARIANTS WindowLimit HistoryBounded RetryAfterInRange
PROPERTIES RefusedOnlyWhenFull RetryAfterHonoured
CHECK_DEADLOCK FALSE
