\* Two views that share a throttle, two clients of which one is exempt, two workers.
CONSTANTS
    w1 = w1  w2 = w2  alice = alice  bob = bob
    anon = anon  burst = burst  sustained = sustained  list = list  detail = detail
    Workers = {w1, w2}
    Clients = {alice, bob}
    Throttles = {burst, sustained}
    Views = {list, detail}
    ThrottleClasses <- TwoViews
    Duration <- Periods
    Limits <- FixedLimits
    Exempt <- BobIsExempt
    MaxTime = 3
    MaxLog = 2
SYMMETRY Symmetry
SPECIFICATION Spec
INVARIANTS WindowLimit RetryAfterInRange
CHECK_DEADLOCK FALSE
