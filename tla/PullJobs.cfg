SPECIFICATION FairSpec
CONSTANTS
    Jobs = {1, 2}
    Workers = {1, 2}
    Clients = {c1, c2}
    c1 = c1
    c2 = c2
    r1 = r1
    r2 = r2
    References = {r1, r2}
    Slots = 1
    Budgets <- Plans
    None = None
INVARIANTS TypeOK OneTransfer StopsForFreshAsk
PROPERTIES StopsAnswered NothingWaitsForGood
CHECK_DEADLOCK FALSE
