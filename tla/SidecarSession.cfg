SPECIFICATION FairSpec
CONSTANTS
    Sessions = {s1, s2}
    MaxGeneration = 1
    Cooperative = TRUE
    Mishaps = {"death"}
    Budgets <- TwoRequests
    Loader = Loader
    None = None
PROPERTY SessionsEnd
INVARIANTS TypeOK 
CHECK_DEADLOCK FALSE
