SPECIFICATION Spec
CONSTANTS
    Sessions = {s1, s2}
    MaxGeneration = 1
    Cooperative = FALSE
    Mishaps = {}
    Budgets <- TwoRequests
    Loader = Loader
    None = None
PROPERTY StaleFiringIsNoOp
CHECK_DEADLOCK FALSE
