SPECIFICATION Spec
CONSTANTS
    Jobs = {1}
    Workers = {1}
    Clients = {c1}
    c1 = c1
    c2 = c2
    r1 = r1
    r2 = r2
    References = {r1, r2}
    Slots = 1
    Budgets <- OneCancel
    None = None
PROPERTY StandsDown
CHECK_DEADLOCK FALSE
