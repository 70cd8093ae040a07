SPECIFICATION Spec
CONSTANTS
    Sessions = {s1, s2}
    MaxGeneration = 2
    Cooperative = FALSE
    Mishaps = {"death", "garble", "count", "loadDropped", "stopDropped", "quit"}
    Budgets <- OverRestarts
    Loader = Loader
    None = None
SYMMETRY Interchangeable
INVARIANTS FromThisProcess BusyIsHeld NobodyForgotten
CHECK_DEADLOCK FALSE
