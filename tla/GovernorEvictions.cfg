CONSTANTS
    a = a
    b = b
    t1 = t1
    t2 = t2
    t3 = t3
    i1 = i1
    i2 = i2
    Models = {a, b}
    Tasks = {t1, t2}
    Timers = {i1}
    ModelOf <- Apart
    Sidecars = {a}
    Footprint <- BothHeavy
    HeavyThreshold = 4
    Budget = 5
    JobTasks = {}
    Cancellable = {t1}
    CancelPoints <- Awaits
    Faults = {}
    WindowsElapse = TRUE
    Policies = {"StrictSingle", "Budgeted"}
    Unknown = Unknown
    None = None
SPECIFICATION Spec
INVARIANTS UnloadsSerialized
