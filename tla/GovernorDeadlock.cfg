CONSTANTS
    a = a
    b = b
    t1 = t1
    t2 = t2
    t3 = t3
    i1 = i1
    i2 = i2
    Models = {a, b}
    Tasks = {t1, t2}
    Timers = {i1, i2}
    ModelOf <- Apart
    Sidecars = {}
    Footprint <- BothHeavy
    HeavyThreshold = 4
    Budget = 6
    JobTasks = {}
    Cancellable = {}
    CancelPoints <- Awaits
    Faults = {}
    WindowsElapse = TRUE
    Policies = {"StrictSingle"}
    Unknown = Unknown
    None = None
SPECIFICATION FairSpec
PROPERTIES RequestsEnd
CHECK_DEADLOCK FALSE
