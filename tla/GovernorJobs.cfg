CONSTANTS
    a = a
    b = b
    t1 = t1
    t2 = t2
    t3 = t3
    i1 = i1
    i2 = i2
    Models = {a, b}
    Tasks = {t1, t2}
    Timers = {i1, i2}
    ModelOf <- Apart
    Sidecars = {a}
    Footprint <- OneHeavy
    HeavyThreshold = 4
    Budget = 6
    JobTasks = {t2}
    Cancellable = {t1, t2}
    CancelPoints <- CleanAwaits
    Faults = {}
    WindowsElapse = FALSE
    Policies = {"StrictSingle"}
    Unknown = Unknown
    None = None
SPECIFICATION FairSpec
INVARIANTS LeasesBalanced 
 
