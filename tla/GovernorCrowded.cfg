CONSTANTS
    a = a
    b = b
    t1 = t1
    t2 = t2
    t3 = t3
    i1 = i1
    i2 = i2
    Models = {a, b}
    Tasks = {t1, t2, t3}
    Timers = {i1}
    ModelOf <- Crowded
    Sidecars = {a, b}
    Footprint <- BothHeavy
    HeavyThreshold = 4
    Budget = 6
    JobTasks = {}
    Cancellable = {t1, t2, t3}
    CancelPoints <- CleanAwaits
    Faults = {}
    WindowsElapse = FALSE
    Policies = {"StrictSingle"}
    Unknown = Unknown
    None = None
SPECIFICATION Spec
INVARIANTS BodyIsResident 
  
