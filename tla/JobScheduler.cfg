CONSTANTS
    c1 = c1
    c2 = c2
    s1 = s1
    s2 = s2
    Jobs = {1, 2}
    Cancellers = {c1}
    Subscribers = {s1}
    Limit = 1
    Steps = 1
    MaxEvents = 2
    None = None
SPECIFICATION FairSpec
INVARIANTS TypeOK OneAtATime CancelledStaysOut  
PROPERTIES JobsConclude StreamsEnd
CHECK_DEADLOCK FALSE
