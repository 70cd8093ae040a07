CONSTANTS
    r1 = r1
    r2 = r2
    r3 = r3
    genA = genA
    loadA = loadA
    Requests = {r1, r2, r3}
    Producers = {genA, loadA}
    Shareable = {genA}
    NoProducer = NoProducer
SPECIFICATION FairSpec
INVARIANTS TypeOK HoldersCountGuards Exclusive NeverUnbalanced NoWaiterStranded
PROPERTIES ImplementsFairGate WaiterServed CancelledNeverHolds
