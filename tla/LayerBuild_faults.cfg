\* Two workers on two machines, three layers of one set, and all faults.
SPECIFICATION Spec
CONSTANTS
    w1 = w1
    w2 = w2
    a = a
    b = b
    LayerSet = {1}
    LayerId = {1, 2, 3}
    SetOf <- OneSet
    Worker = {w1, w2}
    NoWorker = NoWorker
    Host = {w1, w2}
    HostOf <- OwnHost
    Path = {a}
    Content <- AllPaths
    Rounds = 1
SYMMETRY WorkerSymmetry
INVARIANTS
    OneLayerInFlight
    CancelledIsSuperseded
    FinishHoldsLock
    ReadyIsComplete
    IInv
PROPERTIES
    PublishedInOrder
    LastBuildAdvances
    ImplementsPublish
CHECK_DEADLOCK FALSE
