\* Two workers that neither fail nor crash, each calling build() twice.
SPECIFICATION FaultFreeSpec
CONSTANTS
    w1 = w1
    w2 = w2
    a = a
    b = b
    LayerSet = {1, 2}
    LayerId = {1, 2, 3, 4}
    SetOf <- TwoSets
    Worker = {w1, w2}
    NoWorker = NoWorker
    Host = {w1, w2}
    HostOf <- OwnHost
    Path = {a}
    Content <- OddPaths
    Rounds = 2
SYMMETRY WorkerSymmetry
INVARIANT LockIsRecoverable
PROPERTY SoloWorkerSettles
CHECK_DEADLOCK FALSE
