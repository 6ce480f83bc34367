\* The comment at build.rs:72 against two workers without faults.
SPECIFICATION FaultFreeSpec
CONSTANTS
    w1 = w1
    w2 = w2
    a = a
    b = b
    LayerSet = {1}
    LayerId = {1, 2, 3}
    SetOf <- OneSet
    Worker = {w1, w2}
    NoWorker = NoWorker
    Host = {w1, w2}
    HostOf <- OwnHost
    Path = {a}
    Content <- AllPaths
    Rounds = 1
PROPERTY BlockedByABuild
CHECK_DEADLOCK FALSE
