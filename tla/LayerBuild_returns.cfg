\* Two processes on one machine, a failed one started again as the other;
\* faults, and weak fairness of each worker.
SPECIFICATION FairSpec
CONSTANTS
    w1 = w1
    w2 = w2
    a = a
    b = b
    LayerSet = {1}
    LayerId = {1, 2}
    SetOf <- OneSet
    Worker = {w1, w2}
    NoWorker = NoWorker
    Host = {w1}
    HostOf <- SharedHost
    Path = {a}
    Content <- AllPaths
    Rounds = 2
PROPERTY BuildReturns
CHECK_DEADLOCK FALSE
