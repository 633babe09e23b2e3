\* Two requests to a lane, one stop, one failed write and one crash. No symmetry: liveness.
SPECIFICATION FairSpec
CONSTANTS
    k1 = k1
    k2 = k2
    w1 = w1
    w2 = w2
    Keys <- MCKeys
    Workers <- MCWorkers
    NoWorker = NoWorker
    MaxRows = 2
    MaxStops = 1
    MaxFaults = 1
    MaxCrashes = 1
INVARIANTS
    QueueTypeOK
    OncePerLife
    NothingStranded
    SerialUnlessStopped
PROPERTIES
    EndedNeverActive
    Drains
\* The lane is empty and nobody has a request left.
CHECK_DEADLOCK FALSE
