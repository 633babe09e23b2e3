\* A stop beside a worker that holds a copy of the item it cancels.
SPECIFICATION Spec
CONSTANTS
    k1 = k1
    k2 = k2
    w1 = w1
    w2 = w2
    Keys <- MCKeys
    Workers <- MCWorkers
    NoWorker = NoWorker
    MaxRows = 2
    MaxStops = 1
    MaxFaults = 0
    MaxCrashes = 1
PROPERTY StopClears
\* The lane is empty and nobody has a request left.
CHECK_DEADLOCK FALSE
