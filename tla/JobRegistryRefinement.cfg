CONSTANTS
    j1 = j1
    j2 = j2
    j3 = j3
    j4 = j4
    c1 = c1
    c2 = c2
    Jobs <- Jobs2
    Callers <- Callers2
    MaxRunning = 1
    MaxEntries = 1
    Retention = 2
    MaxTime = 2
    Free = Free
SPECIFICATION Spec
PROPERTIES
    LifecycleSpec
    Served
    EvictsOldest
