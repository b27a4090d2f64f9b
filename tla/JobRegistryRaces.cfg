CONSTANTS
    j1 = j1
    j2 = j2
    j3 = j3
    j4 = j4
    c1 = c1
    c2 = c2
    Jobs <- Jobs4
    Callers <- Callers2
    MaxRunning = 2
    MaxEntries = 2
    Retention = 1
    MaxTime = 0
    Free = Free
SPECIFICATION Safe
SYMMETRY Symmetry
INVARIANTS
    TypeOK
    SessionsBounded
    EntriesBounded
    AnswersHold
    UnknownMeansOver
