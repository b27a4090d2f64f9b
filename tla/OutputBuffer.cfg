CONSTANTS
    Cap = 3
    MaxBytes = 9
    Readers = {r1}
SPECIFICATION Spec
INVARIANTS
    TypeOK
    TailIsLatest
    SnapshotCovers
    EndedSnapshotComplete
PROPERTY Rising
