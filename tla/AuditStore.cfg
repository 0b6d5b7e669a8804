\* The writer thread against its promise, with failing calls and restarts.
CONSTANTS
    MaxBatch = 2
    BoardRows = 2
    MaxSent = 5
    MaxFaults = 2
    MaxCrashes = 2
\* The instance rests when its decisions are all handed over and dealt with.
CHECK_DEADLOCK FALSE
SPECIFICATION FairSpec
INVARIANTS
    TypeOK
    RowsHaveEvidence
    NothingLostQuietly
    StartsWithItsTables
PROPERTIES
    KeepsThePromise
    BoardKeepsItsRows
    EventuallySettled
