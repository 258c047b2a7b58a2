CONSTANTS
    Records = {r1, r2, r3, r4}
    Capacity = 2
    MaxFailures = 1
SPECIFICATION WriterFairSpec
INVARIANTS
    RecordsAccounted
    AcceptedAreFlushed
PROPERTIES
    ShutdownEnds
    DropsReported
CHECK_DEADLOCK FALSE
