SPECIFICATION FairSpec
CONSTANTS
    Runs = {r1, r2}
    Deliveries = {d1, d2}
    NoRun = noRun
    MaxRetries = 1
    StaleTimeout = 2
    WorkLimit = 1
    MaxFaults = 1
    MaxRequests = 1
INVARIANTS
    TypeOK
    OneWorkerAtATime
PROPERTIES
    SuccessIsFinal
    RunsSettle
    EvidenceReturns
