SPECIFICATION FairSpec
CONSTANTS
    Messages = {m1, m2}
    Syncs = {s1}
    Unreadable = {2}
    Reverts = FALSE
    MaxAttempts = 2
    MaxRetries = 1
    MaxEdits = 3
    MaxFaults = 1
INVARIANTS
    TypeOK
    GateHasProvenance
PROPERTY ExtractionSettles
