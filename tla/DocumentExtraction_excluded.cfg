SPECIFICATION Spec
CONSTANTS
    Messages = {m1, m2}
    Syncs = {s1}
    Unreadable = {}
    Reverts = FALSE
    MaxAttempts = 1
    MaxRetries = 0
    MaxEdits = 2
    MaxFaults = 2
SYMMETRY Symmetry
INVARIANT SyncedRowHasCurrentContent
