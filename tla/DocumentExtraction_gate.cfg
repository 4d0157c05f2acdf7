SPECIFICATION FairSpec
CONSTANTS
    Messages = {m1, m2}
    Syncs = {s1}
    Unreadable = {}
    Reverts = FALSE
    MaxAttempts = 1
    MaxRetries = 0
    MaxEdits = 1
    MaxFaults = 0
PROPERTY ExtractedDocumentBecomesReady
