SPECIFICATION FairSpec
CONSTANTS
    Users = {u}
    Groups = {g}
    Folders = {root, f}
    Documents = {d}
    Root = root
    Direct = Direct
    Refused = Refused
    Detailed = {TRUE}
    MaxEdits = 1
    Runs = {r1}
    Syncs = {s1}
    Unsupported = {}
    BatchSize = 500
    MaxAge = 1
    RunLimit = 1
    SyncLimit = 1
    MaxFaults = 1
INVARIANTS
    TypeOK
    AllowedOverRecentTuples
PROPERTY EntitledUserIsServed
