SPECIFICATION Spec
CONSTANTS
    Users = {u}
    Groups = {}
    Folders = {root, f}
    Documents = {d}
    Root = root
    Direct = Direct
    Refused = Refused
    Detailed = {TRUE}
    MaxEdits = 3
    Runs = {r1}
    Syncs = {}
    Unsupported = {}
    BatchSize = 1
    MaxAge = 1
    RunLimit = 1
    SyncLimit = 1
    MaxFaults = 0
INVARIANT OnlyGrantedIsAllowed
CHECK_DEADLOCK FALSE
