SPECIFICATION Spec
CONSTANTS
    Users = {u, v}
    Groups = {g, h}
    Folders = {root, f}
    Documents = {d}
    Root = root
    Direct = Direct
    Refused = Refused
    Detailed = {TRUE, FALSE}
    MaxEdits = 4
    PageSize = 1
    SampleSize = 2
    MaxWalkEdits = 2
SYMMETRY Symmetry
CHECK_DEADLOCK FALSE
INVARIANTS
    TypeOK
    ViewIsDriveAccess
    LeftOutForAReason
    FindsWhatStays
    YieldsWhatWasStated
    ListsFoldersOnce
    UndisturbedWalkIsListing
