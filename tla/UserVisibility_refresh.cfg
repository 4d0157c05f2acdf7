SPECIFICATION Spec
CONSTANTS
    Docs = {d1, d2}
    Workers = {w1, w2}
    Runs = {r1}
    Web = web
    NoRun = noRun
    MaxDocuments = 1
    MaxConnGen = 2
    MaxAuthGen = 2
    MaxMarker = 2
SYMMETRY Symmetry
CHECK_DEADLOCK FALSE
INVARIANTS
    TypeOK
    EvidenceRestsOnCurrentAnswer
    RefreshFailsClosed
    EvidenceIsCurrentGeneration
