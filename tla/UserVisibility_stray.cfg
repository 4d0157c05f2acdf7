SPECIFICATION Spec
CONSTANTS
    Docs = {d1}
    Workers = {w1}
    Runs = {r1}
    Web = web
    NoRun = noRun
    MaxDocuments = 1
    MaxConnGen = 2
    MaxAuthGen = 2
    MaxMarker = 2
SYMMETRY Symmetry
CHECK_DEADLOCK FALSE
INVARIANT NoDirectTupleUnderDelegated
