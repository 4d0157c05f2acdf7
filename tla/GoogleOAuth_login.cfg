SPECIFICATION Spec
CONSTANTS
    Browsers = {b1, b2}
    Requests = {q1, q2}
    LoginFlows = {f1, f2}
    DriveFlows = {f3}
    s1 = s1
    s2 = s2
    a = a
    b = b
    Subjects = {s1, s2}
    Emails = {a, b}
    None = None
    FirstDirectory <- TwoAddresses
    MaxGeneration = 0
    MaxLogins = 1
    MaxAnswers = 0
SYMMETRY Symmetry
CHECK_DEADLOCK FALSE
INVARIANTS
    SessionIsProved
    StoredFlowIsOwn
