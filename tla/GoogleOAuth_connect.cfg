SPECIFICATION Spec
CONSTANTS
    Browsers = {b1}
    Requests = {q1, q2}
    LoginFlows = {f1}
    DriveFlows = {f2, f3}
    s1 = s1
    s2 = s2
    a = a
    b = b
    Subjects = {s1, s2}
    Emails = {a}
    None = None
    FirstDirectory <- OneAddress
    MaxGeneration = 1
    MaxLogins = 1
    MaxAnswers = 1
SYMMETRY Symmetry
CHECK_DEADLOCK FALSE
INVARIANTS
    TypeOK
    OneActivePerEmail
    ActiveIsConsented
    RevokedIsNotHeld
    InactiveHoldsNothing
    EvidenceIsOfPresentConsent
