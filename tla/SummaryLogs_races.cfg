SPECIFICATION EitherSpec
CONSTANTS
    Logs = {l1}
    Servers = {s1, s2}
    Secondaries = {d1}
    Requests = {r1, r2, r3}
    FileIds = {f1, f2}
    NoFile = NoFile
    ReadFrom = "secondary"
    FaultKinds = {"crash", "stop", "database", "emptyMessage"}
    MaxFaults = 1
    Repositories = {"mongodb", "inmemory"}
SYMMETRY Symmetry
INVARIANTS
    TypeOK
    OneValidationPerLog
    EitherInv
    AcknowledgedOutcomeStands
    FinalAnswerIsTrue
    NeverNotFound
PROPERTIES
    ImplementsLifecycle
    AnswersMoveForward
CHECK_DEADLOCK FALSE
