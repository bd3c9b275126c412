SPECIFICATION EitherFairSpec
CONSTANTS
    Orgs = {o1, o2}
    Malformed = {o2}
    Items = {i1}
    Top = Top
    Editors = {e1, e2}
    NewStatuses = {}
    Servers = {s1}
    Secondaries = {d1}
    ReadFrom = "secondary"
    MaxRetries = 2
    Form = Form
    Nobody = Nobody
    FaultKinds = {"database"}
    MaxFaults = 1
    Repositories = {"mongodb", "inmemory"}
INVARIANTS
    EitherInv
    AnswerShowsTheEdit
PROPERTIES
    EverythingEnds
    LockIsReturned
CHECK_DEADLOCK FALSE
