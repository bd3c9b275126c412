SPECIFICATION EitherSpec
CONSTANTS
    Orgs = {o1}
    Malformed = {}
    Items = {i1}
    Top = Top
    Editors = {e1, e2}
    NewStatuses = {"approved"}
    Servers = {s1, s2}
    Secondaries = {}
    ReadFrom = "primary"
    MaxRetries = 2
    Form = Form
    Nobody = Nobody
    FaultKinds = {"crash", "database", "unlock"}
    MaxFaults = 2
    Repositories = {"mongodb", "inmemory"}
SYMMETRY Symmetry
INVARIANTS
    StatusHistoryOnlyGrows
    OneMigrationAtATime
    StoredPutsAreConfirmed
PROPERTY ImplementsStore
CHECK_DEADLOCK FALSE
