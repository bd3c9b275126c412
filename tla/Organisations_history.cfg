SPECIFICATION Spec
CONSTANTS
    Orgs = {o1}
    Malformed = {}
    Items = {i1}
    Top = Top
    Editors = {e1, e2}
    NewStatuses = {"approved", "rejected"}
    Servers = {s1}
    Secondaries = {d1, d2}
    ReadFrom = "secondary"
    MaxRetries = 2
    Form = Form
    Nobody = Nobody
    FaultKinds = {}
    MaxFaults = 0
INVARIANT StatusHistoryOnlyGrows
CHECK_DEADLOCK FALSE
