SPECIFICATION FairSpec
CONSTANTS
    Logs = {l1}
    Servers = {s1}
    Secondaries = {d1}
    Requests = {r1, r2}
    FileIds = {f1}
    NoFile = NoFile
    ReadFrom = "secondary"
    FaultKinds = {}
    MaxFaults = 0
PROPERTY ValidationConcludes
CHECK_DEADLOCK FALSE
