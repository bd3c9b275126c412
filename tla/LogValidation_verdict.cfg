SPECIFICATION Spec
CONSTANTS
    Numbers = {n1, n2}
    Absent = Absent
    Malformed = Malformed
    TwiceMalformed = TwiceMalformed
    Unstored = Unstored
    Tables <- MCTables
    MaxTables = 2
INVARIANTS TypeOK VerdictIsRight ReportIsComplete
CHECK_DEADLOCK FALSE
