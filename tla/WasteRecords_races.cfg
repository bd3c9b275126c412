SPECIFICATION Spec
CONSTANTS
    Syncs = {s1, s2, s3}
    RowIds <- MCRowIds
    NumericIds <- MCNumericIds
    Printed <- MCPrinted
    NoId = NoId
    Fields <- MCFields
    DateField = "date"
    Values <- MCValues
    Objects <- MCObjects
    Zeros <- MCZeros
    Null = Null
    Undefined = Undefined
    Contents <- MCContents
    AtOnce = 3
INVARIANTS TypeOK VersionsExplainData
PROPERTIES HistoryGrowsInTurn NoVersionWithoutChange
CHECK_DEADLOCK FALSE
