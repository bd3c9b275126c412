\* The scan against the tables and names a workbook holds.
CONSTANTS
    Names = {"a", "b", "UPDATE_WASTE_BALANCE"}
    Texts <- MCTexts
    MaxRows = 3
    Workbooks <- MCWorkbooks
SPECIFICATION SyntaxSpec
INVARIANTS TypeOK RefusedExactlyWhenAmbiguous EveryMarkerGivesItsTable BadCellsAreFound
CHECK_DEADLOCK FALSE
