\* A row that the scan does not meet does not end a table.
CONSTANTS
    Names = {"a", "b", "UPDATE_WASTE_BALANCE"}
    Texts <- MCTexts
    MaxRows = 3
    Workbooks <- MCWorkbooks
SPECIFICATION SyntaxSpec
INVARIANT EmptyRowEndsTable
CHECK_DEADLOCK FALSE
