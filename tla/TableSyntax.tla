------------------------------ MODULE TableSyntax -------------------------------
(***************************************************************************)
(* What validateDataSyntax finds in the tables that SheetParser read from  *)
(* a workbook: missing headers, and cells that the row schema refuses,     *)
(* with the place in the workbook where the user is sent to look for them. *)
(* LogValidation takes a table for the number of its faults.               *)
(*                                                                         *)
(* SheetParser keeps columns as numbers; the code keeps their letters, and *)
(* has to calculate with them.  A letter is a number from 0 to 25.         *)
(***************************************************************************)
EXTENDS SheetParser, Functions

VARIABLES
    checked,  \* the tables that have been validated
    issues    \* the issues found so far (LogValidation has their order)

syntax == <<checked, issues>>

SyntaxInit == Init /\ checked = {} /\ issues = {}
--------------------------------------------------------------------------------
(* columns.js *)

AlphabetSize == 26

\* Mutant: the letters of a number in base 26, where Z would be a zero.
LettersInBase26(colNumber) ==
    LET letters[n \in Nat] == IF n < AlphabetSize THEN <<n>>
                              ELSE Append(letters[n \div AlphabetSize], n % AlphabetSize)
    IN  letters[colNumber - 1]

ColumnNumberToLetter(colNumber) ==
    LET letters[n \in Nat] == IF n = 0 THEN <<>>
                              ELSE Append(letters[(n - 1) \div AlphabetSize], (n - 1) % AlphabetSize)
    IN  letters[colNumber]

ColumnLetterToNumber(letters) ==
    LET number[n \in 0 .. Len(letters)] ==
            IF n = 0 THEN 0 ELSE number[n - 1] * AlphabetSize + letters[n] + 1
    IN  number[Len(letters)]

OffsetColumn(baseColumn, offset) == ColumnNumberToLetter(ColumnLetterToNumber(baseColumn) + offset)
--------------------------------------------------------------------------------
(* table-schemas.schema.js: the texts of a workbook that a column takes *)

Positive == {"10000", "0.5", "1"}
Number == Positive \cup {"0", "-1"}
Column == [
    OUR_REFERENCE |-> {"10000"},
    \* A number is a date in milliseconds, and V8 reads this EWC code as 3 March 2008.
    DATE_RECEIVED |-> {"2025-01-31", "03 03 08"} \cup Number,
    EWC_CODE |-> {"03 03 08"},
    GROSS_WEIGHT |-> Positive,
    TARE_WEIGHT |-> Positive,
    PALLET_WEIGHT |-> Positive,
    NET_WEIGHT |-> Positive,
    BAILING_WIRE |-> {"true"},
    HOW_CALCULATE_RECYCLABLE |-> {"AAA"},
    WEIGHT_OF_NON_TARGET |-> Positive,
    RECYCLABLE_PROPORTION |-> {"0.5"},
    TONNAGE_RECEIVED_FOR_EXPORT |-> Number]
RequiredHeaders == <<
    "OUR_REFERENCE", "DATE_RECEIVED", "EWC_CODE", "GROSS_WEIGHT", "TARE_WEIGHT", "PALLET_WEIGHT",
    "NET_WEIGHT", "BAILING_WIRE", "HOW_CALCULATE_RECYCLABLE", "WEIGHT_OF_NON_TARGET",
    "RECYCLABLE_PROPORTION", "TONNAGE_RECEIVED_FOR_EXPORT">>

HasSchema(table) == table.name = "UPDATE_WASTE_BALANCE"
--------------------------------------------------------------------------------
(* data-syntax.js *)

\* A marker is no header, and a skipped column has none.
IsHeader(cell) == cell.kind = "text"
Headings(headers) == {headers[i].name : i \in {j \in DOMAIN headers : IsHeader(headers[j])}}

Start(table) == [table.location EXCEPT !.column = ColumnNumberToLetter(@)]

ValidateHeaders(table) ==
    {[severity |-> "fatal", field |-> h, location |-> Start(table), actual |-> Null] :
        h \in Range(RequiredHeaders) \ Headings(table.headers)}

\* headerToIndexMap: of equal headers the last one counts.
HeaderToIndex(headers, header) ==
    Max({i \in DOMAIN headers : IsHeader(headers[i]) /\ headers[i].name = header})

\* What is in rows[r] under a header; a short row has nothing there.
ValueIn(table, r, i) == IF i \in DOMAIN table.rows[r] THEN table.rows[r][i] ELSE Null
Refused(header, cell) == cell.kind # "text" \/ cell.name \notin Column[header]

\* processRowErrors; the code counts rows and columns from zero.
ErrorLocation(table, r, i) ==
    LET start == Start(table)
    IN  [sheet |-> start.sheet, row |-> start.row + r, column |-> OffsetColumn(start.column, i - 1)]

\* One row held against rowSchema, which does not abort early and takes other columns.
ValidateRow(table, r) ==
    LET index(h) == HeaderToIndex(table.headers, h)
    IN  {[severity |-> "error", field |-> h, location |-> ErrorLocation(table, r, index(h)),
          actual |-> ValueIn(table, r, index(h))] :
            h \in {g \in Range(RequiredHeaders) : Refused(g, ValueIn(table, r, index(g)))}}
ValidateRows(table) == UNION {ValidateRow(table, r) : r \in DOMAIN table.rows}

IsFatal(found) == \E i \in found : i.severity = "fatal"

\* The order of the tables shows nowhere, as one kind alone has a schema.
ValidateTable(table) ==
    /\ status = "parsed" /\ table \notin checked
    /\ LET headed == issues \cup ValidateHeaders(table)
       IN  issues' = IF ~HasSchema(table) THEN issues
                     ELSE IF IsFatal(headed) THEN headed ELSE headed \cup ValidateRows(table)
    /\ checked' = checked \cup {table}
    /\ UNCHANGED vars

Parse(A) == A /\ UNCHANGED syntax

SyntaxNext ==
    \/ Parse(ProcessCell) \/ Parse(EndRow) \/ Parse(SkipRow)
    \/ Parse(EndSheet) \/ Parse(EndParse)
    \/ \E table \in data : ValidateTable(table)

SyntaxSpec == SyntaxInit /\ [][SyntaxNext]_<<vars, syntax>>
--------------------------------------------------------------------------------
(* Correctness *)

\* Letters count the columns of a worksheet.
At(location) == [location EXCEPT !.column = ColumnLetterToNumber(@)]

Judged(table) == HasSchema(table) /\ Range(RequiredHeaders) \subseteq Headings(table.headers)

\* In the rows of a table with all its headers, every cell that its column refuses is
\* reported, with the location in which the user finds it and what stands there, and no
\* other cell is; rows that the scan took from below the table's end are left aside.
\* Columns may be in any order, skipped, repeated or beyond Z ("Reports precise error
\* locations", data-syntax.js).
BadCellsAreFound ==
    status = "parsed" /\ checked = data /\ ~IsFatal(issues) =>
        \A t \in {table \in data : Judged(table)} :
            LET m == MarkerOf(t)
                column(h) == Max({c \in m.column + 1 .. m.column + Width(m) :
                                    CellAt([m EXCEPT !.column = c]) = [kind |-> "text", name |-> h]})
                cell(h, r) == [sheet |-> m.sheet, row |-> r, column |-> column(h)]
            IN  \A r \in OwnRows(m) :
                    {[field |-> issue.field, at |-> At(issue.location), actual |-> issue.actual] :
                        issue \in {i \in issues : i.location.row = r /\ i.location.sheet = m.sheet}}
                    = {[field |-> h, at |-> cell(h, r), actual |-> Read(cell(h, r))] :
                        h \in {g \in Range(RequiredHeaders) : Refused(g, Read(cell(g, r)))}}
--------------------------------------------------------------------------------
(* The invariant of the proofs *)

IssuesOf(table) ==
    LET headed == ValidateHeaders(table)
    IN  IF IsFatal(headed) THEN headed ELSE headed \cup ValidateRows(table)

\* What was found is what the checked tables hold, of which one at most has a schema.
SyntaxInv ==
    /\ IInv
    /\ checked \subseteq data
    /\ status # "parsed" => checked = {}
    /\ issues = UNION {IssuesOf(t) : t \in {u \in checked : HasSchema(u)}}
================================================================================
