------------------------------ MODULE SheetParser ------------------------------
(***************************************************************************)
(* The parser of summary-log workbooks, exceljs-parser.js: one scan over   *)
(* the cells of all worksheets, which collects the metadata and the tables *)
(* that the template markers point at.  Extract of LogValidation stands    *)
(* for this module and for the download before it.                         *)
(***************************************************************************)
EXTENDS Integers, Sequences, FiniteSetsExt

CONSTANTS
    Workbooks,   \* the workbooks to parse: sequences of worksheets, of rows, of cells
    Names,       \* names a marker may carry
    Texts        \* other contents of a cell

\* What a cell holds.  "null": nothing, not even an empty text; "empty": a value
\* that reads as nothing ('' or a formula without a result); "meta", "data" and
\* "skip": a marker; "text": anything else.
Cells == [kind : {"null", "empty", "skip"}, name : {""}]
    \cup [kind : {"meta", "data"}, name : Names]
    \cup [kind : {"text"}, name : Texts]
Null == [kind |-> "null", name |-> ""]

\* A row ends at its last present cell.
ASSUME WorkbooksAssumption == Workbooks \subseteq Seq(Seq(Seq(Cells)))

NoContext == ""
ASSUME NamesAssumption == NoContext \notin Names

VARIABLES
    workbook,         \* the workbook (never changes)
    sheet, row, col,  \* the cell that is read next
    metadataContext,  \* the metadata name that waits for its value
    active,           \* activeCollections
    meta,             \* result.meta
    data,             \* result.data
    status

vars == <<workbook, sheet, row, col, metadataContext, active, meta, data, status>>

Locations == [sheet : Nat, row : Nat, column : Nat]
Collections == [name : Names, state : {"HEADERS", "ROWS"}, startColumn : Nat,
                headers : Seq(Cells), rows : Seq(Seq(Cells)), currentRow : Seq(Cells),
                location : Locations, complete : BOOLEAN]

TypeOK ==
    /\ workbook \in Seq(Seq(Seq(Cells)))
    /\ sheet \in Nat /\ row \in Nat /\ col \in Nat
    /\ metadataContext \in Names \cup {NoContext}
    /\ active \subseteq Collections
    /\ meta \subseteq [name : Names, value : Cells, location : Locations]
    /\ data \subseteq Collections
    /\ status \in {"parsing", "parsed", "failed"}

Init ==
    /\ workbook \in Workbooks
    /\ sheet = 1 /\ row = 1 /\ col = 1
    /\ metadataContext = NoContext
    /\ active = {} /\ meta = {} /\ data = {}
    /\ status = "parsing"
--------------------------------------------------------------------------------
Blank(cell) == cell.kind \in {"null", "empty"}
Here == [sheet |-> sheet, row |-> row, column |-> col]
NamesIn(entries) == {e.name : e \in entries}

\* eachRow leaves out the rows in which no cell has a value; eachCell with
\* includeEmpty visits all cells up to the last one of the row.
Visited(cells) == \E i \in DOMAIN cells : cells[i].kind # "null"

Fail == status' = "failed"

\* processCellForMetadata
MetadataFails(cell) ==
    /\ cell.kind = "meta"
    /\ metadataContext # NoContext \/ cell.name \in NamesIn(meta)

\* Mutant: the value is filed under its own name.
FileUnderValue(cell) ==
    IF metadataContext # NoContext
    THEN /\ meta' = meta \cup {[name |-> cell.name, value |-> cell, location |-> Here]}
         /\ metadataContext' = NoContext
    ELSE /\ metadataContext' = (IF cell.kind = "meta" THEN cell.name ELSE NoContext)
         /\ UNCHANGED meta

ProcessMetadata(cell) ==
    IF metadataContext # NoContext
    THEN /\ meta' = meta \cup {[name |-> metadataContext, value |-> cell, location |-> Here]}
         /\ metadataContext' = NoContext
    ELSE /\ metadataContext' = (IF cell.kind = "meta" THEN cell.name ELSE NoContext)
         /\ UNCHANGED meta

\* processDataMarker
NewCollection(cell) ==
    [name |-> cell.name, state |-> "HEADERS", startColumn |-> col + 1,
     headers |-> <<>>, rows |-> <<>>, currentRow |-> <<>>,
     location |-> [Here EXCEPT !.column = col + 1], complete |-> FALSE]
AddMarked(cell) == active \cup {c \in {NewCollection(cell)} : cell.kind = "data"}

\* processHeaderCell: a skipped column stays, without a name.
ProcessHeaderCell(c, cell) ==
    IF Blank(cell) THEN [c EXCEPT !.state = "ROWS"]
    ELSE [c EXCEPT !.headers = Append(@, IF cell.kind = "skip" THEN Null ELSE cell)]

\* processRowCell
ProcessRowCell(c, cell) ==
    [c EXCEPT !.currentRow = Append(@, IF Blank(cell) THEN Null ELSE cell)]

\* Mutant: the column after the last header belongs to the table too.
UpdateOneTooMany(c, cell) ==
    IF col < c.startColumn THEN c
    ELSE IF c.state = "HEADERS" THEN ProcessHeaderCell(c, cell)
    ELSE IF col <= c.startColumn + Len(c.headers) THEN ProcessRowCell(c, cell)
    ELSE c

\* updateCollectionWithCell
UpdateCollection(c, cell) ==
    IF col < c.startColumn THEN c
    ELSE IF c.state = "HEADERS" THEN ProcessHeaderCell(c, cell)
    ELSE IF col < c.startColumn + Len(c.headers) THEN ProcessRowCell(c, cell)
    ELSE c

\* finalizeRowForCollection; the next row starts with an empty currentRow.
FinalizeRow(c) ==
    IF c.state = "HEADERS" THEN [c EXCEPT !.state = "ROWS"]
    ELSE IF c.currentRow = <<>> THEN c
    ELSE IF \A i \in DOMAIN c.currentRow : c.currentRow[i] = Null
    THEN [c EXCEPT !.complete = TRUE, !.currentRow = <<>>]
    ELSE [c EXCEPT !.rows = Append(@, c.currentRow), !.currentRow = <<>>]

\* Mutant: only what was emitted before is looked at.
DuplicatedBefore(collections) == NamesIn(collections) \cap NamesIn(data) # {}

\* emitCollectionsToResult: no name may be in the result already.
Duplicated(collections) ==
    \E c \in collections, d \in collections \cup data : c # d /\ c.name = d.name

Emit(collections, rest) ==
    IF Duplicated(collections) THEN Fail /\ UNCHANGED <<active, data>>
    ELSE /\ data' = data \cup collections
         /\ active' = rest
         /\ UNCHANGED status
--------------------------------------------------------------------------------
Parsing == status = "parsing"
InSheet == Parsing /\ sheet <= Len(workbook)
InRow == InSheet /\ row <= Len(workbook[sheet])
RowCells == workbook[sheet][row]

\* The body of processRow's loop over the cells.
ProcessCell ==
    /\ InRow /\ Visited(RowCells)
    /\ col <= Len(RowCells)
    /\ LET cell == RowCells[col]
       IN IF MetadataFails(cell)
          THEN Fail /\ UNCHANGED <<metadataContext, active, meta>>
          ELSE /\ ProcessMetadata(cell)
               /\ active' = {UpdateCollection(c, cell) : c \in AddMarked(cell)}
               /\ UNCHANGED status
    /\ col' = col + 1
    /\ UNCHANGED <<workbook, sheet, row, data>>

NextRow == row' = row + 1 /\ col' = 1

\* The rest of processRow.
EndRow ==
    /\ InRow /\ Visited(RowCells)
    /\ col > Len(RowCells)
    /\ LET finalized == {FinalizeRow(c) : c \in active}
       IN Emit({c \in finalized : c.complete}, {c \in finalized : ~c.complete})
    /\ NextRow
    /\ UNCHANGED <<workbook, sheet, metadataContext, meta>>

\* collectRowsFromWorksheet
SkipRow ==
    /\ InRow /\ ~Visited(RowCells)
    /\ NextRow
    /\ UNCHANGED <<workbook, sheet, metadataContext, active, meta, data, status>>

\* The end of processWorksheet: what is still active ends with the sheet.
EndSheet ==
    /\ InSheet /\ row > Len(workbook[sheet])
    /\ Emit(active, {})
    /\ sheet' = sheet + 1
    /\ row' = 1 /\ col' = 1
    /\ UNCHANGED <<workbook, metadataContext, meta>>

EndParse ==
    /\ Parsing /\ sheet > Len(workbook)
    /\ status' = "parsed"
    /\ UNCHANGED <<workbook, sheet, row, col, metadataContext, active, meta, data>>

Next == ProcessCell \/ EndRow \/ SkipRow \/ EndSheet \/ EndParse

Spec == Init /\ [][Next]_vars
--------------------------------------------------------------------------------
(* What a workbook holds, without the scan *)

CellsOfRow(s, r) ==
    IF Visited(workbook[s][r])
    THEN {[sheet |-> s, row |-> r, column |-> c] : c \in DOMAIN workbook[s][r]} ELSE {}
VisitedCells ==
    UNION {UNION {CellsOfRow(s, r) : r \in DOMAIN workbook[s]} : s \in DOMAIN workbook}

\* The order of the scan.
Before(a, b) ==
    \/ a.sheet < b.sheet
    \/ a.sheet = b.sheet /\ a.row < b.row
    \/ a.sheet = b.sheet /\ a.row = b.row /\ a.column < b.column
Follows(a, b) == Before(a, b) /\ \A c \in VisitedCells : ~(Before(a, c) /\ Before(c, b))

CellAt(at) ==
    IF at.column \in DOMAIN workbook[at.sheet][at.row]
    THEN workbook[at.sheet][at.row][at.column] ELSE Null
Read(at) == IF Blank(CellAt(at)) THEN Null ELSE CellAt(at)

Markers(kind) == {at \in VisitedCells : CellAt(at).kind = kind}
Unique(markers) == \A m, n \in markers : CellAt(m).name = CellAt(n).name => m = n

\* The headers of the table marked at m: up to the first blank cell.
Width(m) ==
    LET cells == workbook[m.sheet][m.row]
        blanks == {c \in m.column + 1 .. Len(cells) : Blank(cells[c])}
    IN  Min(blanks \cup {Len(cells) + 1}) - m.column - 1
Heading(cell) == IF cell.kind = "skip" THEN Null ELSE cell
HeadersUpTo(m, n) == [i \in 1..n |-> Heading(workbook[m.sheet][m.row][m.column + i])]
Headers(m) == HeadersUpTo(m, Width(m))

\* The first n cells of row r in the columns of the table marked at m.
Columns(m, r, n) == [i \in 1..n |-> Read([sheet |-> m.sheet, row |-> r, column |-> m.column + i])]
BlankIn(m, r) == \A i \in 1..Width(m) : Columns(m, r, Width(m))[i] = Null
RowsBelow(m) == m.row + 1 .. Len(workbook[m.sheet])

\* The guide's end of the table: the first row below that is empty in its columns, or
\* the end of the worksheet.
EndOf(m) == Min({r \in RowsBelow(m) : BlankIn(m, r)} \cup {Len(workbook[m.sheet]) + 1})
OwnRows(m) == m.row + 1 .. EndOf(m) - 1

\* The scan meets the table in row r: the row is visited and is long enough.
Reaches(m, r) ==
    Width(m) > 0 /\ Visited(workbook[m.sheet][r]) /\ Len(workbook[m.sheet][r]) > m.column

\* The row that ends the table, if there is one, is among those that the scan meets.
MeetsEnd(m) == Width(m) > 0 /\ EndOf(m) \in RowsBelow(m) => Reaches(m, EndOf(m))

\* A row of the scan ends where the worksheet's row ends.
Cut(m, r) == Min({Width(m), Len(workbook[m.sheet][r]) - m.column})

MarkerOf(table) == [table.location EXCEPT !.column = @ - 1]
--------------------------------------------------------------------------------
(* Correctness *)

Ambiguous ==
    \/ ~Unique(Markers("data")) \/ ~Unique(Markers("meta"))
    \/ \E m, n \in Markers("meta") : Follows(m, n)

\* A workbook is refused exactly when a marker name is not unique or a metadata
\* marker stands where a value should be (the throws of exceljs-parser.js, wherever
\* the scan meets them, against the guide's "Each marker name must be unique").
RefusedExactlyWhenAmbiguous ==
    /\ status = "parsed" => ~Ambiguous
    /\ status = "failed" => Ambiguous

\* The table begins with its own rows, each with the cells in the table's columns as
\* far as the worksheet's row goes, and has no others if the scan meets its end.
HasOwnRows(table) ==
    LET m == MarkerOf(table)
    IN  /\ \A r \in OwnRows(m) :
            /\ r - m.row \in DOMAIN table.rows
            /\ table.rows[r - m.row] = Columns(m, r, Cut(m, r))
        /\ MeetsEnd(m) => Len(table.rows) = EndOf(m) - m.row - 1

\* Every data marker gives one table, wherever tables meet, overlap or end: its own
\* headers, and below them its own rows up to the first that is empty in its columns;
\* no more than those, unless the empty row has no cell at or after the table's first
\* column or no value at all, when the scan misses that the table ends there
\* (processRow, updateCollectionWithCell, finalizeRowForCollection).
EveryMarkerGivesItsTable ==
    status = "parsed" =>
        /\ \A m \in Markers("data") : \E t \in data : MarkerOf(t) = m
        /\ \A t, u \in data : MarkerOf(t) = MarkerOf(u) => t = u
        /\ \A t \in data :
            /\ MarkerOf(t) \in Markers("data")
            /\ t.name = CellAt(MarkerOf(t)).name
            /\ t.headers = Headers(MarkerOf(t))
            /\ HasOwnRows(t)

\* "A row where all data cells (within the column range of the table) are empty or
\* null terminates the table", whatever else the worksheet has in that row.
EmptyRowEndsTable ==
    status = "parsed" => \A t \in data : Len(t.rows) = EndOf(MarkerOf(t)) - MarkerOf(t).row - 1
--------------------------------------------------------------------------------
(* The invariant of the proofs *)

\* The rows the scan takes: up to one that it meets and finds blank.
ScannedRows(m) ==
    {r \in RowsBelow(m) : Reaches(m, r) /\ \A q \in m.row + 1 .. r : Reaches(m, q) => ~BlankIn(m, q)}

\* These are the table's rows before row n, in their order.
HasRowsBefore(table, n) ==
    LET m == MarkerOf(table)
        upTo(k) == Cardinality({r \in ScannedRows(m) : r < k})
    IN  /\ Len(table.rows) = upTo(n)
        /\ \A r \in ScannedRows(m) : r < n => table.rows[upTo(r + 1)] = Columns(m, r, Cut(m, r))
HasItsRows(table) == HasRowsBefore(table, Len(workbook[table.location.sheet]) + 1)

Done == {at \in VisitedCells : Before(at, Here)}
DoneMarkers(kind) == {at \in Done : CellAt(at).kind = kind}
Tables == active \cup data

\* The place of the scan is in the workbook, or just behind a row, a sheet or all.
InPlace ==
    /\ sheet \in 1 .. Len(workbook) + 1
    /\ row \in 1 .. (IF sheet <= Len(workbook) THEN Len(workbook[sheet]) + 1 ELSE 1)
    /\ col \in 1 .. (IF sheet <= Len(workbook) /\ row <= Len(workbook[sheet]) /\ Visited(RowCells)
                     THEN Len(RowCells) + 1 ELSE 1)

\* A metadata marker waits for its value exactly until the next visited cell, and
\* what was scanned is not ambiguous.
MetadataScanned ==
    /\ metadataContext # NoContext =>
        \E m \in DoneMarkers("meta") :
            CellAt(m).name = metadataContext /\ \A v \in Done : ~Before(m, v)
    /\ metadataContext = NoContext =>
        \A m \in DoneMarkers("meta") : \E v \in Done : Before(m, v)
    /\ \A e \in meta : \E m \in DoneMarkers("meta") : CellAt(m).name = e.name
    /\ \A m \in DoneMarkers("meta") : CellAt(m).name \in NamesIn(meta) \cup {metadataContext}
    /\ Unique(DoneMarkers("meta"))
    /\ \A m, n \in DoneMarkers("meta") : ~Follows(m, n)

\* Each data marker has its table, which is emitted with its sheet at the latest; of
\* those that were emitted no two have one name.
MarkersScanned ==
    /\ \A t \in Tables :
        /\ MarkerOf(t) \in DoneMarkers("data")
        /\ t.name = CellAt(MarkerOf(t)).name
        /\ t.startColumn = t.location.column
    /\ \A m \in DoneMarkers("data") : \E t \in Tables : MarkerOf(t) = m
    /\ \A t, u \in Tables : MarkerOf(t) = MarkerOf(u) => t = u
    /\ active \cap data = {}
    /\ \A t, u \in data : t.name = u.name => t = u
    /\ \A t \in active : t.location.sheet = sheet

InHeaders(t) ==
    LET m == MarkerOf(t)
    IN  /\ t.state = "HEADERS" /\ t.rows = <<>> /\ t.currentRow = <<>>
        /\ row = m.row /\ col - 1 \in m.column .. m.column + Width(m)
        /\ t.headers = HeadersUpTo(m, col - 1 - m.column)

\* How many cells of the row the table has been given.
Filled(m) == IF col <= m.column + 1 THEN 0 ELSE Min({Width(m), col - 1 - m.column})

InRows(t) ==
    LET m == MarkerOf(t)
    IN  /\ t.state = "ROWS" /\ t.headers = Headers(m) /\ HasRowsBefore(t, row)
        /\ row >= m.row /\ (row = m.row => col > m.column + Width(m) + 1)
        /\ t.currentRow = (IF row = m.row THEN <<>> ELSE Columns(m, row, Filled(m)))
        /\ \A q \in m.row + 1 .. row - 1 : Reaches(m, q) => ~BlankIn(m, q)

TablesScanned ==
    /\ \A t \in data : t.headers = Headers(MarkerOf(t)) /\ HasItsRows(t)
    /\ \A t \in active : ~t.complete /\ (InHeaders(t) \/ InRows(t))

IInv ==
    /\ TypeOK
    /\ status = "failed" => Ambiguous
    /\ status = "parsed" => sheet > Len(workbook)
    /\ status # "failed" => InPlace /\ MetadataScanned /\ MarkersScanned /\ TablesScanned
================================================================================
