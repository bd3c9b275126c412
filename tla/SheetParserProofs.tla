---------------------------- MODULE SheetParserProofs ----------------------------
(***************************************************************************)
(* Proofs about SheetParser, for any workbook: the scan refuses exactly    *)
(* the ambiguous workbooks, and gives of each other one the tables that it *)
(* holds, each with its rows up to its first empty one.                    *)
(***************************************************************************)
EXTENDS TableSyntax, LeastNumber, FiniteSetTheorems, TLAPS
--------------------------------------------------------------------------------
(* Least elements, widths *)

LEMMA MinIs ==
    ASSUME NEW S \in SUBSET Nat, S # {}
    PROVE  Min(S) \in S /\ \A x \in S : Min(S) <= x
BY LeastOf DEF Min

LEMMA SmallerOf ==
    ASSUME NEW a \in Nat, NEW b \in Nat
    PROVE  Min({a, b}) = IF a <= b THEN a ELSE b
<1>1. {a, b} \in SUBSET Nat /\ {a, b} # {}
  OBVIOUS
<1>2. Min({a, b}) \in {a, b} /\ \A x \in {a, b} : Min({a, b}) <= x
  BY <1>1, MinIs
<1> QED BY <1>2

WorkbookOK == workbook \in Seq(Seq(Seq(Cells)))

LEMMA WorkbookTypes ==
    ASSUME WorkbookOK
    PROVE  /\ DOMAIN workbook = 1 .. Len(workbook) /\ Len(workbook) \in Nat
           /\ \A s \in DOMAIN workbook :
                /\ DOMAIN workbook[s] = 1 .. Len(workbook[s]) /\ Len(workbook[s]) \in Nat
                /\ \A r \in DOMAIN workbook[s] :
                     /\ workbook[s][r] \in Seq(Cells)
                     /\ DOMAIN workbook[s][r] = 1 .. Len(workbook[s][r]) /\ Len(workbook[s][r]) \in Nat
                     /\ \A c \in DOMAIN workbook[s][r] : workbook[s][r][c] \in Cells
<1>1. DOMAIN workbook = 1 .. Len(workbook) /\ Len(workbook) \in Nat
  BY DEF WorkbookOK
<1>2. ASSUME NEW s \in DOMAIN workbook PROVE workbook[s] \in Seq(Seq(Cells))
  BY <1>1 DEF WorkbookOK
<1>3. ASSUME NEW s \in DOMAIN workbook, NEW r \in DOMAIN workbook[s]
      PROVE  workbook[s][r] \in Seq(Cells)
  BY <1>2
<1> QED BY <1>1, <1>2, <1>3

\* The place of a cell.
Place(s, r, c) == [sheet |-> s, row |-> r, column |-> c]

LEMMA VisitedIff ==
    ASSUME NEW s, NEW r, NEW c
    PROVE  Place(s, r, c) \in VisitedCells <=>
             /\ s \in DOMAIN workbook /\ r \in DOMAIN workbook[s]
             /\ Visited(workbook[s][r]) /\ c \in DOMAIN workbook[s][r]
<1>1. Place(s, r, c) \in VisitedCells <=>
        \E t \in DOMAIN workbook : \E q \in DOMAIN workbook[t] : Place(s, r, c) \in CellsOfRow(t, q)
  BY DEF VisitedCells
<1>2. ASSUME NEW t, NEW q
      PROVE  Place(s, r, c) \in CellsOfRow(t, q) <=>
               t = s /\ q = r /\ Visited(workbook[t][q]) /\ c \in DOMAIN workbook[t][q]
  BY DEF CellsOfRow, Place
<1> QED BY <1>1, <1>2

LEMMA VisitedArePlaces ==
    ASSUME NEW at \in VisitedCells
    PROVE  at = Place(at.sheet, at.row, at.column)
<1>1. PICK t \in DOMAIN workbook : \E q \in DOMAIN workbook[t] : at \in CellsOfRow(t, q)
  BY DEF VisitedCells
<1>2. PICK q \in DOMAIN workbook[t] : at \in CellsOfRow(t, q)
  BY <1>1
<1>3. PICK c \in DOMAIN workbook[t][q] : at = [sheet |-> t, row |-> q, column |-> c]
  BY <1>2 DEF CellsOfRow
<1> QED BY <1>3 DEF Place

LEMMA VisitedTypes ==
    ASSUME WorkbookOK, NEW at \in VisitedCells
    PROVE  /\ at.sheet \in DOMAIN workbook /\ at.row \in DOMAIN workbook[at.sheet]
           /\ Visited(workbook[at.sheet][at.row])
           /\ at.column \in DOMAIN workbook[at.sheet][at.row]
           /\ at.sheet \in 1 .. Len(workbook) /\ at.row \in 1 .. Len(workbook[at.sheet])
           /\ at.column \in 1 .. Len(workbook[at.sheet][at.row])
           /\ at.sheet \in Nat /\ at.row \in Nat /\ at.column \in Nat
           /\ Len(workbook) \in Nat /\ Len(workbook[at.sheet]) \in Nat
           /\ Len(workbook[at.sheet][at.row]) \in Nat
           /\ CellAt(at) = workbook[at.sheet][at.row][at.column] /\ CellAt(at) \in Cells
           /\ at \in Locations
<1>1. /\ at.sheet \in DOMAIN workbook /\ at.row \in DOMAIN workbook[at.sheet]
      /\ Visited(workbook[at.sheet][at.row]) /\ at.column \in DOMAIN workbook[at.sheet][at.row]
  BY VisitedArePlaces, VisitedIff
<1>2. /\ at.sheet \in 1 .. Len(workbook) /\ at.row \in 1 .. Len(workbook[at.sheet])
      /\ at.column \in 1 .. Len(workbook[at.sheet][at.row])
      /\ Len(workbook) \in Nat /\ Len(workbook[at.sheet]) \in Nat
      /\ Len(workbook[at.sheet][at.row]) \in Nat
      /\ workbook[at.sheet][at.row][at.column] \in Cells
  BY <1>1, WorkbookTypes
<1>3. at.sheet \in Nat /\ at.row \in Nat /\ at.column \in Nat
  BY <1>2
<1>4. at \in Locations
  BY <1>3, VisitedArePlaces DEF Locations, Place
<1> QED BY <1>1, <1>2, <1>3, <1>4 DEF CellAt

\* The headers are the cells that are not blank, up to the first that is.
LEMMA WidthIs ==
    ASSUME WorkbookOK, NEW m \in VisitedCells
    PROVE  /\ Width(m) \in Nat
           /\ m.column + Width(m) <= Len(workbook[m.sheet][m.row])
           /\ \A i \in 1 .. Width(m) : ~Blank(workbook[m.sheet][m.row][m.column + i])
           /\ m.column + Width(m) + 1 <= Len(workbook[m.sheet][m.row]) =>
                Blank(workbook[m.sheet][m.row][m.column + Width(m) + 1])
<1> DEFINE cells == workbook[m.sheet][m.row]
           blanks == {c \in m.column + 1 .. Len(cells) : Blank(cells[c])}
           ends == blanks \cup {Len(cells) + 1}
<1>1. m.column \in 1 .. Len(cells) /\ Len(cells) \in Nat
  BY VisitedTypes
<1>2. ends \in SUBSET Nat /\ ends # {}
  BY <1>1
<1> DEFINE end == Min(ends)
<1>3. end \in ends /\ \A x \in ends : end <= x
  <2> HIDE DEF ends
  <2> QED BY <1>2, MinIs
<1>4. Width(m) = end - m.column - 1
  BY DEF Width
<1> HIDE DEF end
<1>5. end \in m.column + 1 .. Len(cells) + 1
  BY <1>1, <1>3
<1>6. \A c \in m.column + 1 .. end - 1 : ~Blank(cells[c])
  BY <1>1, <1>3, <1>5
<1>7. end <= Len(cells) => Blank(cells[end])
  BY <1>1, <1>3, <1>5
<1> HIDE DEF cells, ends, blanks
<1>8. Width(m) \in Nat /\ m.column + Width(m) + 1 = end
  BY <1>1, <1>4, <1>5
<1>9. \A i \in 1 .. Width(m) : ~Blank(cells[m.column + i])
  <2> SUFFICES ASSUME NEW i \in 1 .. Width(m) PROVE ~Blank(cells[m.column + i])
    OBVIOUS
  <2>1. m.column + i \in m.column + 1 .. end - 1
    BY <1>1, <1>8, <1>5
  <2> QED BY <2>1, <1>6
<1>10. m.column + Width(m) <= Len(cells)
  BY <1>1, <1>5, <1>8
<1>11. m.column + Width(m) + 1 <= Len(cells) => Blank(cells[m.column + Width(m) + 1])
  BY <1>7, <1>8
<1> QED BY <1>8, <1>9, <1>10, <1>11 DEF cells
--------------------------------------------------------------------------------
(* What stays as long as the workbook does *)

LEMMA WorkbookStays ==
    ASSUME workbook' = workbook
    PROVE  /\ VisitedCells' = VisitedCells
           /\ \A at : CellAt(at)' = CellAt(at) /\ Read(at)' = Read(at)
           /\ \A a, b : Follows(a, b)' <=> Follows(a, b)
           /\ \A kind : Markers(kind)' = Markers(kind)
           /\ \A S : Unique(S)' <=> Unique(S)
           /\ Ambiguous' <=> Ambiguous
<1>1. VisitedCells' = VisitedCells
  BY DEF VisitedCells, CellsOfRow, Visited
<1>2. \A at : CellAt(at)' = CellAt(at)
  BY DEF CellAt
<1>3. \A at : Read(at)' = Read(at)
  BY <1>2 DEF Read, Blank
<1>4. \A a, b : Follows(a, b)' <=> Follows(a, b)
  BY <1>1 DEF Follows, Before
<1>5. \A kind : Markers(kind)' = Markers(kind)
  BY <1>1, <1>2 DEF Markers
<1>6. \A S : Unique(S)' <=> Unique(S)
  BY <1>2 DEF Unique
<1>7. Ambiguous' <=> Ambiguous
  BY <1>4, <1>5, <1>6 DEF Ambiguous
<1> QED BY <1>1, <1>2, <1>3, <1>4, <1>5, <1>6, <1>7

LEMMA TablesOfWorkbookStay ==
    ASSUME workbook' = workbook
    PROVE  /\ \A m : Width(m)' = Width(m) /\ Headers(m)' = Headers(m)
           /\ \A m, n : HeadersUpTo(m, n)' = HeadersUpTo(m, n)
           /\ \A m, r, n : Columns(m, r, n)' = Columns(m, r, n)
           /\ \A m, r : /\ BlankIn(m, r)' <=> BlankIn(m, r)
                        /\ Reaches(m, r)' <=> Reaches(m, r)
                        /\ Cut(m, r)' = Cut(m, r)
           /\ \A m : ScannedRows(m)' = ScannedRows(m)
<1>1. \A m : Width(m)' = Width(m)
  BY DEF Width
<1>2. \A m, n : HeadersUpTo(m, n)' = HeadersUpTo(m, n)
  BY DEF HeadersUpTo
<1>3. \A m : Headers(m)' = Headers(m)
  BY <1>1, <1>2 DEF Headers
<1>4. \A m, r, n : Columns(m, r, n)' = Columns(m, r, n)
  BY WorkbookStays DEF Columns
<1>5. \A m, r : BlankIn(m, r)' <=> BlankIn(m, r)
  BY <1>1, <1>4 DEF BlankIn
<1>6. \A m, r : Reaches(m, r)' <=> Reaches(m, r)
  BY <1>1 DEF Reaches, Visited
<1>7. \A m, r : Cut(m, r)' = Cut(m, r)
  BY <1>1 DEF Cut
<1>8. \A m : ScannedRows(m)' = ScannedRows(m)
  BY <1>5, <1>6 DEF ScannedRows, RowsBelow
<1> QED BY <1>1, <1>2, <1>3, <1>4, <1>5, <1>6, <1>7, <1>8
--------------------------------------------------------------------------------
(* Where the scan is *)

LEMMA HereIs == Here = Place(sheet, row, col)
BY DEF Here, Place

LEMMA TypesGiveWorkbook == ASSUME TypeOK PROVE WorkbookOK
BY DEF TypeOK, WorkbookOK

LEMMA CellIsNext ==
    ASSUME TypeOK, InPlace, ProcessCell
    PROVE  /\ workbook' = workbook
           /\ Here \in VisitedCells /\ Here \notin Done
           /\ CellAt(Here) = RowCells[col] /\ CellAt(Here) \in Cells
           /\ \A v \in Done : Before(v, Here)
           /\ Done' = Done \cup {Here}
           /\ InPlace'
<1>1. /\ workbook' = workbook /\ sheet' = sheet /\ row' = row /\ col' = col + 1
      /\ sheet <= Len(workbook) /\ row <= Len(workbook[sheet])
      /\ Visited(workbook[sheet][row]) /\ col <= Len(workbook[sheet][row])
  BY DEF ProcessCell, InRow, InSheet, RowCells
<1>2. sheet \in Nat /\ row \in Nat /\ col \in Nat /\ sheet >= 1 /\ row >= 1 /\ col >= 1
  BY DEF TypeOK, InPlace
<1>3. sheet \in DOMAIN workbook /\ row \in DOMAIN workbook[sheet] /\ col \in DOMAIN workbook[sheet][row]
  <2>1. sheet \in DOMAIN workbook
    BY <1>1, <1>2, TypesGiveWorkbook, WorkbookTypes
  <2>2. row \in DOMAIN workbook[sheet]
    BY <1>1, <1>2, <2>1, TypesGiveWorkbook, WorkbookTypes
  <2>3. col \in DOMAIN workbook[sheet][row]
    BY <1>1, <1>2, <2>1, <2>2, TypesGiveWorkbook, WorkbookTypes
  <2> QED BY <2>1, <2>2, <2>3
<1>4. Here \in VisitedCells
  BY <1>1, <1>3, VisitedIff, HereIs
<1>5. CellAt(Here) = RowCells[col] /\ CellAt(Here) \in Cells
  BY <1>3, TypesGiveWorkbook, WorkbookTypes DEF CellAt, Here, RowCells
<1>6. Here \notin Done
  BY <1>2 DEF Done, Before, Here
<1>7. \A v \in Done : Before(v, Here)
  BY DEF Done
<1>8. VisitedCells' = VisitedCells
  BY <1>1, WorkbookStays
<1>9. ASSUME NEW at \in VisitedCells
      PROVE  Before(at, Here)' <=> Before(at, Here) \/ at = Here
  <2>1. at \in Locations /\ at = Place(at.sheet, at.row, at.column)
    BY VisitedTypes, VisitedArePlaces, TypesGiveWorkbook
  <2>2. at.sheet \in Nat /\ at.row \in Nat /\ at.column \in Nat
    BY <2>1 DEF Locations
  <2>3. at = Here <=> at.sheet = sheet /\ at.row = row /\ at.column = col
    BY <2>1, HereIs DEF Place
  <2>4. /\ Here.sheet = sheet /\ Here.row = row /\ Here.column = col
        /\ Here'.sheet = sheet /\ Here'.row = row /\ Here'.column = col + 1
    BY <1>1 DEF Here
  <2> QED BY <1>2, <2>2, <2>3, <2>4 DEF Before
<1>10. Done' = Done \cup {Here}
  BY <1>4, <1>8, <1>9 DEF Done
<1>11. InPlace'
  <2>1. Len(workbook[sheet][row]) \in Nat
    BY <1>3, TypesGiveWorkbook, WorkbookTypes
  <2>2. col + 1 \in 1 .. Len(workbook[sheet][row]) + 1
    BY <1>1, <1>2, <2>1
  <2> QED BY <1>1, <2>2 DEF InPlace, RowCells
<1> QED BY <1>1, <1>4, <1>5, <1>6, <1>7, <1>10, <1>11

\* A step to the next row passes no cell that is visited.
LEMMA RowIsPassed ==
    ASSUME TypeOK, InPlace, InRow, NextRow, workbook' = workbook, sheet' = sheet,
           ~Visited(RowCells) \/ col > Len(RowCells)
    PROVE  Done' = Done /\ InPlace'
<1>1. /\ row' = row + 1 /\ col' = 1
      /\ sheet <= Len(workbook) /\ row <= Len(workbook[sheet])
  BY DEF NextRow, InRow, InSheet
<1>2. sheet \in Nat /\ row \in Nat /\ col \in Nat /\ sheet >= 1 /\ row >= 1 /\ col >= 1
  BY DEF TypeOK, InPlace
<1>3. VisitedCells' = VisitedCells
  BY WorkbookStays
<1>4. ASSUME NEW at \in VisitedCells
      PROVE  Before(at, Here)' <=> Before(at, Here)
  <2>1. /\ at.sheet \in Nat /\ at.row \in Nat /\ at.column \in Nat /\ at.column >= 1
        /\ Visited(workbook[at.sheet][at.row])
        /\ at.column <= Len(workbook[at.sheet][at.row])
    BY VisitedTypes, TypesGiveWorkbook DEF Locations
  <2>2. /\ Here.sheet = sheet /\ Here.row = row /\ Here.column = col
        /\ Here'.sheet = sheet /\ Here'.row = row + 1 /\ Here'.column = 1
    BY <1>1 DEF Here
  <2>3. at.sheet = sheet /\ at.row = row => at.column < col
    <3> SUFFICES ASSUME at.sheet = sheet, at.row = row PROVE at.column < col
      OBVIOUS
    <3>1. Visited(RowCells) /\ at.column <= Len(RowCells)
      BY <2>1 DEF RowCells
    <3>2. Len(RowCells) \in Nat
      BY VisitedTypes, TypesGiveWorkbook DEF RowCells
    <3> QED BY <1>2, <2>1, <3>1, <3>2
  <2> QED BY <1>2, <2>1, <2>2, <2>3 DEF Before
<1>5. Done' = Done
  BY <1>3, <1>4 DEF Done
<1>6. Len(workbook[sheet]) \in Nat
  BY <1>1, <1>2, TypesGiveWorkbook, WorkbookTypes
<1>7. InPlace'
  <2>1. row + 1 \in 1 .. Len(workbook[sheet]) + 1
    BY <1>1, <1>2, <1>6
  <2>2. \A n \in Nat : 1 \in 1 .. n + 1
    OBVIOUS
  <2>3. row + 1 <= Len(workbook[sheet]) => Len(workbook[sheet][row + 1]) \in Nat
    BY <1>1, <1>2, <1>6, TypesGiveWorkbook, WorkbookTypes
  <2> QED BY <1>1, <2>1, <2>2, <2>3 DEF InPlace, RowCells
<1> QED BY <1>5, <1>7

LEMMA SheetIsPassed ==
    ASSUME TypeOK, InPlace, EndSheet
    PROVE  Done' = Done /\ InPlace' /\ workbook' = workbook
<1>1. /\ sheet' = sheet + 1 /\ row' = 1 /\ col' = 1 /\ workbook' = workbook
      /\ sheet <= Len(workbook) /\ row > Len(workbook[sheet])
  BY DEF EndSheet, InSheet
<1>2. sheet \in Nat /\ row \in Nat /\ col \in Nat /\ sheet >= 1 /\ row >= 1 /\ col >= 1
  BY DEF TypeOK, InPlace
<1>3. VisitedCells' = VisitedCells
  BY <1>1, WorkbookStays
<1>4. ASSUME NEW at \in VisitedCells
      PROVE  Before(at, Here)' <=> Before(at, Here)
  <2>1. /\ at.sheet \in Nat /\ at.row \in Nat /\ at.column \in Nat /\ at.column >= 1 /\ at.row >= 1
        /\ at.row <= Len(workbook[at.sheet]) /\ Len(workbook[at.sheet]) \in Nat
    BY VisitedTypes, TypesGiveWorkbook DEF Locations
  <2>2. /\ Here.sheet = sheet /\ Here.row = row /\ Here.column = col
        /\ Here'.sheet = sheet + 1 /\ Here'.row = 1 /\ Here'.column = 1
    BY <1>1 DEF Here
  <2>3. at.sheet = sheet => at.row < row
    BY <1>1, <1>2, <2>1
  <2> QED BY <1>2, <2>1, <2>2, <2>3 DEF Before
<1>5. Done' = Done
  BY <1>3, <1>4 DEF Done
<1>6. InPlace'
  <2>1. Len(workbook) \in Nat
    BY TypesGiveWorkbook, WorkbookTypes
  <2>2. sheet + 1 \in 1 .. Len(workbook) + 1
    BY <1>1, <1>2, <2>1
  <2>3. sheet + 1 <= Len(workbook) => sheet + 1 \in DOMAIN workbook
    BY <1>2, <2>1, TypesGiveWorkbook, WorkbookTypes
  <2>4. sheet + 1 <= Len(workbook) => Len(workbook[sheet + 1]) \in Nat
    BY <2>3, TypesGiveWorkbook, WorkbookTypes
  <2>5. sheet + 1 <= Len(workbook) /\ 1 <= Len(workbook[sheet + 1]) => Len(workbook[sheet + 1][1]) \in Nat
    BY <2>3, <2>4, TypesGiveWorkbook, WorkbookTypes
  <2> QED BY <1>1, <2>2, <2>4, <2>5 DEF InPlace, RowCells
<1> QED BY <1>1, <1>5, <1>6

LEMMA AllIsPassed ==
    ASSUME TypeOK, sheet > Len(workbook)
    PROVE  Done = VisitedCells
<1>1. ASSUME NEW at \in VisitedCells PROVE Before(at, Here)
  <2>1. at.sheet \in Nat /\ at.sheet <= Len(workbook) /\ Len(workbook) \in Nat
    BY VisitedTypes, TypesGiveWorkbook DEF Locations
  <2> QED BY <2>1 DEF Before, Here, TypeOK
<1> QED BY <1>1 DEF Done
--------------------------------------------------------------------------------
(* Type correctness *)

LEMMA CellTypes ==
    ASSUME NEW cell \in Cells
    PROVE  /\ cell.kind \in {"null", "empty", "skip", "meta", "data", "text"}
           /\ cell.kind \in {"meta", "data"} => cell.name \in Names
           /\ Null \in Cells /\ Heading(cell) \in Cells
BY DEF Cells, Null, Heading

LEMMA UpdatedTypes ==
    ASSUME NEW c \in Collections, NEW cell \in Cells
    PROVE  UpdateCollection(c, cell) \in Collections
<1>1. (IF cell.kind = "skip" THEN Null ELSE cell) \in Cells /\ (IF Blank(cell) THEN Null ELSE cell) \in Cells
  BY CellTypes
<1>2. c.headers \in Seq(Cells) /\ c.currentRow \in Seq(Cells)
  BY DEF Collections
<1>3. /\ Append(c.headers, IF cell.kind = "skip" THEN Null ELSE cell) \in Seq(Cells)
      /\ Append(c.currentRow, IF Blank(cell) THEN Null ELSE cell) \in Seq(Cells)
  BY <1>1, <1>2
<1>4. ProcessHeaderCell(c, cell) \in Collections
  BY <1>3 DEF ProcessHeaderCell, Collections
<1>5. ProcessRowCell(c, cell) \in Collections
  BY <1>3 DEF ProcessRowCell, Collections
<1> QED BY <1>4, <1>5 DEF UpdateCollection

LEMMA FinalizedTypes ==
    ASSUME NEW c \in Collections
    PROVE  FinalizeRow(c) \in Collections
<1>1. c.rows \in Seq(Seq(Cells)) /\ c.currentRow \in Seq(Cells)
  BY DEF Collections
<1>2. Append(c.rows, c.currentRow) \in Seq(Seq(Cells)) /\ <<>> \in Seq(Cells)
  BY <1>1
<1> QED BY <1>2 DEF FinalizeRow, Collections

LEMMA MarkedTypes ==
    ASSUME TypeOK, NEW cell \in Cells, NEW c \in AddMarked(cell)
    PROVE  c \in Collections
<1>1. CASE c \in active
  BY <1>1 DEF TypeOK
<1>2. CASE c = NewCollection(cell) /\ cell.kind = "data"
  <2>1. cell.name \in Names /\ col + 1 \in Nat /\ Here \in Locations
    BY <1>2, CellTypes DEF TypeOK, Here, Locations
  <2>2. [Here EXCEPT !.column = col + 1] \in Locations
    BY <2>1 DEF Locations
  <2>3. <<>> \in Seq(Cells) /\ <<>> \in Seq(Seq(Cells))
    OBVIOUS
  <2> QED BY <1>2, <2>1, <2>2, <2>3 DEF NewCollection, Collections
<1> QED BY <1>1, <1>2 DEF AddMarked

LEMMA TypesAreKept ==
    ASSUME TypeOK, status # "failed" => InPlace, [Next]_vars
    PROVE  TypeOK'
<1>1. CASE ProcessCell
  <2>1. InPlace
    BY <1>1 DEF ProcessCell, InRow, InSheet, Parsing
  <2> DEFINE cell == RowCells[col]
  <2>2. cell \in Cells /\ workbook' = workbook
    BY <1>1, <2>1, CellIsNext
  <2> HIDE DEF cell
  <2>3. Here \in Locations
    BY DEF TypeOK, Here, Locations
  <2>4. CASE MetadataFails(cell)
    BY <1>1, <2>2, <2>4 DEF ProcessCell, TypeOK, Fail, cell
  <2>5. CASE ~MetadataFails(cell)
    <3>1. /\ ProcessMetadata(cell) /\ status' = status /\ data' = data
          /\ active' = {UpdateCollection(c, cell) : c \in AddMarked(cell)}
          /\ sheet' = sheet /\ row' = row /\ col' = col + 1
      BY <1>1, <2>5 DEF ProcessCell, cell
    <3>2. active' \subseteq Collections
      BY <2>2, <3>1, MarkedTypes, UpdatedTypes
    <3>3. metadataContext' \in Names \cup {NoContext}
      BY <2>2, <3>1, CellTypes DEF ProcessMetadata
    <3>4. meta' \subseteq [name : Names, value : Cells, location : Locations]
      BY <2>2, <2>3, <3>1 DEF ProcessMetadata, TypeOK
    <3> QED BY <2>2, <3>1, <3>2, <3>3, <3>4 DEF TypeOK
  <2> QED BY <2>4, <2>5
<1>2. CASE EndRow
  <2> DEFINE finalized == {FinalizeRow(c) : c \in active}
  <2>1. finalized \subseteq Collections
    BY FinalizedTypes DEF TypeOK
  <2>2. Emit({c \in finalized : c.complete}, {c \in finalized : ~c.complete})
    BY <1>2 DEF EndRow
  <2> HIDE DEF finalized
  <2>3. data' \subseteq Collections /\ active' \subseteq Collections /\ status' \in {status, "failed"}
    BY <2>1, <2>2 DEF Emit, Fail, TypeOK
  <2> QED BY <1>2, <2>3 DEF EndRow, NextRow, TypeOK
<1>3. CASE SkipRow
  BY <1>3 DEF SkipRow, NextRow, TypeOK
<1>4. CASE EndSheet
  <2>1. data' \subseteq Collections /\ active' \subseteq Collections /\ status' \in {status, "failed"}
    BY <1>4 DEF EndSheet, Emit, Fail, TypeOK
  <2> QED BY <1>4, <2>1 DEF EndSheet, TypeOK
<1>5. CASE EndParse
  BY <1>5 DEF EndParse, TypeOK
<1>6. CASE UNCHANGED vars
  BY <1>6 DEF vars, TypeOK
<1> QED BY <1>1, <1>2, <1>3, <1>4, <1>5, <1>6 DEF Next
--------------------------------------------------------------------------------
(* Metadata markers *)

LEMMA BeforeIsStrict ==
    ASSUME TypeOK, NEW a \in VisitedCells, NEW b \in VisitedCells
    PROVE  ~(Before(a, b) /\ Before(b, a)) /\ ~Before(a, a)
<1>1. /\ a.sheet \in Nat /\ a.row \in Nat /\ a.column \in Nat
      /\ b.sheet \in Nat /\ b.row \in Nat /\ b.column \in Nat
  BY VisitedTypes, TypesGiveWorkbook DEF Locations
<1> QED BY <1>1 DEF Before

LEMMA MarkersOfCell ==
    ASSUME TypeOK, InPlace, ProcessCell, NEW kind
    PROVE  /\ DoneMarkers(kind)' = DoneMarkers(kind)
                \cup (IF CellAt(Here).kind = kind THEN {Here} ELSE {})
           /\ DoneMarkers(kind) \subseteq Done
           /\ DoneMarkers(kind) \subseteq Markers(kind)
           /\ CellAt(Here).kind = kind => Here \in Markers(kind)
<1>1. Done' = Done \cup {Here} /\ workbook' = workbook /\ Here \in VisitedCells
  BY CellIsNext
<1>2. \A at : CellAt(at)' = CellAt(at)
  BY <1>1, WorkbookStays
<1>3. DoneMarkers(kind)' = {at \in Done \cup {Here} : CellAt(at).kind = kind}
  BY <1>1, <1>2 DEF DoneMarkers
<1> QED BY <1>1, <1>3 DEF DoneMarkers, Markers, Done

LEMMA MetadataFailuresAreRight ==
    ASSUME TypeOK, InPlace, MetadataScanned, ProcessCell, MetadataFails(CellAt(Here))
    PROVE  Ambiguous
<1>1. CellAt(Here).kind = "meta" /\ Here \in Markers("meta") /\ Here \in VisitedCells /\ Here \notin Done
  BY CellIsNext, MarkersOfCell DEF MetadataFails
<1>2. CASE metadataContext # NoContext
  <2>1. PICK m \in DoneMarkers("meta") : \A v \in Done : ~Before(m, v)
    BY <1>2 DEF MetadataScanned
  <2>2. m \in Markers("meta") /\ Before(m, Here)
    BY CellIsNext, MarkersOfCell
  <2>3. \A c \in VisitedCells : Before(c, Here) => ~Before(m, c)
    BY <2>1 DEF Done
  <2>4. Follows(m, Here)
    BY <2>2, <2>3 DEF Follows
  <2> QED BY <1>1, <2>2, <2>4 DEF Ambiguous
<1>3. CASE CellAt(Here).name \in NamesIn(meta)
  <2>1. PICK m \in DoneMarkers("meta") : CellAt(m).name = CellAt(Here).name
    BY <1>3 DEF MetadataScanned, NamesIn
  <2>2. m \in Markers("meta") /\ m # Here
    BY <1>1, MarkersOfCell
  <2> QED BY <1>1, <2>1, <2>2 DEF Ambiguous, Unique
<1> QED BY <1>2, <1>3 DEF MetadataFails

LEMMA MetadataOfCell ==
    ASSUME TypeOK, InPlace, MetadataScanned, ProcessCell, ~MetadataFails(CellAt(Here))
    PROVE  MetadataScanned'
<1> DEFINE cell == CellAt(Here)
<1>1. /\ workbook' = workbook /\ Here \in VisitedCells /\ cell = RowCells[col] /\ cell \in Cells
      /\ Done' = Done \cup {Here} /\ Here \notin Done /\ \A v \in Done : Before(v, Here)
  BY CellIsNext
<1>2. ProcessMetadata(cell)
  BY <1>1 DEF ProcessCell
<1>3. /\ \A at : CellAt(at)' = CellAt(at)
      /\ \A a, b : Follows(a, b)' <=> Follows(a, b)
  BY <1>1, WorkbookStays
<1>4. DoneMarkers("meta") \subseteq Done /\ Done \subseteq VisitedCells
  BY MarkersOfCell DEF Done
<1>5. CASE metadataContext # NoContext
  <2>1. cell.kind # "meta"
    BY <1>5 DEF MetadataFails
  <2>2. DoneMarkers("meta")' = DoneMarkers("meta")
    BY <2>1, MarkersOfCell
  <2>3. metadataContext' = NoContext /\ NamesIn(meta)' = NamesIn(meta) \cup {metadataContext}
    <3>1. PICK e : e.name = metadataContext /\ meta' = meta \cup {e} /\ metadataContext' = NoContext
      BY <1>2, <1>5 DEF ProcessMetadata
    <3>2. NamesIn(meta)' = NamesIn(meta) \cup {e.name}
      BY <3>1 DEF NamesIn
    <3> QED BY <3>1, <3>2
  <2>4. \A m \in DoneMarkers("meta") : \E v \in Done' : Before(m, v)
    BY <1>1, <1>4
  <2>5. \A e \in meta' : \E m \in DoneMarkers("meta") : CellAt(m).name = e.name
    BY <1>2, <1>5 DEF ProcessMetadata, MetadataScanned
  <2> QED BY <1>3, <2>2, <2>3, <2>4, <2>5 DEF MetadataScanned, Unique, Before
<1>6. CASE metadataContext = NoContext /\ cell.kind # "meta"
  <2>1. DoneMarkers("meta")' = DoneMarkers("meta")
    BY <1>6, MarkersOfCell
  <2>2. metadataContext' = NoContext /\ meta' = meta /\ NamesIn(meta)' = NamesIn(meta)
    BY <1>2, <1>6 DEF ProcessMetadata, NamesIn
  <2>3. \A m \in DoneMarkers("meta") : \E v \in Done' : Before(m, v)
    BY <1>1, <1>4
  <2> QED BY <1>3, <1>6, <2>1, <2>2, <2>3 DEF MetadataScanned, Unique, Before
<1>7. CASE metadataContext = NoContext /\ cell.kind = "meta"
  <2>1. DoneMarkers("meta")' = DoneMarkers("meta") \cup {Here}
    BY <1>7, MarkersOfCell
  <2>2. cell.name \notin NamesIn(meta) /\ cell.name # NoContext
    BY <1>1, <1>7, CellTypes, NamesAssumption DEF MetadataFails
  <2>3. metadataContext' = cell.name /\ meta' = meta /\ NamesIn(meta)' = NamesIn(meta)
    BY <1>2, <1>7 DEF ProcessMetadata, NamesIn
  <2>4. \A v \in Done' : ~Before(Here, v)
    BY <1>1, <1>4, BeforeIsStrict
  <2>5. \A m \in DoneMarkers("meta") : CellAt(m).name # cell.name
    BY <1>7, <2>2 DEF MetadataScanned
  <2>6. Unique(DoneMarkers("meta") \cup {Here})
    BY <2>5 DEF MetadataScanned, Unique
  <2>7. \A m \in DoneMarkers("meta") : ~Follows(m, Here)
    <3> SUFFICES ASSUME NEW m \in DoneMarkers("meta") PROVE ~Follows(m, Here)
      OBVIOUS
    <3>1. PICK v \in Done : Before(m, v)
      BY <1>7 DEF MetadataScanned
    <3> QED BY <1>1, <1>4, <3>1 DEF Follows
  <2>8. \A m \in DoneMarkers("meta") \cup {Here} : ~Follows(Here, m)
    BY <1>1, <1>4, <2>4 DEF Follows
  <2>9. \A m \in DoneMarkers("meta") \cup {Here} :
          CellAt(m).name \in NamesIn(meta) \cup {cell.name}
    <3>1. \A m \in DoneMarkers("meta") : CellAt(m).name \in Names
      BY <1>4, VisitedTypes, CellTypes, TypesGiveWorkbook DEF DoneMarkers
    <3>2. \A m \in DoneMarkers("meta") : CellAt(m).name \in NamesIn(meta)
      BY <1>7, <3>1, NamesAssumption DEF MetadataScanned
    <3> QED BY <3>2
  <2>10. \A e \in meta : \E m \in DoneMarkers("meta") \cup {Here} : CellAt(m).name = e.name
    BY DEF MetadataScanned
  <2>11. \A m, n \in DoneMarkers("meta") \cup {Here} : ~Follows(m, n)
    BY <2>7, <2>8 DEF MetadataScanned
  <2> QED BY <1>3, <2>1, <2>2, <2>3, <2>4, <2>6, <2>9, <2>10, <2>11 DEF MetadataScanned, Unique, Before
<1> QED BY <1>5, <1>6, <1>7

\* The steps that process no cell leave the metadata alone.
LEMMA MetadataIsLeft ==
    ASSUME MetadataScanned, workbook' = workbook, Done' = Done, UNCHANGED <<metadataContext, meta>>
    PROVE  MetadataScanned'
<1>1. DoneMarkers("meta")' = DoneMarkers("meta")
  BY WorkbookStays DEF DoneMarkers
<1>2. /\ \A at : CellAt(at)' = CellAt(at)
      /\ \A a, b : Follows(a, b)' <=> Follows(a, b)
  BY WorkbookStays
<1> QED BY <1>1, <1>2 DEF MetadataScanned, Unique, Before, NamesIn
--------------------------------------------------------------------------------
(* Data markers *)

SameMarker(c, d) == c.name = d.name /\ c.location = d.location /\ c.startColumn = d.startColumn

LEMMA SameMarkerSamePlace ==
    ASSUME NEW c, NEW d, SameMarker(c, d)
    PROVE  MarkerOf(c) = MarkerOf(d)
BY DEF SameMarker, MarkerOf

LEMMA UpdateKeepsMarker ==
    ASSUME NEW c \in Collections, NEW cell
    PROVE  SameMarker(c, UpdateCollection(c, cell))
BY DEF UpdateCollection, ProcessHeaderCell, ProcessRowCell, Collections, SameMarker

LEMMA FinalizeKeepsMarker ==
    ASSUME NEW c \in Collections
    PROVE  SameMarker(c, FinalizeRow(c))
BY DEF FinalizeRow, Collections, SameMarker

LEMMA NewCollectionIsHere ==
    ASSUME TypeOK, NEW cell
    PROVE  /\ MarkerOf(NewCollection(cell)) = Here
           /\ NewCollection(cell).name = cell.name
           /\ NewCollection(cell).startColumn = NewCollection(cell).location.column
           /\ NewCollection(cell).location.sheet = sheet
<1>1. col \in Nat /\ (col + 1) - 1 = col
  BY DEF TypeOK
<1>2. NewCollection(cell).location = Place(sheet, row, col + 1)
  BY DEF NewCollection, Here, Place
<1>3. MarkerOf(NewCollection(cell)) = Place(sheet, row, col)
  BY <1>1, <1>2 DEF MarkerOf, Place
<1> QED BY <1>2, <1>3, HereIs DEF NewCollection, Place

LEMMA MarkersOfTablesAre ==
    ASSUME MarkersScanned, NEW t \in Tables
    PROVE  MarkerOf(t) \in Done /\ MarkerOf(t) \in VisitedCells /\ MarkerOf(t) \in Markers("data")
BY DEF MarkersScanned, DoneMarkers, Done, Markers

LEMMA MarkersOfCellScanned ==
    ASSUME TypeOK, InPlace, MarkersScanned, ProcessCell, ~MetadataFails(CellAt(Here))
    PROVE  MarkersScanned'
<1> DEFINE cell == CellAt(Here)
           new == NewCollection(cell)
<1>1. /\ workbook' = workbook /\ Here \in VisitedCells /\ cell = RowCells[col] /\ cell \in Cells
      /\ Done' = Done \cup {Here} /\ Here \notin Done
  BY CellIsNext
<1>2. /\ active' = {UpdateCollection(c, cell) : c \in AddMarked(cell)}
      /\ data' = data /\ sheet' = sheet
  BY <1>1 DEF ProcessCell
<1>3. \A at : CellAt(at)' = CellAt(at)
  BY <1>1, WorkbookStays
<1>4. DoneMarkers("data")' = DoneMarkers("data") \cup (IF cell.kind = "data" THEN {Here} ELSE {})
  BY MarkersOfCell
<1>5. AddMarked(cell) = active \cup (IF cell.kind = "data" THEN {new} ELSE {})
  BY DEF AddMarked
<1>6. ASSUME NEW c \in AddMarked(cell)
      PROVE  /\ SameMarker(c, UpdateCollection(c, cell))
             /\ MarkerOf(UpdateCollection(c, cell)) = MarkerOf(c)
  BY <1>1, MarkedTypes, UpdateKeepsMarker, SameMarkerSamePlace
<1>7. /\ MarkerOf(new) = Here /\ new.name = cell.name /\ new.startColumn = new.location.column
      /\ new.location.sheet = sheet
  BY NewCollectionIsHere
<1>8. /\ \A m : MarkerOf(m)' = MarkerOf(m)
      /\ Tables' = active' \cup data
  BY <1>2 DEF Tables
<1> HIDE DEF new, cell
\* The tables that an update starts from.
<1>9. ASSUME NEW c \in AddMarked(cell)
      PROVE  /\ MarkerOf(c) \in DoneMarkers("data")' /\ c.name = CellAt(MarkerOf(c)).name
             /\ c.startColumn = c.location.column /\ c.location.sheet = sheet
  <2>1. CASE c \in active
    BY <2>1, <1>4 DEF MarkersScanned, Tables
  <2>2. CASE c = new /\ cell.kind = "data"
    BY <2>2, <1>4, <1>7 DEF cell
  <2> QED BY <1>5, <2>1, <2>2
<1>10. ASSUME NEW c \in AddMarked(cell), NEW d \in AddMarked(cell) \cup data, MarkerOf(c) = MarkerOf(d)
       PROVE  c = d /\ d \notin data
  <2>1. \A t \in Tables : MarkerOf(t) # Here
    BY <1>1, MarkersOfTablesAre
  <2>2. CASE c \in active
    BY <1>5, <1>7, <1>10, <2>1, <2>2 DEF MarkersScanned, Tables
  <2>3. CASE c = new
    BY <1>5, <1>7, <1>10, <2>1, <2>3 DEF Tables
  <2> QED BY <1>5, <2>2, <2>3
<1>11. ASSUME NEW t \in Tables'
       PROVE  /\ MarkerOf(t) \in DoneMarkers("data")' /\ t.name = CellAt(MarkerOf(t)).name
              /\ t.startColumn = t.location.column
  <2>1. CASE t \in data
    BY <2>1, <1>4 DEF MarkersScanned, Tables
  <2>2. CASE t \in active'
    <3>1. PICK c \in AddMarked(cell) : t = UpdateCollection(c, cell)
      BY <2>2, <1>2
    <3> QED BY <3>1, <1>6, <1>9 DEF SameMarker
  <2> QED BY <1>8, <2>1, <2>2
<1>12. ASSUME NEW m \in DoneMarkers("data")' PROVE \E t \in Tables' : MarkerOf(t) = m
  <2>1. CASE m = Here /\ cell.kind = "data"
    BY <2>1, <1>2, <1>5, <1>6, <1>7, <1>8
  <2>2. CASE m \in DoneMarkers("data")
    <3>1. PICK t \in Tables : MarkerOf(t) = m
      BY <2>2 DEF MarkersScanned
    <3> QED BY <3>1, <1>2, <1>5, <1>6, <1>8 DEF Tables
  <2> QED BY <1>4, <2>1, <2>2
<1>13. ASSUME NEW t \in active', NEW u \in Tables', MarkerOf(t) = MarkerOf(u) PROVE t = u /\ u \notin data
  <2>1. PICK c \in AddMarked(cell) : t = UpdateCollection(c, cell)
    BY <1>2
  <2>2. CASE u \in data
    BY <2>1, <2>2, <1>6, <1>10, <1>13
  <2>3. CASE u \in active'
    <3>1. PICK d \in AddMarked(cell) : u = UpdateCollection(d, cell)
      BY <2>3, <1>2
    <3>2. c = d /\ t = u
      BY <2>1, <3>1, <1>6, <1>10, <1>13
    <3>3. ASSUME u \in data PROVE FALSE
      BY <2>1, <3>2, <3>3, <1>6, <1>10
    <3> QED BY <3>2, <3>3
  <2> QED BY <1>8, <2>2, <2>3
<1>14. ASSUME NEW t \in active' PROVE t.location.sheet = sheet
  <2>1. PICK c \in AddMarked(cell) : t = UpdateCollection(c, cell)
    BY <1>2
  <2> QED BY <2>1, <1>6, <1>9 DEF SameMarker
<1>15. \A t, u \in Tables' : MarkerOf(t) = MarkerOf(u) => t = u
  <2>1. \A t, u \in data : MarkerOf(t) = MarkerOf(u) => t = u
    BY DEF MarkersScanned, Tables
  <2> QED BY <2>1, <1>8, <1>13
<1>16. active' \cap data' = {}
  BY <1>2, <1>8, <1>13
<1>17. \A t, u \in data' : t.name = u.name => t = u
  BY <1>2 DEF MarkersScanned
<1> QED BY <1>2, <1>3, <1>8, <1>11, <1>12, <1>14, <1>15, <1>16, <1>17 DEF MarkersScanned

LEMMA MarkersEmitted ==
    ASSUME TypeOK, MarkersScanned, workbook' = workbook, Done' = Done,
           NEW collections, NEW rest, collections \cap rest = {}, Emit(collections, rest),
           rest = {} \/ sheet' = sheet,
           \A d \in collections \cup rest : \E c \in active : SameMarker(c, d),
           \A c \in active : \E d \in collections \cup rest : SameMarker(c, d),
           \A d, e \in collections \cup rest : MarkerOf(d) = MarkerOf(e) => d = e
    PROVE  /\ status' = "failed" /\ status # "failed" => Ambiguous
           /\ status' # "failed" => MarkersScanned'
<1> DEFINE finalized == collections \cup rest
<1>1. ASSUME NEW d \in finalized
      PROVE  /\ MarkerOf(d) \in DoneMarkers("data") /\ d.name = CellAt(MarkerOf(d)).name
             /\ d.startColumn = d.location.column /\ d.location.sheet = sheet
             /\ \A u \in data : MarkerOf(d) # MarkerOf(u)
  <2>1. PICK c \in active : SameMarker(c, d)
    OBVIOUS
  <2>2. c \in Tables /\ MarkerOf(c) = MarkerOf(d)
    BY <2>1, SameMarkerSamePlace DEF Tables
  <2>3. \A u \in data : MarkerOf(c) # MarkerOf(u)
    BY <2>2 DEF MarkersScanned, Tables
  <2> QED BY <2>1, <2>2, <2>3 DEF MarkersScanned, SameMarker
<1>2. \A u \in data : MarkerOf(u) \in DoneMarkers("data") /\ u.name = CellAt(MarkerOf(u)).name
  BY DEF MarkersScanned, Tables
<1>3. ASSUME Duplicated(collections) PROVE Ambiguous
  <2>1. PICK c \in collections, d \in collections \cup data : c # d /\ c.name = d.name
    BY <1>3 DEF Duplicated
  <2>2. MarkerOf(c) # MarkerOf(d)
    BY <2>1, <1>1
  <2>3. /\ MarkerOf(c) \in Markers("data") /\ MarkerOf(d) \in Markers("data")
        /\ CellAt(MarkerOf(c)).name = CellAt(MarkerOf(d)).name
    BY <2>1, <1>1, <1>2 DEF DoneMarkers, Done, Markers
  <2> QED BY <2>2, <2>3 DEF Ambiguous, Unique
<1>4. status' = "failed" /\ status # "failed" => Ambiguous
  BY <1>3 DEF Emit
<1>5. ASSUME status' # "failed" PROVE MarkersScanned'
  <2>1. ~Duplicated(collections) /\ data' = data \cup collections /\ active' = rest
    BY <1>5 DEF Emit, Fail
  <2>2. Tables' = data \cup finalized
    BY <2>1 DEF Tables
  <2>3. DoneMarkers("data")' = DoneMarkers("data") /\ \A at : CellAt(at)' = CellAt(at)
    BY WorkbookStays DEF DoneMarkers
  <2>4. \A m \in DoneMarkers("data") : \E t \in Tables' : MarkerOf(t) = m
    <3> SUFFICES ASSUME NEW m \in DoneMarkers("data") PROVE \E t \in Tables' : MarkerOf(t) = m
      OBVIOUS
    <3>1. PICK t \in Tables : MarkerOf(t) = m
      BY DEF MarkersScanned
    <3>2. CASE t \in data
      BY <3>1, <3>2, <2>2
    <3>3. CASE t \in active
      BY <3>1, <3>3, <2>2, SameMarkerSamePlace
    <3> QED BY <3>1, <3>2, <3>3 DEF Tables
  <2>5. \A t, u \in data \cup finalized : MarkerOf(t) = MarkerOf(u) => t = u
    <3>1. \A t, u \in data : MarkerOf(t) = MarkerOf(u) => t = u
      BY DEF MarkersScanned, Tables
    <3> QED BY <3>1, <1>1
  <2>6. rest \cap (data \cup collections) = {}
    BY <1>1
  <2>7. \A t, u \in data \cup collections : t.name = u.name => t = u
    <3>1. \A t, u \in data : t.name = u.name => t = u
      BY DEF MarkersScanned
    <3>2. \A t \in collections, u \in data \cup collections : t.name = u.name => t = u
      BY <2>1 DEF Duplicated
    <3> QED BY <3>1, <3>2
  <2>8. \A t \in data \cup finalized :
          /\ MarkerOf(t) \in DoneMarkers("data") /\ t.name = CellAt(MarkerOf(t)).name
          /\ t.startColumn = t.location.column
    BY <1>1 DEF MarkersScanned, Tables
  <2>9. \A t \in rest : t.location.sheet = sheet'
    BY <1>1
  <2>10. \A t : MarkerOf(t)' = MarkerOf(t)
    OBVIOUS
  <2> HIDE DEF finalized
  <2> QED BY <2>1, <2>2, <2>3, <2>4, <2>5, <2>6, <2>7, <2>8, <2>9, <2>10 DEF MarkersScanned
<1> QED BY <1>4, <1>5

LEMMA MarkersOfRowScanned ==
    ASSUME TypeOK, InPlace, MarkersScanned, EndRow
    PROVE  /\ status' = "failed" => Ambiguous
           /\ status' # "failed" => MarkersScanned'
<1> DEFINE finalized == {FinalizeRow(c) : c \in active}
           collections == {c \in finalized : c.complete}
           rest == {c \in finalized : ~c.complete}
<1>1. /\ workbook' = workbook /\ sheet' = sheet /\ status = "parsing"
      /\ Emit(collections, rest)
  BY DEF EndRow, InRow, InSheet, Parsing
<1>2. Done' = Done
  BY RowIsPassed DEF EndRow
<1>3. \A c \in active : SameMarker(c, FinalizeRow(c)) /\ MarkerOf(FinalizeRow(c)) = MarkerOf(c)
  BY FinalizeKeepsMarker, SameMarkerSamePlace DEF TypeOK
<1>4. collections \cup rest = finalized /\ collections \cap rest = {}
  OBVIOUS
<1>5. \A d \in finalized : \E c \in active : SameMarker(c, d)
  BY <1>3
<1>6. \A c \in active : \E d \in finalized : SameMarker(c, d)
  BY <1>3
<1>7. \A d, e \in finalized : MarkerOf(d) = MarkerOf(e) => d = e
  BY <1>3 DEF MarkersScanned, Tables
<1> HIDE DEF finalized, collections, rest
<1> QED BY <1>1, <1>2, <1>4, <1>5, <1>6, <1>7, MarkersEmitted

LEMMA MarkersOfSheetScanned ==
    ASSUME TypeOK, InPlace, MarkersScanned, EndSheet
    PROVE  /\ status' = "failed" => Ambiguous
           /\ status' # "failed" => MarkersScanned'
<1>1. /\ workbook' = workbook /\ status = "parsing" /\ Emit(active, {})
  BY DEF EndSheet, InSheet, Parsing
<1>2. Done' = Done
  BY SheetIsPassed
<1>3. \A c \in active : SameMarker(c, c)
  BY DEF SameMarker
<1>4. \A d, e \in active : MarkerOf(d) = MarkerOf(e) => d = e
  BY DEF MarkersScanned, Tables
<1>5. active \cup {} = active /\ active \cap {} = {}
  OBVIOUS
<1> QED BY <1>1, <1>2, <1>3, <1>4, <1>5, MarkersEmitted

LEMMA MarkersAreLeft ==
    ASSUME MarkersScanned, workbook' = workbook, Done' = Done, UNCHANGED <<sheet, active, data>>
    PROVE  MarkersScanned'
<1>1. /\ DoneMarkers("data")' = DoneMarkers("data")
      /\ \A at : CellAt(at)' = CellAt(at)
  BY WorkbookStays DEF DoneMarkers
<1> QED BY <1>1 DEF MarkersScanned, Tables, MarkerOf
--------------------------------------------------------------------------------
(* The rows of a table *)

LEMMA ScannedAreFinite ==
    ASSUME WorkbookOK, NEW m \in VisitedCells, NEW k \in Nat
    PROVE  /\ {r \in ScannedRows(m) : r < k} \in SUBSET Nat
           /\ IsFiniteSet({r \in ScannedRows(m) : r < k})
           /\ Cardinality({r \in ScannedRows(m) : r < k}) \in Nat
<1>1. ScannedRows(m) \subseteq Nat
  BY VisitedTypes DEF ScannedRows, RowsBelow
<1> DEFINE S == {r \in ScannedRows(m) : r < k}
<1>2. S \in SUBSET Nat /\ \A r \in S : r <= k
  BY <1>1
<1> HIDE DEF S
<1>3. IsFiniteSet(S)
  BY <1>2, FS_BoundedSetOfNaturals
<1>4. Cardinality(S) \in Nat
  BY <1>3, FS_CardinalityType
<1> QED BY <1>2, <1>3, <1>4 DEF S

LEMMA ColumnsTypes ==
    ASSUME WorkbookOK, NEW m \in VisitedCells, NEW n \in Nat, NEW r
    PROVE  /\ Len(Columns(m, r, n)) = n /\ DOMAIN Columns(m, r, n) = 1 .. n
           /\ Columns(m, r, 0) = <<>>
           /\ n > 0 => Columns(m, r, n) # <<>>
BY DEF Columns

\* What the two definitions of HasRowsBefore count.
UpTo(m, k) == Cardinality({r \in ScannedRows(m) : r < k})

LEMMA RowsAre ==
    ASSUME NEW t, NEW n
    PROVE  HasRowsBefore(t, n) <=>
             /\ Len(t.rows) = UpTo(MarkerOf(t), n)
             /\ \A r \in ScannedRows(MarkerOf(t)) : r < n =>
                  t.rows[UpTo(MarkerOf(t), r + 1)] = Columns(MarkerOf(t), r, Cut(MarkerOf(t), r))
BY DEF HasRowsBefore, UpTo

LEMMA NoRowsYet ==
    ASSUME WorkbookOK, NEW t, MarkerOf(t) \in VisitedCells, t.rows = <<>>
    PROVE  HasRowsBefore(t, MarkerOf(t).row) /\ HasRowsBefore(t, MarkerOf(t).row + 1)
<1> DEFINE m == MarkerOf(t)
<1>1. m.row \in Nat /\ \A r \in ScannedRows(m) : r \in Nat /\ r > m.row
  BY VisitedTypes DEF ScannedRows, RowsBelow
<1>2. ASSUME NEW n \in {m.row, m.row + 1} PROVE HasRowsBefore(t, n)
  <2>1. {r \in ScannedRows(m) : r < n} = {}
    BY <1>1
  <2>2. UpTo(m, n) = 0
    BY <2>1, FS_EmptySet DEF UpTo
  <2> QED BY <1>1, <2>2, RowsAre
<1> QED BY <1>2

LEMMA RowIsAdded ==
    ASSUME WorkbookOK, NEW t, MarkerOf(t) \in VisitedCells, NEW n \in Nat, HasRowsBefore(t, n),
           n \in ScannedRows(MarkerOf(t)), NEW u, MarkerOf(u) = MarkerOf(t), t.rows \in Seq(Seq(Cells)),
           NEW new, new = Columns(MarkerOf(t), n, Cut(MarkerOf(t), n)), u.rows = Append(t.rows, new)
    PROVE  HasRowsBefore(u, n + 1)
<1> DEFINE m == MarkerOf(t)
           S(k) == {r \in ScannedRows(m) : r < k}
<1>1. \A r \in ScannedRows(m) : r \in Nat
  BY VisitedTypes DEF ScannedRows, RowsBelow
<1>2. S(n + 1) = S(n) \cup {n} /\ n \notin S(n)
  <2>1. \A r \in ScannedRows(m) : r < n + 1 <=> r < n \/ r = n
    BY <1>1
  <2>2. ~(n < n)
    OBVIOUS
  <2> QED BY <2>1, <2>2
<1>3. \A k \in Nat : IsFiniteSet(S(k)) /\ Cardinality(S(k)) \in Nat
  BY ScannedAreFinite
<1>4. UpTo(m, n + 1) = UpTo(m, n) + 1 /\ UpTo(m, n) \in Nat
  <2> HIDE DEF S
  <2>1. Cardinality(S(n + 1)) = Cardinality(S(n)) + 1
    BY <1>2, <1>3, FS_AddElement
  <2> QED BY <2>1, <1>3 DEF UpTo, S
<1>5. Len(t.rows) = UpTo(m, n)
  BY RowsAre
<1>6. Len(u.rows) = UpTo(m, n + 1)
  BY <1>4, <1>5
<1>7. u.rows[UpTo(m, n + 1)] = new
  BY <1>4, <1>5
<1>8. ASSUME NEW r \in ScannedRows(m), r < n
      PROVE  UpTo(m, r + 1) \in 1 .. Len(t.rows)
  <2>1. r \in S(r + 1) /\ S(r + 1) \in SUBSET S(n)
    <3>1. r < r + 1 /\ \A q \in ScannedRows(m) : q < r + 1 => q < n
      BY <1>1, <1>8
    <3> QED BY <3>1
  <2>2. r + 1 \in Nat
    BY <1>1
  <2> HIDE DEF S
  <2>3. Cardinality(S(r + 1)) <= Cardinality(S(n)) /\ Cardinality(S(r + 1)) # 0
    BY <1>3, <2>1, <2>2, FS_Subset, FS_EmptySet
  <2>4. Cardinality(S(r + 1)) \in Nat /\ Cardinality(S(n)) \in Nat
    BY <1>3, <2>2
  <2> QED BY <1>5, <2>3, <2>4 DEF UpTo, S
<1>9. ASSUME NEW r \in ScannedRows(m), r < n
      PROVE  u.rows[UpTo(m, r + 1)] = Columns(m, r, Cut(m, r))
  <2>1. t.rows[UpTo(m, r + 1)] = Columns(m, r, Cut(m, r))
    BY <1>9, RowsAre
  <2> QED BY <1>8, <1>9, <2>1
<1>10. \A r \in ScannedRows(m) : r < n + 1 => r = n \/ r < n
  BY <1>1
<1> QED BY <1>6, <1>7, <1>9, <1>10, RowsAre

LEMMA RowIsLeftOut ==
    ASSUME WorkbookOK, NEW t, MarkerOf(t) \in VisitedCells, NEW n \in Nat, HasRowsBefore(t, n),
           n \notin ScannedRows(MarkerOf(t))
    PROVE  HasRowsBefore(t, n + 1)
<1> DEFINE m == MarkerOf(t)
<1>1. \A r \in ScannedRows(m) : r \in Nat
  BY VisitedTypes DEF ScannedRows, RowsBelow
<1>2. \A r \in ScannedRows(m) : r < n + 1 <=> r < n
  BY <1>1
<1>3. UpTo(m, n + 1) = UpTo(m, n)
  <2>1. {r \in ScannedRows(m) : r < n + 1} = {r \in ScannedRows(m) : r < n}
    BY <1>2
  <2> QED BY <2>1 DEF UpTo
<1> QED BY <1>2, <1>3, RowsAre

LEMMA RowsAreAll ==
    ASSUME WorkbookOK, NEW t, MarkerOf(t) \in VisitedCells, NEW n \in Nat, HasRowsBefore(t, n),
           \A r \in ScannedRows(MarkerOf(t)) : r < n,
           NEW u, u.location \in Locations, MarkerOf(u) = MarkerOf(t), u.rows = t.rows
    PROVE  HasItsRows(u)
<1> DEFINE m == MarkerOf(t)
           N == Len(workbook[m.sheet]) + 1
<1>1. u.location.sheet = m.sheet
  BY DEF MarkerOf, Locations
<1>2. \A r \in ScannedRows(m) : r < N
  BY VisitedTypes DEF ScannedRows, RowsBelow
<1>3. {r \in ScannedRows(m) : r < N} = {r \in ScannedRows(m) : r < n}
  BY <1>2
<1>4. UpTo(m, N) = UpTo(m, n)
  BY <1>3 DEF UpTo
<1>5. HasRowsBefore(u, N)
  BY <1>2, <1>4, RowsAre
<1> QED BY <1>1, <1>5 DEF HasItsRows
--------------------------------------------------------------------------------
(* Tables *)

FilledAt(m, k) == IF k <= m.column + 1 THEN 0 ELSE Min({Width(m), k - 1 - m.column})

LEMMA FilledIs ==
    ASSUME WorkbookOK, NEW m \in VisitedCells, NEW k \in Nat
    PROVE  FilledAt(m, k) = IF k <= m.column + 1 THEN 0
                            ELSE IF Width(m) <= k - 1 - m.column THEN Width(m) ELSE k - 1 - m.column
<1>1. Width(m) \in Nat /\ m.column \in Nat
  BY WidthIs, VisitedTypes
<1>2. k > m.column + 1 => k - 1 - m.column \in Nat
  BY <1>1
<1> QED BY <1>1, <1>2, SmallerOf DEF FilledAt

LEMMA RowsOfWorkbookStay ==
    ASSUME workbook' = workbook, NEW t
    PROVE  /\ \A n : HasRowsBefore(t, n)' <=> HasRowsBefore(t, n)
           /\ HasItsRows(t)' <=> HasItsRows(t)
<1> DEFINE m == MarkerOf(t)
<1>1. /\ ScannedRows(m)' = ScannedRows(m)
      /\ \A r : Cut(m, r)' = Cut(m, r)
      /\ \A r, n : Columns(m, r, n)' = Columns(m, r, n)
  BY TablesOfWorkbookStay
<1>2. MarkerOf(t)' = MarkerOf(t)
  BY DEF MarkerOf
<1>3. ASSUME NEW k PROVE Cardinality({r \in ScannedRows(m) : r < k})' = Cardinality({r \in ScannedRows(m) : r < k})
  BY <1>1
<1> HIDE DEF m
<1>4. ASSUME NEW n PROVE HasRowsBefore(t, n)' <=> HasRowsBefore(t, n)
  BY <1>1, <1>2, <1>3 DEF HasRowsBefore, m
<1>5. HasItsRows(t)' <=> HasItsRows(t)
  BY <1>4 DEF HasItsRows
<1> QED BY <1>4, <1>5

\* What it takes for a table to be in its rows, or in its headers, after a step.
LEMMA InRowsNext ==
    ASSUME workbook' = workbook, NEW t, NEW m, m = MarkerOf(t), NEW r, NEW k, row' = r, col' = k,
           t.state = "ROWS", t.headers = Headers(m), HasRowsBefore(t, r),
           r >= m.row, r = m.row => k > m.column + Width(m) + 1,
           t.currentRow = (IF r = m.row THEN <<>> ELSE Columns(m, r, FilledAt(m, k))),
           \A q \in m.row + 1 .. r - 1 : Reaches(m, q) => ~BlankIn(m, q)
    PROVE  InRows(t)'
<1>1. /\ Width(m)' = Width(m) /\ Headers(m)' = Headers(m)
      /\ \A q, n : Columns(m, q, n)' = Columns(m, q, n)
      /\ \A q : BlankIn(m, q)' <=> BlankIn(m, q)
      /\ \A q : Reaches(m, q)' <=> Reaches(m, q)
  BY TablesOfWorkbookStay
<1>2. \A n : HasRowsBefore(t, n)' <=> HasRowsBefore(t, n)
  BY RowsOfWorkbookStay
<1>3. Filled(m)' = FilledAt(m, k)
  BY <1>1 DEF Filled, FilledAt
<1>4. MarkerOf(t)' = m
  BY DEF MarkerOf
<1> QED BY <1>1, <1>2, <1>3, <1>4 DEF InRows

LEMMA InHeadersNext ==
    ASSUME workbook' = workbook, NEW t, NEW m, m = MarkerOf(t), NEW r, NEW k, row' = r, col' = k,
           t.state = "HEADERS", t.rows = <<>>, t.currentRow = <<>>, r = m.row,
           k - 1 \in m.column .. m.column + Width(m), t.headers = HeadersUpTo(m, k - 1 - m.column)
    PROVE  InHeaders(t)'
<1>1. /\ Width(m)' = Width(m) /\ \A n : HeadersUpTo(m, n)' = HeadersUpTo(m, n)
  BY TablesOfWorkbookStay
<1>2. MarkerOf(t)' = m
  BY DEF MarkerOf
<1> QED BY <1>1, <1>2 DEF InHeaders

LEMMA NextHeader ==
    ASSUME WorkbookOK, NEW m \in VisitedCells, NEW n \in Nat, m.column + n + 1 <= Len(workbook[m.sheet][m.row])
    PROVE  Append(HeadersUpTo(m, n), Heading(workbook[m.sheet][m.row][m.column + n + 1])) = HeadersUpTo(m, n + 1)
<1> DEFINE H(i) == Heading(workbook[m.sheet][m.row][m.column + i])
<1>1. m.column + n + 1 = m.column + (n + 1)
  <2>1. m.column \in Nat
    BY VisitedTypes
  <2> QED BY <2>1
<1>2. HeadersUpTo(m, n) = [i \in 1 .. n |-> H(i)] /\ HeadersUpTo(m, n + 1) = [i \in 1 .. n + 1 |-> H(i)]
  BY DEF HeadersUpTo
<1>3. H(n + 1) = Heading(workbook[m.sheet][m.row][m.column + n + 1])
  BY <1>1
<1> HIDE DEF H
<1>4. Append([i \in 1 .. n |-> H(i)], H(n + 1)) = [i \in 1 .. n + 1 |-> H(i)]
  OBVIOUS
<1> QED BY <1>2, <1>3, <1>4

LEMMA NextColumn ==
    ASSUME WorkbookOK, NEW m \in VisitedCells, NEW n \in Nat, NEW r
    PROVE  Append(Columns(m, r, n), Read(Place(m.sheet, r, m.column + n + 1))) = Columns(m, r, n + 1)
<1> DEFINE H(i) == Read(Place(m.sheet, r, m.column + i))
<1>1. m.column + n + 1 = m.column + (n + 1)
  <2>1. m.column \in Nat
    BY VisitedTypes
  <2> QED BY <2>1
<1>2. Columns(m, r, n) = [i \in 1 .. n |-> H(i)] /\ Columns(m, r, n + 1) = [i \in 1 .. n + 1 |-> H(i)]
  BY DEF Columns, Place
<1>3. H(n + 1) = Read(Place(m.sheet, r, m.column + n + 1))
  BY <1>1
<1> HIDE DEF H
<1>4. Append([i \in 1 .. n |-> H(i)], H(n + 1)) = [i \in 1 .. n + 1 |-> H(i)]
  OBVIOUS
<1> QED BY <1>2, <1>3, <1>4

\* A header cell: the table stays in its headers, or is in its rows with all of them.
LEMMA HeaderCellTaken ==
    ASSUME TypeOK, InPlace, MarkersScanned, ProcessCell, NEW c \in active, InHeaders(c),
           NEW u, u = UpdateCollection(c, CellAt(Here))
    PROVE  u.complete = c.complete /\ (InHeaders(u)' \/ InRows(u)')
<1> DEFINE cell == CellAt(Here)
           m == MarkerOf(c)
           w == Width(m)
           cells == workbook[m.sheet][m.row]
<1>1. /\ workbook' = workbook /\ cell = RowCells[col] /\ row' = row /\ col' = col + 1
      /\ col <= Len(RowCells)
  BY CellIsNext DEF ProcessCell
<1>2. c \in Collections /\ c.startColumn = c.location.column /\ c.location.sheet = sheet /\ m \in VisitedCells
  BY MarkersOfTablesAre DEF TypeOK, MarkersScanned, Tables
<1>3. /\ m.sheet = sheet /\ m.column = c.startColumn - 1 /\ c.startColumn \in Nat /\ MarkerOf(u) = m
  BY <1>2, UpdateKeepsMarker, SameMarkerSamePlace DEF MarkerOf, Collections, Locations
<1>4. /\ c.state = "HEADERS" /\ c.rows = <<>> /\ c.currentRow = <<>> /\ row = m.row
      /\ col - 1 \in m.column .. m.column + w /\ c.headers = HeadersUpTo(m, col - 1 - m.column)
  BY DEF InHeaders
<1>5. /\ w \in Nat /\ m.column + w <= Len(cells) /\ \A i \in 1 .. w : ~Blank(cells[m.column + i])
      /\ m.column + w + 1 <= Len(cells) => Blank(cells[m.column + w + 1])
      /\ m.column \in Nat /\ Len(cells) \in Nat /\ m.row \in Nat
  <2>1. WorkbookOK
    BY TypesGiveWorkbook
  <2> QED BY <1>2, <2>1, WidthIs, VisitedTypes
<1>6. col \in Nat /\ cells = RowCells /\ cell = cells[col] /\ col <= Len(cells)
  BY <1>1, <1>3, <1>4 DEF TypeOK, RowCells
<1> HIDE DEF cell, w, m, cells
<1>7. col >= c.startColumn /\ u = ProcessHeaderCell(c, cell)
  <2>1. col >= c.startColumn
    BY <1>3, <1>4, <1>5, <1>6
  <2>2. ~(col < c.startColumn)
    BY <1>3, <1>6, <2>1
  <2> QED BY <1>4, <2>1, <2>2 DEF UpdateCollection, cell
<1>8. CASE Blank(cell)
  <2>1. col = m.column + w + 1
    <3>1. col \in m.column + 1 .. m.column + w + 1
      BY <1>4, <1>5, <1>6
    <3>2. ASSUME col # m.column + w + 1 PROVE FALSE
      <4>1. col - m.column \in 1 .. w /\ m.column + (col - m.column) = col
        BY <1>5, <1>6, <3>1, <3>2
      <4> QED BY <1>5, <1>6, <1>8, <4>1
    <3> QED BY <3>2
  <2>2. /\ u.state = "ROWS" /\ u.headers = c.headers /\ u.rows = <<>> /\ u.currentRow = <<>>
        /\ u.complete = c.complete
    BY <1>2, <1>4, <1>7, <1>8 DEF ProcessHeaderCell, Collections
  <2>3. u.headers = Headers(m)
    BY <1>4, <1>5, <2>1, <2>2 DEF Headers, w
  <2>4. HasRowsBefore(u, row)
    BY <1>2, <1>3, <1>4, <2>2, NoRowsYet, TypesGiveWorkbook
  <2>5. col + 1 > m.column + Width(m) + 1 /\ row >= m.row /\ m.row + 1 .. row - 1 = {}
    BY <1>4, <1>5, <2>1 DEF w
  <2>6. InRows(u)'
    BY <1>1, <1>3, <1>4, <2>2, <2>3, <2>4, <2>5, InRowsNext
  <2> QED BY <2>2, <2>6 DEF cell
<1>9. CASE ~Blank(cell)
  <2>1. col - 1 - m.column \in Nat /\ col <= m.column + w /\ m.column + (col - 1 - m.column) + 1 = col
    BY <1>4, <1>5, <1>6, <1>9
  <2>2. /\ u.state = "HEADERS" /\ u.headers = Append(c.headers, Heading(cell)) /\ u.rows = <<>>
        /\ u.currentRow = <<>> /\ u.complete = c.complete
    BY <1>2, <1>4, <1>7, <1>9 DEF ProcessHeaderCell, Collections, Heading
  <2>3. u.headers = HeadersUpTo(m, (col - 1 - m.column) + 1)
    BY <1>2, <1>4, <1>6, <2>1, <2>2, NextHeader, TypesGiveWorkbook DEF cells
  <2>4. (col + 1) - 1 \in m.column .. m.column + Width(m) /\ (col - 1 - m.column) + 1 = (col + 1) - 1 - m.column
    BY <1>5, <1>6, <2>1 DEF w
  <2>5. InHeaders(u)'
    BY <1>1, <1>3, <1>4, <2>2, <2>3, <2>4, InHeadersNext
  <2> QED BY <2>2, <2>5 DEF cell
<1> QED BY <1>8, <1>9

\* A cell of a row below the headers, or behind them: it is taken when it is in the
\* columns of the table.
LEMMA RowCellTaken ==
    ASSUME TypeOK, InPlace, MarkersScanned, ProcessCell, NEW c \in active, InRows(c),
           NEW u, u = UpdateCollection(c, CellAt(Here))
    PROVE  u.complete = c.complete /\ InRows(u)'
<1> DEFINE cell == CellAt(Here)
           m == MarkerOf(c)
           w == Width(m)
<1>1. /\ workbook' = workbook /\ row' = row /\ col' = col + 1
      /\ col \in Nat /\ row \in Nat
  BY CellIsNext DEF ProcessCell, TypeOK
<1>2. c \in Collections /\ c.startColumn = c.location.column /\ c.location.sheet = sheet /\ m \in VisitedCells
  BY MarkersOfTablesAre DEF TypeOK, MarkersScanned, Tables
<1>3. /\ m.sheet = sheet /\ m.column = c.startColumn - 1 /\ c.startColumn \in Nat /\ MarkerOf(u) = m
      /\ u.location = c.location
  BY <1>2, UpdateKeepsMarker, SameMarkerSamePlace DEF MarkerOf, Collections, Locations, SameMarker
<1>4. /\ c.state = "ROWS" /\ c.headers = Headers(m) /\ HasRowsBefore(c, row)
      /\ row >= m.row /\ (row = m.row => col > m.column + w + 1)
      /\ c.currentRow = (IF row = m.row THEN <<>> ELSE Columns(m, row, FilledAt(m, col)))
      /\ \A q \in m.row + 1 .. row - 1 : Reaches(m, q) => ~BlankIn(m, q)
  BY DEF InRows, Filled, FilledAt
<1>5. WorkbookOK /\ w \in Nat /\ m.column \in Nat /\ m.row \in Nat
  <2>1. WorkbookOK
    BY TypesGiveWorkbook
  <2> QED BY <1>2, <2>1, WidthIs, VisitedTypes
<1>6. Len(c.headers) = w
  BY <1>4, <1>5 DEF Headers, HeadersUpTo, w
<1> DEFINE taken == row > m.row /\ m.column < col /\ col <= m.column + w
<1> HIDE DEF cell, w, m
<1>7. CASE taken
  <2> DEFINE n == col - 1 - m.column
             new == IF Blank(cell) THEN Null ELSE cell
  <2>1. n \in Nat /\ m.column + n + 1 = col /\ ~(col < c.startColumn) /\ col < c.startColumn + Len(c.headers)
    <3>1. m.column < col /\ col <= m.column + w
      BY <1>7
    <3>2. n \in Nat /\ m.column + n + 1 = col
      BY <1>1, <1>5, <3>1
    <3>3. c.startColumn = m.column + 1
      BY <1>3, <1>5
    <3>4. ~(col < c.startColumn) /\ col < c.startColumn + w
      BY <1>1, <1>5, <3>1, <3>3
    <3> QED BY <1>6, <3>2, <3>4
  <2>2. FilledAt(m, col) = n /\ FilledAt(m, col + 1) = n + 1
    <3>1. FilledAt(m, col) = IF col <= m.column + 1 THEN 0 ELSE IF w <= n THEN w ELSE n
      BY <1>1, <1>2, <1>5, FilledIs DEF w, m
    <3>2. FilledAt(m, col + 1) = IF col + 1 <= m.column + 1 THEN 0
                                 ELSE IF w <= (col + 1) - 1 - m.column THEN w ELSE (col + 1) - 1 - m.column
      BY <1>1, <1>2, <1>5, FilledIs DEF w, m
    <3> QED BY <1>1, <1>5, <1>7, <3>1, <3>2
  <2>3. u = ProcessRowCell(c, cell)
    BY <1>4, <2>1 DEF UpdateCollection, cell
  <2> HIDE DEF n
  <2>4. c.currentRow = Columns(m, row, n)
    BY <1>1, <1>4, <1>5, <1>7, <2>2
  <2>5. new = Read(Place(m.sheet, row, m.column + n + 1))
    BY <1>3, <2>1, HereIs DEF Read, cell
  <2>6. Append(c.currentRow, new) = Columns(m, row, n + 1)
    BY <1>2, <1>5, <2>1, <2>4, <2>5, NextColumn DEF m
  <2>7. /\ u.state = "ROWS" /\ u.headers = c.headers /\ u.rows = c.rows /\ u.complete = c.complete
        /\ u.currentRow = Columns(m, row, FilledAt(m, col + 1))
    BY <1>2, <1>4, <2>2, <2>3, <2>6 DEF ProcessRowCell, Collections
  <2>8. HasRowsBefore(u, row)
    BY <1>3, <1>4, <2>7, RowsAre DEF m
  <2>9. row # m.row
    BY <1>1, <1>5, <1>7
  <2>10. InRows(u)'
    BY <1>1, <1>3, <1>4, <2>7, <2>8, <2>9, InRowsNext
  <2> QED BY <2>7, <2>10
<1>8. CASE ~taken
  <2>1. u = c
    <3>1. col < c.startColumn \/ ~(col < c.startColumn + Len(c.headers))
      BY <1>1, <1>3, <1>4, <1>5, <1>6, <1>8
    <3> QED BY <1>4, <3>1 DEF UpdateCollection
  <2>2. row # m.row => FilledAt(m, col + 1) = FilledAt(m, col)
    <3>1. FilledAt(m, col) = IF col <= m.column + 1 THEN 0
                             ELSE IF w <= col - 1 - m.column THEN w ELSE col - 1 - m.column
      BY <1>1, <1>2, <1>5, FilledIs DEF w, m
    <3>2. FilledAt(m, col + 1) = IF col + 1 <= m.column + 1 THEN 0
                                 ELSE IF w <= (col + 1) - 1 - m.column THEN w ELSE (col + 1) - 1 - m.column
      BY <1>1, <1>2, <1>5, FilledIs DEF w, m
    <3> QED BY <1>1, <1>4, <1>5, <1>8, <3>1, <3>2
  <2>3. row = m.row => col + 1 > m.column + Width(m) + 1
    BY <1>1, <1>4, <1>5 DEF w
  <2>4. InRows(u)'
    BY <1>1, <1>3, <1>4, <2>1, <2>2, <2>3, InRowsNext
  <2> QED BY <2>1, <2>4
<1> QED BY <1>7, <1>8

LEMMA NewTableIsInHeaders ==
    ASSUME TypeOK, InPlace, ProcessCell, NEW cell, NEW u,
           u = UpdateCollection(NewCollection(cell), CellAt(Here))
    PROVE  ~u.complete /\ InHeaders(u)'
<1> DEFINE m == MarkerOf(u)
<1>1. /\ workbook' = workbook /\ row' = row /\ col' = col + 1 /\ Here \in VisitedCells
      /\ col \in Nat /\ row \in Nat
  BY CellIsNext DEF ProcessCell, TypeOK
<1>2. u = NewCollection(cell)
  BY <1>1 DEF UpdateCollection, NewCollection
<1>3. m = Here /\ m.column = col /\ m.row = row
  BY <1>2, NewCollectionIsHere DEF Here
<1>4. Width(m) \in Nat
  BY <1>1, <1>3, WidthIs, TypesGiveWorkbook
<1> HIDE DEF m
<1>5. (col + 1) - 1 \in m.column .. m.column + Width(m) /\ (col + 1) - 1 - m.column = 0
  BY <1>1, <1>3, <1>4
<1>6. HeadersUpTo(m, 0) = <<>>
  BY DEF HeadersUpTo
<1>7. /\ u.state = "HEADERS" /\ u.rows = <<>> /\ u.currentRow = <<>> /\ u.headers = <<>> /\ ~u.complete
  BY <1>2 DEF NewCollection
<1>8. InHeaders(u)'
  BY <1>1, <1>3, <1>5, <1>6, <1>7, InHeadersNext DEF m
<1> QED BY <1>7, <1>8

LEMMA TablesOfCell ==
    ASSUME TypeOK, InPlace, MarkersScanned, TablesScanned, ProcessCell, ~MetadataFails(CellAt(Here))
    PROVE  TablesScanned'
<1> DEFINE cell == CellAt(Here)
<1>1. /\ workbook' = workbook /\ data' = data /\ cell = RowCells[col]
      /\ active' = {UpdateCollection(c, cell) : c \in AddMarked(cell)}
  BY CellIsNext DEF ProcessCell
<1>2. ASSUME NEW t \in data PROVE (t.headers = Headers(MarkerOf(t)) /\ HasItsRows(t))'
  <2>1. t.headers = Headers(MarkerOf(t)) /\ HasItsRows(t)
    BY DEF TablesScanned
  <2>2. Headers(MarkerOf(t))' = Headers(MarkerOf(t))
    BY <1>1, TablesOfWorkbookStay DEF MarkerOf
  <2> QED BY <1>1, <2>1, <2>2, RowsOfWorkbookStay
<1>3. ASSUME NEW u \in active' PROVE ~u.complete /\ (InHeaders(u)' \/ InRows(u)')
  <2>1. PICK c \in AddMarked(cell) : u = UpdateCollection(c, cell)
    BY <1>1
  <2>2. CASE c \in active
    <3>1. ~c.complete /\ (InHeaders(c) \/ InRows(c))
      BY <2>2 DEF TablesScanned
    <3> QED BY <2>1, <2>2, <3>1, HeaderCellTaken, RowCellTaken
  <2>3. CASE c = NewCollection(cell)
    BY <2>1, <2>3, NewTableIsInHeaders
  <2> QED BY <2>2, <2>3 DEF AddMarked
<1> QED BY <1>1, <1>2, <1>3 DEF TablesScanned

\* The scan goes to the next row: the table is in its rows, one row further.
LEMMA InRowsBelow ==
    ASSUME TypeOK, workbook' = workbook, row' = row + 1, col' = 1,
           NEW u, MarkerOf(u) \in VisitedCells, row >= MarkerOf(u).row,
           u.state = "ROWS", u.headers = Headers(MarkerOf(u)), u.currentRow = <<>>,
           HasRowsBefore(u, row + 1),
           \A q \in MarkerOf(u).row + 1 .. row : Reaches(MarkerOf(u), q) => ~BlankIn(MarkerOf(u), q)
    PROVE  InRows(u)'
<1> DEFINE m == MarkerOf(u)
<1>1. row \in Nat /\ m.row \in Nat /\ m.column \in Nat /\ WorkbookOK
  <2>1. WorkbookOK
    BY TypesGiveWorkbook
  <2> QED BY <2>1, VisitedTypes DEF TypeOK
<1>2. row + 1 \in Nat /\ 1 \in Nat /\ row + 1 >= m.row /\ row + 1 # m.row /\ (row + 1) - 1 = row
  BY <1>1
<1>3. FilledAt(m, 1) = 0
  BY <1>1 DEF FilledAt
<1>4. Columns(m, row + 1, 0) = <<>>
  BY DEF Columns
<1> QED BY <1>2, <1>3, <1>4, InRowsNext

LEMMA RowFinalized ==
    ASSUME TypeOK, InPlace, MarkersScanned, EndRow, NEW c \in active, ~c.complete, InHeaders(c) \/ InRows(c),
           NEW u, u = FinalizeRow(c)
    PROVE  /\ u.complete => u.headers = Headers(MarkerOf(u)) /\ HasItsRows(u)
           /\ ~u.complete => InRows(u)'
<1> DEFINE m == MarkerOf(c)
           w == Width(m)
           n == Len(RowCells)
<1>1. /\ workbook' = workbook /\ row' = row + 1 /\ col' = 1 /\ row \in Nat
      /\ sheet <= Len(workbook) /\ row <= Len(workbook[sheet]) /\ Visited(workbook[sheet][row])
      /\ col > n
  BY DEF EndRow, NextRow, TypeOK, InRow, InSheet, RowCells
<1>2. c \in Collections /\ c.startColumn = c.location.column /\ c.location.sheet = sheet /\ m \in VisitedCells
  BY MarkersOfTablesAre DEF TypeOK, MarkersScanned, Tables
<1>3. m.sheet = sheet /\ MarkerOf(u) = m /\ u.location \in Locations
  BY <1>2, FinalizeKeepsMarker, SameMarkerSamePlace DEF MarkerOf, Collections, Locations, SameMarker
<1>4. /\ w \in Nat /\ m.column \in Nat /\ m.row \in Nat
      /\ m.column + w <= Len(workbook[m.sheet][m.row]) /\ Len(workbook[m.sheet]) \in Nat
  <2>1. WorkbookOK
    BY TypesGiveWorkbook
  <2> QED BY <1>2, <2>1, WidthIs, VisitedTypes
<1>5. n \in Nat /\ col = n + 1 /\ col \in Nat
  <2>1. sheet \in DOMAIN workbook /\ row \in DOMAIN workbook[sheet]
    <3>1. sheet >= 1 /\ sheet \in Nat /\ row >= 1 /\ WorkbookOK
      BY TypesGiveWorkbook DEF TypeOK, InPlace
    <3>2. sheet \in DOMAIN workbook
      BY <1>1, <3>1, WorkbookTypes
    <3> QED BY <1>1, <3>1, <3>2, WorkbookTypes
  <2>2. n \in Nat
    BY <2>1, TypesGiveWorkbook, WorkbookTypes DEF RowCells
  <2>3. col \in 1 .. n + 1
    BY <1>1 DEF InPlace, RowCells
  <2> QED BY <1>1, <2>2, <2>3
<1>6. c.currentRow \in Seq(Cells) /\ c.rows \in Seq(Seq(Cells))
  BY <1>2 DEF Collections
<1>7. WorkbookOK
  BY TypesGiveWorkbook
<1>8. n = Len(workbook[m.sheet][row])
  BY <1>3 DEF RowCells
<1> HIDE DEF m, w, n
\* The headers, or the rest of the row behind them, end here.
<1>9. CASE InHeaders(c) \/ row = m.row
  <2>1. /\ c.headers = Headers(m) /\ HasRowsBefore(c, row) /\ row = m.row /\ c.currentRow = <<>>
        /\ c.state \in {"HEADERS", "ROWS"}
    <3>1. CASE InHeaders(c)
      <4>1. /\ c.state = "HEADERS" /\ c.rows = <<>> /\ c.currentRow = <<>> /\ row = m.row
            /\ col - 1 \in m.column .. m.column + w /\ c.headers = HeadersUpTo(m, col - 1 - m.column)
        BY <3>1 DEF InHeaders, m, w
      <4>2. m.column + w <= n
        BY <1>4, <1>8, <4>1
      <4>3. col - 1 - m.column = w
        BY <1>4, <1>5, <4>1, <4>2
      <4>4. HasRowsBefore(c, row)
        BY <1>2, <1>7, <4>1, NoRowsYet DEF m
      <4> QED BY <4>1, <4>3, <4>4 DEF Headers, w
    <3>2. CASE InRows(c) /\ row = m.row
      BY <3>2 DEF InRows, m
    <3> QED BY <1>9, <3>1, <3>2
  <2>2. /\ u.state = "ROWS" /\ u.headers = c.headers /\ u.rows = c.rows /\ u.currentRow = <<>>
        /\ u.complete = c.complete
    BY <1>2, <2>1 DEF FinalizeRow, Collections
  <2>3. row \notin ScannedRows(m)
    BY <1>4, <2>1 DEF ScannedRows, RowsBelow
  <2>4. HasRowsBefore(c, row + 1)
    BY <1>1, <1>2, <1>7, <2>1, <2>3, RowIsLeftOut DEF m
  <2>5. HasRowsBefore(u, row + 1)
    BY <1>3, <2>2, <2>4, RowsAre DEF m
  <2>6. m.row + 1 .. row = {} /\ row >= m.row
    BY <1>1, <1>4, <2>1
  <2> QED BY <1>1, <1>2, <1>3, <2>1, <2>2, <2>5, <2>6, InRowsBelow DEF m
<1>10. CASE InRows(c) /\ row # m.row
  <2>1. /\ c.state = "ROWS" /\ c.headers = Headers(m) /\ HasRowsBefore(c, row)
        /\ row > m.row /\ row >= m.row /\ c.currentRow = Columns(m, row, FilledAt(m, col))
        /\ \A q \in m.row + 1 .. row - 1 : Reaches(m, q) => ~BlankIn(m, q)
    BY <1>1, <1>4, <1>10 DEF InRows, Filled, FilledAt, m
  <2>2. FilledAt(m, col) = IF col <= m.column + 1 THEN 0 ELSE IF w <= n - m.column THEN w ELSE n - m.column
    <3>1. (col <= m.column + 1) \/ (col - 1 - m.column = n - m.column)
      BY <1>4, <1>5
    <3> QED BY <1>2, <1>5, <1>7, <3>1, FilledIs DEF w, m
  <2>3. Reaches(m, row) <=> w > 0 /\ n > m.column
    BY <1>1, <1>3, <1>8 DEF Reaches, w
  <2>4. row \in RowsBelow(m) /\ m.row + 1 .. row = (m.row + 1 .. row - 1) \cup {row}
    BY <1>1, <1>3, <1>4, <2>1 DEF RowsBelow
  <2>5. CASE ~Reaches(m, row)
    <3>1. c.currentRow = <<>>
      <4>1. FilledAt(m, col) = 0
        BY <1>4, <1>5, <2>2, <2>3, <2>5
      <4> QED BY <2>1, <4>1 DEF Columns
    <3>2. u = c
      BY <2>1, <3>1 DEF FinalizeRow
    <3>3. HasRowsBefore(u, row + 1)
      BY <1>1, <1>2, <1>7, <2>1, <2>5, <3>2, RowIsLeftOut DEF ScannedRows, m
    <3>4. \A q \in m.row + 1 .. row : Reaches(m, q) => ~BlankIn(m, q)
      BY <2>1, <2>4, <2>5
    <3>5. InRows(u)'
      BY <1>1, <1>2, <1>3, <2>1, <3>1, <3>2, <3>3, <3>4, InRowsBelow DEF m
    <3> QED BY <3>2, <3>5
  <2>6. CASE Reaches(m, row)
    <3> DEFINE k == Cut(m, row)
    <3>1. k \in Nat /\ k > 0 /\ k <= w /\ FilledAt(m, col) = k /\ (k = w \/ k = n - m.column)
      <4>1. n - m.column \in Nat
        BY <1>4, <1>5, <2>3, <2>6
      <4>2. k = IF w <= n - m.column THEN w ELSE n - m.column
        BY <1>4, <1>8, <4>1, SmallerOf DEF Cut, w
      <4> QED BY <1>4, <1>5, <2>2, <2>3, <2>6, <4>1, <4>2
    <3> HIDE DEF k
    <3>2. /\ c.currentRow = Columns(m, row, k) /\ c.currentRow # <<>>
          /\ DOMAIN c.currentRow = 1 .. k
      BY <1>2, <1>7, <2>1, <3>1, ColumnsTypes DEF m
    <3>3. (\A i \in DOMAIN c.currentRow : c.currentRow[i] = Null) <=> BlankIn(m, row)
      <4>1. \A i \in 1 .. k : c.currentRow[i] = Read(Place(m.sheet, row, m.column + i))
        BY <3>2 DEF Columns, Place
      <4>2. BlankIn(m, row) <=> \A i \in 1 .. w : Read(Place(m.sheet, row, m.column + i)) = Null
        BY DEF BlankIn, Columns, Place, w
      <4>3. ASSUME NEW i \in 1 .. w, i > k PROVE Read(Place(m.sheet, row, m.column + i)) = Null
        <5>1. m.column + i > n
          BY <1>4, <1>5, <3>1, <4>3
        <5>2. m.column + i \notin DOMAIN workbook[m.sheet][row]
          <6>1. sheet \in DOMAIN workbook /\ row \in DOMAIN workbook[sheet]
            BY <1>2, <1>3, <1>4, <2>4, VisitedTypes, WorkbookTypes, <1>7 DEF RowsBelow
          <6>2. DOMAIN workbook[sheet][row] = 1 .. n
            BY <1>3, <1>7, <1>8, <6>1, WorkbookTypes
          <6> QED BY <1>3, <1>4, <1>5, <5>1, <6>2
        <5> QED BY <5>2 DEF Read, CellAt, Place, Blank, Null
      <4>4. \A i \in 1 .. w : i \in 1 .. k \/ i > k
        BY <1>4, <3>1
      <4>5. \A i \in 1 .. k : i \in 1 .. w
        BY <1>4, <3>1
      <4> QED BY <3>2, <4>1, <4>2, <4>3, <4>4, <4>5
    <3>4. CASE BlankIn(m, row)
      <4>1. u.complete /\ u.headers = c.headers /\ u.rows = c.rows
        BY <1>2, <2>1, <3>2, <3>3, <3>4 DEF FinalizeRow, Collections
      <4>2. ASSUME NEW r \in ScannedRows(m) PROVE r < row
        <5>1. r \in Nat /\ r > m.row /\ \A q \in m.row + 1 .. r : Reaches(m, q) => ~BlankIn(m, q)
          BY <1>4 DEF ScannedRows, RowsBelow
        <5> QED BY <1>1, <1>4, <2>1, <2>6, <3>4, <5>1
      <4>3. HasItsRows(u)
        BY <1>1, <1>2, <1>3, <1>7, <2>1, <4>1, <4>2, RowsAreAll DEF m
      <4> QED BY <1>3, <2>1, <4>1, <4>3
    <3>5. CASE ~BlankIn(m, row)
      <4>1. /\ ~u.complete /\ u.state = "ROWS" /\ u.headers = c.headers /\ u.currentRow = <<>>
            /\ u.rows = Append(c.rows, Columns(m, row, k))
        BY <1>2, <2>1, <3>2, <3>3, <3>5 DEF FinalizeRow, Collections
      <4>2. \A q \in m.row + 1 .. row : Reaches(m, q) => ~BlankIn(m, q)
        BY <2>1, <2>4, <3>5
      <4>3. row \in ScannedRows(m)
        BY <2>4, <2>6, <4>2 DEF ScannedRows
      <4>4. HasRowsBefore(u, row + 1)
        BY <1>1, <1>2, <1>3, <1>6, <1>7, <2>1, <4>1, <4>3, RowIsAdded DEF m, k
      <4>5. InRows(u)'
        BY <1>1, <1>2, <1>3, <2>1, <4>1, <4>2, <4>4, InRowsBelow DEF m
      <4> QED BY <4>1, <4>5
    <3> QED BY <3>4, <3>5
  <2> QED BY <2>5, <2>6
<1> QED BY <1>9, <1>10

LEMMA EmittedTablesStay ==
    ASSUME TablesScanned, workbook' = workbook, NEW t \in data
    PROVE  (t.headers = Headers(MarkerOf(t)) /\ HasItsRows(t))'
<1>1. t.headers = Headers(MarkerOf(t)) /\ HasItsRows(t)
  BY DEF TablesScanned
<1>2. Headers(MarkerOf(t))' = Headers(MarkerOf(t))
  BY TablesOfWorkbookStay DEF MarkerOf
<1> QED BY <1>1, <1>2, RowsOfWorkbookStay

LEMMA TableIsEmitted ==
    ASSUME workbook' = workbook, NEW t, t.headers = Headers(MarkerOf(t)), HasItsRows(t)
    PROVE  (t.headers = Headers(MarkerOf(t)) /\ HasItsRows(t))'
<1>1. Headers(MarkerOf(t))' = Headers(MarkerOf(t))
  BY TablesOfWorkbookStay DEF MarkerOf
<1> QED BY <1>1, RowsOfWorkbookStay

LEMMA TablesOfRow ==
    ASSUME TypeOK, InPlace, MarkersScanned, TablesScanned, EndRow, status' # "failed"
    PROVE  TablesScanned'
<1> DEFINE finalized == {FinalizeRow(c) : c \in active}
<1>1. workbook' = workbook
  BY DEF EndRow
<1>2. /\ data' = data \cup {c \in finalized : c.complete}
      /\ active' = {c \in finalized : ~c.complete}
  BY DEF EndRow, Emit, Fail
<1>3. ASSUME NEW u \in finalized
      PROVE  /\ u.complete => u.headers = Headers(MarkerOf(u)) /\ HasItsRows(u)
             /\ ~u.complete => InRows(u)'
  <2>1. PICK c \in active : u = FinalizeRow(c)
    OBVIOUS
  <2> QED BY <2>1, RowFinalized DEF TablesScanned
<1> HIDE DEF finalized
<1>4. \A t \in data' : (t.headers = Headers(MarkerOf(t)) /\ HasItsRows(t))'
  BY <1>1, <1>2, <1>3, EmittedTablesStay, TableIsEmitted
<1>5. \A t \in active' : ~t.complete /\ InRows(t)'
  BY <1>2, <1>3
<1> QED BY <1>4, <1>5 DEF TablesScanned

\* A row that is not visited is no row of a table, and has no marker.
LEMMA TablesOfSkippedRow ==
    ASSUME TypeOK, InPlace, MarkersScanned, TablesScanned, SkipRow
    PROVE  TablesScanned'
<1>1. /\ workbook' = workbook /\ row' = row + 1 /\ col' = 1 /\ row \in Nat
      /\ ~Visited(workbook[sheet][row]) /\ row <= Len(workbook[sheet]) /\ data' = data /\ active' = active
  BY DEF SkipRow, NextRow, TypeOK, InRow, InSheet, RowCells
<1>2. \A t \in data' : (t.headers = Headers(MarkerOf(t)) /\ HasItsRows(t))'
  BY <1>1, EmittedTablesStay
<1>3. ASSUME NEW c \in active PROVE ~c.complete /\ InRows(c)'
  <2> DEFINE m == MarkerOf(c)
  <2>1. c.location.sheet = sheet /\ m \in VisitedCells /\ c \in Collections
    BY MarkersOfTablesAre DEF MarkersScanned, Tables, TypeOK
  <2>2. m.sheet = sheet
    BY <2>1 DEF MarkerOf, Collections, Locations
  <2>3. WorkbookOK
    BY TypesGiveWorkbook
  <2>4. m.row # row /\ m.row \in Nat /\ m.column \in Nat /\ Width(m) \in Nat
    BY <1>1, <2>1, <2>2, <2>3, VisitedTypes, WidthIs
  <2>5. ~c.complete /\ InRows(c)
    BY <2>4 DEF TablesScanned, InHeaders
  <2>6. /\ c.state = "ROWS" /\ c.headers = Headers(m) /\ HasRowsBefore(c, row)
        /\ row >= m.row /\ c.currentRow = Columns(m, row, FilledAt(m, col))
        /\ \A q \in m.row + 1 .. row - 1 : Reaches(m, q) => ~BlankIn(m, q)
    BY <2>4, <2>5 DEF InRows, Filled, FilledAt
  <2>7. col = 1
    BY <1>1 DEF InPlace, RowCells
  <2>8. c.currentRow = <<>>
    BY <2>4, <2>6, <2>7 DEF FilledAt, Columns
  <2>9. ~Reaches(m, row)
    BY <1>1, <2>2 DEF Reaches
  <2>10. HasRowsBefore(c, row + 1)
    BY <1>1, <2>1, <2>3, <2>6, <2>9, RowIsLeftOut DEF ScannedRows
  <2>11. \A q \in m.row + 1 .. row : Reaches(m, q) => ~BlankIn(m, q)
    BY <1>1, <2>4, <2>6, <2>9
  <2>12. InRows(c)'
    BY <1>1, <2>1, <2>6, <2>8, <2>10, <2>11, InRowsBelow
  <2> QED BY <2>5, <2>12
<1> QED BY <1>1, <1>2, <1>3 DEF TablesScanned

\* All rows of the sheet were scanned, so that the tables have theirs.
LEMMA TablesOfSheet ==
    ASSUME TypeOK, InPlace, MarkersScanned, TablesScanned, EndSheet, status' # "failed"
    PROVE  TablesScanned'
<1>1. /\ workbook' = workbook /\ row > Len(workbook[sheet]) /\ row \in Nat
      /\ data' = data \cup active /\ active' = {}
  BY DEF EndSheet, Emit, Fail, TypeOK
<1>2. ASSUME NEW c \in active PROVE c.headers = Headers(MarkerOf(c)) /\ HasItsRows(c)
  <2> DEFINE m == MarkerOf(c)
  <2>1. c.location.sheet = sheet /\ m \in VisitedCells /\ c \in Collections
    BY MarkersOfTablesAre DEF MarkersScanned, Tables, TypeOK
  <2>2. m.sheet = sheet
    BY <2>1 DEF MarkerOf, Collections, Locations
  <2>3. WorkbookOK
    BY TypesGiveWorkbook
  <2>4. m.row \in 1 .. Len(workbook[sheet]) /\ Len(workbook[sheet]) \in Nat
    BY <2>1, <2>2, <2>3, VisitedTypes
  <2>5. m.row # row
    BY <1>1, <2>4
  <2>6. c.headers = Headers(m) /\ HasRowsBefore(c, row)
    BY <2>5 DEF TablesScanned, InHeaders, InRows
  <2>7. \A r \in ScannedRows(m) : r < row
    BY <1>1, <2>2, <2>4 DEF ScannedRows, RowsBelow
  <2>8. c.location \in Locations
    BY <2>1 DEF Collections
  <2> QED BY <1>1, <2>1, <2>3, <2>6, <2>7, <2>8, RowsAreAll
<1>3. \A t \in data' : (t.headers = Headers(MarkerOf(t)) /\ HasItsRows(t))'
  BY <1>1, <1>2, EmittedTablesStay, TableIsEmitted
<1> QED BY <1>1, <1>3 DEF TablesScanned
--------------------------------------------------------------------------------
(* The invariant *)

LEMMA InitIsScanned ==
    ASSUME Init
    PROVE  IInv
<1>1. WorkbookOK
  BY WorkbooksAssumption DEF Init, WorkbookOK
<1>2. TypeOK
  BY <1>1 DEF Init, TypeOK, WorkbookOK
<1>3. InPlace
  <2>1. Len(workbook) \in Nat /\ (1 <= Len(workbook) => Len(workbook[1]) \in Nat)
    BY <1>1, WorkbookTypes
  <2>2. 1 <= Len(workbook) /\ 1 <= Len(workbook[1]) => Len(workbook[1][1]) \in Nat
    BY <1>1, <2>1, WorkbookTypes
  <2> QED BY <2>1, <2>2 DEF Init, InPlace, RowCells
<1>4. Done = {}
  <2>1. ASSUME NEW at \in VisitedCells PROVE ~Before(at, Here)
    <3>1. at.sheet \in Nat /\ at.row \in Nat /\ at.column \in Nat /\ at.sheet >= 1 /\ at.row >= 1 /\ at.column >= 1
      BY <1>1, VisitedTypes
    <3> QED BY <3>1 DEF Before, Here, Init
  <2> QED BY <2>1 DEF Done
<1>5. \A kind : DoneMarkers(kind) = {}
  BY <1>4 DEF DoneMarkers
<1>6. MetadataScanned
  BY <1>5 DEF MetadataScanned, Init, Unique
<1>7. MarkersScanned /\ TablesScanned
  BY <1>5 DEF MarkersScanned, TablesScanned, Tables, Init
<1> QED BY <1>2, <1>3, <1>6, <1>7 DEF IInv, Init

LEMMA NextIsScanned ==
    ASSUME IInv, [Next]_vars
    PROVE  IInv'
<1>1. TypeOK'
  BY TypesAreKept DEF IInv
<1>2. TypeOK /\ (status # "failed" => InPlace /\ MetadataScanned /\ MarkersScanned /\ TablesScanned)
  BY DEF IInv
<1>3. workbook' = workbook
  BY DEF Next, vars, ProcessCell, EndRow, SkipRow, EndSheet, EndParse
<1>4. Ambiguous' <=> Ambiguous
  BY <1>3, WorkbookStays
<1>5. CASE ProcessCell
  <2>1. InPlace /\ MetadataScanned /\ MarkersScanned /\ TablesScanned /\ status = "parsing"
    BY <1>2, <1>5 DEF ProcessCell, InRow, InSheet, Parsing
  <2>2. InPlace' /\ CellAt(Here) = RowCells[col]
    BY <1>2, <1>5, <2>1, CellIsNext
  <2>3. CASE MetadataFails(CellAt(Here))
    <3>1. Ambiguous
      BY <1>2, <1>5, <2>1, <2>3, MetadataFailuresAreRight
    <3>2. status' = "failed"
      BY <1>5, <2>2, <2>3 DEF ProcessCell, Fail
    <3> QED BY <1>1, <1>4, <3>1, <3>2 DEF IInv
  <2>4. CASE ~MetadataFails(CellAt(Here))
    <3>1. status' = "parsing"
      BY <1>5, <2>1, <2>2, <2>4 DEF ProcessCell
    <3>2. MetadataScanned' /\ MarkersScanned' /\ TablesScanned'
      BY <1>2, <1>5, <2>1, <2>4, MetadataOfCell, MarkersOfCellScanned, TablesOfCell
    <3> QED BY <1>1, <2>2, <3>1, <3>2 DEF IInv
  <2> QED BY <2>3, <2>4
<1>6. CASE EndRow
  <2>1. InPlace /\ MetadataScanned /\ MarkersScanned /\ TablesScanned /\ status = "parsing"
    BY <1>2, <1>6 DEF EndRow, InRow, InSheet, Parsing
  <2>2. Done' = Done /\ InPlace' /\ MetadataScanned'
    BY <1>2, <1>6, <2>1, RowIsPassed, MetadataIsLeft DEF EndRow
  <2>3. /\ status' = "failed" => Ambiguous
        /\ status' # "failed" => MarkersScanned' /\ TablesScanned'
    BY <1>2, <1>6, <2>1, MarkersOfRowScanned, TablesOfRow
  <2>4. status' # "parsed"
    BY <1>6, <2>1 DEF EndRow, Emit, Fail
  <2> QED BY <1>1, <1>4, <2>2, <2>3, <2>4 DEF IInv
<1>7. CASE SkipRow
  <2>1. InPlace /\ MetadataScanned /\ MarkersScanned /\ TablesScanned /\ status = "parsing" /\ status' = status
    BY <1>2, <1>7 DEF SkipRow, InRow, InSheet, Parsing
  <2>2. Done' = Done /\ InPlace'
    BY <1>2, <1>7, <2>1, RowIsPassed DEF SkipRow
  <2>3. MetadataScanned' /\ MarkersScanned' /\ TablesScanned'
    BY <1>2, <1>7, <2>1, <2>2, MetadataIsLeft, MarkersAreLeft, TablesOfSkippedRow DEF SkipRow
  <2> QED BY <1>1, <2>1, <2>2, <2>3 DEF IInv
<1>8. CASE EndSheet
  <2>1. InPlace /\ MetadataScanned /\ MarkersScanned /\ TablesScanned /\ status = "parsing"
    BY <1>2, <1>8 DEF EndSheet, InSheet, Parsing
  <2>2. Done' = Done /\ InPlace' /\ MetadataScanned'
    BY <1>2, <1>8, <2>1, SheetIsPassed, MetadataIsLeft DEF EndSheet
  <2>3. /\ status' = "failed" => Ambiguous
        /\ status' # "failed" => MarkersScanned' /\ TablesScanned'
    BY <1>2, <1>8, <2>1, MarkersOfSheetScanned, TablesOfSheet
  <2>4. status' # "parsed"
    BY <1>8, <2>1 DEF EndSheet, Emit, Fail
  <2> QED BY <1>1, <1>4, <2>2, <2>3, <2>4 DEF IInv
<1>9. ASSUME UNCHANGED <<workbook, sheet, row, col, metadataContext, active, meta, data>>,
             status # "failed", status' # "failed",
             status' = "parsed" => sheet > Len(workbook)
      PROVE  IInv'
  <2>1. InPlace /\ MetadataScanned /\ MarkersScanned /\ TablesScanned
    BY <1>2, <1>9
  <2>2. InPlace'
    BY <1>9, <2>1 DEF InPlace, RowCells, Visited
  <2>3. Done' = Done
    BY <1>9, WorkbookStays DEF Done, Here, Before
  <2>4. MetadataScanned' /\ MarkersScanned'
    BY <1>9, <2>1, <2>3, MetadataIsLeft, MarkersAreLeft
  <2>5. ASSUME NEW c \in active PROVE ~c.complete /\ (InHeaders(c)' \/ InRows(c)')
    <3>1. /\ Width(MarkerOf(c))' = Width(MarkerOf(c)) /\ MarkerOf(c)' = MarkerOf(c)
          /\ \A n : HeadersUpTo(MarkerOf(c), n)' = HeadersUpTo(MarkerOf(c), n)
          /\ Headers(MarkerOf(c))' = Headers(MarkerOf(c))
          /\ \A r, n : Columns(MarkerOf(c), r, n)' = Columns(MarkerOf(c), r, n)
          /\ \A r : BlankIn(MarkerOf(c), r)' <=> BlankIn(MarkerOf(c), r)
          /\ \A r : Reaches(MarkerOf(c), r)' <=> Reaches(MarkerOf(c), r)
      BY <1>9, TablesOfWorkbookStay DEF MarkerOf
    <3>2. \A n : HasRowsBefore(c, n)' <=> HasRowsBefore(c, n)
      BY <1>9, RowsOfWorkbookStay
    <3>3. Filled(MarkerOf(c))' = Filled(MarkerOf(c))
      BY <1>9, <3>1 DEF Filled
    <3>4. ~c.complete /\ (InHeaders(c) \/ InRows(c))
      BY <2>1 DEF TablesScanned
    <3>5. CASE InHeaders(c)
      BY <1>9, <3>1, <3>4, <3>5 DEF InHeaders
    <3>6. CASE InRows(c)
      BY <1>9, <3>1, <3>2, <3>3, <3>4, <3>6 DEF InRows
    <3> QED BY <3>4, <3>5, <3>6
  <2>6. \A t \in data : (t.headers = Headers(MarkerOf(t)) /\ HasItsRows(t))'
    BY <1>9, <2>1, EmittedTablesStay
  <2>7. TablesScanned'
    BY <1>9, <2>5, <2>6 DEF TablesScanned
  <2>8. status' = "parsed" => (sheet > Len(workbook))'
    BY <1>9
  <2> QED BY <1>1, <1>9, <2>2, <2>4, <2>7, <2>8 DEF IInv
<1>10. CASE EndParse
  BY <1>9, <1>10 DEF EndParse, Parsing
<1>11. CASE UNCHANGED vars
  <2>1. CASE status = "failed"
    BY <1>1, <1>4, <1>11, <2>1 DEF vars, IInv
  <2>2. CASE status # "failed"
    BY <1>9, <1>11, <2>2 DEF vars, IInv
  <2> QED BY <2>1, <2>2
<1> QED BY <1>5, <1>6, <1>7, <1>8, <1>10, <1>11 DEF Next

\* All that a table is compared with depends on the workbook alone; at the end of the
\* scan the invariant therefore speaks of all its markers.
LEMMA ParsedIsScanned ==
    ASSUME IInv, status = "parsed"
    PROVE  /\ TypeOK /\ MetadataScanned /\ MarkersScanned /\ TablesScanned
           /\ Done = VisitedCells /\ active = {}
           /\ \A kind : DoneMarkers(kind) = Markers(kind)
<1>1. TypeOK /\ MetadataScanned /\ MarkersScanned /\ TablesScanned /\ sheet > Len(workbook)
  BY DEF IInv
<1>2. Done = VisitedCells
  BY <1>1, AllIsPassed
<1>3. ASSUME NEW t \in active PROVE FALSE
  <2>1. t.location.sheet = sheet /\ MarkerOf(t) \in VisitedCells /\ t \in Collections
    BY <1>1, MarkersOfTablesAre DEF MarkersScanned, Tables, TypeOK
  <2>2. MarkerOf(t).sheet = sheet
    BY <2>1 DEF MarkerOf, Collections, Locations
  <2>3. MarkerOf(t).sheet <= Len(workbook) /\ MarkerOf(t).sheet \in Nat /\ Len(workbook) \in Nat
    BY <1>1, <2>1, VisitedTypes, TypesGiveWorkbook
  <2> QED BY <1>1, <2>2, <2>3
<1> QED BY <1>1, <1>2, <1>3 DEF DoneMarkers, Markers

LEMMA ScannedIsRefusedRightly ==
    ASSUME IInv
    PROVE  RefusedExactlyWhenAmbiguous
<1>1. ASSUME status = "parsed" PROVE ~Ambiguous
  <2>1. /\ MetadataScanned /\ MarkersScanned /\ active = {}
        /\ \A kind : DoneMarkers(kind) = Markers(kind)
    BY <1>1, ParsedIsScanned
  <2>2. Unique(Markers("meta")) /\ \A m, n \in Markers("meta") : ~Follows(m, n)
    BY <2>1 DEF MetadataScanned
  <2>3. ASSUME NEW m \in Markers("data"), NEW n \in Markers("data"), CellAt(m).name = CellAt(n).name
        PROVE  m = n
    <3>1. PICK t \in data : MarkerOf(t) = m
      BY <2>1 DEF MarkersScanned, Tables
    <3>2. PICK u \in data : MarkerOf(u) = n
      BY <2>1 DEF MarkersScanned, Tables
    <3>3. t.name = u.name
      BY <2>1, <2>3, <3>1, <3>2 DEF MarkersScanned, Tables
    <3>4. t = u
      BY <2>1, <3>3 DEF MarkersScanned
    <3> QED BY <3>1, <3>2, <3>4
  <2> QED BY <2>2, <2>3 DEF Ambiguous, Unique
<1> QED BY <1>1 DEF RefusedExactlyWhenAmbiguous, IInv

\* The scan took every row below the headers up to this one.
NothingLeftOut(table, last) == table.location.row + 1 .. last \subseteq ScannedRows(MarkerOf(table))

LEMMA RowOfTable ==
    ASSUME WorkbookOK, NEW t \in Collections, MarkerOf(t) \in VisitedCells, HasItsRows(t),
           NEW r \in ScannedRows(MarkerOf(t)), NothingLeftOut(t, r)
    PROVE  /\ r - MarkerOf(t).row \in DOMAIN t.rows
           /\ t.rows[r - MarkerOf(t).row] = Columns(MarkerOf(t), r, Cut(MarkerOf(t), r))
<1> DEFINE m == MarkerOf(t)
           n == Len(workbook[m.sheet])
           k == r - m.row
<1>1. t.location.sheet = m.sheet /\ t.location.row = m.row
  BY DEF MarkerOf, Collections, Locations
<1>2. m.row \in Nat /\ n \in Nat /\ m.row <= n
  BY VisitedTypes
<1>3. r \in m.row + 1 .. n /\ \A q \in ScannedRows(m) : q \in m.row + 1 .. n
  BY DEF ScannedRows, RowsBelow
<1>4. /\ Len(t.rows) = UpTo(m, n + 1)
      /\ t.rows[UpTo(m, r + 1)] = Columns(m, r, Cut(m, r))
  <2>1. HasRowsBefore(t, n + 1)
    BY <1>1 DEF HasItsRows
  <2>2. r < n + 1
    BY <1>2, <1>3
  <2> QED BY <2>1, <2>2, RowsAre
<1> DEFINE S(i) == {q \in ScannedRows(m) : q < i}
<1>5. S(r + 1) = m.row + 1 .. r
  <2>1. \A q \in m.row + 1 .. r : q \in ScannedRows(m) /\ q < r + 1
    BY <1>1, <1>2, <1>3 DEF NothingLeftOut
  <2>2. \A q \in ScannedRows(m) : q < r + 1 => q \in m.row + 1 .. r
    BY <1>2, <1>3
  <2> QED BY <2>1, <2>2
<1>6. Cardinality(S(r + 1)) = k /\ k \in Nat /\ k >= 1
  <2> HIDE DEF S
  <2> HIDE DEF m, n, k
  <2>1. m.row + 1 \in Int /\ r \in Int /\ m.row + 1 <= r
    BY <1>2, <1>3
  <2>2. Cardinality(m.row + 1 .. r) = r - (m.row + 1) + 1
    BY <2>1, FS_Interval
  <2> QED BY <1>2, <1>5, <2>1, <2>2 DEF k
<1>7. /\ IsFiniteSet(S(n + 1)) /\ Cardinality(S(n + 1)) \in Nat
      /\ S(r + 1) \in SUBSET S(n + 1)
  <2>1. \A q \in ScannedRows(m) : q < n + 1
    BY <1>2, <1>3
  <2>2. n + 1 \in Nat /\ m \in VisitedCells
    BY <1>2
  <2>3. IsFiniteSet(S(n + 1)) /\ Cardinality(S(n + 1)) \in Nat
    <3> HIDE DEF m, n
    <3> QED BY <2>2, ScannedAreFinite
  <2> QED BY <2>1, <2>3
<1>8. Cardinality(S(r + 1)) <= Cardinality(S(n + 1))
  <2> HIDE DEF S
  <2> QED BY <1>7, FS_Subset
<1>9. UpTo(m, r + 1) = k /\ UpTo(m, n + 1) = Cardinality(S(n + 1))
  BY <1>6 DEF UpTo
<1> HIDE DEF S
<1>10. k \in 1 .. Len(t.rows)
  BY <1>4, <1>6, <1>7, <1>8, <1>9
<1>11. DOMAIN t.rows = 1 .. Len(t.rows)
  BY DEF Collections
<1> QED BY <1>4, <1>9, <1>10, <1>11

\* The end of a table is the first row that is empty, or behind the worksheet.
LEMMA EndIs ==
    ASSUME WorkbookOK, NEW m \in VisitedCells
    PROVE  /\ m.row \in Nat /\ Len(workbook[m.sheet]) \in Nat
           /\ EndOf(m) \in m.row + 1 .. Len(workbook[m.sheet]) + 1
           /\ \A r \in OwnRows(m) : r \in RowsBelow(m) /\ ~BlankIn(m, r)
           /\ EndOf(m) \in RowsBelow(m) => BlankIn(m, EndOf(m))
<1> DEFINE n == Len(workbook[m.sheet])
           ends == {r \in RowsBelow(m) : BlankIn(m, r)} \cup {n + 1}
<1>1. m.row \in 1 .. n /\ n \in Nat
  BY VisitedTypes
<1> HIDE DEF n
<1>2. ends \in SUBSET Nat /\ ends # {}
  BY <1>1 DEF RowsBelow, n
<1>3. EndOf(m) = Min(ends)
  BY DEF EndOf, n
<1>4. EndOf(m) \in ends /\ \A x \in ends : EndOf(m) <= x
  <2> HIDE DEF ends
  <2> QED BY <1>2, <1>3, MinIs
<1>5. EndOf(m) \in m.row + 1 .. n + 1
  BY <1>1, <1>4 DEF RowsBelow, n
<1>6. ASSUME NEW r \in OwnRows(m) PROVE r \in RowsBelow(m) /\ ~BlankIn(m, r)
  <2>1. r \in m.row + 1 .. n /\ ~(EndOf(m) <= r)
    BY <1>1, <1>5 DEF OwnRows
  <2> QED BY <1>4, <2>1 DEF RowsBelow, n
<1>7. EndOf(m) \in RowsBelow(m) => BlankIn(m, EndOf(m))
  BY <1>1, <1>4 DEF RowsBelow, n
<1> QED BY <1>1, <1>5, <1>6, <1>7 DEF n

\* A row that has something in the columns of a table is one that the scan meets.
LEMMA NotBlankIsReached ==
    ASSUME WorkbookOK, NEW m \in VisitedCells, NEW r \in RowsBelow(m), ~BlankIn(m, r)
    PROVE  Reaches(m, r)
<1> DEFINE cells == workbook[m.sheet][r]
<1>1. PICK i \in 1 .. Width(m) : Columns(m, r, Width(m))[i] # Null
  BY DEF BlankIn
<1>2. Width(m) \in Nat /\ m.column \in Nat
  BY WidthIs, VisitedTypes
<1>3. m.sheet \in DOMAIN workbook /\ r \in DOMAIN workbook[m.sheet]
  <2>1. m.row \in Nat /\ m.sheet \in DOMAIN workbook /\ Len(workbook[m.sheet]) \in Nat
    BY VisitedTypes
  <2>2. r \in 1 .. Len(workbook[m.sheet])
    BY <2>1 DEF RowsBelow
  <2> QED BY <2>1, <2>2, WorkbookTypes
<1>4. cells \in Seq(Cells)
  BY <1>3, WorkbookTypes
<1>5. Read(Place(m.sheet, r, m.column + i)) # Null
  BY <1>1 DEF Columns, Place
<1>6. m.column + i \in DOMAIN cells /\ cells[m.column + i].kind # "null"
  BY <1>5 DEF Read, CellAt, Place, Blank, Null
<1>7. Visited(cells)
  BY <1>6 DEF Visited
<1>8. Len(cells) > m.column /\ Width(m) > 0
  <2> HIDE DEF cells
  <2> QED BY <1>2, <1>4, <1>6
<1> QED BY <1>7, <1>8 DEF Reaches

\* So the rows of the table itself are all taken, and no others if it meets the end.
LEMMA OwnRowsAreScanned ==
    ASSUME WorkbookOK, NEW m \in VisitedCells
    PROVE  /\ OwnRows(m) \subseteq ScannedRows(m)
           /\ MeetsEnd(m) => ScannedRows(m) = OwnRows(m)
<1>1. /\ m.row \in Nat /\ Len(workbook[m.sheet]) \in Nat
      /\ EndOf(m) \in m.row + 1 .. Len(workbook[m.sheet]) + 1
      /\ \A r \in OwnRows(m) : r \in RowsBelow(m) /\ ~BlankIn(m, r)
      /\ EndOf(m) \in RowsBelow(m) => BlankIn(m, EndOf(m))
  BY EndIs
<1>2. ASSUME NEW r \in OwnRows(m) PROVE r \in ScannedRows(m)
  <2>1. \A q \in m.row + 1 .. r : q \in OwnRows(m)
    BY <1>1 DEF OwnRows
  <2> QED BY <1>1, <2>1, NotBlankIsReached DEF ScannedRows
<1>3. ASSUME MeetsEnd(m), NEW r \in ScannedRows(m) PROVE r \in OwnRows(m)
  <2>1. /\ r \in m.row + 1 .. Len(workbook[m.sheet]) /\ Width(m) > 0
        /\ \A q \in m.row + 1 .. r : Reaches(m, q) => ~BlankIn(m, q)
    BY DEF ScannedRows, RowsBelow, Reaches
  <2>2. CASE EndOf(m) <= r
    <3>1. EndOf(m) \in RowsBelow(m) /\ EndOf(m) \in m.row + 1 .. r
      BY <1>1, <2>1, <2>2 DEF RowsBelow
    <3> QED BY <1>1, <1>3, <2>1, <3>1 DEF MeetsEnd
  <2>3. CASE ~(EndOf(m) <= r)
    BY <1>1, <2>1, <2>3 DEF OwnRows
  <2> QED BY <2>2, <2>3
<1> QED BY <1>2, <1>3

LEMMA OwnRowsOfTable ==
    ASSUME WorkbookOK, NEW t \in Collections, MarkerOf(t) \in VisitedCells, HasItsRows(t)
    PROVE  HasOwnRows(t)
<1> DEFINE m == MarkerOf(t)
           n == Len(workbook[m.sheet])
<1>1. /\ m.row \in Nat /\ n \in Nat /\ EndOf(m) \in m.row + 1 .. n + 1
      /\ \A r \in OwnRows(m) : r \in RowsBelow(m)
      /\ OwnRows(m) \subseteq ScannedRows(m)
      /\ MeetsEnd(m) => ScannedRows(m) = OwnRows(m)
  BY EndIs, OwnRowsAreScanned
<1>2. t.location.sheet = m.sheet /\ t.location.row = m.row
  BY DEF MarkerOf, Collections, Locations
<1>3. ASSUME NEW r \in OwnRows(m)
      PROVE  r - m.row \in DOMAIN t.rows /\ t.rows[r - m.row] = Columns(m, r, Cut(m, r))
  <2>1. m.row + 1 .. r \subseteq OwnRows(m)
    BY <1>1 DEF OwnRows
  <2>2. NothingLeftOut(t, r)
    BY <1>1, <1>2, <2>1 DEF NothingLeftOut
  <2> QED BY <1>1, <2>2, RowOfTable
<1>4. ASSUME MeetsEnd(m) PROVE Len(t.rows) = EndOf(m) - m.row - 1
  <2>1. Len(t.rows) = UpTo(m, n + 1)
    BY <1>2, RowsAre DEF HasItsRows
  <2>2. {r \in ScannedRows(m) : r < n + 1} = m.row + 1 .. EndOf(m) - 1
    BY <1>1, <1>4 DEF OwnRows
  <2>3. UpTo(m, n + 1) = Cardinality(m.row + 1 .. EndOf(m) - 1)
    BY <2>2 DEF UpTo
  <2> HIDE DEF m, n
  <2>4. Cardinality(m.row + 1 .. EndOf(m) - 1) = EndOf(m) - m.row - 1
    <3>1. CASE EndOf(m) = m.row + 1
      <4>1. m.row + 1 .. EndOf(m) - 1 = {}
        BY <1>1, <3>1
      <4> QED BY <1>1, <3>1, <4>1, FS_EmptySet
    <3>2. CASE EndOf(m) # m.row + 1
      <4>1. m.row + 1 \in Int /\ EndOf(m) - 1 \in Int /\ m.row + 1 <= EndOf(m) - 1
        BY <1>1, <3>2
      <4>2. Cardinality(m.row + 1 .. EndOf(m) - 1) = (EndOf(m) - 1) - (m.row + 1) + 1
        BY <4>1, FS_Interval
      <4> QED BY <1>1, <4>1, <4>2
    <3> QED BY <3>1, <3>2
  <2> QED BY <2>1, <2>3, <2>4
<1> QED BY <1>3, <1>4 DEF HasOwnRows

LEMMA ScannedGivesTables ==
    ASSUME IInv
    PROVE  EveryMarkerGivesItsTable
<1> SUFFICES ASSUME status = "parsed"
             PROVE  /\ \A m \in Markers("data") : \E t \in data : MarkerOf(t) = m
                    /\ \A t, u \in data : MarkerOf(t) = MarkerOf(u) => t = u
                    /\ \A t \in data :
                        /\ MarkerOf(t) \in Markers("data")
                        /\ t.name = CellAt(MarkerOf(t)).name
                        /\ t.headers = Headers(MarkerOf(t))
                        /\ HasOwnRows(t)
  BY DEF EveryMarkerGivesItsTable
<1>1. /\ TypeOK /\ MarkersScanned /\ TablesScanned /\ active = {}
      /\ DoneMarkers("data") = Markers("data")
  BY ParsedIsScanned
<1>2. Tables = data
  BY <1>1 DEF Tables
<1>3. ASSUME NEW t \in data PROVE HasOwnRows(t)
  <2>1. t \in Collections /\ MarkerOf(t) \in VisitedCells /\ HasItsRows(t)
    BY <1>1, <1>2 DEF TypeOK, MarkersScanned, TablesScanned, Markers
  <2> QED BY <1>1, <2>1, OwnRowsOfTable, TypesGiveWorkbook
<1> QED BY <1>1, <1>2, <1>3 DEF MarkersScanned, TablesScanned
--------------------------------------------------------------------------------
(* Letters of columns (columns.js) *)

\* What is left of a number, and the letter that is taken off it.
Rest(n) == (n - 1) \div AlphabetSize
LastLetter(n) == (n - 1) % AlphabetSize

LEMMA RestIs ==
    ASSUME NEW n \in Nat, n # 0
    PROVE  /\ Rest(n) \in Nat /\ Rest(n) < n
           /\ LastLetter(n) \in Nat
           /\ Rest(n) * AlphabetSize + LastLetter(n) + 1 = n
<1>1. (n - 1) \div 26 \in Nat /\ (n - 1) \div 26 < n
  OBVIOUS
<1>2. (n - 1) % 26 \in Nat /\ ((n - 1) \div 26) * 26 + ((n - 1) % 26) + 1 = n
  OBVIOUS
<1> QED BY <1>1, <1>2 DEF Rest, LastLetter, AlphabetSize

LettersStep(f, n) == IF n = 0 THEN <<>> ELSE Append(f[Rest(n)], LastLetter(n))
LettersUpTo(n, f) ==
    f \in [0 .. n -> Seq(Nat)] /\ \A k \in 0 .. n : f[k] = LettersStep(f, k)

LEMMA LettersAreUnique ==
    ASSUME NEW m \in Nat, NEW f, LettersUpTo(m, f), NEW n \in Nat, NEW g, LettersUpTo(n, g),
           NEW k \in 0 .. m, k \in 0 .. n
    PROVE  f[k] = g[k]
<1> DEFINE bad == {i \in 0 .. m : i \in 0 .. n /\ f[i] # g[i]}
<1>1. SUFFICES ASSUME bad # {} PROVE FALSE
  OBVIOUS
<1>2. PICK i \in bad : \A j \in bad : i <= j
  <2>1. bad \in SUBSET Nat
    OBVIOUS
  <2> HIDE DEF bad
  <2> QED BY <1>1, <2>1, LeastOf
<1>3. i \in 0 .. m /\ i \in 0 .. n /\ f[i] # g[i] /\ i \in Nat
  BY <1>2
<1>4. f[i] = LettersStep(f, i) /\ g[i] = LettersStep(g, i)
  BY <1>3 DEF LettersUpTo
<1>5. i # 0
  BY <1>3, <1>4 DEF LettersStep
<1>6. Rest(i) \in 0 .. m /\ Rest(i) \in 0 .. n /\ Rest(i) < i
  BY <1>3, <1>5, RestIs
<1>7. f[Rest(i)] = g[Rest(i)]
  BY <1>2, <1>3, <1>6
<1> QED BY <1>3, <1>4, <1>5, <1>7 DEF LettersStep

LEMMA LettersExist ==
    ASSUME NEW n \in Nat
    PROVE  \E f : LettersUpTo(n, f)
<1> DEFINE bad == {i \in Nat : ~\E f : LettersUpTo(i, f)}
<1>1. SUFFICES ASSUME bad # {} PROVE FALSE
  OBVIOUS
<1>2. PICK i \in bad : \A j \in bad : i <= j
  <2>1. bad \in SUBSET Nat
    OBVIOUS
  <2> HIDE DEF bad
  <2> QED BY <1>1, <2>1, LeastOf
<1>3. i \in Nat /\ ~\E f : LettersUpTo(i, f)
  BY <1>2
<1>4. CASE i = 0
  <2> DEFINE f == [k \in 0 .. 0 |-> <<>>]
  <2>1. f \in [0 .. i -> Seq(Nat)] /\ \A k \in 0 .. i : f[k] = <<>> /\ k = 0
    BY <1>4
  <2>2. LettersUpTo(i, f)
    <3> HIDE DEF f
    <3> QED BY <2>1 DEF LettersUpTo, LettersStep
  <2> QED BY <1>3, <2>2
<1>5. CASE i # 0
  <2>1. i - 1 \in Nat /\ i - 1 \notin bad
    BY <1>2, <1>3, <1>5
  <2>2. PICK f : LettersUpTo(i - 1, f)
    BY <2>1
  <2>3. Rest(i) \in 0 .. i - 1 /\ LastLetter(i) \in Nat
    BY <1>3, <1>5, RestIs
  <2> DEFINE g == [k \in 0 .. i |-> IF k = i THEN Append(f[Rest(i)], LastLetter(i)) ELSE f[k]]
  <2>4. f \in [0 .. i - 1 -> Seq(Nat)] /\ \A k \in 0 .. i - 1 : f[k] = LettersStep(f, k)
    BY <2>2 DEF LettersUpTo
  <2>5. \A k \in 0 .. i - 1 : g[k] = f[k]
    BY <1>3
  <2>6. g \in [0 .. i -> Seq(Nat)] /\ g[i] = Append(f[Rest(i)], LastLetter(i))
    <3>1. Append(f[Rest(i)], LastLetter(i)) \in Seq(Nat)
      BY <2>3, <2>4
    <3>2. \A k \in 0 .. i : k = i \/ k \in 0 .. i - 1
      BY <1>3
    <3>3. i \in 0 .. i
      BY <1>3
    <3> QED BY <2>4, <3>1, <3>2, <3>3
  <2> HIDE DEF g
  <2>7. ASSUME NEW k \in 0 .. i PROVE g[k] = LettersStep(g, k)
    <3>1. CASE k = i
      BY <1>5, <2>3, <2>5, <2>6, <3>1 DEF LettersStep
    <3>2. CASE k # i
      <4>1. k \in 0 .. i - 1 /\ k \in Nat
        BY <1>3, <3>2
      <4>2. k # 0 => Rest(k) \in 0 .. i - 1
        BY <1>3, <4>1, RestIs
      <4> QED BY <2>4, <2>5, <4>1, <4>2 DEF LettersStep
    <3> QED BY <3>1, <3>2
  <2>8. LettersUpTo(i, g)
    BY <2>6, <2>7 DEF LettersUpTo
  <2> QED BY <1>3, <2>8
<1> QED BY <1>4, <1>5

\* The function that columnNumberToLetter calculates is what its recursion says.
LEMMA LettersAre ==
    ASSUME NEW n \in Nat
    PROVE  /\ ColumnNumberToLetter(n) \in Seq(Nat)
           /\ ColumnNumberToLetter(n) =
                IF n = 0 THEN <<>> ELSE Append(ColumnNumberToLetter(Rest(n)), LastLetter(n))
<1> DEFINE F == [k \in Nat |-> (CHOOSE f : LettersUpTo(k, f))[k]]
<1>1. ASSUME NEW k \in Nat, NEW f, LettersUpTo(k, f) PROVE F[k] = f[k]
  <2>1. LettersUpTo(k, CHOOSE g : LettersUpTo(k, g))
    BY <1>1
  <2>2. k \in 0 .. k
    OBVIOUS
  <2> QED BY <1>1, <2>1, <2>2, LettersAreUnique
<1>2. ASSUME NEW k \in Nat
      PROVE  F[k] = LettersStep(F, k) /\ F[k] \in Seq(Nat)
  <2>1. PICK f : LettersUpTo(k, f)
    BY LettersExist
  <2>2. F[k] = f[k] /\ k \in 0 .. k
    BY <1>1, <2>1
  <2>3. f[k] = LettersStep(f, k) /\ f[k] \in Seq(Nat)
    BY <2>1, <2>2 DEF LettersUpTo
  <2>4. ASSUME k # 0 PROVE F[Rest(k)] = f[Rest(k)]
    <3>1. Rest(k) \in Nat /\ Rest(k) \in 0 .. k
      BY <2>4, RestIs
    <3>2. PICK g : LettersUpTo(Rest(k), g)
      BY <3>1, LettersExist
    <3>3. F[Rest(k)] = g[Rest(k)] /\ Rest(k) \in 0 .. Rest(k)
      BY <1>1, <3>1, <3>2
    <3> QED BY <2>1, <3>1, <3>2, <3>3, LettersAreUnique
  <2> HIDE DEF F
  <2> QED BY <2>2, <2>3, <2>4 DEF LettersStep
<1> DEFINE Recursion(f) ==
             f = [k \in Nat |-> IF k = 0 THEN <<>>
                                ELSE Append(f[(k - 1) \div AlphabetSize], (k - 1) % AlphabetSize)]
           G == CHOOSE f : Recursion(f)
<1>3. Recursion(F)
  <2>1. F = [k \in Nat |-> LettersStep(F, k)]
    <3>1. F = [k \in Nat |-> F[k]]
      OBVIOUS
    <3> HIDE DEF F
    <3> QED BY <1>2, <3>1
  <2> HIDE DEF F
  <2> QED BY <2>1 DEF LettersStep, Rest, LastLetter
<1>4. Recursion(G)
  <2> HIDE DEF F, Recursion
  <2> QED BY <1>3
<1>5. ASSUME NEW k \in Nat PROVE ColumnNumberToLetter(k) = G[k]
  BY DEF ColumnNumberToLetter
<1> HIDE DEF G, F
<1>6. ASSUME NEW k \in Nat PROVE G[k] = LettersStep(G, k)
  BY <1>4 DEF LettersStep, Rest, LastLetter
<1>7. ASSUME NEW k \in Nat PROVE G[k] = F[k]
  <2> DEFINE bad == {i \in Nat : G[i] # F[i]}
  <2>1. SUFFICES ASSUME bad # {} PROVE FALSE
    OBVIOUS
  <2>2. PICK i \in bad : \A j \in bad : i <= j
    <3>1. bad \in SUBSET Nat
      OBVIOUS
    <3> HIDE DEF bad
    <3> QED BY <2>1, <3>1, LeastOf
  <2>3. i \in Nat /\ G[i] # F[i]
    BY <2>2
  <2>4. i # 0 => Rest(i) \in Nat /\ G[Rest(i)] = F[Rest(i)]
    BY <2>2, <2>3, RestIs
  <2> QED BY <1>2, <1>6, <2>3, <2>4 DEF LettersStep
<1>8. n # 0 => Rest(n) \in Nat
  BY RestIs
<1> QED BY <1>2, <1>5, <1>6, <1>7, <1>8 DEF LettersStep
NumbersUpTo(letters, n, f) ==
    /\ f \in [0 .. n -> Nat] /\ f[0] = 0
    /\ \A k \in 1 .. n : f[k] = f[k - 1] * AlphabetSize + letters[k] + 1

LEMMA NumbersAreUnique ==
    ASSUME NEW letters, NEW n \in Nat, NEW f, NEW g,
           NumbersUpTo(letters, n, f), NumbersUpTo(letters, n, g)
    PROVE  f[n] = g[n]
<1> DEFINE bad == {i \in 0 .. n : f[i] # g[i]}
<1>1. SUFFICES ASSUME bad # {} PROVE FALSE
  <2>1. n \in 0 .. n
    OBVIOUS
  <2> QED BY <2>1
<1>2. PICK i \in bad : \A j \in bad : i <= j
  <2>1. bad \in SUBSET Nat
    OBVIOUS
  <2> HIDE DEF bad
  <2> QED BY <1>1, <2>1, LeastOf
<1>3. i \in 0 .. n /\ f[i] # g[i]
  BY <1>2
<1>4. i \in 1 .. n /\ i - 1 \in 0 .. n /\ i - 1 < i
  BY <1>3 DEF NumbersUpTo
<1>5. f[i - 1] = g[i - 1]
  BY <1>2, <1>4
<1> QED BY <1>3, <1>4, <1>5 DEF NumbersUpTo

LEMMA NumbersExist ==
    ASSUME NEW letters \in Seq(Nat), NEW n \in 0 .. Len(letters)
    PROVE  \E f : NumbersUpTo(letters, n, f)
<1> DEFINE bad == {i \in 0 .. Len(letters) : ~\E f : NumbersUpTo(letters, i, f)}
<1>1. SUFFICES ASSUME bad # {} PROVE FALSE
  OBVIOUS
<1>2. PICK i \in bad : \A j \in bad : i <= j
  <2>1. bad \in SUBSET Nat
    OBVIOUS
  <2> HIDE DEF bad
  <2> QED BY <1>1, <2>1, LeastOf
<1>3. i \in 0 .. Len(letters) /\ Len(letters) \in Nat /\ ~\E f : NumbersUpTo(letters, i, f)
  BY <1>2
<1>4. CASE i = 0
  <2> DEFINE f == [k \in 0 .. 0 |-> 0]
  <2>1. f \in [0 .. i -> Nat] /\ f[0] = 0 /\ 1 .. i = {}
    BY <1>4
  <2>2. NumbersUpTo(letters, i, f)
    <3> HIDE DEF f
    <3> QED BY <2>1 DEF NumbersUpTo
  <2> QED BY <1>3, <2>2
<1>5. CASE i # 0
  <2>1. i - 1 \in 0 .. Len(letters) /\ i - 1 \in Nat /\ i \in 1 .. Len(letters)
    BY <1>3, <1>5
  <2>2. PICK f : NumbersUpTo(letters, i - 1, f)
    <3>1. i - 1 \notin bad
      <4> HIDE DEF bad
      <4> QED BY <1>2, <1>3, <2>1
    <3> QED BY <2>1, <3>1
  <2> DEFINE last == f[i - 1] * AlphabetSize + letters[i] + 1
             g == [k \in 0 .. i |-> IF k = i THEN last ELSE f[k]]
  <2>3. /\ f \in [0 .. i - 1 -> Nat] /\ f[0] = 0
        /\ \A k \in 1 .. i - 1 : f[k] = f[k - 1] * AlphabetSize + letters[k] + 1
    BY <2>2 DEF NumbersUpTo
  <2>4. last \in Nat
    <3>1. f[i - 1] \in Nat /\ letters[i] \in Nat
      BY <2>1, <2>3
    <3> QED BY <3>1 DEF AlphabetSize
  <2> HIDE DEF last
  <2>5. g \in [0 .. i -> Nat]
    <3>1. \A k \in 0 .. i : k = i \/ k \in 0 .. i - 1
      BY <1>3
    <3> QED BY <2>3, <2>4, <3>1
  <2>6. g[i] = last /\ \A k \in 0 .. i - 1 : g[k] = f[k]
    BY <1>3
  <2> HIDE DEF g
  <2>7. ASSUME NEW k \in 1 .. i PROVE g[k] = g[k - 1] * AlphabetSize + letters[k] + 1
    <3>1. k - 1 \in 0 .. i - 1 /\ (k = i \/ k \in 1 .. i - 1)
      BY <1>3
    <3>2. k - 1 \in 0 .. i - 1 /\ g[k - 1] = f[k - 1]
      BY <2>6, <3>1
    <3>3. CASE k = i
      BY <2>6, <3>2, <3>3 DEF last
    <3>4. CASE k \in 1 .. i - 1
      <4>1. k \in 0 .. i - 1
        BY <1>3, <3>4
      <4> QED BY <2>3, <2>6, <3>2, <3>4, <4>1
    <3> QED BY <3>1, <3>3, <3>4
  <2>8. g[0] = 0
    <3>1. 0 \in 0 .. i - 1
      BY <1>3, <1>5
    <3> QED BY <2>3, <2>6, <3>1
  <2>9. NumbersUpTo(letters, i, g)
    BY <2>5, <2>7, <2>8 DEF NumbersUpTo
  <2> QED BY <1>3, <2>9
<1> QED BY <1>4, <1>5

LEMMA NumberIs ==
    ASSUME NEW letters \in Seq(Nat), NEW f, NumbersUpTo(letters, Len(letters), f)
    PROVE  ColumnLetterToNumber(letters) = f[Len(letters)] /\ f[Len(letters)] \in Nat
<1> DEFINE Recursion(g) ==
             g = [n \in 0 .. Len(letters) |->
                    IF n = 0 THEN 0 ELSE g[n - 1] * AlphabetSize + letters[n] + 1]
           G == CHOOSE g : Recursion(g)
<1>1. Len(letters) \in Nat /\ Len(letters) \in 0 .. Len(letters)
  OBVIOUS
<1>2. Recursion(f)
  <2>1. f \in [0 .. Len(letters) -> Nat] /\ f[0] = 0
        /\ \A k \in 1 .. Len(letters) : f[k] = f[k - 1] * AlphabetSize + letters[k] + 1
    BY DEF NumbersUpTo
  <2>2. \A k \in 0 .. Len(letters) : k = 0 \/ k \in 1 .. Len(letters)
    BY <1>1
  <2> QED BY <2>1, <2>2
<1>3. Recursion(G)
  <2> HIDE DEF Recursion
  <2> QED BY <1>2
<1>4. ColumnLetterToNumber(letters) = G[Len(letters)]
  BY DEF ColumnLetterToNumber
<1>5. /\ G = [k \in 0 .. Len(letters) |-> G[k]] /\ G[0] = 0
      /\ \A k \in 1 .. Len(letters) : G[k] = G[k - 1] * AlphabetSize + letters[k] + 1
  <2> HIDE DEF G
  <2>1. \A k \in 1 .. Len(letters) : k \in 0 .. Len(letters) /\ k # 0
    BY <1>1
  <2>2. 0 \in 0 .. Len(letters)
    BY <1>1
  <2> QED BY <1>3, <2>1, <2>2
<1> HIDE DEF G, Recursion
<1>6. ASSUME NEW k \in 0 .. Len(letters) PROVE G[k] = f[k]
  <2> DEFINE bad == {i \in 0 .. Len(letters) : G[i] # f[i]}
  <2>1. SUFFICES ASSUME bad # {} PROVE FALSE
    OBVIOUS
  <2>2. PICK i \in bad : \A j \in bad : i <= j
    <3>1. bad \in SUBSET Nat
      OBVIOUS
    <3> HIDE DEF bad
    <3> QED BY <2>1, <3>1, LeastOf
  <2>3. i \in 1 .. Len(letters) /\ i - 1 \in 0 .. Len(letters) /\ i - 1 < i /\ G[i] # f[i]
    BY <1>1, <1>5, <2>2 DEF NumbersUpTo
  <2>4. G[i - 1] = f[i - 1]
    BY <2>2, <2>3
  <2> QED BY <1>5, <2>3, <2>4 DEF NumbersUpTo
<1>7. f[Len(letters)] \in Nat
  BY <1>1 DEF NumbersUpTo
<1> QED BY <1>1, <1>4, <1>6, <1>7

LEMMA NumberOfLetters ==
    /\ ColumnLetterToNumber(<<>>) = 0
    /\ \A letters \in Seq(Nat) : \A last \in Nat :
         /\ ColumnLetterToNumber(letters) \in Nat
         /\ ColumnLetterToNumber(Append(letters, last)) =
              ColumnLetterToNumber(letters) * AlphabetSize + last + 1
<1>1. ColumnLetterToNumber(<<>>) = 0
  <2>1. <<>> \in Seq(Nat) /\ Len(<<>>) = 0 /\ 0 \in 0 .. 0
    OBVIOUS
  <2>2. PICK f : NumbersUpTo(<<>>, 0, f)
    BY <2>1, NumbersExist
  <2>3. ColumnLetterToNumber(<<>>) = f[0]
    BY <2>1, <2>2, NumberIs
  <2> QED BY <2>2, <2>3 DEF NumbersUpTo
<1>2. ASSUME NEW letters \in Seq(Nat), NEW last \in Nat
      PROVE  /\ ColumnLetterToNumber(letters) \in Nat
             /\ ColumnLetterToNumber(Append(letters, last)) =
                  ColumnLetterToNumber(letters) * AlphabetSize + last + 1
  <2> DEFINE n == Len(letters)
             all == Append(letters, last)
  <2>1. /\ n \in Nat /\ all \in Seq(Nat) /\ Len(all) = n + 1 /\ all[n + 1] = last
        /\ \A k \in 1 .. n : all[k] = letters[k]
    OBVIOUS
  <2>2. n + 1 \in 0 .. Len(all) /\ n \in 0 .. n /\ n + 1 \in 1 .. n + 1
    BY <2>1
  <2>3. PICK f : NumbersUpTo(all, n + 1, f)
    BY <2>1, <2>2, NumbersExist
  <2> HIDE DEF n, all
  <2>4. ColumnLetterToNumber(all) = f[n + 1]
    BY <2>1, <2>3, NumberIs
  <2>5. f[n + 1] = f[n] * AlphabetSize + last + 1
    BY <2>1, <2>2, <2>3 DEF NumbersUpTo
  <2> DEFINE g == [k \in 0 .. n |-> f[k]]
  <2>6. NumbersUpTo(letters, n, g)
    <3>1. /\ f \in [0 .. n + 1 -> Nat] /\ f[0] = 0
          /\ \A k \in 1 .. n + 1 : f[k] = f[k - 1] * AlphabetSize + all[k] + 1
      BY <2>3 DEF NumbersUpTo
    <3>2. g \in [0 .. n -> Nat] /\ g[0] = 0
      BY <2>1, <3>1
    <3>3. \A k \in 1 .. n : g[k] = f[k] /\ g[k - 1] = f[k - 1] /\ k \in 1 .. n + 1
      BY <2>1
    <3> HIDE DEF g
    <3> QED BY <2>1, <3>1, <3>2, <3>3 DEF NumbersUpTo
  <2>7. ColumnLetterToNumber(letters) = g[n] /\ g[n] \in Nat
    BY <2>6, NumberIs DEF n
  <2> QED BY <2>2, <2>4, <2>5, <2>7 DEF all
<1> QED BY <1>1, <1>2

\* The letters of a number are read as that number: columnLetterToNumber undoes
\* columnNumberToLetter, across Z and every further letter.
THEOREM LettersCountColumns ==
    ASSUME NEW n \in Nat
    PROVE  ColumnLetterToNumber(ColumnNumberToLetter(n)) = n
<1> DEFINE bad == {i \in Nat : ColumnLetterToNumber(ColumnNumberToLetter(i)) # i}
<1>1. SUFFICES ASSUME bad # {} PROVE FALSE
  OBVIOUS
<1>2. PICK i \in bad : \A j \in bad : i <= j
  <2>1. bad \in SUBSET Nat
    OBVIOUS
  <2> HIDE DEF bad
  <2> QED BY <1>1, <2>1, LeastOf
<1>3. i \in Nat /\ ColumnLetterToNumber(ColumnNumberToLetter(i)) # i
  BY <1>2
<1>4. i # 0
  BY <1>3, LettersAre, NumberOfLetters
<1>5. /\ Rest(i) \in Nat /\ Rest(i) < i /\ LastLetter(i) \in Nat
      /\ Rest(i) * AlphabetSize + LastLetter(i) + 1 = i
  BY <1>3, <1>4, RestIs
<1>6. ColumnLetterToNumber(ColumnNumberToLetter(Rest(i))) = Rest(i)
  <2>1. Rest(i) \notin bad
    <3> HIDE DEF bad
    <3>1. i \in Nat
      BY <1>3
    <3> QED BY <1>2, <1>5, <3>1
  <2> QED BY <1>5, <2>1
<1>7. /\ ColumnNumberToLetter(i) = Append(ColumnNumberToLetter(Rest(i)), LastLetter(i))
      /\ ColumnNumberToLetter(Rest(i)) \in Seq(Nat)
  BY <1>3, <1>4, <1>5, LettersAre
<1> QED BY <1>3, <1>5, <1>6, <1>7, NumberOfLetters

LEMMA OffsetIs ==
    ASSUME NEW n \in Nat, NEW offset \in Nat
    PROVE  ColumnLetterToNumber(OffsetColumn(ColumnNumberToLetter(n), offset)) = n + offset
BY LettersCountColumns DEF OffsetColumn
--------------------------------------------------------------------------------
(* Headers, values and locations in the workbook *)

LEMMA GreatestIs ==
    ASSUME NEW n \in Nat, NEW S \in SUBSET (1 .. n), S # {}
    PROVE  Max(S) \in S /\ \A x \in S : x <= Max(S)
<1>1. PICK i \in S : \A x \in S : x <= i
  BY GreatestOf
<1>2. \A x \in S : i >= x
  BY <1>1
<1>3. Max(S) \in S /\ \A x \in S : Max(S) >= x
  BY <1>2 DEF Max
<1>4. \A x \in S : x \in Nat
  OBVIOUS
<1> QED BY <1>3, <1>4

TextOf(h) == [kind |-> "text", name |-> h]
ColumnCell(m, c) == CellAt([m EXCEPT !.column = c])
ColumnOf(m, h) == Max({c \in m.column + 1 .. m.column + Width(m) : ColumnCell(m, c) = TextOf(h)})
IsHeading(cell, h) == IsHeader(cell) /\ cell.name = h

LEMMA HeaderCells ==
    ASSUME WorkbookOK, NEW m \in VisitedCells
    PROVE  /\ DOMAIN Headers(m) = 1 .. Width(m)
           /\ \A i \in 1 .. Width(m) : \A h :
                IsHeading(Headers(m)[i], h) <=> ColumnCell(m, m.column + i) = TextOf(h)
<1> DEFINE cells == workbook[m.sheet][m.row]
<1>1. Width(m) \in Nat /\ m.column \in Nat /\ m.column >= 1
      /\ m.column + Width(m) <= Len(cells) /\ Len(cells) \in Nat
  BY WidthIs, VisitedTypes
<1>2. /\ Headers(m) = [i \in 1 .. Width(m) |-> Heading(cells[m.column + i])]
      /\ DOMAIN Headers(m) = 1 .. Width(m)
  BY DEF Headers, HeadersUpTo
<1>3. ASSUME NEW i \in 1 .. Width(m), NEW h
      PROVE  IsHeading(Headers(m)[i], h) <=> ColumnCell(m, m.column + i) = TextOf(h)
  <2>1. m.column + i \in 1 .. Len(cells)
    BY <1>1
  <2>2. DOMAIN cells = 1 .. Len(cells) /\ \A c \in DOMAIN cells : cells[c] \in Cells
    BY VisitedTypes, WorkbookTypes
  <2>3. m = Place(m.sheet, m.row, m.column)
    BY VisitedArePlaces
  <2>4. [m EXCEPT !.column = m.column + i] = Place(m.sheet, m.row, m.column + i)
    BY <2>3 DEF Place
  <2>5. ColumnCell(m, m.column + i) = cells[m.column + i] /\ cells[m.column + i] \in Cells
    BY <2>1, <2>2, <2>4 DEF ColumnCell, CellAt, Place
  <2> HIDE DEF cells
  <2>6. Headers(m)[i] = Heading(cells[m.column + i])
    BY <1>2
  <2>7. ASSUME NEW cell \in Cells
        PROVE  (IsHeader(Heading(cell)) /\ Heading(cell).name = h) <=> cell = TextOf(h)
    <3>1. cell = [kind |-> cell.kind, name |-> cell.name]
      BY DEF Cells
    <3> QED BY <3>1 DEF IsHeader, Heading, Null, TextOf
  <2> QED BY <2>5, <2>6, <2>7 DEF IsHeading
<1> QED BY <1>2, <1>3

\* The last of equal headers stands in the last column of that name.
LEMMA ColumnOfHeader ==
    ASSUME WorkbookOK, NEW m \in VisitedCells, NEW h \in Headings(Headers(m))
    PROVE  /\ HeaderToIndex(Headers(m), h) \in 1 .. Width(m)
           /\ ColumnOf(m, h) = m.column + HeaderToIndex(Headers(m), h)
<1> DEFINE S == {i \in DOMAIN Headers(m) : IsHeader(Headers(m)[i]) /\ Headers(m)[i].name = h}
           C == {c \in m.column + 1 .. m.column + Width(m) : ColumnCell(m, c) = TextOf(h)}
<1>1. Width(m) \in Nat /\ m.column \in Nat
  BY WidthIs, VisitedTypes
<1>2. S = {i \in 1 .. Width(m) : ColumnCell(m, m.column + i) = TextOf(h)}
  BY HeaderCells DEF IsHeading
<1>3. S # {}
  BY DEF Headings
<1>4. HeaderToIndex(Headers(m), h) = Max(S) /\ ColumnOf(m, h) = Max(C)
  BY DEF HeaderToIndex, ColumnOf
<1> HIDE DEF S
<1>5. Max(S) \in S /\ \A i \in S : i <= Max(S)
  BY <1>1, <1>2, <1>3, GreatestIs
<1>6. Max(S) \in 1 .. Width(m) /\ m.column + Max(S) \in C
  BY <1>1, <1>2, <1>5
<1>7. ASSUME NEW c \in C PROVE c <= m.column + Max(S) /\ c \in 1 .. m.column + Width(m)
  <2>1. c \in m.column + 1 .. m.column + Width(m) /\ ColumnCell(m, c) = TextOf(h)
    OBVIOUS
  <2>2. c - m.column \in 1 .. Width(m) /\ m.column + (c - m.column) = c
    BY <1>1, <2>1
  <2>3. c - m.column \in S
    BY <1>2, <2>1, <2>2
  <2> QED BY <1>1, <1>5, <1>6, <2>1, <2>2, <2>3
<1> HIDE DEF C
<1>8. Max(C) \in C /\ \A c \in C : c <= Max(C)
  <2>1. C \in SUBSET (1 .. m.column + Width(m)) /\ C # {} /\ m.column + Width(m) \in Nat
    BY <1>1, <1>6, <1>7
  <2> QED BY <2>1, GreatestIs
<1>9. Max(C) = m.column + Max(S)
  <2>1. Max(C) <= m.column + Max(S) /\ m.column + Max(S) <= Max(C)
    BY <1>6, <1>7, <1>8
  <2>2. Max(C) \in Nat /\ m.column + Max(S) \in Nat
    BY <1>1, <1>6, <1>7, <1>8
  <2> QED BY <2>1, <2>2
<1> QED BY <1>4, <1>6, <1>9

LEMMA ValueOfTable ==
    ASSUME WorkbookOK, NEW m \in VisitedCells, NEW r \in ScannedRows(m), NEW i \in 1 .. Width(m),
           NEW t, NEW k, t.rows[k] = Columns(m, r, Cut(m, r))
    PROVE  ValueIn(t, k, i) = Read(Place(m.sheet, r, m.column + i))
<1> DEFINE n == Len(workbook[m.sheet][r])
           cut == Cut(m, r)
<1>1. /\ Width(m) \in Nat /\ m.column \in Nat /\ m.sheet \in DOMAIN workbook
      /\ r \in RowsBelow(m) /\ m.row \in Nat /\ m.row >= 1
  BY WidthIs, VisitedTypes DEF ScannedRows
<1>2. r \in DOMAIN workbook[m.sheet] /\ r > m.row
  BY <1>1, WorkbookTypes DEF RowsBelow
<1>3. n \in Nat /\ DOMAIN workbook[m.sheet][r] = 1 .. n
  BY <1>1, <1>2, WorkbookTypes
<1>4. n > m.column
  <2>1. Reaches(m, r)
    <3>1. r \in m.row + 1 .. r /\ Reaches(m, r)
      BY <1>1, <1>2 DEF ScannedRows, RowsBelow
    <3> QED BY <3>1
  <2> QED BY <2>1 DEF Reaches
<1>5. cut = IF Width(m) <= n - m.column THEN Width(m) ELSE n - m.column
  <2>1. n - m.column \in Nat
    BY <1>1, <1>3, <1>4
  <2> QED BY <1>1, <2>1, SmallerOf DEF Cut
<1>6. Columns(m, r, cut) = [j \in 1 .. cut |-> Read(Place(m.sheet, r, m.column + j))]
  BY DEF Columns, Place
<1> HIDE DEF cut
<1>7. CASE i \in 1 .. cut
  BY <1>6, <1>7 DEF ValueIn, cut
<1>8. CASE i \notin 1 .. cut
  <2>1. m.column + i \notin 1 .. n
    BY <1>1, <1>3, <1>4, <1>5, <1>8
  <2>2. Read(Place(m.sheet, r, m.column + i)) = Null
    BY <1>3, <2>1 DEF Read, CellAt, Place, Blank, Null
  <2> QED BY <1>6, <1>8, <2>2 DEF ValueIn, cut
<1> QED BY <1>7, <1>8

LEMMA LocationOfError ==
    ASSUME NEW s \in Nat, NEW q \in Nat, NEW c \in Nat, NEW t, t.location = Place(s, q, c + 1),
           NEW k \in Nat, NEW i \in Nat, i >= 1
    PROVE  /\ ErrorLocation(t, k, i).sheet = s /\ ErrorLocation(t, k, i).row = q + k
           /\ At(ErrorLocation(t, k, i)) = Place(s, q + k, c + i)
<1> DEFINE letters == OffsetColumn(ColumnNumberToLetter(c + 1), i - 1)
<1>1. ErrorLocation(t, k, i) = Place(s, q + k, letters)
  <2>1. Start(t) = Place(s, q, ColumnNumberToLetter(c + 1))
    BY DEF Start, Place
  <2> QED BY <2>1 DEF ErrorLocation, Place
<1>2. ColumnLetterToNumber(letters) = c + i
  <2>1. c + 1 \in Nat /\ i - 1 \in Nat /\ c + 1 + (i - 1) = c + i
    OBVIOUS
  <2> HIDE DEF letters
  <2> QED BY <2>1, OffsetIs DEF letters
<1> HIDE DEF letters
<1> QED BY <1>1, <1>2 DEF At, Place
--------------------------------------------------------------------------------
(* The issues *)

LEMMA InitHasNoIssues ==
    ASSUME SyntaxInit
    PROVE  SyntaxInv
BY InitIsScanned DEF SyntaxInit, SyntaxInv, Init

LEMMA StepsFindIssues ==
    ASSUME SyntaxInv, [SyntaxNext]_<<vars, syntax>>
    PROVE  SyntaxInv'
<1>1. IInv'
  <2>1. [Next]_vars
    BY DEF SyntaxNext, Parse, ValidateTable, Next, vars, syntax
  <2> QED BY <2>1, NextIsScanned DEF SyntaxInv
<1>2. CASE Parse(Next)
  <2>1. status = "parsing" /\ UNCHANGED <<checked, issues>>
    BY <1>2 DEF Parse, syntax, Next, ProcessCell, EndRow, SkipRow, EndSheet, EndParse,
                InRow, InSheet, Parsing
  <2>2. checked = {}
    BY <2>1 DEF SyntaxInv
  <2> QED BY <1>1, <2>1, <2>2 DEF SyntaxInv
<1>3. ASSUME NEW table \in data, ValidateTable(table) PROVE SyntaxInv'
  <2>1. /\ status = "parsed" /\ table \notin checked /\ checked' = checked \cup {table}
        /\ status' = status /\ data' = data
    BY <1>3 DEF ValidateTable, vars
  <2>2. CASE ~HasSchema(table)
    <3>1. {u \in checked' : HasSchema(u)} = {u \in checked : HasSchema(u)} /\ issues' = issues
      BY <1>3, <2>1, <2>2 DEF ValidateTable
    <3> QED BY <1>1, <2>1, <3>1 DEF SyntaxInv
  <2>3. CASE HasSchema(table)
    <3>1. {u \in checked : HasSchema(u)} = {}
      <4>1. \A u \in data : u.name = table.name => u = table
        BY <2>1, ParsedIsScanned DEF SyntaxInv, MarkersScanned
      <4> QED BY <2>1, <2>3, <4>1 DEF HasSchema, SyntaxInv
    <3>2. {u \in checked' : HasSchema(u)} = {table}
      BY <2>1, <2>3, <3>1
    <3>3. issues = {}
      BY <3>1 DEF SyntaxInv
    <3>4. issues' = IssuesOf(table)
      BY <1>3, <2>3, <3>3 DEF ValidateTable, IssuesOf
    <3> QED BY <1>1, <2>1, <3>2, <3>4 DEF SyntaxInv
  <2> QED BY <2>2, <2>3
<1>4. CASE UNCHANGED <<vars, syntax>>
  BY <1>1, <1>4 DEF SyntaxInv, vars, syntax
<1> QED BY <1>2, <1>3, <1>4 DEF SyntaxNext, Next, Parse
\* The table that was judged is the only one with a schema, and all issues are about
\* its rows.
LEMMA IssuesAreOfRows ==
    ASSUME SyntaxInv, status = "parsed", checked = data, NEW t \in data, Judged(t)
    PROVE  issues = ValidateRows(t)
<1>1. {u \in checked : HasSchema(u)} = {t}
  <2>1. \A u \in data : u.name = t.name => u = t
    BY ParsedIsScanned DEF SyntaxInv, MarkersScanned
  <2> QED BY <2>1 DEF HasSchema, Judged
<1>2. issues = IssuesOf(t)
  BY <1>1 DEF SyntaxInv
<1>3. ValidateHeaders(t) = {}
  BY DEF ValidateHeaders, Judged
<1> QED BY <1>2, <1>3 DEF IssuesOf, IsFatal

LEMMA BadCellsOfTable ==
    ASSUME SyntaxInv, status = "parsed", checked = data, NEW t \in data, Judged(t),
           NEW m, m = MarkerOf(t), NEW r \in ScannedRows(m), NothingLeftOut(t, r)
    PROVE  {[field |-> issue.field, at |-> At(issue.location), actual |-> issue.actual] :
              issue \in {i \in issues : i.location.row = r /\ i.location.sheet = m.sheet}}
           = {[field |-> h, at |-> Place(m.sheet, r, ColumnOf(m, h)),
               actual |-> Read(Place(m.sheet, r, ColumnOf(m, h)))] :
                h \in {g \in Range(RequiredHeaders) : Refused(g, Read(Place(m.sheet, r, ColumnOf(m, g))))}}
<1> DEFINE Required == Range(RequiredHeaders)
           index(h) == HeaderToIndex(t.headers, h)
           there(h) == Place(m.sheet, r, ColumnOf(m, h))
           k == r - m.row
           found == {i \in issues : i.location.row = r /\ i.location.sheet = m.sheet}
<1>1. /\ t \in Collections /\ WorkbookOK
      /\ m \in VisitedCells /\ t.headers = Headers(m) /\ HasItsRows(t)
  <2>1. /\ TypeOK /\ MarkersScanned /\ TablesScanned
        /\ DoneMarkers("data") = Markers("data")
    BY ParsedIsScanned DEF SyntaxInv
  <2>2. m \in Markers("data") /\ t.headers = Headers(m) /\ HasItsRows(t)
    BY <2>1 DEF MarkersScanned, TablesScanned, Tables
  <2>3. t \in Collections
    BY <2>1 DEF TypeOK
  <2> QED BY <2>1, <2>2, <2>3, TypesGiveWorkbook DEF Markers
<1>2. /\ m.sheet \in Nat /\ m.row \in Nat /\ m.column \in Nat
      /\ t.location = Place(m.sheet, m.row, m.column + 1)
  <2>1. t.location \in Locations
    BY <1>1 DEF Collections
  <2>2. m.column \in Nat /\ m.column = t.location.column - 1 /\ t.location.column \in Nat
        /\ m.row = t.location.row /\ m.sheet = t.location.sheet
    BY <1>1, <2>1, VisitedTypes DEF MarkerOf, Locations
  <2>3. t.location = Place(t.location.sheet, t.location.row, t.location.column)
    BY <2>1 DEF Locations, Place
  <2>4. t.location.column = m.column + 1
    BY <2>2
  <2> QED BY <1>1, <2>2, <2>3, <2>4, VisitedTypes
<1>3. k \in DOMAIN t.rows /\ t.rows[k] = Columns(m, r, Cut(m, r)) /\ m.row + k = r
  <2>1. r \in Nat
    BY <1>1, VisitedTypes DEF ScannedRows, RowsBelow
  <2> QED BY <1>1, <1>2, <2>1, RowOfTable
<1>4. ASSUME NEW h \in Required
      PROVE  /\ index(h) \in Nat /\ index(h) >= 1
             /\ ValueIn(t, k, index(h)) = Read(there(h))
             /\ At(ErrorLocation(t, k, index(h))) = there(h)
  <2>1. h \in Headings(Headers(m))
    BY <1>1 DEF Judged
  <2>2. index(h) \in 1 .. Width(m) /\ ColumnOf(m, h) = m.column + index(h)
    BY <1>1, <2>1, ColumnOfHeader
  <2>3. Width(m) \in Nat
    BY <1>1, WidthIs
  <2>4. index(h) \in Nat /\ index(h) >= 1
    BY <2>2, <2>3
  <2>5. ValueIn(t, k, index(h)) = Read(there(h))
    BY <1>1, <1>3, <2>2, ValueOfTable
  <2>6. k \in Nat
    BY <1>1, <1>3 DEF Collections
  <2>7. At(ErrorLocation(t, k, index(h))) = Place(m.sheet, m.row + k, m.column + index(h))
    BY <1>2, <2>4, <2>6, LocationOfError
  <2> QED BY <1>3, <2>2, <2>4, <2>5, <2>7
<1>5. found = ValidateRow(t, k)
  <2>1. ASSUME NEW j \in DOMAIN t.rows, NEW i \in ValidateRow(t, j)
        PROVE  i.location.sheet = m.sheet /\ i.location.row = m.row + j /\ j \in Nat
    <3>1. j \in Nat
      BY <1>1 DEF Collections
    <3>2. PICK h \in Required : i.location = ErrorLocation(t, j, index(h))
      BY DEF ValidateRow
    <3>3. index(h) \in Nat /\ index(h) >= 1
      BY <1>4
    <3> QED BY <1>2, <3>1, <3>2, <3>3, LocationOfError
  <2>2. \A j \in DOMAIN t.rows : j \in Nat /\ (m.row + j = r <=> j = k)
    <3>1. \A j \in DOMAIN t.rows : j \in Nat
      BY <1>1 DEF Collections
    <3> HIDE DEF k
    <3> QED BY <1>2, <1>3, <3>1
  <2>3. issues = UNION {ValidateRow(t, j) : j \in DOMAIN t.rows}
    BY IssuesAreOfRows DEF ValidateRows
  <2> HIDE DEF k
  <2>4. \A i \in found : i \in ValidateRow(t, k)
    BY <2>1, <2>2, <2>3
  <2>5. \A i \in ValidateRow(t, k) : i \in found
    BY <1>3, <2>1, <2>3
  <2> QED BY <2>4, <2>5
<1>6. ValidateRow(t, k) =
        {[severity |-> "error", field |-> h, location |-> ErrorLocation(t, k, index(h)),
          actual |-> ValueIn(t, k, index(h))] : h \in {g \in Required : Refused(g, ValueIn(t, k, index(g)))}}
  BY DEF ValidateRow
<1> HIDE DEF k, found, there, index, Required
<1>7. \A g \in Required : Refused(g, ValueIn(t, k, index(g))) <=> Refused(g, Read(there(g)))
  BY <1>4
<1>8. {[field |-> i.field, at |-> At(i.location), actual |-> i.actual] : i \in found}
      = {[field |-> h, at |-> there(h), actual |-> Read(there(h))] :
            h \in {g \in Required : Refused(g, Read(there(g)))}}
  <2> DEFINE left == {[field |-> i.field, at |-> At(i.location), actual |-> i.actual] : i \in found}
             right == {[field |-> h, at |-> there(h), actual |-> Read(there(h))] :
                          h \in {g \in Required : Refused(g, Read(there(g)))}}
  <2>1. ASSUME NEW x \in left PROVE x \in right
    <3>1. PICK i \in found : x = [field |-> i.field, at |-> At(i.location), actual |-> i.actual]
      OBVIOUS
    <3>2. PICK h \in Required :
            /\ Refused(h, ValueIn(t, k, index(h)))
            /\ i = [severity |-> "error", field |-> h, location |-> ErrorLocation(t, k, index(h)),
                    actual |-> ValueIn(t, k, index(h))]
      BY <1>5, <1>6
    <3>3. x = [field |-> h, at |-> there(h), actual |-> Read(there(h))] /\ Refused(h, Read(there(h)))
      BY <1>4, <3>1, <3>2
    <3> QED BY <3>3
  <2>2. ASSUME NEW x \in right PROVE x \in left
    <3>1. PICK h \in Required :
            Refused(h, Read(there(h))) /\ x = [field |-> h, at |-> there(h), actual |-> Read(there(h))]
      OBVIOUS
    <3> DEFINE i == [severity |-> "error", field |-> h, location |-> ErrorLocation(t, k, index(h)),
                     actual |-> ValueIn(t, k, index(h))]
    <3>2. i \in found
      BY <1>5, <1>6, <1>7, <3>1
    <3>3. x = [field |-> i.field, at |-> At(i.location), actual |-> i.actual]
      BY <1>4, <3>1
    <3> HIDE DEF i
    <3> QED BY <3>2, <3>3
  <2> HIDE DEF left, right
  <2>3. left = right
    BY <2>1, <2>2
  <2> QED BY <2>3 DEF left, right
<1> QED BY <1>8 DEF found, there, Required

LEMMA BadCellsOfTables ==
    ASSUME SyntaxInv
    PROVE  BadCellsAreFound
<1> SUFFICES ASSUME status = "parsed", checked = data, NEW t \in data, Judged(t)
    PROVE LET m == MarkerOf(t)
              column(h) == Max({c \in m.column + 1 .. m.column + Width(m) :
                                  CellAt([m EXCEPT !.column = c]) = [kind |-> "text", name |-> h]})
              cell(h, r) == [sheet |-> m.sheet, row |-> r, column |-> column(h)]
          IN  \A r \in OwnRows(m) :
                  {[field |-> issue.field, at |-> At(issue.location), actual |-> issue.actual] :
                      issue \in {i \in issues : i.location.row = r /\ i.location.sheet = m.sheet}}
                  = {[field |-> h, at |-> cell(h, r), actual |-> Read(cell(h, r))] :
                      h \in {g \in Range(RequiredHeaders) : Refused(g, Read(cell(g, r)))}}
  BY DEF BadCellsAreFound
<1>1. \A r \in OwnRows(MarkerOf(t)) :
        {[field |-> issue.field, at |-> At(issue.location), actual |-> issue.actual] :
            issue \in {i \in issues : i.location.row = r /\ i.location.sheet = MarkerOf(t).sheet}}
        = {[field |-> h, at |-> Place(MarkerOf(t).sheet, r, ColumnOf(MarkerOf(t), h)),
            actual |-> Read(Place(MarkerOf(t).sheet, r, ColumnOf(MarkerOf(t), h)))] :
              h \in {g \in Range(RequiredHeaders) :
                        Refused(g, Read(Place(MarkerOf(t).sheet, r, ColumnOf(MarkerOf(t), g))))}}
  <2>1. /\ TypeOK /\ MarkersScanned /\ DoneMarkers("data") = Markers("data")
    BY ParsedIsScanned DEF SyntaxInv
  <2>2. t \in Collections /\ MarkerOf(t) \in VisitedCells /\ WorkbookOK
    BY <2>1, TypesGiveWorkbook DEF TypeOK, MarkersScanned, Tables, Markers
  <2>3. t.location.row = MarkerOf(t).row
    BY <2>2 DEF MarkerOf, Collections, Locations
  <2>4. OwnRows(MarkerOf(t)) \subseteq ScannedRows(MarkerOf(t)) /\ MarkerOf(t).row \in Nat
        /\ EndOf(MarkerOf(t)) \in Nat
    <3>1. Len(workbook[MarkerOf(t).sheet]) + 1 \in Nat
      BY <2>2, EndIs
    <3> QED BY <2>2, <3>1, EndIs, OwnRowsAreScanned
  <2>5. \A r \in OwnRows(MarkerOf(t)) : r \in ScannedRows(MarkerOf(t)) /\ NothingLeftOut(t, r)
    BY <2>3, <2>4 DEF OwnRows, NothingLeftOut
  <2> QED BY <2>5, BadCellsOfTable
<1> QED BY <1>1 DEF ColumnOf, ColumnCell, TextOf, Place
--------------------------------------------------------------------------------
(* The theorems *)

\* After each cell, row and sheet that exceljs-parser.js has read, the metadata and the
\* tables, active or emitted, are those of the cells it has passed; and after each table
\* that data-syntax.js has checked, the issues are those of the tables it has checked.
THEOREM InductiveInvariant == SyntaxSpec => []SyntaxInv
<1>1. SyntaxInit => SyntaxInv
  BY InitHasNoIssues
<1>2. SyntaxInv /\ [SyntaxNext]_<<vars, syntax>> => SyntaxInv'
  BY StepsFindIssues
<1> QED BY <1>1, <1>2, PTL DEF SyntaxSpec

\* The state of the parser keeps its types: what activeCollections and the result hold
\* are collections, however the tables of a workbook lie (exceljs-parser.js).
THEOREM TypeCorrect == SyntaxSpec => []TypeOK
<1>1. SyntaxInv => TypeOK
  BY DEF SyntaxInv, IInv
<1> QED BY <1>1, InductiveInvariant, PTL

\* The parser refuses a workbook exactly when one of its marker names is not unique or a
\* metadata marker stands where a value should be (the throws of exceljs-parser.js).
THEOREM RefusedExactly == SyntaxSpec => []RefusedExactlyWhenAmbiguous
<1>1. SyntaxInv => RefusedExactlyWhenAmbiguous
  BY ScannedIsRefusedRightly DEF SyntaxInv
<1> QED BY <1>1, InductiveInvariant, PTL

\* The tables of a parsed workbook are those of its data markers, one for each, with its
\* headers and, up to the first row that is empty in its columns, the rows below it, and
\* no others unless the scan misses that row; wherever tables meet, overlap or end
\* (processRow, updateCollectionWithCell and finalizeRowForCollection).
THEOREM MarkersGiveTables == SyntaxSpec => []EveryMarkerGivesItsTable
<1>1. SyntaxInv => EveryMarkerGivesItsTable
  BY ScannedGivesTables DEF SyntaxInv
<1> QED BY <1>1, InductiveInvariant, PTL

\* Of a table with all its headers, exactly the cells that its columns refuse are
\* reported, each at the row and the letters of the column where it stands, in whatever
\* order the columns are and however far to the right (validateDataSyntax, offsetColumn).
THEOREM BadCellsFound == SyntaxSpec => []BadCellsAreFound
<1>1. SyntaxInv => BadCellsAreFound
  BY BadCellsOfTables
<1> QED BY <1>1, InductiveInvariant, PTL
================================================================================
